--------------------------- MODULE LeaderElection ---------------------------
(***************************************************************************)
(* How clients find or start the one leader process of a machine:          *)
(* LeaderLock (leader/lock.rs), connect_or_spawn and the eviction of an    *)
(* outdated leader (leader/mod.rs), the start and the exit of run_leader   *)
(* (agent/app.rs) and the socket file of its IPC server (leader/server.rs).*)
(*                                                                         *)
(* The processes share two paths.  The lock file is locked through an open *)
(* file, that is through an inode, but it is created, read and removed     *)
(* through its path, so the model keeps inodes: a process may hold the     *)
(* lock of a file that is no longer at the path.  The socket path names    *)
(* the leader that bound it; the file outlives that leader's listener.     *)
(*                                                                         *)
(* A process may be killed at any step (its locks go, its files stay), and *)
(* a timeout may fire although the awaited process is alive and will get   *)
(* there.  MaxFaults bounds the two.  Process ids are not reused.          *)
(***************************************************************************)
EXTENDS Naturals, FiniteSets

CONSTANTS
    Clients,      \* processes that call connect_or_spawn
    MaxLeaders,   \* bound: leader processes that may be started
    MaxInodes,    \* bound: lock files that may be created
    MaxFaults,    \* bound: processes killed, leaders told to shut down, and
                  \* timeouts that fire on a slow but live process
    Outdated,     \* leaders of an older version than the clients: a leader is
                  \* started from the installed binary, not from the client's
    Relaunchable, \* leaders that understand RelaunchForUpdate
    Nobody        \* no process

Leaders == 1 .. MaxLeaders
Inodes == 1 .. MaxInodes
Procs == Clients \union Leaders
NoFile == 0       \* no file at a path, no pid in a file, no leader

ASSUME ElectionAssumption ==
    /\ {MaxLeaders, MaxInodes, MaxFaults} \subseteq Nat
    /\ MaxLeaders >= 1 /\ MaxInodes >= 1
    /\ Clients \intersect Nat = {} /\ Nobody \notin Procs
    /\ Outdated \subseteq Leaders /\ Relaunchable \subseteq Leaders

VARIABLES
    lockPath,   \* inode of the lock file at the path
    sockPath,   \* leader whose socket file is at the path
    holder,     \* who holds the lock of each inode
    pidIn,      \* the pid written in each lock file
    created,    \* number of lock files created so far
    listening,  \* leaders whose listener is open
    pc,         \* what each process does next
    fd,         \* the lock file each process has open
    link,       \* the leader a client is connected to
    erred,      \* wait_for_socket_connectable has seen a connection fail
    faults      \* number of faults so far

files == <<lockPath, sockPath, holder, pidIn, created>>
vars == <<lockPath, sockPath, holder, pidIn, created, listening,
          pc, fd, link, erred, faults>>

-----------------------------------------------------------------------------
LeaderLabels == {"off", "start", "try", "pid0", "peek", "sweep", "bind",
                 "wait_socket", "reopen", "poll", "pid", "serve", "closing",
                 "drop_lock", "drop_sock", "bail", "dead"}
DialLabels == {"dial_fast", "dial_owner", "dial_spawned", "dial_wait"}
ClientLabels == DialLabels \union
    {"idle", "open", "lock", "own", "evict", "clean",
     "ready", "release", "wait", "fail_lock", "fail_sock",
     "connected"}

Alive(l) == l \in Leaders /\ pc[l] \notin {"off", "dead"}
Ready(l) == l \in Leaders /\ pc[l] = "serve"

\* Somebody is on the way to binding the socket path.
Starting == \/ \E l \in Leaders :
                  pc[l] \in {"start", "try", "pid0", "peek", "sweep", "bind"}
            \/ \E c \in Clients : pc[c] \in {"own", "clean"}

PidAtPath == IF lockPath = NoFile THEN NoFile ELSE pidIn[lockPath]

\* A connect() to the socket path reaches a listener.
Connectable == sockPath # NoFile /\ sockPath \in listening

Goto(p, label) == pc' = [pc EXCEPT ![p] = label]

Fault == faults < MaxFaults /\ faults' = faults + 1

Init ==
    /\ lockPath \in {NoFile, 1}   \* nothing there yet, or leader 1 serves
    /\ created = lockPath
    /\ holder = [i \in Inodes |-> IF lockPath = 1 /\ i = 1 THEN 1 ELSE Nobody]
    /\ pidIn = [i \in Inodes |-> IF i = 1 THEN lockPath ELSE NoFile]
    /\ sockPath = lockPath
    /\ listening = {l \in Leaders : l = lockPath}
    /\ pc = [p \in Procs |-> IF p \in Clients THEN "idle"
                             ELSE IF p = lockPath THEN "serve" ELSE "off"]
    /\ fd = [p \in Procs |-> IF p = lockPath THEN 1 ELSE NoFile]
    /\ link = [c \in Clients |-> NoFile]
    /\ erred = [c \in Clients |-> FALSE]
    /\ faults = 0

-----------------------------------------------------------------------------
(* LeaderLock                                                              *)

\* open_lock_file: O_CREAT, so a missing file is created, empty.
OpenLockFile(p) ==
    IF lockPath # NoFile
    THEN /\ fd' = [fd EXCEPT ![p] = lockPath]
         /\ UNCHANGED <<lockPath, created>>
    ELSE /\ created < MaxInodes
         /\ created' = created + 1
         /\ lockPath' = created + 1
         /\ fd' = [fd EXCEPT ![p] = created + 1]

\* The bound on lock files shows as an error of open(), which the code handles.
OpenFails == lockPath = NoFile /\ created = MaxInodes

\* Mutant: try_lock_shared.
LockableShared(p) == fd[p] # NoFile

\* try_lock_exclusive on the open file.
Lockable(p) == holder[fd[p]] = Nobody
TakeLock(p) == holder' = [holder EXCEPT ![fd[p]] = p]

Unlocked(p) == [i \in Inodes |-> IF holder[i] = p THEN Nobody ELSE holder[i]]

\* Mutant: the handle is leaked, and with it the lock.
CloseLockFileLeaks(p) ==
    /\ fd' = [fd EXCEPT ![p] = NoFile]
    /\ UNCHANGED holder

\* Closing the file, or unlock(), releases what p holds.
CloseLockFile(p) ==
    /\ holder' = Unlocked(p)
    /\ fd' = [fd EXCEPT ![p] = NoFile]

\* The process is gone: listener and locks go, files stay.
Die(l) ==
    /\ pc' = [pc EXCEPT ![l] = "dead"]
    /\ listening' = listening \ {l}
    /\ CloseLockFile(l)

-----------------------------------------------------------------------------
(* run_leader                                                              *)

\* try_acquire: the file is opened, then locked.
LeaderOpen(l) ==
    /\ pc[l] \in {"start", "reopen"}
    /\ OpenLockFile(l)
    /\ Goto(l, IF pc[l] = "start" THEN "try" ELSE "poll")
    /\ UNCHANGED <<sockPath, holder, pidIn, listening, link, erred, faults>>

LeaderOpenFails(l) ==
    /\ pc[l] \in {"start", "reopen"}
    /\ OpenFails
    /\ IF pc[l] = "start" THEN Die(l)
       ELSE Goto(l, "bail") /\ UNCHANGED <<holder, fd, listening>>
    /\ UNCHANGED <<lockPath, sockPath, pidIn, created, link, erred, faults>>

LeaderTry(l) ==
    /\ pc[l] = "try"
    /\ IF Lockable(l)
       THEN TakeLock(l) /\ Goto(l, "pid0") /\ UNCHANGED fd
       ELSE CloseLockFile(l) /\ Goto(l, "peek")
    /\ UNCHANGED <<lockPath, sockPath, pidIn, created, listening, link, erred,
                   faults>>

\* write_pid, at once or after the handoff.
WritePid(l) ==
    /\ pc[l] \in {"pid0", "pid"}
    /\ pidIn' = [pidIn EXCEPT ![fd[l]] = l]
    /\ Goto(l, IF pc[l] = "pid0" THEN "sweep" ELSE "serve")
    /\ UNCHANGED <<lockPath, sockPath, holder, created, listening, fd, link,
                   erred, faults>>

\* Lock held: with a socket another leader runs, without one a spawner waits.
LeaderPeek(l) ==
    /\ pc[l] = "peek"
    /\ IF sockPath # NoFile
       THEN Die(l)
       ELSE Goto(l, "sweep") /\ UNCHANGED <<holder, fd, listening>>
    /\ UNCHANGED <<lockPath, sockPath, pidIn, created, link, erred, faults>>

\* cleanup_socket(), then run_leader_server's own remove_file.
SweepSocket(l) ==
    /\ pc[l] = "sweep"
    /\ sockPath' = NoFile
    /\ Goto(l, "bind")
    /\ UNCHANGED <<lockPath, holder, pidIn, created, listening, fd, link,
                   erred, faults>>

\* LeaderListener::bind; an existing file is EADDRINUSE and ends the server
\* task, which run_leader does not notice.
BindSocket(l) ==
    /\ pc[l] = "bind"
    /\ IF sockPath = NoFile
       THEN sockPath' = l /\ listening' = listening \union {l}
       ELSE UNCHANGED <<sockPath, listening>>
    /\ Goto(l, "wait_socket")
    /\ UNCHANGED <<lockPath, holder, pidIn, created, fd, link, erred, faults>>

\* Phase 4: some socket file is at the path, or five seconds pass without one.
SocketReady(l) ==
    /\ pc[l] = "wait_socket"
    /\ sockPath # NoFile
    /\ Goto(l, IF fd[l] # NoFile THEN "serve" ELSE "reopen")
    /\ UNCHANGED <<files, listening, fd, link, erred, faults>>

SocketTimeout(l) ==
    /\ pc[l] = "wait_socket"
    /\ sockPath = NoFile
    /\ IF Starting THEN Fault ELSE UNCHANGED faults
    /\ Goto(l, IF fd[l] # NoFile THEN "drop_lock" ELSE "bail")
    /\ UNCHANGED <<files, listening, fd, link, erred>>

\* Mutant: write_pid is forgotten on the path that waits for the lock.
PollLockNoPid(l) ==
    /\ pc[l] = "poll"
    /\ Lockable(l)
    /\ TakeLock(l)
    /\ Goto(l, "serve")
    /\ UNCHANGED <<lockPath, sockPath, pidIn, created, listening, fd, link,
                   erred, faults>>

\* try_acquire_timeout polls the file it opened once.
PollLock(l) ==
    /\ pc[l] = "poll"
    /\ Lockable(l)
    /\ TakeLock(l)
    /\ Goto(l, "pid")
    /\ UNCHANGED <<lockPath, sockPath, pidIn, created, listening, fd, link,
                   erred, faults>>

\* Mutant: the timeout is taken for success.
PollTimeoutIgnored(l) ==
    /\ pc[l] = "poll"
    /\ ~Lockable(l)
    /\ Goto(l, "pid")
    /\ UNCHANGED <<files, listening, fd, link, erred, faults>>

\* Thirty seconds: the lock belongs to another leader, or the spawner is slow.
PollTimeout(l) ==
    /\ pc[l] = "poll"
    /\ ~Lockable(l)
    /\ IF holder[fd[l]] \in Leaders THEN UNCHANGED faults ELSE Fault
    /\ Goto(l, "bail")
    /\ UNCHANGED <<files, listening, fd, link, erred>>

\* The error is returned after cancel(): the server task may still get to its
\* remove_file before the process ends.
Bail(l) ==
    /\ pc[l] = "bail"
    /\ sockPath' \in {sockPath, NoFile}
    /\ Die(l)
    /\ UNCHANGED <<lockPath, pidIn, created, link, erred, faults>>

\* A serving leader is told to shut down; its server ends by removing the
\* socket path.
Shutdown(l) ==
    /\ pc[l] = "serve"
    /\ Fault
    /\ Goto(l, "closing")
    /\ UNCHANGED <<files, listening, fd, link, erred>>

ServerEnds(l) ==
    /\ pc[l] = "closing"
    /\ sockPath' = NoFile
    /\ listening' = listening \ {l}
    /\ Goto(l, "drop_lock")
    /\ UNCHANGED <<lockPath, holder, pidIn, created, fd, link, erred, faults>>

\* LeaderLock::drop: both paths are removed, whatever is there by now, and then
\* the file is closed.
DropLockPath(l) ==
    /\ pc[l] = "drop_lock"
    /\ lockPath' = NoFile
    /\ Goto(l, "drop_sock")
    /\ UNCHANGED <<sockPath, holder, pidIn, created, listening, fd, link,
                   erred, faults>>

DropSockPath(l) ==
    /\ pc[l] = "drop_sock"
    /\ sockPath' = NoFile
    /\ Die(l)
    /\ UNCHANGED <<lockPath, pidIn, created, link, erred, faults>>

LeaderCrash(l) ==
    /\ Alive(l)
    /\ Fault
    /\ Die(l)
    /\ UNCHANGED <<lockPath, sockPath, pidIn, created, link, erred>>

-----------------------------------------------------------------------------
(* connect_or_spawn                                                        *)

\* A call begins: the first, or that of the reconnector after an error (idle again)
\* or the end of a connection.  The fast path wants a socket, and not the pid of a dead
\* process in the lock file.
Call(c) ==
    /\ \/ pc[c] = "idle"
       \/ pc[c] = "connected" /\ ~Ready(link[c])
    /\ Goto(c, IF sockPath # NoFile /\ (PidAtPath = NoFile \/ Alive(PidAtPath))
               THEN "dial_fast" ELSE "open")
    /\ link' = [link EXCEPT ![c] = NoFile]
    /\ UNCHANGED <<files, listening, fd, erred, faults>>

\* LeaderClient::connect reaches the listener at the path.
Dial(c) ==
    /\ pc[c] \in DialLabels
    /\ link[c] = NoFile
    /\ Connectable
    /\ link' = [link EXCEPT ![c] = sockPath]
    /\ UNCHANGED <<files, listening, pc, fd, erred, faults>>

\* The connection is refused, or ends before LeaderReady.
AfterRefusal == [label \in DialLabels |->
    CASE label = "dial_fast" -> "open"
      [] label = "dial_owner" -> "clean"
      [] label = "dial_spawned" -> "idle"
      [] label = "dial_wait" -> "wait"]

DialFails(c) ==
    /\ pc[c] \in DialLabels
    /\ IF link[c] = NoFile THEN ~Connectable
       ELSE ~Alive(link[c]) \/ pc[link[c]] \in {"closing", "drop_lock", "bail"}
    /\ Goto(c, AfterRefusal[pc[c]])
    /\ link' = [link EXCEPT ![c] = NoFile]
    /\ erred' = [erred EXCEPT ![c] = (pc[c] = "dial_wait")]
    /\ UNCHANGED <<files, listening, fd, faults>>

\* LeaderReady from a leader that is recent enough: it is adopted.  After a spawn
\* nobody looks at the version.
Adopt(c) ==
    /\ pc[c] \in DialLabels
    /\ Ready(link[c])
    /\ link[c] \in Outdated => pc[c] = "dial_spawned"
    /\ Goto(c, "connected")
    /\ CloseLockFile(c)
    /\ erred' = [erred EXCEPT ![c] = FALSE]
    /\ UNCHANGED <<lockPath, sockPath, pidIn, created, listening, link, faults>>

\* request_leader_vacate: the leader is asked to relaunch, which it does by
\* shutting down, or the process of the pid in the lock file gets a SIGTERM.
Asked(l) == IF l \in Relaunchable THEN {l} ELSE {}
Signalled(l) ==
    IF l \notin Relaunchable /\ Alive(PidAtPath) THEN {PidAtPath} ELSE {}

\* Client c goes on at a label while processes are killed or told to close.
Move(c, label, killed, closing) ==
    /\ pc' = [p \in Procs |-> CASE p = c -> label
                                [] p \in killed -> "dead"
                                [] p \in closing -> "closing"
                                [] OTHER -> pc[p]]
    /\ listening' = listening \ killed
    /\ holder' = [i \in Inodes |-> IF holder[i] \in killed THEN Nobody
                                   ELSE holder[i]]
    /\ fd' = [p \in Procs |-> IF p \in killed THEN NoFile ELSE fd[p]]

\* An outdated leader.  On the fast path it is only let go of; a waiter asks it
\* to vacate and tries for the lock again.
LeaveOutdated(c) ==
    /\ pc[c] \in {"dial_fast", "dial_wait"}
    /\ Ready(link[c]) /\ link[c] \in Outdated
    /\ IF pc[c] = "dial_wait"
       THEN Move(c, "open", Signalled(link[c]), Asked(link[c]))
       ELSE Move(c, "open", {}, {})
    /\ link' = [link EXCEPT ![c] = NoFile]
    /\ UNCHANGED <<lockPath, sockPath, pidIn, created, erred, faults>>

\* evict_leader, by the owner of the lock: read the pid, ask, and wait for the
\* pid to exit.
Evict(c) ==
    /\ pc[c] = "dial_owner"
    /\ Ready(link[c]) /\ link[c] \in Outdated
    /\ Move(c, "evict", Signalled(link[c]), Asked(link[c]))
    /\ link' = [link EXCEPT ![c] = PidAtPath]
    /\ UNCHANGED <<lockPath, sockPath, pidIn, created, erred, faults>>

\* It has exited, or the grace is over and it is killed.
EvictWait(c) ==
    /\ pc[c] = "evict"
    /\ \/ ~Alive(link[c]) /\ Move(c, "clean", {}, {}) /\ UNCHANGED faults
       \/ /\ Alive(link[c])
          /\ IF pc[link[c]] \in {"closing", "drop_lock", "drop_sock"}
             THEN Fault
             ELSE UNCHANGED faults
          /\ Move(c, "clean", {link[c]}, {})
    /\ link' = [link EXCEPT ![c] = NoFile]
    /\ UNCHANGED <<lockPath, sockPath, pidIn, created, erred>>

\* try_acquire.
ClientOpen(c) ==
    /\ pc[c] = "open"
    /\ OpenLockFile(c)
    /\ Goto(c, "lock")
    /\ UNCHANGED <<sockPath, holder, pidIn, listening, link, erred, faults>>

ClientOpenFails(c) ==
    /\ pc[c] = "open"
    /\ OpenFails
    /\ Goto(c, "idle")
    /\ UNCHANGED <<files, listening, fd, link, erred, faults>>

ClientLock(c) ==
    /\ pc[c] = "lock"
    /\ IF Lockable(c)
       THEN TakeLock(c) /\ Goto(c, "own") /\ UNCHANGED fd
       ELSE CloseLockFile(c) /\ Goto(c, "wait")
    /\ erred' = [erred EXCEPT ![c] = FALSE]
    /\ UNCHANGED <<lockPath, sockPath, pidIn, created, listening, link, faults>>

\* Under the lock: is there a leader after all?
OwnerLooks(c) ==
    /\ pc[c] = "own"
    /\ Goto(c, IF sockPath # NoFile /\ Alive(PidAtPath)
               THEN "dial_owner" ELSE "clean")
    /\ UNCHANGED <<files, listening, fd, link, erred, faults>>

\* cleanup_socket and spawn_leader_subprocess, one step: the new process touches
\* nothing yet.  When the leaders run out the spawn fails, as on an error of exec().
Spawn(c) ==
    /\ pc[c] = "clean"
    /\ sockPath' = NoFile
    /\ \/ \E l \in Leaders :
             /\ pc[l] = "off"
             /\ \A k \in 1 .. l - 1 : pc[k] # "off"
             /\ pc' = [pc EXCEPT ![c] = "ready", ![l] = "start"]
       \/ (\A l \in Leaders : pc[l] # "off") /\ Goto(c, "fail_lock")
    /\ UNCHANGED <<lockPath, holder, pidIn, created, listening, fd, link,
                   erred, faults>>

\* wait_for_listener_ready only looks for the file.
SpawnReady(c) ==
    /\ pc[c] = "ready"
    /\ sockPath # NoFile
    /\ Goto(c, "release")
    /\ UNCHANGED <<files, listening, fd, link, erred, faults>>

\* Mutant: no deadline.
SpawnTimeoutNever(c) == pc[c] = "ready" /\ sockPath = NoFile /\ UNCHANGED vars

SpawnTimeout(c) ==
    /\ pc[c] = "ready"
    /\ sockPath = NoFile
    /\ IF Starting THEN Fault ELSE UNCHANGED faults
    /\ Goto(c, "fail_lock")
    /\ UNCHANGED <<files, listening, fd, link, erred>>

\* The error leaves connect_or_spawn with the lock held: LeaderLock::drop.
FailDropLock(c) ==
    /\ pc[c] = "fail_lock"
    /\ lockPath' = NoFile
    /\ Goto(c, "fail_sock")
    /\ UNCHANGED <<sockPath, holder, pidIn, created, listening, fd, link,
                   erred, faults>>

FailDropSock(c) ==
    /\ pc[c] = "fail_sock"
    /\ sockPath' = NoFile
    /\ CloseLockFile(c)
    /\ Goto(c, "idle")
    /\ UNCHANGED <<lockPath, pidIn, created, listening, link, erred, faults>>

\* release() hands the lock over to whoever takes it first.
Release(c) ==
    /\ pc[c] = "release"
    /\ CloseLockFile(c)
    /\ Goto(c, "dial_spawned")
    /\ UNCHANGED <<lockPath, sockPath, pidIn, created, listening, link, erred,
                   faults>>

\* wait_for_socket_connectable: a socket file is tried, and when the ten seconds
\* are over the last error is returned, or the lock is tried again.
WaitSees(c) ==
    /\ pc[c] = "wait"
    /\ sockPath # NoFile
    /\ Goto(c, "dial_wait")
    /\ UNCHANGED <<files, listening, fd, link, erred, faults>>

WaitTimeout(c) ==
    /\ pc[c] = "wait"
    /\ Goto(c, IF erred[c] THEN "idle" ELSE "open")
    /\ erred' = [erred EXCEPT ![c] = FALSE]
    /\ UNCHANGED <<files, listening, fd, link, faults>>

ClientCrash(c) ==
    /\ pc[c] # "idle"
    /\ Fault
    /\ CloseLockFile(c)
    /\ Goto(c, "idle")
    /\ link' = [link EXCEPT ![c] = NoFile]
    /\ erred' = [erred EXCEPT ![c] = FALSE]
    /\ UNCHANGED <<lockPath, sockPath, pidIn, created, listening>>

-----------------------------------------------------------------------------
LeaderStep(l) ==
    \/ LeaderOpen(l) \/ LeaderOpenFails(l) \/ LeaderTry(l) \/ WritePid(l) \/ LeaderPeek(l)
    \/ SweepSocket(l) \/ BindSocket(l) \/ SocketReady(l) \/ SocketTimeout(l)
    \/ PollLock(l) \/ PollTimeout(l) \/ Bail(l)
    \/ ServerEnds(l) \/ DropLockPath(l) \/ DropSockPath(l)

ClientStep(c) ==
    \/ Dial(c) \/ DialFails(c) \/ Adopt(c)
    \/ LeaveOutdated(c) \/ Evict(c) \/ EvictWait(c)
    \/ ClientOpen(c) \/ ClientOpenFails(c) \/ ClientLock(c) \/ OwnerLooks(c)
    \/ Spawn(c) \/ SpawnReady(c) \/ SpawnTimeout(c)
    \/ FailDropLock(c) \/ FailDropSock(c) \/ Release(c)
    \/ WaitSees(c) \/ WaitTimeout(c)

Next ==
    \/ \E l \in Leaders : LeaderStep(l) \/ Shutdown(l) \/ LeaderCrash(l)
    \/ \E c \in Clients : Call(c) \/ ClientStep(c) \/ ClientCrash(c)

\* Processes run and timers fire.  Nobody has to call connect_or_spawn.
Fairness ==
    /\ \A l \in Leaders : WF_vars(LeaderStep(l))
    /\ \A c \in Clients : WF_vars(ClientStep(c))

Spec == Init /\ [][Next]_vars /\ Fairness

-----------------------------------------------------------------------------
(* Properties                                                              *)

\* The variables keep their types, and a process holds no lock but that of the file
\* it has open: LeaderLock keeps at most one file, and closing it lets go.
TypeOK ==
    /\ lockPath \in Inodes \union {NoFile}
    /\ sockPath \in Leaders \union {NoFile}
    /\ holder \in [Inodes -> Procs \union {Nobody}]
    /\ pidIn \in [Inodes -> Leaders \union {NoFile}]
    /\ created \in 0 .. MaxInodes
    /\ listening \subseteq Leaders
    /\ pc \in [Procs -> LeaderLabels \union ClientLabels]
    /\ \A l \in Leaders : pc[l] \in LeaderLabels
    /\ \A c \in Clients : pc[c] \in ClientLabels
    /\ fd \in [Procs -> Inodes \union {NoFile}]
    /\ link \in [Clients -> Leaders \union {NoFile}]
    /\ erred \in [Clients -> BOOLEAN]
    /\ faults \in 0 .. MaxFaults
    /\ \A p \in Procs, i \in Inodes : holder[i] = p => fd[p] = i

\* A pid in a lock file that belongs to a live process is that of the holder of this
\* file's lock, through crashes, handoffs and replaced files: the pid that
\* connect_or_spawn checks and request_leader_vacate signals is a leader's.
PidHolds ==
    \A i \in Inodes : Alive(pidIn[i]) => holder[i] = pidIn[i]

\* A leader that serves holds the lock of a lock file with its pid in it, whichever
\* way it got there (free lock at startup, or handoff from a spawner).
ServingLocked == \A l \in Leaders :
    Ready(l) => \E i \in Inodes : holder[i] = l /\ pidIn[i] = l

SingleLeader == \A k, l \in Leaders : Ready(k) /\ Ready(l) => k = l

\* As long as the lock file has not been removed and created again, at most one
\* leader serves, whatever clients and leaders race, crash or time out.
OneLeaderPerFile == created =< 1 => SingleLeader

Owner(c) == \E i \in Inodes : holder[i] = c

\* A client that has the lock lets go of it: connect_or_spawn adopts, evicts or
\* spawns a leader and hands over, or gives up; no client and leader wait for each
\* other for ever, and the waiting clients get their turn.
LetsGo == \A c \in Clients : Owner(c) ~> ~Owner(c)

\* A leader that serves is the one that clients reach at the socket path ("one leader
\* process manages the agent state while multiple clients communicate via Unix domain
\* sockets").  It fails: the spawner releases the lock before its leader takes it, and
\* a second client in the gap finds the lock free and no pid, removes the live
\* leader's socket and spawns another leader.
ServingReachable == \A l \in Leaders : Ready(l) => sockPath = l /\ l \in listening
=============================================================================
