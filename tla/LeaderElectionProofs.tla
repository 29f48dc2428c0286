------------------------ MODULE LeaderElectionProofs ------------------------
(***************************************************************************)
(* Theorems about LeaderElection, for any number of clients, leaders, lock *)
(* files and faults, and any sets of outdated and relaunchable leaders.    *)
(***************************************************************************)
EXTENDS LeaderElection, TLAPS

\* What the label of a leader says about its lock: it is a matter of the leader's own
\* file, of who holds it, and of where its pid is written.
Locked(l) == fd[l] \in Inodes /\ holder[fd[l]] = l /\ pidIn[fd[l]] = l

Unwritten == {"off", "start", "try", "pid0", "peek", "reopen", "poll", "pid",
              "bail"}

LeaderAt(l, label) ==
    /\ label \in LeaderLabels
    /\ label \in {"off", "start", "peek", "reopen", "dead"} => fd[l] = NoFile
    /\ label \in {"try", "poll"} => fd[l] \in Inodes
    /\ label \in {"pid0", "pid"} => fd[l] \in Inodes /\ holder[fd[l]] = l
    /\ label \in {"sweep", "bind", "wait_socket"} => fd[l] = NoFile \/ Locked(l)
    /\ label \in {"serve", "closing", "drop_lock", "drop_sock"} => Locked(l)
    /\ label \in Unwritten => \A i \in Inodes : pidIn[i] # l
    /\ label # "dead" => \A i \in Inodes : pidIn[i] = l => holder[i] = l

\* The labels at which a client owns the lock.
Owning == {"own", "dial_owner", "evict", "clean", "ready", "release",
           "fail_lock", "fail_sock"}

ClientAt(c, label) ==
    /\ label \in ClientLabels
    /\ label \in Owning => fd[c] \in Inodes /\ holder[fd[c]] = c
    /\ label = "lock" => fd[c] \in Inodes
    /\ label \notin Owning \union {"lock"} => fd[c] = NoFile

At(p, label) == /\ p \in Leaders => LeaderAt(p, label)
                /\ p \in Clients => ClientAt(p, label)

\* Types of the lock files; who holds a lock has its file open; and no file is
\* open or at the path that was not created.
LockType ==
    /\ lockPath \in Inodes \union {NoFile} /\ lockPath =< created
    /\ created \in 0 .. MaxInodes
    /\ holder \in [Inodes -> Procs \union {Nobody}]
    /\ pidIn \in [Inodes -> Leaders \union {NoFile}]
    /\ pc \in [Procs -> LeaderLabels \union ClientLabels]
    /\ fd \in [Procs -> Inodes \union {NoFile}]
    /\ \A p \in Procs, i \in Inodes : holder[i] = p => fd[p] = i
    /\ \A p \in Procs : fd[p] =< created

LockInv == LockType /\ \A p \in Procs : At(p, pc[p])

\* Types of what the lock does not depend on.
RestType ==
    /\ sockPath \in Leaders \union {NoFile}
    /\ listening \subseteq Leaders
    /\ link \in [Clients -> Leaders \union {NoFile}]
    /\ erred \in [Clients -> BOOLEAN]
    /\ faults \in 0 .. MaxFaults

IInv == LockInv /\ RestType

-----------------------------------------------------------------------------
\* The kinds of processes and files are told apart.
LEMMA Apart ==
    /\ MaxLeaders \in Nat /\ MaxInodes \in Nat /\ MaxFaults \in Nat
    /\ NoFile \notin Inodes /\ NoFile \notin Leaders
    /\ \A c \in Clients : c \notin Leaders
    /\ \A p \in Procs : p # Nobody
    /\ Procs = Clients \union Leaders
BY ElectionAssumption DEF Leaders, Inodes, NoFile, Procs

\* A process goes on and leaves the locks alone; the lock path may be removed.
LEMMA Goes ==
    ASSUME LockInv, NEW p \in Procs, NEW label, At(p, label), Goto(p, label),
           UNCHANGED <<holder, pidIn, fd, created>>,
           lockPath' \in {lockPath, NoFile}
    PROVE  LockInv'
<1>1. LockType'
    BY Apart DEF LockInv, LockType, Goto, At, LeaderAt, ClientAt, NoFile
<1>2. ASSUME NEW q \in Procs PROVE At(q, pc[q])'
    BY <1>2, Apart DEF LockInv, LockType, Goto, At, LeaderAt, ClientAt, Locked
<1> QED BY <1>1, <1>2 DEF LockInv

\* A process opens the lock file.
LEMMA Opens ==
    ASSUME LockInv, NEW p \in Procs, NEW label, Goto(p, label),
           fd[p] = NoFile, OpenLockFile(p), UNCHANGED <<holder, pidIn>>,
           p \in Leaders => label \in {"try", "poll"} /\ pc[p] \in Unwritten,
           p \in Clients => label = "lock"
    PROVE  LockInv'
<1>1. fd' = [fd EXCEPT ![p] = fd'[p]] /\ fd'[p] \in Inodes /\ fd'[p] =< created'
    BY Apart DEF LockInv, LockType, OpenLockFile, Inodes, NoFile
<1>2. created' \in 0 .. MaxInodes /\ created =< created'
    BY Apart DEF LockInv, LockType, OpenLockFile
<1>3. lockPath' \in Inodes /\ lockPath' =< created'
    BY Apart DEF LockInv, LockType, OpenLockFile, Inodes, NoFile
<1>4. \A i \in Inodes : holder[i] # p
    BY Apart DEF LockInv, LockType
<1>5. LockType'
    <2>1. \A q \in Procs, i \in Inodes : holder'[i] = q => fd'[q] = i
        BY <1>1, <1>4 DEF LockInv, LockType
    <2>2. \A q \in Procs : fd'[q] =< created'
        BY <1>1, <1>2, Apart DEF LockInv, LockType, Inodes, NoFile
    <2>3. pc' \in [Procs -> LeaderLabels \union ClientLabels]
        BY Apart DEF LockInv, LockType, Goto, LeaderLabels, ClientLabels
    <2> QED BY <1>1, <1>2, <1>3, <2>1, <2>2, <2>3 DEF LockInv, LockType
<1>6. ASSUME NEW q \in Procs PROVE At(q, pc[q])'
    <2>1. CASE q = p
        BY <1>1, <1>4, <1>6, <2>1, Apart
           DEF LockInv, LockType, Goto, At, LeaderAt, ClientAt, Locked, Unwritten,
               Owning, LeaderLabels, ClientLabels
    <2>2. CASE q # p
        BY <1>1, <1>6, <2>2, Apart
           DEF LockInv, LockType, Goto, At, LeaderAt, ClientAt, Locked
    <2> QED BY <2>1, <2>2
<1> QED BY <1>5, <1>6 DEF LockInv

\* A process takes the lock of its file, which nobody holds.
LEMMA Takes ==
    ASSUME LockInv, NEW p \in Procs, NEW label, Goto(p, label),
           fd[p] \in Inodes, Lockable(p), TakeLock(p),
           UNCHANGED <<lockPath, pidIn, created, fd>>,
           p \in Leaders => label \in {"pid0", "pid"} /\ pc[p] \in Unwritten,
           p \in Clients => label = "own"
    PROVE  LockInv'
<1>1. LockType'
    BY Apart DEF LockInv, LockType, Goto, Lockable, TakeLock, LeaderLabels,
                 ClientLabels
<1>2. ASSUME NEW q \in Procs PROVE At(q, pc[q])'
    <2>1. CASE q = p
        BY <1>2, <2>1, Apart
           DEF LockInv, LockType, Goto, TakeLock, At, LeaderAt, ClientAt, Locked,
               Unwritten, Owning, LeaderLabels, ClientLabels
    <2>2. CASE q # p
        <3>1. \A i \in Inodes : holder[i] = q => holder'[i] = q
            BY <1>2, <2>2, Apart DEF LockInv, LockType, Lockable, TakeLock
        <3> QED BY <1>2, <2>2, <3>1, Apart
                DEF LockInv, LockType, Goto, At, LeaderAt, ClientAt, Locked
    <2> QED BY <2>1, <2>2
<1> QED BY <1>1, <1>2 DEF LockInv

\* A process closes its file, and with it gives up the lock it may hold.
LEMMA Closes ==
    ASSUME LockInv, NEW p \in Procs, NEW label, Goto(p, label),
           CloseLockFile(p), UNCHANGED <<lockPath, pidIn, created>>,
           p \in Leaders => \/ label = "dead"
                            \/ label = "peek" /\ pc[p] \in Unwritten,
           p \in Clients => label \in ClientLabels \ (Owning \union {"lock"})
    PROVE  LockInv'
<1>1. /\ fd' = [fd EXCEPT ![p] = NoFile]
      /\ holder' \in [Inodes -> Procs \union {Nobody}]
      /\ \A i \in Inodes : holder'[i] # p
      /\ \A q \in Procs \ {p}, i \in Inodes : holder'[i] = q <=> holder[i] = q
    BY Apart DEF LockInv, LockType, CloseLockFile, Unlocked
<1>2. LockType'
    <2>1. \A q \in Procs, i \in Inodes : holder'[i] = q => fd'[q] = i
        BY <1>1 DEF LockInv, LockType
    <2>2. \A q \in Procs : fd'[q] =< created'
        BY <1>1 DEF LockInv, LockType, NoFile
    <2>3. pc' \in [Procs -> LeaderLabels \union ClientLabels]
        BY Apart DEF LockInv, LockType, Goto, LeaderLabels
    <2>4. fd' \in [Procs -> Inodes \union {NoFile}]
        BY <1>1 DEF LockInv, LockType
    <2> QED BY <1>1, <2>1, <2>2, <2>3, <2>4 DEF LockInv, LockType
<1>3. ASSUME NEW q \in Procs PROVE At(q, pc[q])'
    <2>1. CASE q = p
        BY <1>1, <1>3, <2>1, Apart
           DEF LockInv, LockType, Goto, At, LeaderAt, ClientAt, Locked, Unwritten,
               Owning, LeaderLabels
    <2>2. CASE q # p
        BY <1>1, <1>3, <2>2, Apart
           DEF LockInv, LockType, Goto, At, LeaderAt, ClientAt, Locked
    <2> QED BY <2>1, <2>2
<1> QED BY <1>2, <1>3 DEF LockInv

\* A leader that has taken the lock writes its pid into the file.
LEMMA Writes ==
    ASSUME LockInv, NEW l \in Leaders, WritePid(l)
    PROVE  LockInv'
<1>1. fd[l] \in Inodes /\ holder[fd[l]] = l
    BY Apart DEF LockInv, At, LeaderAt, WritePid
<1>2. LockType'
    BY <1>1, Apart DEF LockInv, LockType, WritePid, Goto, LeaderLabels
<1>3. ASSUME NEW q \in Procs PROVE At(q, pc[q])'
    <2>1. CASE q = l
        <3>1. \A i \in Inodes : pidIn[i] # l
            BY Apart DEF LockInv, At, LeaderAt, WritePid, Unwritten
        <3>2. /\ pidIn'[fd[l]] = l
              /\ \A i \in Inodes : pidIn'[i] = l => i = fd[l]
              /\ pc'[l] \in {"sweep", "serve"}
            BY <1>1, <3>1, Apart DEF LockInv, LockType, WritePid, Goto
        <3> QED BY <1>1, <2>1, <3>2, Apart
                DEF WritePid, At, LeaderAt, Locked, Unwritten, LeaderLabels
    <2>2. CASE q # l
        <3>1. \A i \in Inodes : pidIn'[i] = q => pidIn[i] = q
            BY <1>1, <2>2 DEF LockInv, LockType, WritePid
        <3>2. \A i \in Inodes : holder[i] = q => pidIn'[i] = pidIn[i]
            BY <1>1, <2>2 DEF LockInv, LockType, WritePid
        <3> QED BY <1>3, <2>2, <3>1, <3>2, Apart
                DEF LockInv, LockType, WritePid, Goto, At, LeaderAt, ClientAt, Locked
    <2> QED BY <2>1, <2>2
<1> QED BY <1>2, <1>3 DEF LockInv

\* A client goes on while it kills leaders or tells serving ones to close.
LEMMA Moves ==
    ASSUME LockInv, NEW c \in Clients, NEW label, At(c, label),
           NEW killed \in SUBSET Leaders, NEW closing \in SUBSET Leaders,
           killed \intersect closing = {},
           \A l \in closing : pc[l] = "serve",
           Move(c, label, killed, closing), UNCHANGED <<lockPath, pidIn, created>>
    PROVE  LockInv'
<1>1. /\ \A i \in Inodes : holder'[i] = IF holder[i] \in killed THEN Nobody ELSE holder[i]
      /\ \A p \in Procs : fd'[p] = IF p \in killed THEN NoFile ELSE fd[p]
      /\ c \notin killed /\ c \notin closing /\ c \in Procs
    BY Apart DEF Move
<1>2. \A p \in Procs : pc'[p] = CASE p = c -> label
                                  [] p \in killed -> "dead"
                                  [] p \in closing -> "closing"
                                  [] OTHER -> pc[p]
    BY DEF Move
<1>3. LockType'
    <2>1. holder' \in [Inodes -> Procs \union {Nobody}]
        BY DEF LockInv, LockType, Move
    <2>2. fd' \in [Procs -> Inodes \union {NoFile}]
        BY DEF LockInv, LockType, Move
    <2>3. pc' \in [Procs -> LeaderLabels \union ClientLabels]
        <3>1. \A p \in Procs : pc'[p] \in LeaderLabels \union ClientLabels
            BY <1>1, <1>2, Apart DEF LockInv, LockType, At, ClientAt, LeaderLabels
        <3>2. pc' = [p \in Procs |-> pc'[p]]
            BY DEF Move
        <3> QED BY <3>1, <3>2
    <2>4. \A p \in Procs, i \in Inodes : holder'[i] = p => fd'[p] = i
        BY <1>1, Apart DEF LockInv, LockType
    <2>5. \A p \in Procs : fd'[p] =< created'
        BY <1>1 DEF LockInv, LockType, NoFile
    <2> QED BY <2>1, <2>2, <2>3, <2>4, <2>5 DEF LockInv, LockType
<1>4. ASSUME NEW q \in Procs PROVE At(q, pc[q])'
    <2>1. CASE q \in killed
        <3>1. q # c /\ q \notin Clients
            BY <1>1, <2>1, Apart
        <3>2. pc'[q] = "dead"
            BY <1>2, <1>4, <2>1, <3>1
        <3>3. fd'[q] = NoFile
            BY <1>1, <1>4, <2>1
        <3> QED BY <3>1, <3>2, <3>3 DEF At, LeaderAt, Unwritten, LeaderLabels
    <2>2. CASE q \notin killed
        <3>1. /\ fd'[q] = fd[q]
              /\ \A i \in Inodes : holder'[i] = q <=> holder[i] = q
            BY <1>1, <1>4, <2>2, Apart DEF LockInv, LockType
        <3>2. CASE q = c
            BY <1>1, <1>2, <2>2, <3>1, <3>2, Apart DEF At, ClientAt, LockInv, LockType
        <3>3. CASE q # c /\ q \in closing
            BY <1>1, <1>2, <2>2, <3>1, <3>3, Apart
               DEF LockInv, LockType, At, LeaderAt, Locked, Unwritten, LeaderLabels
        <3>4. CASE q # c /\ q \notin closing
            BY <1>1, <1>2, <1>4, <2>2, <3>1, <3>4, Apart
               DEF LockInv, LockType, At, LeaderAt, ClientAt, Locked
        <3> QED BY <3>2, <3>3, <3>4
    <2> QED BY <2>1, <2>2
<1> QED BY <1>3, <1>4 DEF LockInv

-----------------------------------------------------------------------------
\* The other variables keep their types.
LEMMA RestStep ==
    ASSUME IInv, [Next]_vars
    PROVE  RestType'
<1> USE Apart
<1>1. ASSUME NEW l \in Leaders,
             LeaderStep(l) \/ Shutdown(l) \/ LeaderCrash(l)
      PROVE  RestType'
    BY <1>1 DEF IInv, RestType, LeaderStep, LeaderOpen, LeaderOpenFails, LeaderTry,
                WritePid, LeaderPeek, SweepSocket, BindSocket, SocketReady,
                SocketTimeout, PollLock, PollTimeout, Bail, ServerEnds, DropLockPath,
                DropSockPath, Shutdown, LeaderCrash, Die, Fault, files
<1>2. ASSUME NEW c \in Clients, Call(c) \/ ClientStep(c) \/ ClientCrash(c)
      PROVE  RestType'
    <2>1. PidAtPath \in Leaders \union {NoFile}
        BY DEF IInv, LockInv, LockType, PidAtPath
    <2>2. CASE Call(c)
        BY <2>2 DEF IInv, RestType, Call, files
    <2>6. CASE ClientCrash(c)
        BY <2>6 DEF IInv, RestType, ClientCrash, Fault
    <2>3. CASE LeaveOutdated(c) \/ Evict(c) \/ EvictWait(c)
        BY <2>1, <2>3 DEF IInv, RestType, LeaveOutdated, Evict, EvictWait, Move, Fault
    <2>4. CASE Dial(c) \/ DialFails(c) \/ Adopt(c)
        BY <2>4 DEF IInv, RestType, Dial, DialFails, Adopt, files
    <2>5. CASE \/ ClientOpen(c) \/ ClientOpenFails(c) \/ OwnerLooks(c) \/ Spawn(c)
               \/ SpawnReady(c) \/ FailDropLock(c) \/ FailDropSock(c) \/ Release(c)
               \/ WaitSees(c)
        BY <2>5 DEF IInv, RestType, ClientOpen, ClientOpenFails, OwnerLooks, Spawn,
                    SpawnReady, FailDropLock, FailDropSock, Release, WaitSees, files
    <2>7. CASE ClientLock(c) \/ WaitTimeout(c)
        BY <2>7 DEF IInv, RestType, ClientLock, WaitTimeout, files
    <2>8. CASE SpawnTimeout(c)
        BY <2>8 DEF IInv, RestType, SpawnTimeout, Fault, files
    <2> QED BY <1>2, <2>2, <2>3, <2>4, <2>5, <2>6, <2>7, <2>8 DEF ClientStep
<1>3. CASE UNCHANGED vars
    BY <1>3 DEF IInv, RestType, vars
<1> QED BY <1>1, <1>2, <1>3 DEF Next

\* Every step of a leader keeps the lock invariant.
LEMMA LeaderLocks ==
    ASSUME IInv, NEW l \in Leaders,
           LeaderStep(l) \/ Shutdown(l) \/ LeaderCrash(l)
    PROVE  LockInv'
<1> USE Apart
<1>0. /\ LockInv /\ l \in Procs /\ l \notin Clients
      /\ LeaderAt(l, pc[l]) /\ pc[l] \in LeaderLabels
    BY DEF IInv, LockInv, At, LeaderAt
<1>1. CASE LeaderOpen(l)
    BY <1>0, <1>1, Opens DEF LeaderOpen, LeaderAt, Unwritten
<1>2. CASE LeaderOpenFails(l)
    <2>1. CASE pc[l] = "start"
        BY <1>0, <1>2, <2>1, Closes DEF LeaderOpenFails, Die, Goto
    <2>2. CASE pc[l] = "reopen"
        BY <1>0, <1>2, <2>2, Goes
           DEF LeaderOpenFails, At, LeaderAt, Unwritten, LeaderLabels
    <2> QED BY <1>2, <2>1, <2>2 DEF LeaderOpenFails
<1>3. CASE LeaderTry(l)
    BY <1>0, <1>3, Takes, Closes DEF LeaderTry, LeaderAt, Unwritten
<1>4. CASE WritePid(l)
    BY <1>0, <1>4, Writes
<1>5. CASE LeaderPeek(l)
    <2>1. CASE sockPath # NoFile
        BY <1>0, <1>5, <2>1, Closes DEF LeaderPeek, Die, Goto
    <2>2. CASE sockPath = NoFile
        BY <1>0, <1>5, <2>2, Goes
           DEF LeaderPeek, At, LeaderAt, Unwritten, LeaderLabels
    <2> QED BY <2>1, <2>2
<1>6. CASE SweepSocket(l) \/ BindSocket(l)
    BY <1>0, <1>6, Goes
       DEF SweepSocket, BindSocket, At, LeaderAt, Unwritten, LeaderLabels
<1>7. CASE SocketReady(l)
    <2>1. pc[l] = "wait_socket"
        BY <1>7 DEF SocketReady
    <2>2. CASE fd[l] = NoFile
        <3>1. At(l, "reopen")
            BY <1>0, <2>1, <2>2 DEF LockInv, LockType, At, LeaderAt, Locked, Unwritten, LeaderLabels
        <3> QED BY <1>0, <1>7, <2>2, <3>1, Goes DEF SocketReady, files
    <2>3. CASE fd[l] # NoFile
        <3>1. At(l, "serve")
            BY <1>0, <2>1, <2>3 DEF At, LeaderAt, Locked, Unwritten, LeaderLabels
        <3> QED BY <1>0, <1>7, <2>3, <3>1, Goes DEF SocketReady, files
    <2> QED BY <2>2, <2>3
<1>8. CASE SocketTimeout(l)
    <2>1. pc[l] = "wait_socket"
        BY <1>8 DEF SocketTimeout
    <2>2. CASE fd[l] = NoFile
        <3>1. At(l, "bail")
            BY <1>0, <2>1, <2>2 DEF LockInv, LockType, At, LeaderAt, Locked, Unwritten, LeaderLabels
        <3> QED BY <1>0, <1>8, <2>2, <3>1, Goes DEF SocketTimeout, files
    <2>3. CASE fd[l] # NoFile
        <3>1. At(l, "drop_lock")
            BY <1>0, <2>1, <2>3 DEF At, LeaderAt, Locked, Unwritten, LeaderLabels
        <3> QED BY <1>0, <1>8, <2>3, <3>1, Goes DEF SocketTimeout, files
    <2> QED BY <2>2, <2>3
<1>9. CASE PollLock(l)
    BY <1>0, <1>9, Takes DEF PollLock, LeaderAt, Unwritten
<1>10. CASE PollTimeout(l)
    BY <1>0, <1>10, Goes
       DEF PollTimeout, files, At, LeaderAt, Unwritten, LeaderLabels
<1>11. CASE Bail(l) \/ DropSockPath(l) \/ LeaderCrash(l)
    BY <1>0, <1>11, Closes DEF Bail, DropSockPath, LeaderCrash, Die, Goto
<1>12. CASE Shutdown(l) \/ ServerEnds(l) \/ DropLockPath(l)
    BY <1>0, <1>12, Goes
       DEF Shutdown, ServerEnds, DropLockPath, files, At, LeaderAt, Unwritten,
           LeaderLabels
<1> QED BY <1>1, <1>2, <1>3, <1>4, <1>5, <1>6, <1>7, <1>8, <1>9, <1>10, <1>11,
           <1>12 DEF LeaderStep

\* Every step of a client keeps the lock invariant.
LEMMA ClientLocks ==
    ASSUME IInv, NEW c \in Clients, Call(c) \/ ClientStep(c) \/ ClientCrash(c)
    PROVE  LockInv'
<1> USE Apart
<1>0. /\ LockInv /\ c \in Procs /\ c \notin Leaders
      /\ ClientAt(c, pc[c]) /\ pc[c] \in ClientLabels
    BY DEF IInv, LockInv, At, ClientAt
<1>1. CASE \/ Call(c) \/ ClientOpenFails(c) \/ OwnerLooks(c) \/ SpawnReady(c)
           \/ SpawnTimeout(c) \/ FailDropLock(c) \/ WaitSees(c) \/ WaitTimeout(c)
    BY <1>0, <1>1, Goes
       DEF Call, ClientOpenFails, OwnerLooks, SpawnReady, SpawnTimeout,
           FailDropLock, WaitSees, WaitTimeout, files, At, ClientAt, Owning,
           ClientLabels, DialLabels
<1>2. CASE Dial(c)
    <2>1. UNCHANGED <<lockPath, created, holder, pidIn, pc, fd>>
        BY <1>2 DEF Dial, files
    <2> QED BY <1>0, <2>1
            DEF LockInv, LockType, At, LeaderAt, ClientAt, Locked
<1>3. CASE DialFails(c)
    BY <1>0, <1>3, Goes
       DEF DialFails, AfterRefusal, files, At, ClientAt, Owning, ClientLabels,
           DialLabels
<1>4. CASE Adopt(c) \/ FailDropSock(c) \/ Release(c) \/ ClientCrash(c)
    BY <1>0, <1>4, Closes
       DEF Adopt, FailDropSock, Release, ClientCrash, Owning, ClientLabels,
           DialLabels
<1>5. CASE LeaveOutdated(c)
    <2>1. At(c, "open")
        BY <1>0, <1>5
           DEF LeaveOutdated, At, ClientAt, Owning, ClientLabels, DialLabels
    <2> DEFINE killed == IF pc[c] = "dial_wait" THEN Signalled(link[c]) ELSE {}
               closing == IF pc[c] = "dial_wait" THEN Asked(link[c]) ELSE {}
    <2>2. /\ killed \in SUBSET Leaders /\ closing \in SUBSET Leaders
          /\ killed \intersect closing = {}
        BY <1>5 DEF LeaveOutdated, Signalled, Asked, Alive, Ready
    <2>3. \A l \in closing : pc[l] = "serve"
        BY <1>5 DEF LeaveOutdated, Asked, Ready
    <2>4. Move(c, "open", killed, closing)
        BY <1>5 DEF LeaveOutdated
    <2> QED BY <1>0, <1>5, <2>1, <2>2, <2>3, <2>4, Moves DEF LeaveOutdated
<1>6. CASE Evict(c)
    <2>1. At(c, "evict")
        BY <1>0, <1>6 DEF Evict, At, ClientAt, Owning, ClientLabels
    <2>2. /\ Signalled(link[c]) \in SUBSET Leaders
          /\ Asked(link[c]) \in SUBSET Leaders
          /\ Signalled(link[c]) \intersect Asked(link[c]) = {}
          /\ \A l \in Asked(link[c]) : pc[l] = "serve"
        BY <1>6 DEF Evict, Signalled, Asked, Alive, Ready
    <2> QED BY <1>0, <1>6, <2>1, <2>2, Moves DEF Evict
<1>7. CASE EvictWait(c)
    <2>1. At(c, "clean")
        BY <1>0, <1>7 DEF EvictWait, At, ClientAt, Owning, ClientLabels
    <2>2. PICK killed \in SUBSET Leaders : Move(c, "clean", killed, {})
        BY <1>7 DEF EvictWait, Alive
    <2> QED BY <1>0, <1>7, <2>1, <2>2, Moves DEF EvictWait
<1>8. CASE ClientOpen(c)
    BY <1>0, <1>8, Opens DEF ClientOpen, ClientAt, Owning
<1>9. CASE ClientLock(c)
    BY <1>0, <1>9, Takes, Closes
       DEF ClientLock, ClientAt, Owning, ClientLabels, DialLabels
<1>10. CASE Spawn(c)
    <2>1. CASE Goto(c, "fail_lock")
        BY <1>0, <1>10, <2>1, Goes DEF Spawn, At, ClientAt, Owning, ClientLabels
    <2>2. CASE ~Goto(c, "fail_lock")
        <3>1. PICK l \in Leaders :
                 pc[l] = "off" /\ pc' = [pc EXCEPT ![c] = "ready", ![l] = "start"]
            BY <1>10, <2>2 DEF Spawn
        <3>2. UNCHANGED <<lockPath, created, holder, pidIn, fd>>
            BY <1>10 DEF Spawn
        <3>3. LockType'
            BY <1>0, <3>1, <3>2
               DEF LockInv, LockType, LeaderLabels, ClientLabels
        <3>4. ASSUME NEW q \in Procs PROVE At(q, pc[q])'
            <4>1. CASE q = l
                BY <1>0, <3>1, <3>2, <4>1
                   DEF LockInv, LockType, At, LeaderAt, Unwritten, LeaderLabels
            <4>2. CASE q = c
                BY <1>0, <1>10, <3>1, <3>2, <4>2
                   DEF LockInv, LockType, Spawn, At, ClientAt, Owning, ClientLabels
            <4>3. CASE q # l /\ q # c
                BY <1>0, <3>1, <3>2, <3>4, <4>3
                   DEF LockInv, LockType, At, LeaderAt, ClientAt, Locked
            <4> QED BY <4>1, <4>2, <4>3
        <3> QED BY <3>3, <3>4 DEF LockInv
    <2> QED BY <2>1, <2>2
<1> QED BY <1>1, <1>2, <1>3, <1>4, <1>5, <1>6, <1>7, <1>8, <1>9, <1>10
    DEF ClientStep

\* The invariant holds at first: nothing is there, or one leader serves.
LEMMA InitInv == Init => IInv
<1> SUFFICES ASSUME Init PROVE IInv
    OBVIOUS
<1> USE Apart
<1>1. lockPath \in {0, 1} /\ 1 \in Inodes /\ 1 \in Leaders
    BY ElectionAssumption DEF Init, NoFile, Inodes, Leaders
<1>2. LockType
    <2>1. pc \in [Procs -> LeaderLabels \union ClientLabels]
        BY DEF Init, LeaderLabels, ClientLabels
    <2>2. /\ holder \in [Inodes -> Procs \union {Nobody}]
          /\ pidIn \in [Inodes -> Leaders \union {NoFile}]
          /\ fd \in [Procs -> Inodes \union {NoFile}]
        BY <1>1 DEF Init, NoFile
    <2>3. created \in 0 .. MaxInodes /\ lockPath =< created
        BY <1>1 DEF Init, Inodes
    <2>4. \A p \in Procs, i \in Inodes : holder[i] = p => fd[p] = i
        BY <1>1 DEF Init
    <2>5. \A p \in Procs : fd[p] =< created
        <3>1. CASE lockPath = 0
            <4>1. \A p \in Procs : p # lockPath
                BY <3>1, ElectionAssumption DEF Leaders
            <4> QED BY <3>1, <4>1 DEF Init, NoFile
        <3>2. CASE lockPath = 1
            BY <3>2 DEF Init, NoFile
        <3> QED BY <1>1, <3>1, <3>2
    <2> QED BY <1>1, <2>1, <2>2, <2>3, <2>4, <2>5 DEF LockType, NoFile
<1>3. ASSUME NEW p \in Procs PROVE At(p, pc[p])
    <2>1. CASE p \in Clients
        <3>1. pc[p] = "idle"
            BY <2>1 DEF Init
        <3>2. p # lockPath
            BY <1>1, <2>1, ElectionAssumption
        <3>3. fd[p] = NoFile
            BY <1>3, <3>2 DEF Init
        <3> QED BY <2>1, <3>1, <3>3 DEF At, ClientAt, Owning, ClientLabels
    <2>2. CASE p \in Leaders
        BY <1>1, <1>2, <2>2
           DEF Init, LockType, At, LeaderAt, NoFile, Locked, Unwritten, LeaderLabels
    <2> QED BY <2>1, <2>2
<1>4. RestType
    BY <1>1 DEF Init, RestType, NoFile
<1> QED BY <1>2, <1>3, <1>4 DEF IInv, LockInv

\* It is inductive.
LEMMA StepInv == IInv /\ [Next]_vars => IInv'
<1> SUFFICES ASSUME IInv, [Next]_vars PROVE IInv'
    OBVIOUS
<1>1. RestType'
    BY RestStep
<1>2. CASE Next
    BY <1>1, <1>2, LeaderLocks, ClientLocks DEF Next, IInv
<1>3. CASE UNCHANGED vars
    BY <1>1, <1>3
       DEF IInv, LockInv, LockType, At, LeaderAt, ClientAt, Locked, vars
<1> QED BY <1>2, <1>3

\* What the invariant is for.
LEMMA InvImplies ==
    IInv => TypeOK /\ PidHolds /\ ServingLocked /\ OneLeaderPerFile
<1> SUFFICES ASSUME IInv
             PROVE  TypeOK /\ PidHolds /\ ServingLocked /\ OneLeaderPerFile
    OBVIOUS
<1> USE Apart
<1>1. TypeOK
    BY DEF IInv, LockInv, LockType, RestType, At, LeaderAt, ClientAt, TypeOK
<1>2. PidHolds
    BY DEF IInv, LockInv, At, LeaderAt, PidHolds, Alive
<1>3. \A l \in Leaders : Ready(l) => Locked(l)
    BY DEF IInv, LockInv, At, LeaderAt, Ready
<1>4. ServingLocked
    BY <1>3 DEF Locked, ServingLocked
<1>5. OneLeaderPerFile
    <2> SUFFICES ASSUME created =< 1, NEW k \in Leaders, NEW l \in Leaders,
                        Ready(k), Ready(l)
                 PROVE  k = l
        BY DEF OneLeaderPerFile, SingleLeader
    <2>1. Locked(k) /\ Locked(l)
        BY <1>3
    <2>2. fd[k] = 1 /\ fd[l] = 1
        BY <2>1 DEF IInv, LockInv, LockType, Locked, Inodes
    <2> QED BY <2>1, <2>2 DEF Locked
<1> QED BY <1>1, <1>2, <1>4, <1>5

\* The invariant holds throughout.
LEMMA InvAlways == Spec => []IInv
BY InitInv, StepInv, PTL DEF Spec

\* The variables of LeaderLock, connect_or_spawn and run_leader keep their types, and
\* a process holds the lock of no file but the one it has open.
THEOREM TypeCorrect == Spec => []TypeOK
BY InvAlways, InvImplies, PTL

\* A live pid in a lock file is that of the process that holds the file's lock, so
\* read_pid never makes a client trust or signal a process that does not lead.
THEOREM PidCorrect == Spec => []PidHolds
BY InvAlways, InvImplies, PTL

\* A leader that has come through the handoff of run_leader holds a lock and has its
\* pid in that file.
THEOREM ServingCorrect == Spec => []ServingLocked
BY InvAlways, InvImplies, PTL

\* As long as LeaderLock::drop has removed no lock file, at most one leader serves.
THEOREM OneLeaderCorrect == Spec => []OneLeaderPerFile
BY InvAlways, InvImplies, PTL
=============================================================================
