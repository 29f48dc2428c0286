----------------------------- MODULE SessionLoad -----------------------------
(***************************************************************************)
(* Attaching clients to a session that is at work: session/load through    *)
(* the leader.  Five parties take part, each on a thread or in a process   *)
(* of its own:                                                             *)
(*   - the session actor stamps events, persists them and sends them live; *)
(*   - its persistence actor writes them to updates.jsonl;                 *)
(*   - the agent runs load_session, one task per load, which closes the    *)
(*     session's gateway gate, replays the file and opens the gate again;  *)
(*   - the leader routes what leaves the agent's gateway to its clients,   *)
(*     and holds live messages back from a client that is loading;         *)
(*   - the clients (the pager) apply what they are sent.                   *)
(*                                                                         *)
(* An event is its eventId, a number of one counter.  There are two        *)
(* streams: "acp" updates are queued on event_tx, pass the gate, and may   *)
(* be merged when they are persisted; "xai" one-shots are emitted directly *)
(* and pass no gate.  The session is resident and at work throughout, as   *)
(* a session with a running turn is, and client ids are never reused: a    *)
(* client that reconnects is another client.                               *)
(*                                                                         *)
(* The channels between the agent and the leader and between the leader    *)
(* and a client are FIFO and each is read by one party, so the leader      *)
(* handles a message when it leaves the gateway, and a client applies one  *)
(* when the leader sends it.                                               *)
(***************************************************************************)
EXTENDS Naturals, Sequences, FiniteSets, SequencesExt

CONSTANTS
    Clients,     \* client connections of the leader
    Residents,   \* the clients that were there when the session was created
    MaxEvents,   \* bound: events and interactions of the session
    MaxBuffer,   \* MAX_BUFFERED_LIVE_PER_LOAD
    MaxTimeouts, \* bound: flushes that are not answered in time
    MaxFaults,   \* bound: clients that leave and loads that fail
    NoClient     \* no driver

ASSUME LoadAssumption ==
    /\ {MaxEvents, MaxBuffer, MaxTimeouts, MaxFaults} \subseteq Nat
    /\ Residents \subseteq Clients
    /\ NoClient \notin Clients

VARIABLES
    \* the session actor
    stream,   \* stream[n] is the stream of event n
    eventQ,   \* events on event_tx, stamped but not yet emitted
    emitting, \* the event that is persisted and not yet sent live, or 0
    cmdQ,     \* FlushComplete commands, each the load and flush it is for
    ask,      \* the reverse-request of a pending interaction
    \* the persistence actor
    persistQ, \* its channel
    pending,  \* events merged in pending_notification
    file,     \* the lines of updates.jsonl, each the events merged in it
    \* the agent
    gate,     \* gateway_enabled
    gateway,  \* messages on their way to the leader
    load,     \* where load_session is for each client
    offset,   \* the end of the file when it was replayed
    \* the leader
    online,   \* "new", "on" or "off"
    subs,     \* session_subscribers
    driver,   \* session_driver
    loading,  \* clients with an entry in pending_load_by_req
    buffer,   \* load_live_buffer
    cutoff,   \* load_replay_max_seq, 0 for no entry
    cached,   \* the request is in interaction_requests
    \* the clients
    screen,   \* what a client shows: the events, in order, the interaction,
              \* and its highwater mark of each stream
    \* what the properties need to remember
    owed,     \* events stamped when the session took a load's second flush
    attached, \* events stamped when the client's load was answered
    late,     \* clients whose second flush timed out
    spilled,  \* clients whose buffer overflowed
    \* what the bounds count
    timeouts, faults

session == <<stream, eventQ, emitting, ask>>
disk == <<persistQ, pending, file>>
agent == <<gate, load, offset>>
leader == <<online, subs, driver, loading, buffer, cutoff, cached>>
history == <<owed, attached, late, spilled, timeouts, faults>>
vars == <<session, cmdQ, disk, agent, gateway, leader, screen, history>>

-----------------------------------------------------------------------------
Streams == {"acp", "xai"}
Events == 1 .. MaxEvents
Flushes == [who : Clients, nth : 1 .. 2]

Live(n) == [type |-> "live", event |-> n]
Replay(c, line) == [type |-> "replay", to |-> c, line |-> line]
Ask == [type |-> "ask"]
Resolved == [type |-> "resolved"]

(* What the leader can hold back: messages that name no target.            *)
Untargeted == [type : {"live"}, event : Events] \union {Ask, Resolved}

Lines == Seq(Events) \ {<<>>}
Messages == Untargeted \union [type : {"replay"}, to : Clients, line : Lines]

(* What is sent to the persistence actor.                                  *)
Writes == [type : {"update"}, event : Events]
          \union [type : {"flush"}, for : SUBSET Flushes]

Screens == [events : Seq(Events), modal : BOOLEAN,
            seen : [Streams -> 0 .. MaxEvents]]

(* The eventId of a persisted line is that of the last event merged in it. *)
LineSeq(line) == Last(line)

Init ==
    /\ stream = <<>> /\ eventQ = <<>> /\ emitting = 0 /\ cmdQ = <<>>
    /\ ask = "none"
    /\ persistQ = <<>> /\ pending = <<>> /\ file = <<>>
    /\ gate = TRUE /\ gateway = <<>>
    /\ load = [c \in Clients |-> IF c \in Residents THEN "done" ELSE "idle"]
    /\ offset = [c \in Clients |-> 0]
    /\ online = [c \in Clients |-> IF c \in Residents THEN "on" ELSE "new"]
    /\ subs = Residents /\ loading = {}
    /\ driver \in IF Residents = {} THEN {NoClient} ELSE Residents
    /\ buffer = [c \in Clients |-> <<>>]
    /\ cutoff = [c \in Clients |-> 0]
    /\ cached = FALSE
    /\ screen = [c \in Clients |-> [events |-> <<>>, modal |-> FALSE,
                                   seen |-> [s \in Streams |-> 0]]]
    /\ owed = [c \in Clients |-> 0]
    /\ attached = [c \in Clients |-> 0]
    /\ late = {} /\ spilled = {} /\ timeouts = 0 /\ faults = 0

-----------------------------------------------------------------------------
(* The session actor.  Its tasks share one thread, so nothing of it runs   *)
(* between the two halves of an emission; the other threads do.            *)

(* The bound on what the session emits.                                    *)
MayEmit == Len(stream) + (IF ask = "none" THEN 0 ELSE 1) < MaxEvents

(* send_update: the eventId is minted when the update is queued.           *)
SendUpdate ==
    /\ emitting = 0 /\ MayEmit
    /\ stream' = Append(stream, "acp")
    /\ eventQ' = Append(eventQ, Len(stream'))
    /\ UNCHANGED <<emitting, ask, cmdQ, disk, agent, gateway, leader,
                   screen, history>>

(* The run loop takes the next event and persists it ...                   *)
EmitBuffered ==
    /\ emitting = 0 /\ eventQ # <<>>
    /\ emitting' = Head(eventQ) /\ eventQ' = Tail(eventQ)
    /\ persistQ' = Append(persistQ, [type |-> "update", event |-> emitting'])
    /\ UNCHANGED <<stream, ask, cmdQ, pending, file, agent, gateway, leader,
                   screen, history>>

(* send_xai_notification: stamped and persisted at once, past the queue.   *)
SendXai ==
    /\ emitting = 0 /\ MayEmit
    /\ stream' = Append(stream, "xai")
    /\ emitting' = Len(stream')
    /\ persistQ' = Append(persistQ, [type |-> "update", event |-> emitting'])
    /\ UNCHANGED <<eventQ, ask, cmdQ, pending, file, agent, gateway, leader,
                   screen, history>>

\* Mutant: the gate holds one-shots back too.
PassesGateAcp(n) == gate

(* An update of the ACP stream is sent live only while the gate is open.   *)
PassesGate(n) == gate \/ stream[n] = "xai"

(* ... and then sends it live.                                             *)
EmitLive ==
    /\ emitting # 0
    /\ gateway' = IF PassesGate(emitting)
                  THEN Append(gateway, Live(emitting))
                  ELSE gateway
    /\ emitting' = 0
    /\ UNCHANGED <<stream, eventQ, ask, cmdQ, disk, agent, leader, screen,
                   history>>

(* FlushComplete: the run loop prefers event_rx to its commands, so it     *)
(* takes the command only when no event is queued.                         *)
FlushComplete ==
    /\ emitting = 0 /\ eventQ = <<>> /\ cmdQ # <<>>
    /\ LET f == Head(cmdQ)
       IN  /\ persistQ' = Append(persistQ, [type |-> "flush", for |-> {f}])
           /\ owed' = IF f.nth = 2 THEN [owed EXCEPT ![f.who] = Len(stream)]
                                   ELSE owed
    /\ cmdQ' = Tail(cmdQ)
    /\ UNCHANGED <<session, pending, file, agent, gateway, leader, screen,
                   attached, late, spilled, timeouts, faults>>

(* A tool call waits for the user: its reverse-request is sent.            *)
Interact ==
    /\ emitting = 0 /\ ask = "none" /\ MayEmit
    /\ ask' = "open"
    /\ gateway' = Append(gateway, Ask)
    /\ UNCHANGED <<stream, eventQ, emitting, cmdQ, disk, agent, leader,
                   screen, history>>

(* The wait ends, answered or cancelled: PendingInteractionGuard is dropped.*)
DropInteraction ==
    /\ emitting = 0 /\ ask = "open"
    /\ ask' = "resolved"
    /\ gateway' = Append(gateway, Resolved)
    /\ UNCHANGED <<stream, eventQ, emitting, cmdQ, disk, agent, leader,
                   screen, history>>

SessionStep ==
    \/ SendUpdate \/ EmitBuffered \/ SendXai \/ EmitLive \/ FlushComplete
    \/ Interact \/ DropInteraction

-----------------------------------------------------------------------------
(* The persistence actor.                                                  *)

(* The chat-state actor asks for a flush of its own; one that finds        *)
(* nothing pending changes nothing and is left out.                        *)
ChatFlush ==
    /\ pending # <<>>
    /\ \A i \in DOMAIN persistQ : persistQ[i].type # "flush"
    /\ persistQ' = Append(persistQ, [type |-> "flush", for |-> {}])
    /\ UNCHANGED <<session, cmdQ, pending, file, agent, gateway, leader,
                   screen, history>>

\* Mutant: the flush leaves the pending notification where it is.
FlushPendingNothing == UNCHANGED <<file, pending>>

(* flush_pending.                                                          *)
FlushPending ==
    /\ file' = IF pending = <<>> THEN file ELSE Append(file, pending)
    /\ pending' = <<>>

(* maybe_merge_notification: an update is merged with the pending one when *)
(* both are chunks of one kind of text, a matter of their content.         *)
MaybeMerge(n) ==
    \/ /\ pending' = Append(pending, n)
       /\ file' = file
    \/ /\ pending # <<>>
       /\ pending' = <<n>>
       /\ file' = Append(file, pending)

PersistUpdate ==
    /\ persistQ # <<>> /\ Head(persistQ).type = "update"
    /\ LET n == Head(persistQ).event
       IN  IF stream[n] = "acp"
           THEN MaybeMerge(n)
           ELSE file' = Append(file, <<n>>) /\ UNCHANGED pending
    /\ persistQ' = Tail(persistQ)
    /\ UNCHANGED <<session, cmdQ, agent, gateway, leader, screen, history>>

(* What a load that waits for flush f does next once it has its answer.    *)
AfterFlush(f) == IF f.nth = 1 THEN "light" ELSE "delta"
Awaits(f) == load[f.who] = (IF f.nth = 1 THEN "flush1" ELSE "flush2")

(* Flush and FlushAndAck; an answer that comes too late goes nowhere.      *)
PersistFlush ==
    /\ persistQ # <<>> /\ Head(persistQ).type = "flush"
    /\ FlushPending
    /\ load' = [c \in Clients |->
                  IF \E f \in Head(persistQ).for : f.who = c /\ Awaits(f)
                  THEN AfterFlush(CHOOSE f \in Head(persistQ).for : TRUE)
                  ELSE load[c]]
    /\ persistQ' = Tail(persistQ)
    /\ UNCHANGED <<session, cmdQ, gate, offset, gateway, leader, screen,
                   history>>

PersistStep == ChatFlush \/ PersistUpdate \/ PersistFlush

-----------------------------------------------------------------------------
(* The clients.                                                            *)

(* The pager drops a live event at or below its stream's highwater mark.   *)
(* A replayed one is always shown and leaves the mark alone.               *)
Receive(s, m) ==
    IF m.type = "live"
    THEN IF m.event <= s.seen[stream[m.event]] THEN s
         ELSE [events |-> Append(s.events, m.event), modal |-> s.modal,
               seen |-> [s.seen EXCEPT ![stream[m.event]] = m.event]]
    ELSE IF m.type = "replay" THEN [s EXCEPT !.events = @ \o m.line]
    ELSE [s EXCEPT !.modal = (m.type = "ask")]

-----------------------------------------------------------------------------
(* The leader.                                                             *)

(* A client connects and sends session/load: the leader subscribes it, and *)
(* holds live messages back from it from now on.                           *)
Request(c) ==
    /\ online[c] = "new"
    /\ online' = [online EXCEPT ![c] = "on"]
    /\ subs' = subs \union {c}
    /\ driver' = IF driver = NoClient THEN c ELSE driver
    /\ loading' = loading \union {c}
    /\ load' = [load EXCEPT ![c] = "asked"]
    /\ UNCHANGED <<session, cmdQ, disk, gate, offset, gateway, buffer,
                   cutoff, cached, screen, history>>

\* Mutants: a live buffer outlives its client; the driver is not passed on.
DisconnectLeaks(c) ==
    /\ online[c] = "on" /\ faults < MaxFaults
    /\ faults' = faults + 1
    /\ online' = [online EXCEPT ![c] = "off"]
    /\ loading' = loading \ {c}
    /\ subs' = subs \ {c}
    /\ driver' \in IF driver # c THEN {driver}
                   ELSE IF subs' = {} THEN {NoClient} ELSE subs'
    /\ UNCHANGED <<session, cmdQ, disk, agent, gateway, cached, screen,
                   buffer, cutoff, owed, attached, late, spilled, timeouts>>

DisconnectKeepsDriver(c) ==
    /\ online[c] = "on" /\ faults < MaxFaults
    /\ faults' = faults + 1
    /\ online' = [online EXCEPT ![c] = "off"]
    /\ loading' = loading \ {c}
    /\ buffer' = [buffer EXCEPT ![c] = <<>>]
    /\ cutoff' = [cutoff EXCEPT ![c] = 0]
    /\ subs' = subs \ {c}
    /\ driver' = IF subs' = {} THEN NoClient ELSE driver
    /\ UNCHANGED <<session, cmdQ, disk, agent, gateway, cached, screen,
                   owed, attached, late, spilled, timeouts>>

(* The connection ends.  A session at work outlives its last subscriber.   *)
Disconnect(c) ==
    /\ online[c] = "on" /\ faults < MaxFaults
    /\ faults' = faults + 1
    /\ online' = [online EXCEPT ![c] = "off"]
    /\ loading' = loading \ {c}
    /\ buffer' = [buffer EXCEPT ![c] = <<>>]
    /\ cutoff' = [cutoff EXCEPT ![c] = 0]
    /\ subs' = subs \ {c}
    /\ driver' \in IF driver # c THEN {driver}
                   ELSE IF subs' = {} THEN {NoClient} ELSE subs'
    /\ UNCHANGED <<session, cmdQ, disk, agent, gateway, cached, screen,
                   owed, attached, late, spilled, timeouts>>

(* A replayed message goes to its target alone, if it is still there.      *)
Unicast(m) ==
    /\ IF online[m.to] = "on"
       THEN /\ screen' = IF m.to \in loading
                         THEN [screen EXCEPT ![m.to] = Receive(@, m)]
                         ELSE screen      \* drop_unexpected_replay
            /\ cutoff' = [cutoff EXCEPT
                            ![m.to] = IF LineSeq(m.line) > @
                                      THEN LineSeq(m.line) ELSE @]
       ELSE UNCHANGED <<screen, cutoff>>
    /\ UNCHANGED <<buffer, cached, spilled>>

HeldBack(c) == c \in loading /\ Len(buffer[c]) < MaxBuffer

(* Any other message goes to every subscriber, or to the buffer of one     *)
(* that is loading, unless that is full.  The leader remembers an open     *)
(* interaction even when nobody is subscribed.                             *)
Broadcast(m) ==
    /\ cached' = IF m.type = "live" THEN cached ELSE m.type = "ask"
    /\ buffer' = [c \in Clients |-> IF c \in subs /\ HeldBack(c)
                                    THEN Append(buffer[c], m)
                                    ELSE buffer[c]]
    /\ screen' = [c \in Clients |-> IF c \in subs /\ ~HeldBack(c)
                                    THEN Receive(screen[c], m)
                                    ELSE screen[c]]
    /\ spilled' = spilled \union {c \in loading : ~HeldBack(c)}
    /\ UNCHANGED cutoff

(* The gateway puts its next message on the wire.                          *)
Deliver ==
    /\ gateway # <<>>
    /\ LET m == Head(gateway)
       IN  IF m.type = "replay" THEN Unicast(m) ELSE Broadcast(m)
    /\ gateway' = Tail(gateway)
    /\ UNCHANGED <<session, cmdQ, disk, agent, online, subs, driver, loading,
                   owed, attached, late, timeouts, faults>>

\* Mutant: the buffer is sent on as it is.
KeptAll(c, m) == TRUE

(* A buffered message is sent on unless the replay has got past it.        *)
Kept(c, m) == m.type = "live" => m.event > cutoff[c]

(* The client's screen once the buffered messages have been sent on.       *)
Released(c) ==
    LET after[i \in 0 .. Len(buffer[c])] ==
          IF i = 0 THEN screen[c]
          ELSE IF Kept(c, buffer[c][i])
               THEN Receive(after[i - 1], buffer[c][i])
               ELSE after[i - 1]
    IN  after[Len(buffer[c])]

\* Mutant: a client that attaches is not told of the open interaction.
AnsweredNoAsk(c) ==
    /\ screen' = IF c \in loading
                 THEN [screen EXCEPT ![c] = Released(c)]
                 ELSE screen
    /\ loading' = loading \ {c}
    /\ buffer' = [buffer EXCEPT ![c] = <<>>]
    /\ cutoff' = [cutoff EXCEPT ![c] = 0]
    /\ attached' = [attached EXCEPT ![c] = Len(stream)]
    /\ UNCHANGED <<online, subs, driver, cached>>

(* The response to c's load, if c is still there: it is followed by the    *)
(* buffered messages and by the interaction that is open.                  *)
Answered(c) ==
    /\ screen' = IF c \in loading
                 THEN [screen EXCEPT ![c] = IF cached
                                            THEN Receive(Released(c), Ask)
                                            ELSE Released(c)]
                 ELSE screen
    /\ loading' = loading \ {c}
    /\ buffer' = [buffer EXCEPT ![c] = <<>>]
    /\ cutoff' = [cutoff EXCEPT ![c] = 0]
    /\ attached' = [attached EXCEPT ![c] = Len(stream)]
    /\ UNCHANGED <<online, subs, driver, cached>>

-----------------------------------------------------------------------------
(* load_session.  The loads share the agent's thread and take turns at     *)
(* their awaits; from the delta to the opening of the gate there is none.  *)

AgentFree(c) == \A d \in Clients \ {c} : load[d] # "open"

Goto(c, l) == load' = [load EXCEPT ![c] = l]

SendFlush(c, k) == cmdQ' = Append(cmdQ, [who |-> c, nth |-> k])

(* The completions of c's replayed messages have all arrived.              *)
Drained(c) == \A i \in DOMAIN gateway :
                 gateway[i].type = "replay" => gateway[i].to # c

Replayed(c, lines) == [i \in DOMAIN lines |-> Replay(c, lines[i])]

CloseGate(c) ==
    /\ load[c] = "asked" /\ AgentFree(c)
    /\ gate' = FALSE
    /\ SendFlush(c, 1)
    /\ Goto(c, "flush1")
    /\ UNCHANGED <<session, disk, offset, gateway, leader, screen, history>>

\* Mutant: the second flush has no deadline.
FlushTimeoutFirst(c) ==
    /\ AgentFree(c) /\ timeouts < MaxTimeouts
    /\ timeouts' = timeouts + 1
    /\ load[c] = "flush1" /\ Goto(c, "light")
    /\ UNCHANGED <<session, cmdQ, disk, gate, offset, gateway, leader,
                   screen, owed, attached, late, spilled, faults>>

(* flush_session gives up after five seconds.  The first time that is only *)
(* logged; the second time the delta is skipped.                           *)
FlushTimeout(c) ==
    /\ AgentFree(c) /\ timeouts < MaxTimeouts
    /\ timeouts' = timeouts + 1
    /\ \/ load[c] = "flush1" /\ Goto(c, "light") /\ UNCHANGED late
       \/ load[c] = "flush2" /\ Goto(c, "open") /\ late' = late \union {c}
    /\ UNCHANGED <<session, cmdQ, disk, gate, offset, gateway, leader,
                   screen, owed, attached, spilled, faults>>

(* build_summary_client or load_light fails: load_session returns the      *)
(* error at once.                                                          *)
LoadFails(c) ==
    /\ load[c] = "light" /\ AgentFree(c) /\ faults < MaxFaults
    /\ faults' = faults + 1
    /\ Goto(c, "failed")
    /\ Answered(c)
    /\ UNCHANGED <<session, cmdQ, disk, gate, offset, gateway, owed, late,
                   spilled, timeouts>>

(* replay_session_updates up to its await of the completions.              *)
ReplayUpdates(c) ==
    /\ load[c] = "light" /\ AgentFree(c)
    /\ offset' = [offset EXCEPT ![c] = Len(file)]
    /\ gateway' = gateway \o Replayed(c, file)
    /\ Goto(c, "replay")
    /\ UNCHANGED <<session, cmdQ, disk, gate, leader, screen, history>>

SecondFlush(c) ==
    /\ load[c] = "replay" /\ Drained(c) /\ AgentFree(c)
    /\ SendFlush(c, 2)
    /\ Goto(c, "flush2")
    /\ UNCHANGED <<session, disk, gate, offset, gateway, leader, screen,
                   history>>

(* replay_session_updates_from_offset_enqueue.                             *)
ReplayDelta(c) ==
    /\ load[c] = "delta" /\ AgentFree(c)
    /\ gateway' = gateway \o
                    Replayed(c, SubSeq(file, offset[c] + 1, Len(file)))
    /\ Goto(c, "open")
    /\ UNCHANGED <<session, cmdQ, disk, gate, offset, leader, screen,
                   history>>

\* Mutant: a load whose second flush failed leaves the gate as it is.
OpenGateFlushed(c) ==
    /\ load[c] = "open"
    /\ gate' = (gate \/ c \notin late)
    /\ Goto(c, "drain")
    /\ UNCHANGED <<session, cmdQ, disk, offset, gateway, leader, screen,
                   history>>

OpenGate(c) ==
    /\ load[c] = "open"
    /\ gate' = TRUE
    /\ Goto(c, "drain")
    /\ UNCHANGED <<session, cmdQ, disk, offset, gateway, leader, screen,
                   history>>

Respond(c) ==
    /\ load[c] = "drain" /\ Drained(c) /\ AgentFree(c)
    /\ Goto(c, "done")
    /\ Answered(c)
    /\ UNCHANGED <<session, cmdQ, disk, gate, offset, gateway, owed, late,
                   spilled, timeouts, faults>>

AgentStep(c) ==
    \/ CloseGate(c) \/ FlushTimeout(c) \/ LoadFails(c) \/ ReplayUpdates(c)
    \/ SecondFlush(c) \/ ReplayDelta(c) \/ OpenGate(c) \/ Respond(c)

-----------------------------------------------------------------------------
Next ==
    \/ SessionStep
    \/ PersistStep
    \/ Deliver
    \/ \E c \in Clients : Request(c) \/ Disconnect(c) \/ AgentStep(c)

(* The agent's tasks and the gateway keep running.  Nothing is assumed of  *)
(* the session's thread, which a tool may hold up, of its persistence      *)
(* actor, which waits for the disk, or of the clients.                     *)
Fairness ==
    /\ \A c \in Clients : WF_vars(AgentStep(c))
    /\ WF_vars(Deliver)

Spec == Init /\ [][Next]_vars /\ Fairness

-----------------------------------------------------------------------------
Labels == {"idle", "asked", "flush1", "light", "replay", "flush2", "delta",
           "open", "drain", "done", "failed"}

SessionType ==
    /\ stream \in Seq(Streams) /\ Len(stream) <= MaxEvents
    /\ eventQ \in Seq(Events) /\ emitting \in 0 .. MaxEvents
    /\ cmdQ \in Seq(Flushes)
    /\ ask \in {"none", "open", "resolved"}

DiskType ==
    /\ persistQ \in Seq(Writes)
    /\ pending \in Seq(Events) /\ file \in Seq(Lines)

AgentType ==
    /\ gate \in BOOLEAN /\ gateway \in Seq(Messages)
    /\ load \in [Clients -> Labels]
    /\ offset \in [Clients -> Nat]
    /\ \A c \in Clients : offset[c] <= Len(file)

(* The leader holds messages back only from clients whose load is not      *)
(* answered, and keeps a cutoff only for those.                            *)
LeaderType ==
    /\ online \in [Clients -> {"new", "on", "off"}]
    /\ subs \subseteq Clients /\ driver \in Clients \union {NoClient}
    /\ loading \subseteq Clients
    /\ buffer \in [Clients -> Seq(Untargeted)]
    /\ cutoff \in [Clients -> 0 .. MaxEvents]
    /\ cached \in BOOLEAN
    /\ \A c \in Clients \ loading : buffer[c] = <<>> /\ cutoff[c] = 0

HistoryType ==
    /\ owed \in [Clients -> 0 .. MaxEvents]
    /\ attached \in [Clients -> 0 .. MaxEvents]
    /\ late \subseteq Clients /\ spilled \subseteq Clients
    /\ timeouts \in 0 .. MaxTimeouts /\ faults \in 0 .. MaxFaults

(* Types of the state.  A replay goes only to a client whose load is not   *)
(* answered, or LeaderType would not hold.                                 *)
TypeOK ==
    /\ SessionType /\ DiskType /\ AgentType /\ LeaderType
    /\ screen \in [Clients -> Screens]
    /\ HistoryType

Shown(c) == ToSet(screen[c].events)
Attached(c) == online[c] = "on" /\ load[c] = "done"

(* The event has gone everywhere it goes.                                  *)
Settled(n) ==
    /\ emitting # n /\ n \notin ToSet(eventQ)
    /\ Live(n) \notin ToSet(gateway)

(* The leader's routing tables name connected clients only, and a session  *)
(* with a subscriber has a driver among them, whoever disconnects and      *)
(* whatever load is under way (server.rs, Disconnected).                   *)
RoutesLive ==
    /\ loading \subseteq subs
    /\ \A c \in subs : online[c] = "on"
    /\ IF subs = {} THEN driver = NoClient ELSE driver \in subs

(* When a load is answered and its second flush was, the client has every  *)
(* event that was stamped when the session took that flush: the barrier    *)
(* reaches behind the pending merge, and the delta starts where the replay *)
(* ended, whatever other loads did to the gate and the file meanwhile.     *)
LoadComplete ==
    \A c \in Clients \ late : Attached(c) => 1 .. owed[c] \subseteq Shown(c)

(* A client sees the events of one stream in the order of their ids, the   *)
(* replayed and the live ones together, as the highwater mark of the pager *)
(* presumes, unless its live buffer overflowed.                            *)
StreamOrder ==
    \A c \in Clients \ spilled :
      LET ev == screen[c].events
      IN  \A i, j \in DOMAIN ev :
            i < j /\ stream[ev[i]] = stream[ev[j]] => ev[i] <= ev[j]

(* One-shots reach a client from the moment its load is answered, while    *)
(* others load, fail to load or leave.                                     *)
OneShotsReach ==
    \A c \in Clients : Attached(c) =>
      \A n \in attached[c] + 1 .. Len(stream) :
        stream[n] = "xai" /\ Settled(n) => n \in Shown(c)

(* Once the messages about an interaction are through, every attached      *)
(* client shows it exactly while it is open: one that attaches later gets  *)
(* it from the leader, and none is left with a modal nobody can answer.    *)
ModalAgreement ==
    ToSet(gateway) \intersect {Ask, Resolved} = {} =>
      \A c \in Clients \ spilled :
        online[c] = "on" /\ load[c] \in {"done", "failed"} =>
          (screen[c].modal <=> ask = "open")

(* Every load is answered, even when the session's thread or its disk      *)
(* hangs: the flush timeouts see to it.                                    *)
LoadAnswered ==
    \A c \in Clients : load[c] = "asked" ~> load[c] \in {"done", "failed"}

(* A gate that a load has closed is opened again, unless a load fails.     *)
GateReopens == ~gate ~> gate \/ \E c \in Clients : load[c] = "failed"

(* An attached client is sent every event that is emitted from then on:    *)
(* another client's load does not black it out.                            *)
NoBlackout ==
    \A c \in Clients : Attached(c) =>
      \A n \in attached[c] + 1 .. Len(stream) : Settled(n) => n \in Shown(c)

(* When a load is answered, the leader drops from the buffer only events   *)
(* that the replay has shown to the client ("each event reaches the client *)
(* exactly once").  It does not hold: the cutoff is one number for two     *)
(* streams, so a replayed one-shot can take an update before it along.     *)
DropsOnlyReplayed ==
    [][\A c \in Clients :
         c \in loading /\ c \notin loading' /\ online'[c] = "on" =>
           \A i \in DOMAIN buffer[c] :
             buffer[c][i].type = "live" =>
               buffer[c][i].event \in ToSet(screen'[c].events)]_vars
=============================================================================
