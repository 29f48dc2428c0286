-------------------------- MODULE SessionLoadProofs --------------------------
(***************************************************************************)
(* Theorems about SessionLoad, for any sets of clients and residents and   *)
(* any bounds: its types, the interaction every client agrees on, the      *)
(* one-shots that reach it, what a load has shown when it is answered, the *)
(* order of what a client shows, and the leader's routing tables.          *)
(***************************************************************************)
EXTENDS SessionLoad, QueueOpsProofs

\* The actions.
LEMMA NextCases ==
    ASSUME [Next]_vars
    PROVE  \/ SendUpdate \/ EmitBuffered \/ SendXai \/ EmitLive \/ FlushComplete
           \/ Interact \/ DropInteraction \/ ChatFlush \/ PersistUpdate \/ PersistFlush
           \/ Deliver
           \/ \E c \in Clients :
                 \/ Request(c) \/ Disconnect(c) \/ CloseGate(c) \/ FlushTimeout(c)
                 \/ LoadFails(c) \/ ReplayUpdates(c) \/ SecondFlush(c) \/ ReplayDelta(c)
                 \/ OpenGate(c) \/ Respond(c)
           \/ UNCHANGED vars
BY DEF Next, SessionStep, PersistStep, AgentStep

\* Which actions change which variables.
LEMMA StampSteps ==
    ASSUME [Next]_vars
    PROVE  \/ SendUpdate \/ SendXai
           \/ UNCHANGED stream
BY NextCases DEF EmitBuffered, EmitLive, FlushComplete, Interact, DropInteraction,
    ChatFlush, PersistUpdate, PersistFlush, Deliver, Request, Disconnect, CloseGate,
    FlushTimeout, LoadFails, ReplayUpdates, SecondFlush, ReplayDelta, OpenGate, Respond,
    vars, session, disk, agent, leader, history

\* The same for the session's queue,
LEMMA QueueSteps ==
    ASSUME [Next]_vars
    PROVE  \/ SendUpdate \/ EmitBuffered
           \/ UNCHANGED eventQ
BY NextCases DEF SendXai, EmitLive, FlushComplete, Interact, DropInteraction, ChatFlush,
    PersistUpdate, PersistFlush, Deliver, Request, Disconnect, CloseGate, FlushTimeout,
    LoadFails, ReplayUpdates, SecondFlush, ReplayDelta, OpenGate, Respond, vars, session,
    disk, agent, leader, history

\* for what it emits,
LEMMA EmitSteps ==
    ASSUME [Next]_vars
    PROVE  \/ EmitBuffered \/ SendXai \/ EmitLive
           \/ UNCHANGED emitting
BY NextCases DEF SendUpdate, FlushComplete, Interact, DropInteraction, ChatFlush,
    PersistUpdate, PersistFlush, Deliver, Request, Disconnect, CloseGate, FlushTimeout,
    LoadFails, ReplayUpdates, SecondFlush, ReplayDelta, OpenGate, Respond, vars, session,
    disk, agent, leader, history

\* for its interaction,
LEMMA AskSteps ==
    ASSUME [Next]_vars
    PROVE  \/ Interact \/ DropInteraction
           \/ UNCHANGED ask
BY NextCases DEF SendUpdate, EmitBuffered, SendXai, EmitLive, FlushComplete, ChatFlush,
    PersistUpdate, PersistFlush, Deliver, Request, Disconnect, CloseGate, FlushTimeout,
    LoadFails, ReplayUpdates, SecondFlush, ReplayDelta, OpenGate, Respond, vars, session,
    disk, agent, leader, history

\* for the flushes it is asked for,
LEMMA CmdSteps ==
    ASSUME [Next]_vars
    PROVE  \/ FlushComplete
           \/ \E c \in Clients : CloseGate(c) \/ SecondFlush(c)
           \/ UNCHANGED cmdQ
BY NextCases DEF SendUpdate, EmitBuffered, SendXai, EmitLive, Interact, DropInteraction,
    ChatFlush, PersistUpdate, PersistFlush, Deliver, Request, Disconnect, FlushTimeout,
    LoadFails, ReplayUpdates, ReplayDelta, OpenGate, Respond, vars, session, disk, agent,
    leader, history, Goto

\* for the queue of the persistence actor,
LEMMA WriteSteps ==
    ASSUME [Next]_vars
    PROVE  \/ EmitBuffered \/ SendXai \/ FlushComplete \/ ChatFlush \/ PersistUpdate \/ PersistFlush
           \/ UNCHANGED persistQ
BY NextCases DEF SendUpdate, EmitLive, Interact, DropInteraction, Deliver, Request,
    Disconnect, CloseGate, FlushTimeout, LoadFails, ReplayUpdates, SecondFlush, ReplayDelta,
    OpenGate, Respond, vars, session, disk, agent, leader, history

\* for what it has,
LEMMA DiskSteps ==
    ASSUME [Next]_vars
    PROVE  \/ PersistUpdate \/ PersistFlush
           \/ UNCHANGED <<pending, file>>
BY NextCases DEF SendUpdate, EmitBuffered, SendXai, EmitLive, FlushComplete, Interact,
    DropInteraction, ChatFlush, Deliver, Request, Disconnect, CloseGate, FlushTimeout,
    LoadFails, ReplayUpdates, SecondFlush, ReplayDelta, OpenGate, Respond, vars, session,
    disk, agent, leader, history

\* for the gateway,
LEMMA WireSteps ==
    ASSUME [Next]_vars
    PROVE  \/ EmitLive \/ Interact \/ DropInteraction \/ Deliver
           \/ \E c \in Clients : ReplayUpdates(c) \/ ReplayDelta(c)
           \/ UNCHANGED gateway
BY NextCases DEF SendUpdate, EmitBuffered, SendXai, FlushComplete, ChatFlush, PersistUpdate,
    PersistFlush, Request, Disconnect, CloseGate, FlushTimeout, LoadFails, SecondFlush,
    OpenGate, Respond, vars, session, disk, agent, leader, history

\* for the loads,
LEMMA LoadSteps ==
    ASSUME [Next]_vars
    PROVE  \/ PersistFlush
           \/ \E c \in Clients : Request(c) \/ CloseGate(c) \/ FlushTimeout(c) \/ LoadFails(c) \/ ReplayUpdates(c) \/ SecondFlush(c) \/ ReplayDelta(c) \/ OpenGate(c) \/ Respond(c)
           \/ UNCHANGED load
BY NextCases DEF SendUpdate, EmitBuffered, SendXai, EmitLive, FlushComplete, Interact,
    DropInteraction, ChatFlush, PersistUpdate, Deliver, Disconnect, vars, session, disk,
    agent, leader, history

\* for their offsets,
LEMMA OffsetSteps ==
    ASSUME [Next]_vars
    PROVE  \/ \E c \in Clients : ReplayUpdates(c)
           \/ UNCHANGED offset
BY NextCases DEF SendUpdate, EmitBuffered, SendXai, EmitLive, FlushComplete, Interact,
    DropInteraction, ChatFlush, PersistUpdate, PersistFlush, Deliver, Request, Disconnect,
    CloseGate, FlushTimeout, LoadFails, SecondFlush, ReplayDelta, OpenGate, Respond, vars,
    session, disk, agent, leader, history

\* for the leader's routes,
LEMMA RouteSteps ==
    ASSUME [Next]_vars
    PROVE  \/ \E c \in Clients : Request(c) \/ Disconnect(c)
           \/ UNCHANGED <<online, subs, driver>>
BY NextCases DEF SendUpdate, EmitBuffered, SendXai, EmitLive, FlushComplete, Interact,
    DropInteraction, ChatFlush, PersistUpdate, PersistFlush, Deliver, CloseGate,
    FlushTimeout, LoadFails, ReplayUpdates, SecondFlush, ReplayDelta, OpenGate, Respond,
    vars, session, disk, agent, leader, history, Answered

\* for the loads it knows of,
LEMMA LoadingSteps ==
    ASSUME [Next]_vars
    PROVE  \/ \E c \in Clients : Request(c) \/ Disconnect(c) \/ LoadFails(c) \/ Respond(c)
           \/ UNCHANGED loading
BY NextCases DEF SendUpdate, EmitBuffered, SendXai, EmitLive, FlushComplete, Interact,
    DropInteraction, ChatFlush, PersistUpdate, PersistFlush, Deliver, CloseGate,
    FlushTimeout, ReplayUpdates, SecondFlush, ReplayDelta, OpenGate, vars, session, disk,
    agent, leader, history

\* for what it holds back,
LEMMA BufferSteps ==
    ASSUME [Next]_vars
    PROVE  \/ Deliver
           \/ \E c \in Clients : Disconnect(c) \/ LoadFails(c) \/ Respond(c)
           \/ UNCHANGED <<buffer, cutoff>>
BY NextCases DEF SendUpdate, EmitBuffered, SendXai, EmitLive, FlushComplete, Interact,
    DropInteraction, ChatFlush, PersistUpdate, PersistFlush, Request, CloseGate,
    FlushTimeout, ReplayUpdates, SecondFlush, ReplayDelta, OpenGate, vars, session, disk,
    agent, leader, history

\* for what the clients show,
LEMMA ScreenSteps ==
    ASSUME [Next]_vars
    PROVE  \/ Deliver
           \/ \E c \in Clients : LoadFails(c) \/ Respond(c)
           \/ UNCHANGED screen
BY NextCases DEF SendUpdate, EmitBuffered, SendXai, EmitLive, FlushComplete, Interact,
    DropInteraction, ChatFlush, PersistUpdate, PersistFlush, Request, Disconnect, CloseGate,
    FlushTimeout, ReplayUpdates, SecondFlush, ReplayDelta, OpenGate, vars, session, disk,
    agent, leader, history

\* for the interaction the leader remembers,
LEMMA CachedSteps ==
    ASSUME [Next]_vars
    PROVE  \/ Deliver
           \/ UNCHANGED cached
BY NextCases DEF SendUpdate, EmitBuffered, SendXai, EmitLive, FlushComplete, Interact,
    DropInteraction, ChatFlush, PersistUpdate, PersistFlush, Request, Disconnect, CloseGate,
    FlushTimeout, LoadFails, ReplayUpdates, SecondFlush, ReplayDelta, OpenGate, Respond,
    vars, session, disk, agent, leader, history, Answered

\* and for what is owed to a load.
LEMMA OwedSteps ==
    ASSUME [Next]_vars
    PROVE  \/ FlushComplete
           \/ UNCHANGED owed
BY NextCases DEF SendUpdate, EmitBuffered, SendXai, EmitLive, Interact, DropInteraction,
    ChatFlush, PersistUpdate, PersistFlush, Deliver, Request, Disconnect, CloseGate,
    FlushTimeout, LoadFails, ReplayUpdates, SecondFlush, ReplayDelta, OpenGate, Respond,
    vars, session, disk, agent, leader, history, Answered

\* The same for what was stamped when a load was answered,
LEMMA AttachedSteps ==
    ASSUME [Next]_vars
    PROVE  \/ \E c \in Clients : LoadFails(c) \/ Respond(c)
           \/ UNCHANGED attached
BY NextCases DEF SendUpdate, EmitBuffered, SendXai, EmitLive, FlushComplete, Interact,
    DropInteraction, ChatFlush, PersistUpdate, PersistFlush, Deliver, Request, Disconnect,
    CloseGate, FlushTimeout, ReplayUpdates, SecondFlush, ReplayDelta, OpenGate, vars,
    session, disk, agent, leader, history

\* for the loads that gave up on a flush,
LEMMA LateSteps ==
    ASSUME [Next]_vars
    PROVE  \/ \E c \in Clients : FlushTimeout(c)
           \/ UNCHANGED <<late, timeouts>>
BY NextCases DEF SendUpdate, EmitBuffered, SendXai, EmitLive, FlushComplete, Interact,
    DropInteraction, ChatFlush, PersistUpdate, PersistFlush, Deliver, Request, Disconnect,
    CloseGate, LoadFails, ReplayUpdates, SecondFlush, ReplayDelta, OpenGate, Respond, vars,
    session, disk, agent, leader, history

\* for the buffers that overflowed,
LEMMA SpilledSteps ==
    ASSUME [Next]_vars
    PROVE  \/ Deliver
           \/ UNCHANGED spilled
BY NextCases DEF SendUpdate, EmitBuffered, SendXai, EmitLive, FlushComplete, Interact,
    DropInteraction, ChatFlush, PersistUpdate, PersistFlush, Request, Disconnect, CloseGate,
    FlushTimeout, LoadFails, ReplayUpdates, SecondFlush, ReplayDelta, OpenGate, Respond,
    vars, session, disk, agent, leader, history

\* and for the faults.
LEMMA FaultSteps ==
    ASSUME [Next]_vars
    PROVE  \/ \E c \in Clients : Disconnect(c) \/ LoadFails(c)
           \/ UNCHANGED faults
BY NextCases DEF SendUpdate, EmitBuffered, SendXai, EmitLive, FlushComplete, Interact,
    DropInteraction, ChatFlush, PersistUpdate, PersistFlush, Deliver, Request, CloseGate,
    FlushTimeout, ReplayUpdates, SecondFlush, ReplayDelta, OpenGate, Respond, vars, session,
    disk, agent, leader, history

-------------------------------------------------------------------------------
(* Sequences and loops *)

\* What Tail, Append and \o do to the positions of a sequence.
LEMMA TailAt ==
    ASSUME NEW T, NEW q \in Seq(T), q # <<>>
    PROVE  /\ Tail(q) \in Seq(T) /\ Len(q) \in Nat \ {0} /\ Len(Tail(q)) = Len(q) - 1
           /\ 1 \in DOMAIN q /\ Head(q) = q[1] /\ Head(q) \in T
           /\ \A i \in DOMAIN Tail(q) : i + 1 \in DOMAIN q /\ Tail(q)[i] = q[i + 1]
           /\ \A i \in DOMAIN q \ {1} : i - 1 \in DOMAIN Tail(q) /\ Tail(q)[i - 1] = q[i]
OBVIOUS

\* Append adds the last position.
LEMMA AppendAt ==
    ASSUME NEW T, NEW q \in Seq(T), NEW x \in T
    PROVE  /\ Append(q, x) \in Seq(T) /\ Len(q) \in Nat /\ Len(Append(q, x)) = Len(q) + 1
           /\ DOMAIN Append(q, x) = DOMAIN q \union {Len(q) + 1}
           /\ Append(q, x)[Len(q) + 1] = x /\ Len(q) + 1 \notin DOMAIN q
           /\ \A i \in DOMAIN q : i < Len(q) + 1 /\ Append(q, x)[i] = q[i]
OBVIOUS

\* A position of a concatenation is one of either part.
LEMMA ConcatAt ==
    ASSUME NEW T, NEW q \in Seq(T), NEW r \in Seq(T)
    PROVE  /\ q \o r \in Seq(T) /\ Len(q) \in Nat /\ Len(q \o r) = Len(q) + Len(r)
           /\ \A i \in DOMAIN q : i \in DOMAIN (q \o r) /\ (q \o r)[i] = q[i] /\ i <= Len(q)
           /\ \A i \in DOMAIN r : /\ i + Len(q) \in DOMAIN (q \o r) /\ 0 < i
                                  /\ (q \o r)[i + Len(q)] = r[i]
           /\ \A i \in DOMAIN (q \o r) \ DOMAIN q :
                 i - Len(q) \in DOMAIN r /\ (q \o r)[i] = r[i - Len(q)]
OBVIOUS

\* The positions of a suffix.
LEMMA SuffixAt ==
    ASSUME NEW T, NEW q \in Seq(T), NEW a \in Nat, a <= Len(q)
    PROVE  /\ SubSeq(q, a + 1, Len(q)) \in Seq(T)
           /\ \A i \in 1..(Len(q) - a) : /\ i \in DOMAIN SubSeq(q, a + 1, Len(q))
                                          /\ SubSeq(q, a + 1, Len(q))[i] = q[i + a]
           /\ \A i \in DOMAIN SubSeq(q, a + 1, Len(q)) : i \in 1..(Len(q) - a)
OBVIOUS

\* What these operations do to its type.
LEMMA SeqTypes ==
    ASSUME NEW T, NEW q \in Seq(T)
    PROVE  /\ Len(q) \in Nat
           /\ \A x \in T : Append(q, x) \in Seq(T) /\ Len(Append(q, x)) = Len(q) + 1
           /\ q # <<>> => Tail(q) \in Seq(T) /\ Head(q) \in T
           /\ \A r \in Seq(T) : q \o r \in Seq(T)
OBVIOUS

\* The elements of a sequence after these operations.
LEMMA SetAfter ==
    ASSUME NEW T, NEW q \in Seq(T)
    PROVE  /\ ToSet(q) \subseteq T
           /\ \A x \in T : ToSet(Append(q, x)) = ToSet(q) \union {x}
           /\ \A r \in Seq(T) : ToSet(q \o r) = ToSet(q) \union ToSet(r)
           /\ q # <<>> => ToSet(q) = {Head(q)} \union ToSet(Tail(q)) /\ Head(q) \in ToSet(q)
           /\ q = <<>> => ToSet(q) = {}
           /\ \A x : ToSet(<<x>>) = {x}
<1>1. ToSet(q) \subseteq T
    BY DEF ToSet
<1>2. ASSUME NEW x \in T PROVE ToSet(Append(q, x)) = ToSet(q) \union {x}
    BY AppendAt DEF ToSet
<1>3. ASSUME NEW r \in Seq(T) PROVE ToSet(q \o r) = ToSet(q) \union ToSet(r)
    <2>1. ASSUME NEW y \in ToSet(q \o r) PROVE y \in ToSet(q) \union ToSet(r)
        BY ConcatAt DEF ToSet
    <2>2. ASSUME NEW i \in DOMAIN q PROVE q[i] \in ToSet(q \o r)
        BY ConcatAt DEF ToSet
    <2>3. ASSUME NEW i \in DOMAIN r PROVE r[i] \in ToSet(q \o r)
        <3>1. i + Len(q) \in DOMAIN (q \o r) /\ (q \o r)[i + Len(q)] = r[i]
            BY ConcatAt
        <3> QED BY <3>1 DEF ToSet
    <2> QED BY <2>1, <2>2, <2>3 DEF ToSet
<1>4. q # <<>> => ToSet(q) = {Head(q)} \union ToSet(Tail(q)) /\ Head(q) \in ToSet(q)
    <2> SUFFICES ASSUME q # <<>>
                 PROVE  ToSet(q) = {Head(q)} \union ToSet(Tail(q)) /\ Head(q) \in ToSet(q)
        OBVIOUS
    <2>1. ASSUME NEW i \in DOMAIN q PROVE q[i] \in {Head(q)} \union ToSet(Tail(q))
        <3>1. CASE i = 1
            BY <3>1, TailAt
        <3>2. CASE i # 1
            <4>1. i - 1 \in DOMAIN Tail(q) /\ Tail(q)[i - 1] = q[i]
                BY <3>2, TailAt
            <4> QED BY <4>1 DEF ToSet
        <3> QED BY <3>1, <3>2
    <2>2. ASSUME NEW y \in {Head(q)} \union ToSet(Tail(q)) PROVE y \in ToSet(q)
        BY TailAt DEF ToSet
    <2>3. Head(q) \in ToSet(q)
        BY TailAt DEF ToSet
    <2> QED BY <2>1, <2>2, <2>3 DEF ToSet
<1>5. (q = <<>> => ToSet(q) = {}) /\ \A x : ToSet(<<x>>) = {x}
    BY DEF ToSet
<1> QED BY <1>1, <1>2, <1>3, <1>4, <1>5

\* What holds before a loop and is kept by each of its rounds holds after it.
LEMMA Rounds ==
    ASSUME NEW n \in Nat, NEW G, 0 \in G, \A i \in 1..n : i - 1 \in G => i \in G
    PROVE  n \in G
<1> DEFINE B == {i \in 0..n : i \notin G}
<1> SUFFICES ASSUME n \notin G PROVE FALSE
    OBVIOUS
<1>1. B \subseteq Nat /\ B # {}
    OBVIOUS
<1>2. PICK i \in B : \A k \in B : i <= k
    BY <1>1, LeastNat
<1>3. i \in 1..n /\ i - 1 \in 0..n /\ ~(i <= i - 1)
    OBVIOUS
<1> QED BY <1>2, <1>3

-------------------------------------------------------------------------------
(* The release of the live buffer *)

\* One round of the loop that sends the buffered messages of client c on.
Round(c, s, m) == IF Kept(c, m) THEN Receive(s, m) ELSE s

\* f[i] is the screen after i rounds of a loop over q that begins with s.
RoundsOf(f, c, q, s, n) ==
    f = [i \in 0..n |-> IF i = 0 THEN s ELSE Round(c, f[i - 1], q[i])]

\* There are such screens: after one more round there is one more.
LEMMA RoundsExist ==
    ASSUME NEW c, NEW q, NEW s, NEW n \in Nat
    PROVE  \E f : RoundsOf(f, c, q, s, n)
<1> USE DEF RoundsOf
<1> DEFINE Has(k) == \E f : RoundsOf(f, c, q, s, k)
           G == {k \in Nat : Has(k)}
<1>1. 0 \in G
    <2> DEFINE f == [i \in 0..0 |-> s]
    <2>1. f = [i \in 0..0 |-> IF i = 0 THEN s ELSE Round(c, f[i - 1], q[i])]
        OBVIOUS
    <2>2. Has(0)
        BY <2>1
    <2> QED BY <2>2
<1>2. ASSUME NEW k \in 1..n, k - 1 \in G PROVE k \in G
    <2>1. PICK f : f = [i \in 0..(k - 1) |-> IF i = 0 THEN s ELSE Round(c, f[i - 1], q[i])]
        BY <1>2
    <2> DEFINE g == [i \in 0..k |-> IF i = k THEN Round(c, f[k - 1], q[k]) ELSE f[i]]
    <2>2. ASSUME NEW i \in 0..k
          PROVE  g[i] = IF i = 0 THEN s ELSE Round(c, g[i - 1], q[i])
        <3>1. CASE i = k
            <4>1. k # 0 /\ k - 1 \in 0..k /\ k - 1 # k
                OBVIOUS
            <4> QED BY <3>1, <4>1
        <3>2. CASE i # k
            <4>1. i \in 0..(k - 1) /\ g[i] = f[i]
                BY <3>2
            <4>2. f[i] = IF i = 0 THEN s ELSE Round(c, f[i - 1], q[i])
                BY <2>1, <4>1
            <4>3. i # 0 => i - 1 \in 0..k /\ i - 1 # k
                BY <4>1
            <4>4. i # 0 => g[i - 1] = f[i - 1]
                BY <4>3
            <4> QED BY <4>1, <4>2, <4>4
        <3> QED BY <3>1, <3>2
    <2>3. g = [i \in 0..k |-> IF i = 0 THEN s ELSE Round(c, g[i - 1], q[i])]
        <3>1. DOMAIN g = 0..k /\ g = [i \in 0..k |-> g[i]]
            OBVIOUS
        <3> HIDE DEF g
        <3> QED BY <2>2, <3>1
    <2> HIDE DEF g
    <2>4. Has(k)
        BY <2>3
    <2> QED BY <2>4
<1> HIDE DEF Has
<1>3. n \in G
    <2> HIDE DEF G
    <2> QED BY <1>1, <1>2, Rounds
<1> QED BY <1>3 DEF Has

\* Released is where the loop ends.
LEMMA ReleasedRounds ==
    ASSUME NEW c, buffer[c] \in Seq(Untargeted)
    PROVE  \E f : /\ f[0] = screen[c] /\ Released(c) = f[Len(buffer[c])]
                  /\ \A i \in 1..Len(buffer[c]) : f[i] = Round(c, f[i - 1], buffer[c][i])
<1> DEFINE n == Len(buffer[c])
           Is(f) == RoundsOf(f, c, buffer[c], screen[c], n)
           g == CHOOSE f : Is(f)
<1>1. n \in Nat
    OBVIOUS
<1>2. \E f : Is(f)
    <2> HIDE DEF n
    <2> QED BY <1>1, RoundsExist
<1>3. Is(g)
    <2> HIDE DEF Is
    <2> QED BY <1>2
<1>4. Released(c) = g[n]
    BY DEF Released, Round, RoundsOf
<1>5. g[0] = screen[c]
    <2> HIDE DEF g, n
    <2> QED BY <1>1, <1>3 DEF RoundsOf
<1>6. ASSUME NEW i \in 1..n PROVE g[i] = Round(c, g[i - 1], buffer[c][i])
    <2> HIDE DEF g, n
    <2> QED BY <1>1, <1>3 DEF RoundsOf
<1> HIDE DEF g
<1> QED BY <1>4, <1>5, <1>6

\* An invariant of the loop, which may depend on the round, holds of the released screen.
LEMMA ReleasedInv ==
    ASSUME NEW c, buffer[c] \in Seq(Untargeted), NEW G, screen[c] \in G[0],
           \A i \in 1..Len(buffer[c]) : \A s \in G[i - 1] : Round(c, s, buffer[c][i]) \in G[i]
    PROVE  Released(c) \in G[Len(buffer[c])]
<1>1. PICK f : /\ f[0] = screen[c] /\ Released(c) = f[Len(buffer[c])]
               /\ \A i \in 1..Len(buffer[c]) : f[i] = Round(c, f[i - 1], buffer[c][i])
    BY ReleasedRounds
<1> DEFINE n == Len(buffer[c])
           H == {i \in Nat : f[i] \in G[i]}
<1>2. n \in Nat /\ 0 \in H
    BY <1>1
<1>3. ASSUME NEW i \in 1..n, i - 1 \in H PROVE i \in H
    <2>1. f[i] = Round(c, f[i - 1], buffer[c][i]) /\ f[i - 1] \in G[i - 1] /\ i \in Nat
        BY <1>1, <1>3
    <2> QED BY <1>3, <2>1
<1>4. n \in H
    <2> HIDE DEF H, n
    <2> QED BY <1>2, <1>3, Rounds
<1> QED BY <1>1, <1>4

-------------------------------------------------------------------------------
(* Types and phases *)

\* A load is known to the leader from its request to its answer or the end of the connection,
\* and a message of a replay is on the wire only while load_session waits for it.
Busy == {"asked", "flush1", "light", "replay", "flush2", "delta", "open", "drain"}
Replaying == {"replay", "open", "drain"}
PhaseInv ==
    /\ \A c \in Clients : c \in loading <=> online[c] = "on" /\ load[c] \in Busy
    /\ \A c \in Clients : load[c] = "idle" <=> online[c] = "new"
    /\ \A c \in Clients : c \in subs <=> online[c] = "on"
    /\ \A i \in DOMAIN gateway :
          gateway[i].type = "replay" => load[gateway[i].to] \in Replaying

\* What a message of each type carries.
LEMMA MessageTypes ==
    /\ Untargeted \subseteq Messages /\ Ask \in Untargeted /\ Resolved \in Untargeted
    /\ \A n \in Events : Live(n) \in Untargeted /\ Live(n).type = "live" /\ Live(n).event = n
    /\ \A c \in Clients, l \in Lines :
          Replay(c, l) \in Messages /\ Replay(c, l).type = "replay"
          /\ Replay(c, l).to = c /\ Replay(c, l).line = l
    /\ \A m \in Messages : /\ m.type = "live" => m \in Untargeted /\ m.event \in Events
                           /\ m.type = "live" => m = Live(m.event)
                           /\ m.type = "replay" => m.to \in Clients /\ m.line \in Lines
                           /\ m.type # "replay" => m \in Untargeted
                           /\ m.type = "ask" <=> m = Ask
                           /\ m.type = "resolved" <=> m = Resolved
                           /\ m.type \in {"live", "replay", "ask", "resolved"}
    /\ Ask.type = "ask" /\ Resolved.type = "resolved"
BY DEF Untargeted, Messages, Ask, Resolved, Live, Replay

\* Whatever a client receives, its screen is one.
LEMMA ReceiveType ==
    ASSUME NEW s \in Screens, NEW m \in Messages
    PROVE  Receive(s, m) \in Screens
<1>1. CASE m.type = "live"
    <2>1. m.event \in Events
        BY <1>1, MessageTypes
    <2>2. m.event \in 0..MaxEvents
        BY <2>1, LoadAssumption DEF Events
    <2>3. Append(s.events, m.event) \in Seq(Events)
        BY <2>1 DEF Screens
    <2>4. [s.seen EXCEPT ![stream[m.event]] = m.event] \in [Streams -> 0..MaxEvents]
        BY <2>2 DEF Screens
    <2> QED BY <1>1, <2>3, <2>4 DEF Receive, Screens
<1>2. CASE m.type = "replay"
    <2>1. m.line \in Seq(Events) /\ s.events \in Seq(Events)
        BY <1>2, MessageTypes DEF Screens, Lines
    <2>2. s.events \o m.line \in Seq(Events)
        BY <2>1
    <2> QED BY <1>2, <2>2 DEF Receive, Screens
<1>3. CASE m.type # "live" /\ m.type # "replay"
    BY <1>3 DEF Receive, Screens
<1> QED BY <1>1, <1>2, <1>3

\* So is the screen after the release of the buffer.
LEMMA ReleasedType ==
    ASSUME NEW c, buffer[c] \in Seq(Untargeted), screen[c] \in Screens
    PROVE  Released(c) \in Screens
<1> DEFINE G == [i \in Nat |-> Screens]
<1>1. ASSUME NEW i \in 1..Len(buffer[c]), NEW s \in G[i - 1]
      PROVE  Round(c, s, buffer[c][i]) \in G[i]
    <2>1. buffer[c][i] \in Messages /\ s \in Screens /\ G[i] = Screens
        BY MessageTypes
    <2> QED BY <2>1, ReceiveType DEF Round
<1>2. screen[c] \in G[0] /\ Len(buffer[c]) \in Nat
    OBVIOUS
<1>3. Released(c) \in G[Len(buffer[c])]
    <2> HIDE DEF G
    <2> QED BY <1>1, <1>2, ReleasedInv
<1> QED BY <1>2, <1>3

\* The lines of a replay as messages.
LEMMA ReplayedAt ==
    ASSUME NEW c \in Clients, NEW ls \in Seq(Lines)
    PROVE  /\ Replayed(c, ls) \in Seq(Messages) /\ Len(Replayed(c, ls)) = Len(ls)
           /\ DOMAIN Replayed(c, ls) = DOMAIN ls
           /\ \A i \in DOMAIN ls : Replayed(c, ls)[i] = Replay(c, ls[i])
<1>1. \A i \in DOMAIN ls : Replay(c, ls[i]) \in Messages
    BY MessageTypes
<1>2. Replayed(c, ls) = [i \in 1..Len(ls) |-> Replay(c, ls[i])] /\ Len(ls) \in Nat
    BY DEF Replayed
<1> HIDE DEF Replay
<1> QED BY <1>1, <1>2

\* load_session moves on.
LEMMA GotoAt ==
    ASSUME AgentType, NEW c \in Clients, NEW l \in Labels, Goto(c, l)
    PROVE  /\ load' \in [Clients -> Labels]
           /\ \A d \in Clients : load'[d] = IF d = c THEN l ELSE load[d]
BY DEF AgentType, Goto

\* The answer to a flush lets the load that waits for it go on.
LEMMA FlushAnswer ==
    ASSUME AgentType, PersistFlush
    PROVE  /\ load' \in [Clients -> Labels]
           /\ \A c \in Clients :
                 \/ load'[c] = load[c]
                 \/ load[c] \in {"flush1", "flush2"} /\ load'[c] \in {"light", "delta"}
<1>1. ASSUME NEW c \in Clients
      PROVE  /\ load'[c] \in Labels
             /\ \/ load'[c] = load[c]
                \/ load[c] \in {"flush1", "flush2"} /\ load'[c] \in {"light", "delta"}
    <2>1. load'[c] = IF \E f \in Head(persistQ).for : f.who = c /\ Awaits(f)
                     THEN AfterFlush(CHOOSE f \in Head(persistQ).for : TRUE) ELSE load[c]
        BY DEF PersistFlush
    <2>2. ASSUME NEW f PROVE AfterFlush(f) \in {"light", "delta"}
        BY DEF AfterFlush
    <2>3. ASSUME NEW f, f.who = c, Awaits(f) PROVE load[c] \in {"flush1", "flush2"}
        BY <2>3 DEF Awaits
    <2>4. load[c] \in Labels
        BY DEF AgentType
    <2> QED BY <2>1, <2>2, <2>3, <2>4 DEF Labels
<1>2. load' = [c \in Clients |-> load'[c]]
    BY DEF PersistFlush
<1> QED BY <1>1, <1>2

\* The session's steps keep its types: the bound on what it emits bounds its queues,
LEMMA SessionTypeStep ==
    ASSUME TypeOK, [Next]_vars
    PROVE  SessionType'
<1> USE LoadAssumption DEF SessionType, Events
<1>a. SessionType /\ Len(stream) \in Nat /\ MaxEvents \in Nat
    BY DEF TypeOK
<1>1. SendUpdate \/ SendXai => \E k \in Streams : stream' = Append(stream, k)
    BY DEF SendUpdate, SendXai, Streams
<1>2. SendUpdate \/ SendXai => Len(stream) + 1 <= MaxEvents
    BY <1>a DEF SendUpdate, SendXai, MayEmit
<1>3. stream' \in Seq(Streams) /\ Len(stream') <= MaxEvents
    <2>1. \A k \in Streams : Append(stream, k) \in Seq(Streams) /\ Len(Append(stream, k)) = Len(stream) + 1
        BY <1>a, SeqTypes
    <2> QED BY <1>a, <1>1, <1>2, <2>1, StampSteps
<1>4. SendUpdate \/ SendXai => Len(stream') \in Events /\ Len(stream') = Len(stream) + 1
    BY <1>a, <1>1, <1>2, AppendAt
<1>5. eventQ' \in Seq(Events)
    <2>1. SendUpdate => \E n \in Events : eventQ' = Append(eventQ, n)
        BY <1>4 DEF SendUpdate
    <2>2. EmitBuffered => eventQ # <<>> /\ eventQ' = Tail(eventQ)
        BY DEF EmitBuffered
    <2>s. /\ \A x \in Events : Append(eventQ, x) \in Seq(Events)
          /\ eventQ # <<>> => Tail(eventQ) \in Seq(Events)
        BY <1>a, SeqTypes
    <2> QED BY <1>a, <2>s, <2>1, <2>2, QueueSteps
<1>6. emitting' \in 0..MaxEvents
    <2>1. SendXai \/ EmitLive => emitting' \in {0, Len(stream')}
        BY DEF SendXai, EmitLive
    <2>2. EmitBuffered => eventQ # <<>> /\ emitting' = Head(eventQ)
        BY DEF EmitBuffered
    <2>3. SendXai => Len(stream') \in 0..MaxEvents
        BY <1>4
    <2>4. EmitLive => emitting' = 0
        BY DEF EmitLive
    <2>5. eventQ # <<>> => Head(eventQ) \in 0..MaxEvents
        BY <1>a, TailAt
    <2> QED BY <1>a, <2>1, <2>2, <2>3, <2>4, <2>5, EmitSteps
<1>7. cmdQ' \in Seq(Flushes)
    <2>1. ASSUME NEW c \in Clients, CloseGate(c) \/ SecondFlush(c)
          PROVE  \E f \in Flushes : cmdQ' = Append(cmdQ, f)
        <3>1. ASSUME NEW k \in 1..2 PROVE [who |-> c, nth |-> k] \in Flushes
            BY DEF Flushes
        <3>2. SendFlush(c, 1) \/ SendFlush(c, 2)
            BY <2>1 DEF CloseGate, SecondFlush
        <3> QED BY <3>1, <3>2 DEF SendFlush
    <2>2. FlushComplete => cmdQ # <<>> /\ cmdQ' = Tail(cmdQ)
        BY DEF FlushComplete
    <2>s. /\ \A x \in Flushes : Append(cmdQ, x) \in Seq(Flushes)
          /\ cmdQ # <<>> => Tail(cmdQ) \in Seq(Flushes)
        BY <1>a, SeqTypes
    <2> QED BY <1>a, <2>s, <2>1, <2>2, CmdSteps
<1>8. ask' \in {"none", "open", "resolved"}
    BY <1>a, AskSteps DEF Interact, DropInteraction
<1> QED BY <1>3, <1>5, <1>6, <1>7, <1>8

\* those of the persistence actor its, a line of the file is never empty,
LEMMA DiskTypeStep ==
    ASSUME TypeOK, [Next]_vars
    PROVE  DiskType' /\ Len(file) <= Len(file')
<1> USE LoadAssumption
<1>a. /\ persistQ \in Seq(Writes) /\ pending \in Seq(Events) /\ file \in Seq(Lines)
      /\ SessionType /\ SessionType'
    BY SessionTypeStep DEF TypeOK, DiskType
<1>1. persistQ' \in Seq(Writes)
    <2>1. ASSUME NEW n \in Events PROVE [type |-> "update", event |-> n] \in Writes
        BY DEF Writes
    <2>2. ASSUME NEW F \in SUBSET Flushes PROVE [type |-> "flush", for |-> F] \in Writes
        BY DEF Writes
    <2>3. EmitBuffered \/ SendXai => \E w \in Writes : persistQ' = Append(persistQ, w)
        <3>1. EmitBuffered => eventQ # <<>> /\ emitting' = Head(eventQ)
            BY DEF EmitBuffered
        <3>2. SendXai => emitting' = Len(stream') /\ stream' = Append(stream, "xai")
            BY DEF SendXai
        <3>3. "xai" \in Streams /\ MaxEvents \in Nat
            BY DEF Streams
        <3>4. EmitBuffered \/ SendXai => emitting' \in Events
            BY <1>a, <3>1, <3>2, <3>3, AppendAt, TailAt DEF SessionType, Events
        <3>5. EmitBuffered \/ SendXai =>
                 persistQ' = Append(persistQ, [type |-> "update", event |-> emitting'])
            BY DEF EmitBuffered, SendXai
        <3> QED BY <2>1, <3>4, <3>5
    <2>4. FlushComplete \/ ChatFlush => \E w \in Writes : persistQ' = Append(persistQ, w)
        <3>1. cmdQ # <<>> => {Head(cmdQ)} \in SUBSET Flushes
            BY <1>a DEF SessionType
        <3>2. FlushComplete => /\ cmdQ # <<>>
                               /\ persistQ' = Append(persistQ, [type |-> "flush", for |-> {Head(cmdQ)}])
            BY DEF FlushComplete
        <3>3. ChatFlush => persistQ' = Append(persistQ, [type |-> "flush", for |-> {}])
            BY DEF ChatFlush
        <3> QED BY <2>2, <3>1, <3>2, <3>3
    <2>5. PersistUpdate \/ PersistFlush => persistQ # <<>> /\ persistQ' = Tail(persistQ)
        BY DEF PersistUpdate, PersistFlush
    <2>s. /\ \A x \in Writes : Append(persistQ, x) \in Seq(Writes)
          /\ persistQ # <<>> => Tail(persistQ) \in Seq(Writes)
        BY <1>a, SeqTypes
    <2> QED BY <1>a, <2>s, <2>3, <2>4, <2>5, WriteSteps
<1>2. PersistUpdate => Head(persistQ).event \in Events
    BY <1>a DEF PersistUpdate, Writes
<1>3. /\ pending' \in Seq(Events) /\ file' \in Seq(Lines) /\ Len(file) <= Len(file')
    <2>1. CASE PersistUpdate
        <3>1. PICK n \in Events : n = Head(persistQ).event
            BY <1>2, <2>1
        <3>2. <<n>> \in Lines /\ <<n>> \in Seq(Events) /\ Append(pending, n) \in Seq(Events)
            BY <1>a DEF Lines
        <3>3. pending # <<>> => pending \in Lines
            BY <1>a DEF Lines
        <3>4. \/ file' = file /\ pending' = Append(pending, n)
              \/ file' = Append(file, pending) /\ pending' = <<n>> /\ pending # <<>>
              \/ file' = Append(file, <<n>>) /\ pending' = pending
            BY <2>1, <3>1 DEF PersistUpdate, MaybeMerge
        <3>5. /\ \A l \in Lines : Append(file, l) \in Seq(Lines) /\ Len(Append(file, l)) = Len(file) + 1
              /\ Len(file) \in Nat
            BY <1>a, SeqTypes
        <3>6. pending' \in Seq(Events)
            BY <1>a, <3>2, <3>4
        <3>7. file' = file \/ \E l \in Lines : file' = Append(file, l)
            BY <3>2, <3>3, <3>4
        <3>8. file' \in Seq(Lines) /\ Len(file) <= Len(file')
            <4>1. CASE file' = file
                BY <1>a, <3>5, <4>1
            <4>2. ASSUME NEW l \in Lines, file' = Append(file, l)
                  PROVE  file' \in Seq(Lines) /\ Len(file) <= Len(file')
                BY <1>a, <4>2
            <4> QED BY <3>7, <4>1, <4>2
        <3> QED BY <3>6, <3>8
    <2>2. CASE PersistFlush
        <3>1. pending # <<>> => pending \in Lines
            BY <1>a DEF Lines
        <3> QED BY <1>a, <2>2, <3>1 DEF PersistFlush, FlushPending
    <2> QED BY <1>a, <2>1, <2>2, DiskSteps
<1> QED BY <1>1, <1>3 DEF DiskType

\* those of the agent its, and no offset is past the end of the file.
LEMMA AgentTypeStep ==
    ASSUME TypeOK, [Next]_vars
    PROVE  AgentType'
<1>a. AgentType /\ SessionType /\ DiskType /\ DiskType' /\ Len(file) <= Len(file')
    BY DiskTypeStep DEF TypeOK
<1>b. /\ gateway \in Seq(Messages) /\ file \in Seq(Lines) /\ Len(file) \in Nat
      /\ Len(file') \in Nat /\ offset \in [Clients -> Nat]
    BY <1>a DEF AgentType, DiskType
<1>1. gate' \in BOOLEAN
    <2>1. \/ UNCHANGED gate \/ \E c \in Clients : CloseGate(c) \/ OpenGate(c)
        BY NextCases DEF SendUpdate, EmitBuffered, SendXai, EmitLive, FlushComplete, Interact,
            DropInteraction, ChatFlush, PersistUpdate, PersistFlush, Deliver, Request,
            Disconnect, FlushTimeout, LoadFails, ReplayUpdates, SecondFlush, ReplayDelta,
            Respond, vars, agent
    <2> QED BY <1>a, <2>1 DEF CloseGate, OpenGate, AgentType
<1>2. gateway' \in Seq(Messages)
    <2>1. EmitLive => gateway' \in Seq(Messages)
        <3>1. EmitLive => Live(emitting) \in Messages
            BY <1>a, MessageTypes DEF EmitLive, SessionType, Events
        <3> QED BY <1>b, <3>1 DEF EmitLive
    <2>2. Interact \/ DropInteraction => \E m \in Messages : gateway' = Append(gateway, m)
        BY MessageTypes DEF Interact, DropInteraction
    <2>3. Deliver => gateway # <<>> /\ gateway' = Tail(gateway)
        BY DEF Deliver
    <2>4. ASSUME NEW c \in Clients, ReplayUpdates(c) \/ ReplayDelta(c)
          PROVE  \E r \in Seq(Messages) : gateway' = gateway \o r
        <3>1. SubSeq(file, offset[c] + 1, Len(file)) \in Seq(Lines)
            BY <1>b
        <3>2. \E ls \in Seq(Lines) : gateway' = gateway \o Replayed(c, ls)
            BY <1>b, <2>4, <3>1 DEF ReplayUpdates, ReplayDelta
        <3> QED BY <3>2, ReplayedAt
    <2>s. /\ \A m \in Messages : Append(gateway, m) \in Seq(Messages)
          /\ \A r \in Seq(Messages) : gateway \o r \in Seq(Messages)
          /\ gateway # <<>> => Tail(gateway) \in Seq(Messages)
        BY <1>b, SeqTypes
    <2> QED BY <1>b, <2>1, <2>2, <2>3, <2>4, <2>s, WireSteps
<1>3. load' \in [Clients -> Labels]
    <2>1. ASSUME NEW c \in Clients, NEW l \in Labels, Goto(c, l) PROVE load' \in [Clients -> Labels]
        BY <1>a, <2>1, GotoAt
    <2>2. ASSUME NEW c \in Clients, Request(c) PROVE load' \in [Clients -> Labels]
        BY <1>a, <2>2 DEF Request, AgentType, Labels
    <2>3. ASSUME NEW c \in Clients,
                 \/ CloseGate(c) \/ FlushTimeout(c) \/ LoadFails(c) \/ ReplayUpdates(c)
                 \/ SecondFlush(c) \/ ReplayDelta(c) \/ OpenGate(c) \/ Respond(c)
          PROVE  \E l \in Labels : Goto(c, l)
        BY <2>3 DEF CloseGate, FlushTimeout, LoadFails, ReplayUpdates, SecondFlush, ReplayDelta,
            OpenGate, Respond, Labels
    <2> QED BY <1>a, <2>1, <2>2, <2>3, FlushAnswer, LoadSteps DEF AgentType
<1>4. offset' \in [Clients -> Nat] /\ \A c \in Clients : offset'[c] <= Len(file')
    <2>1. ASSUME NEW c \in Clients, ReplayUpdates(c)
          PROVE  /\ offset' \in [Clients -> Nat]
                 /\ \A d \in Clients : offset'[d] <= Len(file')
        BY <1>a, <1>b, <2>1 DEF ReplayUpdates, AgentType
    <2>2. CASE UNCHANGED offset
        BY <1>a, <1>b, <2>2 DEF AgentType
    <2> QED BY <2>1, <2>2, OffsetSteps
<1> QED BY <1>1, <1>2, <1>3, <1>4 DEF AgentType

\* The phases of a load are kept by the steps that move one load on,
LEMMA PhaseGoto ==
    ASSUME TypeOK, PhaseInv, NEW c \in Clients, NEW l \in Labels, Goto(c, l),
           UNCHANGED <<online, subs>>, load[c] \in Busy,
           loading' = IF l \in Busy THEN loading ELSE loading \ {c}, l # "idle",
           \A i \in DOMAIN gateway' :
              /\ gateway'[i].type = "replay"
              /\ ~(l \in Replaying /\ gateway'[i].to = c)
              => \E j \in DOMAIN gateway : gateway[j] = gateway'[i] /\ gateway[j].to # c,
           \A i \in DOMAIN gateway' : gateway'[i].type = "replay" => gateway'[i].to \in Clients
    PROVE  PhaseInv'
<1>1. \A d \in Clients : load'[d] = IF d = c THEN l ELSE load[d]
    BY GotoAt DEF TypeOK
<1>2. \A i \in DOMAIN gateway' :
          gateway'[i].type = "replay" => load'[gateway'[i].to] \in Replaying
    BY <1>1 DEF PhaseInv
<1>3. \A d \in Clients : d \in loading' <=> online'[d] = "on" /\ load'[d] \in Busy
    BY <1>1 DEF PhaseInv
<1>4. \A d \in Clients : load'[d] = "idle" <=> online'[d] = "new"
    BY <1>1 DEF PhaseInv, Busy
<1> QED BY <1>2, <1>3, <1>4 DEF PhaseInv

\* The phases are kept: a replay is on the wire only while its load waits for it.
LEMMA PhaseStep ==
    ASSUME TypeOK, PhaseInv, [Next]_vars
    PROVE  PhaseInv'
<1>a. /\ AgentType /\ gateway \in Seq(Messages) /\ load \in [Clients -> Labels]
      /\ online \in [Clients -> {"new", "on", "off"}] /\ Replaying \subseteq Busy
      /\ DiskType /\ file \in Seq(Lines) /\ offset \in [Clients -> Nat]
    BY DEF TypeOK, AgentType, LeaderType, Busy, Replaying, DiskType
<1>b. \A i \in DOMAIN gateway : gateway[i].type = "replay" => gateway[i].to \in Clients
    BY <1>a, MessageTypes
<1>1. ASSUME UNCHANGED <<online, subs, loading, load>>,
             \A i \in DOMAIN gateway' : gateway'[i].type = "replay" =>
                \E j \in DOMAIN gateway : gateway[j] = gateway'[i]
      PROVE  PhaseInv'
    BY <1>1 DEF PhaseInv
<1>2. ASSUME NEW m \in Untargeted, gateway' = Append(gateway, m)
      PROVE  \A i \in DOMAIN gateway' : gateway'[i].type = "replay" =>
                \E j \in DOMAIN gateway : gateway[j] = gateway'[i]
    <2>1. m \in Messages /\ m.type # "replay"
        BY MessageTypes DEF Untargeted, Ask, Resolved
    <2> QED BY <1>a, <1>2, <2>1, AppendAt
<1>3. EmitLive \/ Interact \/ DropInteraction \/ Deliver => PhaseInv'
    <2>1. EmitLive \/ Interact \/ DropInteraction \/ Deliver => UNCHANGED <<online, subs, loading, load>>
        BY DEF EmitLive, Interact, DropInteraction, Deliver, leader, agent
    <2>2. EmitLive => emitting \in Events
        BY DEF EmitLive, TypeOK, SessionType, Events
    <2>3. EmitLive \/ Interact \/ DropInteraction =>
             gateway' = gateway \/ \E m \in Untargeted : gateway' = Append(gateway, m)
        BY <2>2, MessageTypes DEF EmitLive, Interact, DropInteraction
    <2>4. Deliver => \A i \in DOMAIN gateway' : \E j \in DOMAIN gateway : gateway[j] = gateway'[i]
        <3>1. Deliver => gateway # <<>> /\ gateway' = Tail(gateway)
            BY DEF Deliver
        <3> QED BY <1>a, <3>1, TailAt
    <2>5. CASE gateway' = gateway
        BY <1>1, <2>1, <2>5
    <2>6. CASE \E m \in Untargeted : gateway' = Append(gateway, m)
        BY <1>1, <1>2, <2>1, <2>6
    <2>7. CASE Deliver
        BY <1>1, <2>1, <2>4, <2>7
    <2> QED BY <2>3, <2>5, <2>6, <2>7
<1>4. PersistFlush => PhaseInv'
    <2> SUFFICES ASSUME PersistFlush PROVE PhaseInv'
        OBVIOUS
    <2>1. UNCHANGED <<online, subs, loading, gateway>>
        BY DEF PersistFlush, leader
    <2>2. \A c \in Clients :
             \/ load'[c] = load[c]
             \/ load[c] \in {"flush1", "flush2"} /\ load'[c] \in {"light", "delta"}
        BY <1>a, FlushAnswer
    <2>3. \A c \in Clients : load'[c] \in Busy <=> load[c] \in Busy
        BY <2>2 DEF Busy
    <2>4. \A c \in Clients : load'[c] = "idle" <=> load[c] = "idle"
        BY <2>2
    <2>5. \A c \in Clients : load[c] \in Replaying => load'[c] \in Replaying
        BY <2>2 DEF Replaying
    <2> QED BY <1>b, <2>1, <2>3, <2>4, <2>5 DEF PhaseInv
<1>5. ASSUME NEW c \in Clients, Request(c) \/ Disconnect(c) PROVE PhaseInv'
    <2>1. CASE Request(c)
        <3>1. /\ online[c] = "new" /\ load[c] = "idle" /\ gateway' = gateway
              /\ \A d \in Clients : online'[d] = (IF d = c THEN "on" ELSE online[d])
              /\ \A d \in Clients : load'[d] = (IF d = c THEN "asked" ELSE load[d])
              /\ subs' = subs \union {c} /\ loading' = loading \union {c}
            BY <1>a, <2>1 DEF Request, PhaseInv
        <3>2. \A i \in DOMAIN gateway : gateway[i].type = "replay" => gateway[i].to # c
            BY <3>1 DEF PhaseInv, Replaying
        <3> QED BY <1>b, <3>1, <3>2 DEF PhaseInv, Busy
    <2>2. CASE Disconnect(c)
        <3>1. /\ online[c] = "on" /\ UNCHANGED <<gateway, load>>
              /\ \A d \in Clients : online'[d] = (IF d = c THEN "off" ELSE online[d])
              /\ subs' = subs \ {c} /\ loading' = loading \ {c}
            BY <1>a, <2>2 DEF Disconnect, agent
        <3> QED BY <3>1 DEF PhaseInv
    <2> QED BY <1>5, <2>1, <2>2
<1>6. ASSUME NEW c \in Clients, NEW l \in Labels, Goto(c, l), UNCHANGED <<online, subs, gateway>>,
             load[c] \in Busy, load[c] \in Replaying => l \in Replaying \/ Drained(c),
             loading' = IF l \in Busy THEN loading ELSE loading \ {c}, l # "idle"
      PROVE  PhaseInv'
    <2>1. \A i \in DOMAIN gateway : gateway[i].type = "replay" /\ ~(l \in Replaying /\ gateway[i].to = c)
              => gateway[i].to # c
        BY <1>6 DEF PhaseInv, Drained
    <2> QED BY <1>b, <1>6, <2>1, PhaseGoto
<1>7. ASSUME NEW c \in Clients, NEW ls \in Seq(Lines), NEW l \in Replaying, Goto(c, l),
             UNCHANGED <<online, subs, loading>>, load[c] \in Busy,
             gateway' = gateway \o Replayed(c, ls)
      PROVE  PhaseInv'
    <2>1. \A i \in DOMAIN gateway' :
             \/ i \in DOMAIN gateway /\ gateway'[i] = gateway[i]
             \/ gateway'[i].type = "replay" /\ gateway'[i].to = c
        <3>1. \A i \in DOMAIN Replayed(c, ls) :
                 Replayed(c, ls)[i].type = "replay" /\ Replayed(c, ls)[i].to = c
            BY ReplayedAt, MessageTypes
        <3>2. Replayed(c, ls) \in Seq(Messages)
            BY ReplayedAt
        <3> HIDE DEF Replayed
        <3> QED BY <1>a, <1>7, <3>1, <3>2, ConcatAt
    <2>2. l \in Labels /\ l \in Busy /\ l # "idle"
        BY <1>7 DEF Replaying, Labels, Busy
    <2>3. \A i \in DOMAIN gateway' : gateway'[i].type = "replay" => gateway'[i].to \in Clients
        BY <1>b, <2>1
    <2>4. \A i \in DOMAIN gateway' :
              gateway'[i].type = "replay" /\ ~(l \in Replaying /\ gateway'[i].to = c)
              => \E j \in DOMAIN gateway : gateway[j] = gateway'[i] /\ gateway[j].to # c
        BY <1>7, <2>1
    <2> QED BY <1>7, <2>2, <2>3, <2>4, PhaseGoto
<1>8. ASSUME NEW c \in Clients,
             CloseGate(c) \/ FlushTimeout(c) \/ SecondFlush(c) \/ OpenGate(c)
      PROVE  PhaseInv'
    BY <1>6, <1>8 DEF CloseGate, FlushTimeout, SecondFlush, OpenGate, leader, Labels, Busy, Replaying
<1>9. ASSUME NEW c \in Clients, LoadFails(c) \/ Respond(c) PROVE PhaseInv'
    BY <1>6, <1>9 DEF LoadFails, Respond, Answered, Labels, Busy, Replaying
<1>10. ASSUME NEW c \in Clients, ReplayUpdates(c) \/ ReplayDelta(c) PROVE PhaseInv'
    <2>1. SubSeq(file, offset[c] + 1, Len(file)) \in Seq(Lines)
        BY <1>a
    <2>2. UNCHANGED <<online, subs, loading>> /\ load[c] \in Busy
        BY <1>10 DEF ReplayUpdates, ReplayDelta, leader, Busy
    <2>3. \E ls \in Seq(Lines), l \in Replaying : Goto(c, l) /\ gateway' = gateway \o Replayed(c, ls)
        BY <1>a, <1>10, <2>1 DEF ReplayUpdates, ReplayDelta, Replaying
    <2> QED BY <1>7, <2>2, <2>3
<1>11. UNCHANGED <<online, subs, loading, load, gateway>> => PhaseInv'
    BY <1>1
<1> QED BY <1>3, <1>4, <1>5, <1>8, <1>9, <1>10, <1>11, WireSteps, LoadSteps, RouteSteps, LoadingSteps

\* Hence the leader's types: no replay arrives for a load it has answered.
LEMMA LeaderTypeStep ==
    ASSUME TypeOK, PhaseInv, [Next]_vars
    PROVE  LeaderType'
<1> USE LoadAssumption
<1>a. /\ LeaderType /\ gateway \in Seq(Messages)
      /\ online \in [Clients -> {"new", "on", "off"}] /\ buffer \in [Clients -> Seq(Untargeted)]
      /\ cutoff \in [Clients -> 0..MaxEvents]
    BY DEF TypeOK, AgentType, LeaderType
<1>1. /\ online' \in [Clients -> {"new", "on", "off"}]
      /\ subs' \subseteq Clients /\ driver' \in Clients \union {NoClient}
    <2>1. ASSUME NEW c \in Clients, Request(c)
          PROVE  /\ online' = [online EXCEPT ![c] = "on"] /\ subs' = subs \union {c}
                 /\ driver' \in {driver, c}
        BY <2>1 DEF Request
    <2>2. ASSUME NEW c \in Clients, Disconnect(c)
          PROVE  /\ online' = [online EXCEPT ![c] = "off"] /\ subs' = subs \ {c}
                 /\ driver' \in {driver, NoClient} \union subs'
        BY <2>2 DEF Disconnect
    <2> QED BY <1>a, <2>1, <2>2, RouteSteps DEF LeaderType
<1>2. loading' \subseteq Clients /\ cached' \in BOOLEAN
    <2>1. loading' \subseteq Clients
        BY <1>a, LoadingSteps DEF LeaderType, Request, Disconnect, LoadFails, Respond, Answered
    <2>2. Deliver => cached' \in BOOLEAN
        <3>1. Deliver => \/ UNCHANGED cached
                         \/ cached' = IF Head(gateway).type = "live" THEN cached
                                      ELSE Head(gateway).type = "ask"
            BY DEF Deliver, Unicast, Broadcast
        <3> QED BY <1>a, <3>1 DEF LeaderType
    <2> QED BY <1>a, <2>1, <2>2, CachedSteps DEF LeaderType
<1>3. ASSUME NEW c \in Clients, Disconnect(c) \/ Answered(c)
      PROVE  /\ buffer' \in [Clients -> Seq(Untargeted)] /\ cutoff' \in [Clients -> 0..MaxEvents]
             /\ \A d \in Clients \ loading' : buffer'[d] = <<>> /\ cutoff'[d] = 0
    <2>1. /\ buffer' = [buffer EXCEPT ![c] = <<>>] /\ cutoff' = [cutoff EXCEPT ![c] = 0]
          /\ loading' = loading \ {c}
        BY <1>3 DEF Disconnect, Answered
    <2>2. 0 \in 0..MaxEvents /\ <<>> \in Seq(Untargeted)
        OBVIOUS
    <2> QED BY <1>a, <2>1, <2>2 DEF LeaderType
<1>4. ASSUME Deliver
      PROVE  /\ buffer' \in [Clients -> Seq(Untargeted)] /\ cutoff' \in [Clients -> 0..MaxEvents]
             /\ \A d \in Clients \ loading' : buffer'[d] = <<>> /\ cutoff'[d] = 0
    <2>1. gateway # <<>> /\ loading' = loading
        BY <1>4 DEF Deliver
    <2>2. PICK m \in Messages : m = Head(gateway) /\ m = gateway[1] /\ 1 \in DOMAIN gateway
        BY <1>a, <2>1, TailAt
    <2>3. CASE m.type = "replay"
        <3>1. m.to \in Clients /\ m.line \in Lines
            BY <2>3, MessageTypes
        <3>2. LineSeq(m.line) \in 0..MaxEvents
            BY <3>1 DEF LineSeq, Last, Lines, Events
        <3>3. online[m.to] = "on" => m.to \in loading
            BY <2>2, <2>3, <3>1 DEF PhaseInv, Replaying, Busy
        <3>4. /\ buffer' = buffer
              /\ \/ cutoff' = cutoff
                 \/ /\ online[m.to] = "on"
                    /\ cutoff' = [cutoff EXCEPT ![m.to] = IF LineSeq(m.line) > @
                                                          THEN LineSeq(m.line) ELSE @]
            BY <1>4, <2>2, <2>3 DEF Deliver, Unicast
        <3> QED BY <1>a, <2>1, <3>1, <3>2, <3>3, <3>4 DEF LeaderType
    <2>4. CASE m.type # "replay"
        <3>1. m \in Untargeted
            BY <2>4, MessageTypes
        <3>2. /\ cutoff' = cutoff
              /\ buffer' = [c \in Clients |-> IF c \in subs /\ HeldBack(c)
                                              THEN Append(buffer[c], m) ELSE buffer[c]]
            BY <1>4, <2>2, <2>4 DEF Deliver, Broadcast
        <3>3. \A c \in Clients : Append(buffer[c], m) \in Seq(Untargeted)
            BY <1>a, <3>1, SeqTypes
        <3>4. \A c \in Clients \ loading : buffer'[c] = buffer[c]
            BY <3>2 DEF HeldBack
        <3> QED BY <1>a, <2>1, <3>2, <3>3, <3>4 DEF LeaderType
    <2> QED BY <2>3, <2>4
<1>5. ASSUME UNCHANGED <<buffer, cutoff>>, loading \subseteq loading'
      PROVE  /\ buffer' \in [Clients -> Seq(Untargeted)] /\ cutoff' \in [Clients -> 0..MaxEvents]
             /\ \A d \in Clients \ loading' : buffer'[d] = <<>> /\ cutoff'[d] = 0
    BY <1>a, <1>5 DEF LeaderType
<1>6. /\ buffer' \in [Clients -> Seq(Untargeted)] /\ cutoff' \in [Clients -> 0..MaxEvents]
      /\ \A d \in Clients \ loading' : buffer'[d] = <<>> /\ cutoff'[d] = 0
    <2>1. ASSUME NEW c \in Clients, LoadFails(c) \/ Respond(c) PROVE Answered(c)
        BY <2>1 DEF LoadFails, Respond
    <2>2. ASSUME NEW c \in Clients, Request(c) PROVE loading \subseteq loading'
        BY <2>2 DEF Request
    <2> QED BY <1>3, <1>4, <1>5, <2>1, <2>2, BufferSteps, LoadingSteps
<1> QED BY <1>1, <1>2, <1>6 DEF LeaderType

\* What a client that is answered shows then.
LEMMA AnsweredScreen ==
    ASSUME TypeOK, NEW c \in Clients, Answered(c)
    PROVE  /\ \A d \in Clients \ {c} : screen'[d] = screen[d]
           /\ c \notin loading => screen'[c] = screen[c]
           /\ c \in loading =>
                screen'[c] = IF cached THEN Receive(Released(c), Ask) ELSE Released(c)
           /\ screen' \in [Clients -> Screens]
<1>1. screen \in [Clients -> Screens] /\ buffer[c] \in Seq(Untargeted)
    BY DEF TypeOK, LeaderType
<1>2. Released(c) \in Screens
    BY <1>1, ReleasedType
<1>3. Receive(Released(c), Ask) \in Screens
    BY <1>2, ReceiveType, MessageTypes
<1>4. screen' = IF c \in loading
                THEN [screen EXCEPT ![c] = IF cached THEN Receive(Released(c), Ask)
                                           ELSE Released(c)]
                ELSE screen
    BY DEF Answered
<1> QED BY <1>1, <1>2, <1>3, <1>4

\* What a client shows when the gateway has delivered message m.
LEMMA DeliveredScreen ==
    ASSUME TypeOK, PhaseInv, Deliver
    PROVE  /\ gateway # <<>> /\ gateway' = Tail(gateway) /\ Head(gateway) \in Messages
           /\ screen' \in [Clients -> Screens]
           /\ \A c \in Clients :
                screen'[c] = IF Head(gateway).type = "replay"
                             THEN IF Head(gateway).to = c /\ c \in loading
                                  THEN Receive(screen[c], Head(gateway)) ELSE screen[c]
                             ELSE IF c \in subs /\ ~HeldBack(c)
                                  THEN Receive(screen[c], Head(gateway)) ELSE screen[c]
<1>1. /\ screen \in [Clients -> Screens] /\ gateway \in Seq(Messages) /\ gateway # <<>>
      /\ gateway' = Tail(gateway)
    BY DEF TypeOK, AgentType, Deliver
<1>2. PICK m \in Messages : m = Head(gateway) /\ m = gateway[1] /\ 1 \in DOMAIN gateway
    BY <1>1, TailAt
<1>3. \A c \in Clients : Receive(screen[c], m) \in Screens
    BY <1>1, ReceiveType
<1>4. CASE m.type = "replay"
    <2>1. m.to \in Clients
        BY <1>4, MessageTypes
    <2>2. m.to \in loading => online[m.to] = "on"
        BY <2>1 DEF PhaseInv
    <2>3. screen' = IF m.to \in loading THEN [screen EXCEPT ![m.to] = Receive(@, m)] ELSE screen
        BY <1>2, <1>4, <2>2 DEF Deliver, Unicast
    <2> QED BY <1>1, <1>2, <1>3, <1>4, <2>1, <2>3
<1>5. CASE m.type # "replay"
    <2>1. screen' = [c \in Clients |-> IF c \in subs /\ ~HeldBack(c)
                                       THEN Receive(screen[c], m) ELSE screen[c]]
        BY <1>2, <1>5 DEF Deliver, Broadcast
    <2> HIDE DEF HeldBack
    <2> QED BY <1>1, <1>2, <1>3, <1>5, <2>1
<1> QED BY <1>4, <1>5

\* What the clients show keeps its type,
LEMMA ScreenTypeStep ==
    ASSUME TypeOK, PhaseInv, [Next]_vars
    PROVE  screen' \in [Clients -> Screens]
<1>1. ASSUME NEW c \in Clients, LoadFails(c) \/ Respond(c) PROVE Answered(c)
    BY <1>1 DEF LoadFails, Respond
<1> QED BY <1>1, AnsweredScreen, DeliveredScreen, ScreenSteps DEF TypeOK

\* and so does the history.
LEMMA HistoryTypeStep ==
    ASSUME TypeOK, [Next]_vars
    PROVE  HistoryType'
<1> USE LoadAssumption
<1>a. /\ owed \in [Clients -> 0..MaxEvents] /\ attached \in [Clients -> 0..MaxEvents]
      /\ late \subseteq Clients /\ spilled \subseteq Clients /\ loading \subseteq Clients
      /\ timeouts \in 0..MaxTimeouts /\ faults \in 0..MaxFaults
      /\ Len(stream) \in 0..MaxEvents
    BY DEF TypeOK, HistoryType, SessionType, LeaderType
<1>1. owed' \in [Clients -> 0..MaxEvents]
    <2>1. FlushComplete => \/ owed' = owed
                           \/ owed' = [owed EXCEPT ![Head(cmdQ).who] = Len(stream)]
        BY DEF FlushComplete
    <2> QED BY <1>a, <2>1, OwedSteps
<1>2. attached' \in [Clients -> 0..MaxEvents]
    <2>1. ASSUME NEW c \in Clients, LoadFails(c) \/ Respond(c)
          PROVE  attached' = [attached EXCEPT ![c] = Len(stream)]
        BY <2>1 DEF LoadFails, Respond, Answered
    <2> QED BY <1>a, <2>1, AttachedSteps
<1>3. late' \subseteq Clients /\ timeouts' \in 0..MaxTimeouts
    <2>1. ASSUME NEW c \in Clients, FlushTimeout(c)
          PROVE  /\ late' \subseteq late \union {c} /\ timeouts' = timeouts + 1
                 /\ timeouts < MaxTimeouts
        BY <2>1 DEF FlushTimeout
    <2> QED BY <1>a, <2>1, LateSteps
<1>4. spilled' \subseteq Clients
    BY <1>a, SpilledSteps DEF Deliver, Unicast, Broadcast
<1>5. faults' \in 0..MaxFaults
    <2>1. ASSUME NEW c \in Clients, Disconnect(c) \/ LoadFails(c)
          PROVE  faults' = faults + 1 /\ faults < MaxFaults
        BY <2>1 DEF Disconnect, LoadFails
    <2> QED BY <1>a, <2>1, FaultSteps
<1> QED BY <1>1, <1>2, <1>3, <1>4, <1>5 DEF HistoryType

\* The types and phases hold in the beginning
LEMMA TypeInit == Init => TypeOK /\ PhaseInv
<1> SUFFICES ASSUME Init PROVE TypeOK /\ PhaseInv
    OBVIOUS
<1> USE LoadAssumption
<1>1. SessionType
    BY DEF Init, SessionType
<1>2. DiskType
    BY DEF Init, DiskType
<1>3. AgentType
    BY DEF Init, AgentType, Labels
<1>4. LeaderType
    <2>1. driver \in Clients \union {NoClient}
        BY DEF Init
    <2>2. buffer \in [Clients -> Seq(Untargeted)] /\ cutoff \in [Clients -> 0..MaxEvents]
        BY DEF Init
    <2> QED BY <2>1, <2>2 DEF Init, LeaderType
<1>5. screen \in [Clients -> Screens]
    BY DEF Init, Screens
<1>6. HistoryType
    BY DEF Init, HistoryType
<1>7. PhaseInv
    BY DEF Init, PhaseInv, Busy
<1> QED BY <1>1, <1>2, <1>3, <1>4, <1>5, <1>6, <1>7 DEF TypeOK

\* and are kept by every step.
LEMMA TypeStep == TypeOK /\ PhaseInv /\ [Next]_vars => TypeOK' /\ PhaseInv'
BY SessionTypeStep, DiskTypeStep, AgentTypeStep, LeaderTypeStep, ScreenTypeStep,
   HistoryTypeStep, PhaseStep DEF TypeOK

\* Every variable of the five parties keeps its type, for any numbers of clients, events and
\* faults.  In particular the leader has a live buffer and a cutoff only for clients whose load
\* is not answered: no message of a replay arrives after the answer and starts an entry of
\* load_replay_max_seq that nothing would remove.
THEOREM TypeCorrect == Spec => []TypeOK
BY TypeInit, TypeStep, PTL DEF Spec

-------------------------------------------------------------------------------
(* What a client receives *)

\* The parts of a screen that a message changes.
LEMMA ReceiveAt ==
    ASSUME NEW s \in Screens, NEW m \in Messages
    PROVE  /\ m.type = "live" /\ m.event <= s.seen[stream[m.event]] => Receive(s, m) = s
           /\ m.type = "live" /\ ~(m.event <= s.seen[stream[m.event]]) =>
                /\ Receive(s, m).events = Append(s.events, m.event)
                /\ Receive(s, m).modal = s.modal
                /\ Receive(s, m).seen = [s.seen EXCEPT ![stream[m.event]] = m.event]
           /\ m.type = "replay" =>
                /\ Receive(s, m).events = s.events \o m.line
                /\ Receive(s, m).modal = s.modal /\ Receive(s, m).seen = s.seen
           /\ m.type \in {"ask", "resolved"} =>
                /\ Receive(s, m).events = s.events /\ Receive(s, m).seen = s.seen
                /\ Receive(s, m).modal = (m.type = "ask")
BY DEF Receive, Screens

\* An answered load is no longer known to the leader.
LEMMA AnswersAt ==
    ASSUME TypeOK, PhaseInv, NEW c \in Clients, LoadFails(c) \/ Respond(c)
    PROVE  /\ Answered(c) /\ load[c] \in {"light", "drain"} /\ load[c] \in Busy
           /\ \A d \in Clients \ {c} : load'[d] = load[d]
           /\ load'[c] \in {"done", "failed"} /\ (load'[c] = "done" => load[c] = "drain")
           /\ UNCHANGED <<stream, eventQ, emitting, ask, cmdQ, persistQ, pending, file, offset,
                          gateway, online, subs, cached, owed, late, spilled>>
           /\ loading' = loading \ {c} /\ (load[c] = "drain" => Drained(c))
           /\ \A d \in Clients \ {c} : buffer'[d] = buffer[d] /\ cutoff'[d] = cutoff[d]
           /\ \A d \in Clients \ {c} : attached'[d] = attached[d]
           /\ attached'[c] = Len(stream)
<1>1. PICK l \in {"done", "failed"} : Goto(c, l) /\ (l = "done" => load[c] = "drain")
    BY DEF LoadFails, Respond
<1>2. l \in Labels /\ AgentType
    BY DEF Labels, TypeOK
<1>3. \A d \in Clients : load'[d] = IF d = c THEN l ELSE load[d]
    BY <1>1, <1>2, GotoAt
<1>4. /\ buffer \in [Clients -> Seq(Untargeted)] /\ cutoff \in [Clients -> 0..MaxEvents]
      /\ attached \in [Clients -> 0..MaxEvents]
    BY DEF TypeOK, LeaderType, HistoryType
<1>5. /\ buffer' = [buffer EXCEPT ![c] = <<>>] /\ cutoff' = [cutoff EXCEPT ![c] = 0]
      /\ attached' = [attached EXCEPT ![c] = Len(stream)]
    BY DEF LoadFails, Respond, Answered
<1> QED BY <1>1, <1>3, <1>4, <1>5 DEF LoadFails, Respond, Answered, session, disk, Busy

\* Other steps answer no load.
LEMMA NoAnswer ==
    ASSUME TypeOK, PhaseInv, [Next]_vars
    PROVE  \/ \E c \in Clients : LoadFails(c) \/ Respond(c)
           \/ /\ \A c \in Clients : load'[c] \in {"done", "failed"} <=> load[c] \in {"done", "failed"}
              /\ \A c \in Clients : load'[c] = "done" <=> load[c] = "done"
              /\ attached' = attached
              /\ \A c \in loading' : c \in loading \/ Request(c)
<1>a. AgentType
    BY DEF TypeOK
<1>1. ASSUME ~ \E c \in Clients : LoadFails(c) \/ Respond(c)
      PROVE  /\ \A c \in Clients : load'[c] \in {"done", "failed"} <=> load[c] \in {"done", "failed"}
             /\ \A c \in Clients : load'[c] = "done" <=> load[c] = "done"
    <2>1. ASSUME NEW c \in Clients,
                 \/ CloseGate(c) \/ FlushTimeout(c) \/ ReplayUpdates(c) \/ SecondFlush(c)
                 \/ ReplayDelta(c) \/ OpenGate(c)
          PROVE  \E l \in Busy : Goto(c, l) /\ load[c] \in Busy
        BY <2>1 DEF CloseGate, FlushTimeout, ReplayUpdates, SecondFlush, ReplayDelta, OpenGate,
            Busy
    <2>2. ASSUME NEW c \in Clients, NEW l \in Busy, Goto(c, l), load[c] \in Busy, NEW d \in Clients
          PROVE  load'[d] = load[d] \/ (load[d] \in Busy /\ load'[d] \in Busy)
        <3>1. l \in Labels
            BY DEF Busy, Labels
        <3>2. load'[d] = IF d = c THEN l ELSE load[d]
            BY <1>a, <2>2, <3>1, GotoAt
        <3> QED BY <2>2, <3>2
    <2>3. ASSUME NEW c \in Clients, Request(c), NEW d \in Clients
          PROVE  load'[d] = load[d] \/ (load[d] = "idle" /\ load'[d] \in Busy)
        BY <1>a, <2>3 DEF Request, PhaseInv, AgentType, Busy
    <2>4. ASSUME PersistFlush, NEW d \in Clients
          PROVE  load'[d] = load[d] \/ (load[d] \in Busy /\ load'[d] \in Busy)
        BY <1>a, <2>4, FlushAnswer DEF Busy
    <2>5. ASSUME NEW d \in Clients
          PROVE  load'[d] = load[d] \/ (load[d] \in Busy \union {"idle"} /\ load'[d] \in Busy)
        BY <1>1, <2>1, <2>2, <2>3, <2>4, LoadSteps
    <2> QED BY <2>5 DEF Busy
<1>2. \A c \in loading' : \/ c \in loading \/ Request(c)
    BY LoadingSteps DEF Request, Disconnect, LoadFails, Respond, Answered
<1> QED BY <1>1, <1>2, AttachedSteps

-------------------------------------------------------------------------------
(* The interaction *)

\* What is on the wire about the interaction: the request, then the end of its wait.  The
\* leader remembers the interaction from the delivery of the one to that of the other.
Sent(m) == m \in ToSet(gateway)
AskInv ==
    /\ \A i, j \in DOMAIN gateway : gateway[i] = Ask /\ gateway[j] = Ask => i = j
    /\ \A i, j \in DOMAIN gateway : gateway[i] = Resolved /\ gateway[j] = Resolved => i = j
    /\ \A i, j \in DOMAIN gateway : gateway[i] = Ask /\ gateway[j] = Resolved => i < j
    /\ Sent(Ask) => ask = "open" \/ Sent(Resolved)
    /\ Sent(Resolved) => ask = "resolved"
    /\ cached <=> ~Sent(Ask) /\ (ask = "open" \/ Sent(Resolved))

\* What is on the wire about the interaction keeps its order.
LEMMA AskStep ==
    ASSUME TypeOK, PhaseInv, AskInv, [Next]_vars
    PROVE  AskInv'
<1>a. /\ gateway \in Seq(Messages) /\ file \in Seq(Lines) /\ offset \in [Clients -> Nat]
      /\ cached \in BOOLEAN /\ Ask # Resolved /\ Ask \in Messages /\ Resolved \in Messages
    BY MessageTypes DEF TypeOK, AgentType, LeaderType, DiskType, Ask, Resolved
<1>1. ASSUME UNCHANGED <<ask, cached>>,
             \A i \in DOMAIN gateway : i \in DOMAIN gateway' /\ gateway'[i] = gateway[i],
             \A i \in DOMAIN gateway' : gateway'[i] \in {Ask, Resolved} => i \in DOMAIN gateway
      PROVE  AskInv'
    <2>1. Sent(Ask)' <=> Sent(Ask)
        BY <1>1 DEF Sent, ToSet
    <2>2. Sent(Resolved)' <=> Sent(Resolved)
        BY <1>1 DEF Sent, ToSet
    <2> HIDE DEF Ask, Resolved
    <2> QED BY <1>1, <2>1, <2>2 DEF AskInv
<1>2. EmitLive => AskInv'
    <2> SUFFICES ASSUME EmitLive PROVE AskInv'
        OBVIOUS
    <2>1. UNCHANGED <<ask, cached>> /\ emitting \in Events
        BY DEF EmitLive, leader, TypeOK, SessionType, Events
    <2>2. gateway' = gateway \/ gateway' = Append(gateway, Live(emitting))
        BY DEF EmitLive
    <2>3. Live(emitting) \in Messages /\ Live(emitting) \notin {Ask, Resolved}
        BY <2>1, MessageTypes DEF Live, Ask, Resolved
    <2> HIDE DEF Live, Ask, Resolved
    <2>4. CASE gateway' = gateway
        BY <1>1, <2>1, <2>4
    <2>5. CASE gateway' = Append(gateway, Live(emitting))
        BY <1>1, <1>a, <2>1, <2>3, <2>5, AppendAt
    <2> QED BY <2>2, <2>4, <2>5
<1>3. ASSUME NEW c \in Clients, ReplayUpdates(c) \/ ReplayDelta(c) PROVE AskInv'
    <2>1. SubSeq(file, offset[c] + 1, Len(file)) \in Seq(Lines)
        BY <1>a
    <2>2. UNCHANGED <<ask, cached>>
        BY <1>3 DEF ReplayUpdates, ReplayDelta, session, leader
    <2>3. PICK ls \in Seq(Lines) : gateway' = gateway \o Replayed(c, ls)
        BY <1>a, <1>3, <2>1 DEF ReplayUpdates, ReplayDelta
    <2>4. PICK r \in Seq(Messages) : /\ gateway' = gateway \o r
                                     /\ \A i \in DOMAIN r : r[i].type = "replay"
        BY <2>3, ReplayedAt, MessageTypes
    <2>5. \A i \in DOMAIN r : r[i] \notin {Ask, Resolved}
        BY <2>4 DEF Ask, Resolved
    <2> HIDE DEF Ask, Resolved
    <2> QED BY <1>1, <1>a, <2>2, <2>4, <2>5, ConcatAt
<1>4. Interact => AskInv'
    <2> SUFFICES ASSUME Interact PROVE AskInv'
        OBVIOUS
    <2>1. /\ ask = "none" /\ ask' = "open" /\ cached' = cached
          /\ gateway' = Append(gateway, Ask)
        BY DEF Interact, leader
    <2>2. Sent(Ask)' /\ (Sent(Resolved)' <=> Sent(Resolved)) /\ ~Sent(Ask) /\ ~Sent(Resolved)
        BY <1>a, <2>1, SetAfter DEF Sent, AskInv
    <2>3. \A i \in DOMAIN gateway : gateway[i] \notin {Ask, Resolved}
        BY <2>2 DEF Sent, ToSet
    <2> HIDE DEF Ask, Resolved
    <2>4. \A i \in DOMAIN gateway' : i = Len(gateway) + 1 \/ gateway'[i] \notin {Ask, Resolved}
        BY <1>a, <2>1, <2>3, AppendAt
    <2>5. gateway'[Len(gateway) + 1] = Ask
        BY <1>a, <2>1, AppendAt
    <2> QED BY <1>a, <2>1, <2>2, <2>4, <2>5 DEF AskInv
<1>5. DropInteraction => AskInv'
    <2> SUFFICES ASSUME DropInteraction PROVE AskInv'
        OBVIOUS
    <2>1. /\ ask = "open" /\ ask' = "resolved" /\ cached' = cached
          /\ gateway' = Append(gateway, Resolved)
        BY DEF DropInteraction, leader
    <2>2. Sent(Resolved)' /\ (Sent(Ask)' <=> Sent(Ask)) /\ ~Sent(Resolved)
        BY <1>a, <2>1, SetAfter DEF Sent, AskInv
    <2>3. \A i \in DOMAIN gateway : gateway[i] # Resolved
        BY <2>2 DEF Sent, ToSet
    <2> HIDE DEF Ask, Resolved
    <2>4. /\ \A i \in DOMAIN gateway' :
                \/ i = Len(gateway) + 1 /\ gateway'[i] = Resolved
                \/ i \in DOMAIN gateway /\ gateway'[i] = gateway[i] /\ i < Len(gateway) + 1
        BY <1>a, <2>1, AppendAt
    <2> QED BY <1>a, <2>1, <2>2, <2>3, <2>4 DEF AskInv
<1>6. Deliver => AskInv'
    <2> SUFFICES ASSUME Deliver PROVE AskInv'
        OBVIOUS
    <2>1. gateway # <<>> /\ gateway' = Tail(gateway) /\ ask' = ask
        BY DEF Deliver, session
    <2>2. PICK m \in Messages : m = Head(gateway) /\ m = gateway[1] /\ 1 \in DOMAIN gateway
        BY <1>a, <2>1, TailAt
    <2>3. cached' = IF m.type \in {"live", "replay"} THEN cached ELSE m.type = "ask"
        BY <2>2 DEF Deliver, Unicast, Broadcast
    <2>4. /\ m = Ask => cached' = TRUE
          /\ m = Resolved => cached' = FALSE
          /\ m \notin {Ask, Resolved} => cached' = cached
        BY <2>3, MessageTypes
    <2> HIDE DEF Ask, Resolved
    <2>5. \A i \in DOMAIN gateway' :
             i + 1 \in DOMAIN gateway /\ gateway'[i] = gateway[i + 1] /\ i + 1 # 1 /\ i \in Nat
        BY <1>a, <2>1, TailAt
    <2>6. \A x : Sent(x) <=> x = m \/ Sent(x)'
        BY <1>a, <2>1, <2>2, SetAfter DEF Sent
    <2>7. /\ m = Ask => ~Sent(Ask)'
          /\ m = Resolved => ~Sent(Resolved)' /\ ~Sent(Ask)'
        <3>1. \A i \in DOMAIN gateway' : m = Ask => gateway'[i] # Ask
            BY <2>2, <2>5 DEF AskInv
        <3>2. \A i \in DOMAIN gateway' : m = Resolved => gateway'[i] # Resolved
            BY <2>2, <2>5 DEF AskInv
        <3>3. \A i \in DOMAIN gateway' : m = Resolved => gateway'[i] # Ask
            BY <2>2, <2>5 DEF AskInv
        <3> QED BY <3>1, <3>2, <3>3 DEF Sent, ToSet
    <2>8. /\ \A i, j \in DOMAIN gateway' : gateway'[i] = Ask /\ gateway'[j] = Ask => i = j
          /\ \A i, j \in DOMAIN gateway' : gateway'[i] = Resolved /\ gateway'[j] = Resolved => i = j
          /\ \A i, j \in DOMAIN gateway' : gateway'[i] = Ask /\ gateway'[j] = Resolved => i < j
        BY <2>5 DEF AskInv
    <2>9. cached' <=> ~Sent(Ask)' /\ (ask' = "open" \/ Sent(Resolved)')
        <3>1. CASE m = Ask
            BY <1>a, <2>1, <2>4, <2>6, <2>7, <3>1 DEF AskInv
        <3>2. CASE m = Resolved
            BY <2>1, <2>4, <2>6, <2>7, <3>2 DEF AskInv
        <3>3. CASE m \notin {Ask, Resolved}
            BY <2>1, <2>4, <2>6, <3>3 DEF AskInv
        <3> QED BY <3>1, <3>2, <3>3
    <2>10. /\ Sent(Ask)' => ask' = "open" \/ Sent(Resolved)'
           /\ Sent(Resolved)' => ask' = "resolved"
        BY <2>1, <2>6, <2>7 DEF AskInv
    <2> QED BY <2>8, <2>9, <2>10 DEF AskInv
<1>7. UNCHANGED <<gateway, ask, cached>> => AskInv'
    BY DEF AskInv, Sent
<1> QED BY <1>2, <1>3, <1>4, <1>5, <1>6, <1>7, WireSteps, AskSteps, CachedSteps

\* Nothing was ever sent to a client that is not connected yet.
FreshInv ==
    \A c \in Clients : online[c] = "new" =>
        /\ screen[c].events = <<>> /\ ~screen[c].modal
        /\ c \notin spilled /\ c \notin late

\* A client that is not connected is not sent anything.
LEMMA FreshStep ==
    ASSUME TypeOK, PhaseInv, FreshInv, [Next]_vars
    PROVE  FreshInv'
<1> SUFFICES ASSUME NEW c \in Clients, online'[c] = "new"
             PROVE  /\ screen'[c].events = <<>> /\ ~screen'[c].modal
                    /\ c \notin spilled' /\ c \notin late'
    BY DEF FreshInv
<1>a. online \in [Clients -> {"new", "on", "off"}] /\ load \in [Clients -> Labels]
    BY DEF TypeOK, LeaderType, AgentType
<1>1. online[c] = "new"
    BY <1>a, RouteSteps DEF Request, Disconnect
<1>2. c \notin loading /\ c \notin subs /\ load[c] = "idle"
    BY <1>1 DEF PhaseInv
<1>3. screen'[c] = screen[c]
    <2>1. ASSUME NEW d \in Clients, LoadFails(d) \/ Respond(d) PROVE Answered(d)
        BY <2>1 DEF LoadFails, Respond
    <2>2. Deliver => screen'[c] = screen[c]
        BY <1>2, DeliveredScreen
    <2> QED BY <1>2, <2>1, <2>2, AnsweredScreen, ScreenSteps
<1>4. spilled' \subseteq spilled \union loading
    BY SpilledSteps DEF Deliver, Unicast, Broadcast
<1>5. c \in late' => c \in late
    BY <1>2, LateSteps DEF FlushTimeout
<1> QED BY <1>1, <1>2, <1>3, <1>4, <1>5 DEF FreshInv

\* A client whose load was answered shows what the leader remembers.  One that is loading shows
\* no interaction; if the request was held back for it, the interaction is open or its end was
\* held back too.
AskIsOver(c) ==
    \A i \in DOMAIN buffer[c] : buffer[c][i] = Ask =>
        cached \/ \E j \in DOMAIN buffer[c] : i < j /\ buffer[c][j] = Resolved
ModalInv ==
    /\ \A c \in Clients \ spilled :
          online[c] = "on" /\ load[c] \in {"done", "failed"} => (screen[c].modal <=> cached)
    /\ \A c \in loading \ spilled : ~screen[c].modal /\ AskIsOver(c)

\* What is held back leaves no interaction on the screen that is over.
LEMMA ReleasedModal ==
    ASSUME NEW c, buffer[c] \in Seq(Untargeted), screen[c] \in Screens, ~screen[c].modal,
           AskIsOver(c), ~cached
    PROVE  ~Released(c).modal
<1> DEFINE n == Len(buffer[c])
           Later(i) == \E j \in 1..n : i < j /\ buffer[c][j] = Resolved
           G == [i \in Nat |-> {s \in Screens : s.modal => Later(i)}]
<1>a. n \in Nat /\ DOMAIN buffer[c] = 1..n
    OBVIOUS
<1>1. ASSUME NEW i \in 1..n, NEW s \in G[i - 1]
      PROVE  Round(c, s, buffer[c][i]) \in G[i]
    <2>0. i \in Nat /\ i - 1 \in Nat /\ s \in Screens /\ (s.modal => Later(i - 1))
        BY <1>1
    <2>1. PICK m \in Messages : m = buffer[c][i]
        BY <1>a, MessageTypes
    <2>2. Round(c, s, m) \in Screens
        BY <2>0, ReceiveType DEF Round
    <2>3. Round(c, s, m).modal => Later(i)
        <3>1. CASE m = Ask
            BY <1>a, <2>1, <3>1 DEF AskIsOver
        <3>2. CASE m = Resolved
            <4>1. m.type = "resolved"
                BY <3>2, MessageTypes
            <4>2. Kept(c, m)
                BY <4>1 DEF Kept
            <4> QED BY <2>0, <4>1, <4>2, ReceiveAt DEF Round
        <3>3. CASE m \notin {Ask, Resolved}
            <4>1. m.type \in {"live", "replay"}
                BY <3>3, MessageTypes
            <4>2. Round(c, s, m).modal = s.modal
                BY <2>0, <4>1, ReceiveAt DEF Round
            <4>3. Later(i - 1) => Later(i)
                <5> SUFFICES ASSUME NEW j \in 1..n, i - 1 < j, buffer[c][j] = Resolved
                             PROVE  i < j
                    OBVIOUS
                <5>1. j # i
                    BY <2>1, <3>3
                <5> QED BY <5>1
            <4> QED BY <2>0, <4>2, <4>3
        <3> QED BY <3>1, <3>2, <3>3
    <2> HIDE DEF Later
    <2> QED BY <2>0, <2>1, <2>2, <2>3
<1>2. screen[c] \in G[0]
    OBVIOUS
<1>3. Released(c) \in G[n]
    <2> HIDE DEF G
    <2> QED BY <1>1, <1>2, ReleasedInv
<1>4. ~Later(n)
    OBVIOUS
<1> HIDE DEF Later
<1> QED BY <1>a, <1>3, <1>4

\* The clients keep showing what the leader remembers.
LEMMA ModalStep ==
    ASSUME TypeOK, PhaseInv, FreshInv, AskInv, ModalInv, [Next]_vars
    PROVE  ModalInv'
<1>a. /\ gateway \in Seq(Messages) /\ buffer \in [Clients -> Seq(Untargeted)]
      /\ screen \in [Clients -> Screens] /\ loading \subseteq Clients /\ cached \in BOOLEAN
    BY DEF TypeOK, AgentType, LeaderType
<1>1. ASSUME UNCHANGED <<cached, screen, spilled, buffer>>,
             loading' \subseteq loading,
             \A c \in Clients : online'[c] = "on" => online[c] = "on",
             \A c \in Clients : load'[c] \in {"done", "failed"} => load[c] \in {"done", "failed"}
      PROVE  ModalInv'
    BY <1>1 DEF ModalInv, AskIsOver
<1>2. ASSUME NEW c \in Clients, LoadFails(c) \/ Respond(c) PROVE ModalInv'
    <2>1. /\ Answered(c) /\ UNCHANGED <<online, spilled, cached>> /\ loading' = loading \ {c}
          /\ \A d \in Clients \ {c} : load'[d] = load[d] /\ buffer'[d] = buffer[d]
          /\ load[c] \in Busy
        BY <1>2, AnswersAt
    <2>2. /\ \A d \in Clients \ {c} : screen'[d] = screen[d]
          /\ c \in loading =>
                screen'[c] = IF cached THEN Receive(Released(c), Ask) ELSE Released(c)
        BY <2>1, AnsweredScreen
    <2>3. c \notin spilled /\ online[c] = "on" => (screen'[c].modal <=> cached')
        <3> SUFFICES ASSUME c \notin spilled, online[c] = "on" PROVE screen'[c].modal <=> cached'
            OBVIOUS
        <3>1. c \in loading
            BY <2>1 DEF PhaseInv
        <3>2. ~screen[c].modal /\ AskIsOver(c)
            BY <3>1 DEF ModalInv
        <3>3. ~cached => ~Released(c).modal
            BY <1>a, <3>2, ReleasedModal
        <3>4. Receive(Released(c), Ask).modal
            <4>1. Released(c) \in Screens /\ Ask \in Messages /\ Ask.type = "ask"
                BY <1>a, ReleasedType, MessageTypes DEF Ask
            <4>2. Receive(Released(c), Ask).modal = (Ask.type = "ask")
                BY <4>1, ReceiveAt
            <4> QED BY <4>1, <4>2
        <3> QED BY <1>a, <2>1, <2>2, <3>1, <3>3, <3>4
    <2>4. \A d \in Clients \ {c} : AskIsOver(d) => AskIsOver(d)'
        BY <2>1 DEF AskIsOver
    <2> HIDE DEF AskIsOver
    <2> QED BY <1>a, <2>1, <2>2, <2>3, <2>4 DEF ModalInv
<1>3. ASSUME NEW c \in Clients, Request(c) PROVE ModalInv'
    <2>1. /\ online[c] = "new" /\ loading' = loading \union {c}
          /\ UNCHANGED <<cached, screen, spilled, buffer>>
          /\ \A d \in Clients \ {c} : online'[d] = online[d] /\ load'[d] = load[d]
          /\ load'[c] = "asked"
        BY <1>3 DEF Request, history, TypeOK, LeaderType, AgentType
    <2>2. c \notin loading /\ ~screen[c].modal
        BY <2>1 DEF PhaseInv, FreshInv
    <2>3. buffer[c] = <<>>
        BY <2>2 DEF TypeOK, LeaderType
    <2>4. AskIsOver(c)' /\ \A d \in Clients : AskIsOver(d) => AskIsOver(d)'
        BY <2>1, <2>3 DEF AskIsOver
    <2> HIDE DEF AskIsOver
    <2> QED BY <1>a, <2>1, <2>2, <2>4 DEF ModalInv
<1>4. ASSUME Deliver PROVE ModalInv'
    <2>1. /\ UNCHANGED <<online, load, loading, subs>> /\ gateway # <<>>
        BY <1>4 DEF Deliver, agent
    <2>2. PICK m \in Messages : m = Head(gateway)
        BY <1>a, <2>1, TailAt
    <2>3. CASE m.type = "replay"
        <3>1. UNCHANGED <<buffer, cached, spilled>>
            BY <1>4, <2>2, <2>3 DEF Deliver, Unicast
        <3>2. \A c \in Clients : screen'[c].modal = screen[c].modal
            <4> SUFFICES ASSUME NEW c \in Clients PROVE screen'[c].modal = screen[c].modal
                OBVIOUS
            <4>1. Receive(screen[c], m).modal = screen[c].modal
                BY <1>a, <2>3, ReceiveAt
            <4>2. screen'[c] \in {screen[c], Receive(screen[c], m)}
                BY <1>4, <2>2, <2>3, DeliveredScreen
            <4> QED BY <4>1, <4>2
        <3> QED BY <1>a, <2>1, <3>1, <3>2 DEF ModalInv, AskIsOver
    <2>4. CASE m.type # "replay"
        <3>1. /\ cached' = (IF m.type = "live" THEN cached ELSE m.type = "ask")
              /\ spilled' = spilled \union {c \in loading : ~HeldBack(c)}
              /\ \A c \in Clients : buffer'[c] = IF c \in subs /\ HeldBack(c)
                                                 THEN Append(buffer[c], m) ELSE buffer[c]
            BY <1>4, <2>2, <2>4 DEF Deliver, Broadcast
        <3>2. \A c \in Clients : screen'[c] = IF c \in subs /\ ~HeldBack(c)
                                              THEN Receive(screen[c], m) ELSE screen[c]
            BY <1>4, <2>2, <2>4, DeliveredScreen
        <3>3. m.type \in {"live", "ask", "resolved"}
            BY <2>4, MessageTypes
        <3>4. ASSUME NEW c \in Clients \ spilled', online'[c] = "on", load'[c] \in {"done", "failed"}
              PROVE  screen'[c].modal <=> cached'
            <4>1. c \in subs /\ c \notin loading /\ c \notin spilled
                BY <2>1, <3>1, <3>4 DEF PhaseInv, Busy
            <4>2. screen'[c] = Receive(screen[c], m)
                BY <3>2, <4>1 DEF HeldBack
            <4>3. screen[c].modal <=> cached
                BY <2>1, <3>4, <4>1 DEF ModalInv
            <4>4. screen[c] \in Screens
                BY <1>a
            <4>5. CASE m.type = "live"
                <5>1. Receive(screen[c], m).modal = screen[c].modal
                    BY <4>4, <4>5, ReceiveAt
                <5>2. cached' = cached
                    BY <3>1, <4>5
                <5> QED BY <4>2, <4>3, <5>1, <5>2
            <4>6. CASE m.type # "live"
                <5>1. Receive(screen[c], m).modal = (m.type = "ask")
                    BY <3>3, <4>4, <4>6, ReceiveAt
                <5>2. cached' = (m.type = "ask")
                    BY <3>1, <4>6
                <5> QED BY <4>2, <5>1, <5>2
            <4> QED BY <4>5, <4>6
        <3>5. ASSUME NEW c \in loading' \ spilled'
              PROVE  ~screen'[c].modal /\ AskIsOver(c)'
            <4>1. c \in loading /\ c \notin spilled /\ HeldBack(c) /\ c \in subs /\ c \in Clients
                BY <1>a, <2>1, <3>1, <3>5 DEF PhaseInv
            <4>2. screen'[c] = screen[c] /\ buffer'[c] = Append(buffer[c], m)
                BY <3>1, <3>2, <4>1
            <4>3. ~screen[c].modal /\ AskIsOver(c)
                BY <4>1 DEF ModalInv
            <4>4. m \in Untargeted /\ buffer[c] \in Seq(Untargeted)
                BY <1>a, <2>4, <4>1, MessageTypes
            <4>5. /\ \A i \in DOMAIN buffer'[c] :
                        \/ i = Len(buffer[c]) + 1 /\ buffer'[c][i] = m
                        \/ /\ i \in DOMAIN buffer[c] /\ buffer'[c][i] = buffer[c][i]
                           /\ i < Len(buffer[c]) + 1
                  /\ \A i \in DOMAIN buffer[c] : i \in DOMAIN buffer'[c] /\ buffer'[c][i] = buffer[c][i]
                  /\ Len(buffer[c]) + 1 \in DOMAIN buffer'[c] /\ buffer'[c][Len(buffer[c]) + 1] = m
                BY <4>2, <4>4, AppendAt
            <4>6. /\ m = Ask => cached' = TRUE
                  /\ m.type = "resolved" => m = Resolved
                  /\ m.type = "live" => cached' = cached
                BY <3>1, MessageTypes
            <4>7. ASSUME NEW i \in DOMAIN buffer'[c], buffer'[c][i] = Ask
                  PROVE  cached' \/ \E j \in DOMAIN buffer'[c] : i < j /\ buffer'[c][j] = Resolved
                <5> HIDE DEF Ask, Resolved
                <5>1. CASE m = Ask
                    BY <4>6, <5>1
                <5>2. CASE m # Ask
                    <6>1. i \in DOMAIN buffer[c] /\ buffer[c][i] = Ask /\ i < Len(buffer[c]) + 1
                        BY <4>5, <4>7, <5>2
                    <6>2. CASE m.type = "resolved"
                        BY <4>5, <4>6, <6>1, <6>2
                    <6>3. CASE m.type = "live"
                        <7>1. cached \/ \E j \in DOMAIN buffer[c] : i < j /\ buffer[c][j] = Resolved
                            BY <4>3, <6>1 DEF AskIsOver
                        <7> QED BY <4>5, <4>6, <6>3, <7>1
                    <6>4. m.type # "ask"
                        BY <5>2, MessageTypes
                    <6> QED BY <3>3, <6>2, <6>3, <6>4
                <5> QED BY <5>1, <5>2
            <4> QED BY <4>2, <4>3, <4>7 DEF AskIsOver
        <3> QED BY <3>4, <3>5 DEF ModalInv
    <2> QED BY <2>3, <2>4
<1>5. ASSUME NEW c \in Clients, Disconnect(c) PROVE ModalInv'
    <2>1. /\ loading' = loading \ {c} /\ UNCHANGED <<cached, screen, spilled, load>>
          /\ \A d \in Clients \ {c} : online'[d] = online[d] /\ buffer'[d] = buffer[d]
          /\ online'[c] = "off"
        BY <1>5, <1>a DEF Disconnect, agent, TypeOK, LeaderType
    <2>2. \A d \in Clients \ {c} : AskIsOver(d) => AskIsOver(d)'
        BY <2>1 DEF AskIsOver
    <2> HIDE DEF AskIsOver
    <2> QED BY <1>a, <2>1, <2>2 DEF ModalInv
<1>6. ASSUME ~Deliver, ~ \E c \in Clients : LoadFails(c) \/ Respond(c),
             ~ \E c \in Clients : Request(c) \/ Disconnect(c)
      PROVE  ModalInv'
    <2>1. UNCHANGED <<cached, screen, spilled, buffer, online, loading>>
        BY <1>6, CachedSteps, ScreenSteps, SpilledSteps, BufferSteps, RouteSteps, LoadingSteps
    <2>2. \A c \in Clients : load'[c] \in {"done", "failed"} => load[c] \in {"done", "failed"}
        BY <1>6, NoAnswer
    <2> QED BY <1>1, <2>1, <2>2
<1> QED BY <1>2, <1>3, <1>4, <1>5, <1>6

\* In the beginning there is no interaction and nothing is shown.
LEMMA TalkInit ==
    ASSUME Init
    PROVE  FreshInv /\ AskInv /\ ModalInv
<1>1. /\ gateway = <<>> /\ ~cached /\ ask = "none" /\ loading = {} /\ spilled = {} /\ late = {}
      /\ \A c \in Clients : screen[c].events = <<>> /\ ~screen[c].modal
    BY DEF Init
<1>2. \A m : ~Sent(m)
    BY <1>1 DEF Sent, ToSet
<1> QED BY <1>1, <1>2 DEF FreshInv, AskInv, ModalInv

TalkInv == TypeOK /\ PhaseInv /\ FreshInv /\ AskInv /\ ModalInv

\* These are kept together.
LEMMA TalkCorrect == Spec => []TalkInv
<1>1. Init => TalkInv
    BY TypeInit, TalkInit DEF TalkInv
<1>2. TalkInv /\ [Next]_vars => TalkInv'
    BY TypeStep, FreshStep, AskStep, ModalStep DEF TalkInv
<1> QED BY <1>1, <1>2, PTL DEF Spec

\* Once the messages about an interaction are through, every client whose load was answered
\* shows the interaction exactly while the session waits for it (server.rs, replay of the
\* pending interaction on session/load).
THEOREM ModalAgreementCorrect == Spec => []ModalAgreement
<1>1. TalkInv => ModalAgreement
    <2> SUFFICES ASSUME TalkInv, ToSet(gateway) \intersect {Ask, Resolved} = {}
                 PROVE  cached <=> ask = "open"
        BY DEF ModalAgreement, TalkInv, ModalInv
    <2>1. ~Sent(Ask) /\ ~Sent(Resolved)
        BY DEF Sent
    <2> QED BY <2>1 DEF TalkInv, AskInv
<1> QED BY <1>1, TalkCorrect, PTL

-------------------------------------------------------------------------------
(* The order of the streams *)

\* Events of one stream are stamped, persisted and sent in the order of their numbers, those of
\* different streams are not.
Before(st, m, n) == st[m] = st[n] => m < n
UpTo(st, m, n) == st[m] = st[n] => m <= n

Stamped == 1 .. Len(stream)
Past == Stamped \ ToSet(eventQ)
Emitted == Past \ {emitting}

\* The queue holds the last updates, and nothing that left it is later than what is emitted.
StampInv ==
    /\ ToSet(eventQ) \subseteq Stamped /\ emitting \in Past \union {0}
    /\ \A n \in ToSet(eventQ) : stream[n] = "acp"
    /\ \A i, j \in DOMAIN eventQ : i < j => eventQ[i] < eventQ[j]
    /\ \A m \in Past, n \in ToSet(eventQ) : Before(stream, m, n)
    /\ emitting # 0 => \A m \in Past : UpTo(stream, m, emitting)

\* What the session's steps do to its events.
LEMMA StampCases ==
    ASSUME TypeOK, StampInv, [Next]_vars
    PROVE  /\ \A n \in Stamped : n \in Stamped' /\ stream'[n] = stream[n] /\ n \in Nat
                                 /\ stream[n] \in Streams /\ n \in Events
           /\ Past \subseteq Past' /\ Emitted \subseteq Emitted' /\ Past \subseteq Stamped
           /\ \/ /\ SendUpdate /\ Stamped' = Stamped \union {Len(stream) + 1} /\ Past' = Past
                 /\ stream'[Len(stream) + 1] = "acp" /\ Len(stream) + 1 \notin Stamped
                 /\ emitting' = emitting /\ emitting = 0
                 /\ eventQ' = Append(eventQ, Len(stream) + 1) /\ Len(stream) + 1 \in Events
              \/ /\ SendXai /\ Stamped' = Stamped \union {Len(stream) + 1}
                 /\ stream'[Len(stream) + 1] = "xai" /\ Len(stream) + 1 \notin Stamped
                 /\ eventQ' = eventQ /\ emitting' = Len(stream) + 1 /\ emitting = 0
                 /\ Past' = Past \union {emitting'}
              \/ /\ EmitBuffered /\ stream' = stream /\ eventQ # <<>> /\ eventQ' = Tail(eventQ)
                 /\ emitting' = Head(eventQ) /\ Past' = Past \union {emitting'} /\ emitting = 0
              \/ /\ EmitLive /\ stream' = stream /\ eventQ' = eventQ /\ Past' = Past
                 /\ emitting' = 0
              \/ UNCHANGED <<stream, eventQ, emitting>> /\ Past' = Past /\ Emitted' = Emitted
<1>a. /\ stream \in Seq(Streams) /\ Len(stream) \in Nat /\ eventQ \in Seq(Events)
      /\ Len(stream) <= MaxEvents /\ MaxEvents \in Nat /\ Events \subseteq Nat
    BY LoadAssumption DEF TypeOK, SessionType, Events
<1>b. \A n \in Stamped : n \in Nat /\ stream[n] \in Streams /\ n \in Events
    BY <1>a DEF Stamped, Events
<1>c. Past \subseteq Stamped /\ ToSet(eventQ) \subseteq Stamped /\ Len(stream) + 1 \notin Stamped
    BY <1>a DEF Past, StampInv, Stamped
<1>1. ASSUME NEW k \in Streams, stream' = Append(stream, k), MayEmit
      PROVE  /\ Stamped' = Stamped \union {Len(stream) + 1} /\ Len(stream') = Len(stream) + 1
             /\ stream'[Len(stream) + 1] = k /\ Len(stream) + 1 \in Events
             /\ \A n \in Stamped : stream'[n] = stream[n]
    <2>1. /\ Len(stream') = Len(stream) + 1 /\ stream'[Len(stream) + 1] = k
          /\ \A n \in DOMAIN stream : stream'[n] = stream[n]
        BY <1>a, <1>1, AppendAt
    <2>2. Len(stream) + 1 <= MaxEvents
        BY <1>a, <1>1 DEF MayEmit
    <2>3. Stamped' = Stamped \union {Len(stream) + 1}
        BY <1>a, <2>1 DEF Stamped
    <2>4. DOMAIN stream = Stamped
        BY <1>a DEF Stamped
    <2> QED BY <1>a, <2>1, <2>2, <2>3, <2>4 DEF Events
<1>2. ASSUME SendUpdate
      PROVE  /\ Stamped' = Stamped \union {Len(stream) + 1} /\ Past' = Past
             /\ stream'[Len(stream) + 1] = "acp" /\ Len(stream) + 1 \in Events
             /\ emitting' = emitting /\ eventQ' = Append(eventQ, Len(stream) + 1) /\ emitting = 0
             /\ \A n \in Stamped : stream'[n] = stream[n]
    <2>1. /\ stream' = Append(stream, "acp") /\ MayEmit /\ eventQ' = Append(eventQ, Len(stream'))
          /\ emitting' = emitting /\ "acp" \in Streams /\ emitting = 0
        BY <1>2 DEF SendUpdate, Streams
    <2>2. ToSet(eventQ') = ToSet(eventQ) \union {Len(stream) + 1}
        BY <1>a, <1>1, <2>1, SetAfter
    <2> QED BY <1>1, <1>c, <2>1, <2>2 DEF Past
<1>3. ASSUME SendXai
      PROVE  /\ Stamped' = Stamped \union {Len(stream) + 1} /\ eventQ' = eventQ
             /\ stream'[Len(stream) + 1] = "xai"
             /\ emitting' = Len(stream) + 1 /\ Past' = Past \union {emitting'}
             /\ emitting = 0 /\ \A n \in Stamped : stream'[n] = stream[n]
    <2>1. /\ stream' = Append(stream, "xai") /\ MayEmit /\ eventQ' = eventQ
          /\ emitting' = Len(stream') /\ "xai" \in Streams /\ emitting = 0
        BY <1>3 DEF SendXai, Streams
    <2> QED BY <1>1, <1>c, <2>1 DEF Past
<1>4. ASSUME EmitBuffered
      PROVE  /\ stream' = stream /\ eventQ # <<>> /\ eventQ' = Tail(eventQ)
             /\ emitting' = Head(eventQ) /\ Past' = Past \union {emitting'} /\ Stamped' = Stamped
             /\ emitting = 0 /\ emitting' \notin Past
    <2>1. /\ stream' = stream /\ eventQ # <<>> /\ eventQ' = Tail(eventQ)
          /\ emitting' = Head(eventQ) /\ emitting = 0
        BY <1>4 DEF EmitBuffered
    <2>2. ToSet(eventQ) = {Head(eventQ)} \union ToSet(eventQ')
        BY <1>a, <2>1, SetAfter
    <2>3. Head(eventQ) \notin ToSet(eventQ')
        <3>1. \A i \in DOMAIN eventQ' : /\ i + 1 \in DOMAIN eventQ /\ eventQ'[i] = eventQ[i + 1]
                                        /\ 1 < i + 1 /\ 1 \in DOMAIN eventQ
                                        /\ Head(eventQ) = eventQ[1]
            BY <1>a, <2>1, TailAt
        <3>a. Head(eventQ) \in Nat
            BY <1>a, <2>1, TailAt
        <3>2. \A i \in DOMAIN eventQ' : Head(eventQ) < eventQ'[i]
            BY <3>1 DEF StampInv
        <3>3. \A i \in DOMAIN eventQ' : Head(eventQ) # eventQ'[i]
            BY <3>a, <3>2
        <3> QED BY <3>3 DEF ToSet
    <2>4. Stamped' = Stamped
        BY <2>1 DEF Stamped
    <2> QED BY <1>c, <2>1, <2>2, <2>3, <2>4 DEF Past
<1>5. ASSUME EmitLive
      PROVE  stream' = stream /\ eventQ' = eventQ /\ Past' = Past /\ emitting' = 0
    BY <1>5 DEF EmitLive, Past, Stamped
<1>6. ASSUME UNCHANGED <<stream, eventQ, emitting>>
      PROVE  Past' = Past /\ Emitted' = Emitted /\ Stamped' = Stamped
    BY <1>6 DEF Past, Emitted, Stamped
<1>7. SendUpdate \/ SendXai \/ EmitBuffered \/ EmitLive \/ UNCHANGED <<stream, eventQ, emitting>>
    BY StampSteps, QueueSteps, EmitSteps
<1>8. \A n \in Stamped : n \in Stamped' /\ stream'[n] = stream[n]
    <2>1. stream' = stream => Stamped' = Stamped
        BY DEF Stamped
    <2> QED BY <1>2, <1>3, <1>4, <1>5, <1>7, <2>1
<1>9. Past \subseteq Past' /\ Emitted \subseteq Emitted'
    <2>1. SendXai => Len(stream) + 1 \notin Past
        BY <1>c
    <2>2. 0 \notin Past
        BY <1>c DEF Stamped
    <2> QED BY <1>2, <1>3, <1>4, <1>5, <1>6, <1>7, <2>1, <2>2 DEF Emitted
<1>10. CASE SendUpdate
    BY <1>2, <1>8, <1>9, <1>10, <1>b, <1>c
<1>11. CASE SendXai
    BY <1>3, <1>8, <1>9, <1>11, <1>b, <1>c
<1>12. CASE EmitBuffered
    BY <1>4, <1>8, <1>9, <1>12, <1>b, <1>c
<1>13. CASE EmitLive
    BY <1>5, <1>8, <1>9, <1>13, <1>b, <1>c
<1>14. CASE UNCHANGED <<stream, eventQ, emitting>>
    BY <1>6, <1>8, <1>9, <1>14, <1>b, <1>c
<1> QED BY <1>7, <1>10, <1>11, <1>12, <1>13, <1>14

\* The session keeps its events in order.
LEMMA StampStep ==
    ASSUME TypeOK, StampInv, [Next]_vars
    PROVE  StampInv'
<1>a. /\ Len(stream) \in Nat /\ eventQ \in Seq(Events) /\ Events \subseteq Nat
      /\ emitting \in Nat
    BY LoadAssumption DEF TypeOK, SessionType, Events
<1>b. \A n \in Stamped : n \in Stamped' /\ stream'[n] = stream[n] /\ n \in Nat
    BY StampCases
<1>c. Past \subseteq Stamped /\ \A n \in Stamped : n < Len(stream) + 1
    BY <1>a DEF Past, Stamped
<1>d. ToSet(eventQ) \subseteq Stamped
    BY DEF StampInv
<1>1. CASE SendUpdate
    <2>1. /\ Stamped' = Stamped \union {Len(stream) + 1} /\ Past' = Past
          /\ stream'[Len(stream) + 1] = "acp" /\ emitting' = 0
          /\ eventQ' = Append(eventQ, Len(stream) + 1) /\ Len(stream) + 1 \in Events
        BY <1>1, StampCases DEF SendXai, EmitBuffered, EmitLive, SendUpdate
    <2>2. ToSet(eventQ') = ToSet(eventQ) \union {Len(stream) + 1}
        BY <1>a, <2>1, SetAfter
    <2>3. \A i, j \in DOMAIN eventQ' : i < j => eventQ'[i] < eventQ'[j]
        <3>1. \A i \in DOMAIN eventQ : eventQ[i] \in ToSet(eventQ)
            BY DEF ToSet
        <3>2. \A i \in DOMAIN eventQ : eventQ[i] < Len(stream) + 1
            BY <1>c, <1>d, <3>1
        <3>3. /\ DOMAIN eventQ' = DOMAIN eventQ \union {Len(eventQ) + 1}
              /\ eventQ'[Len(eventQ) + 1] = Len(stream) + 1 /\ Len(eventQ) \in Nat
              /\ \A i \in DOMAIN eventQ : i < Len(eventQ) + 1 /\ eventQ'[i] = eventQ[i] /\ i \in Nat
            BY <1>a, <2>1, AppendAt
        <3> QED BY <3>2, <3>3 DEF StampInv
    <2>4. \A n \in ToSet(eventQ') : stream'[n] = "acp"
        BY <1>b, <1>d, <2>1, <2>2 DEF StampInv
    <2>5. \A m \in Past', n \in ToSet(eventQ') : Before(stream', m, n)
        BY <1>b, <1>c, <1>d, <2>1, <2>2 DEF StampInv, Before
    <2>6. ToSet(eventQ') \subseteq Stamped'
        BY <1>d, <2>1, <2>2
    <2> QED BY <2>1, <2>3, <2>4, <2>5, <2>6 DEF StampInv
<1>2. CASE SendXai
    <2>1. /\ Stamped' = Stamped \union {Len(stream) + 1} /\ stream'[Len(stream) + 1] = "xai"
          /\ eventQ' = eventQ /\ emitting' = Len(stream) + 1 /\ Past' = Past \union {emitting'}
        BY <1>2, StampCases DEF SendUpdate, EmitBuffered, EmitLive, SendXai
    <2>2. \A n \in ToSet(eventQ') : stream'[n] = "acp" /\ n \in Stamped'
        BY <1>b, <1>d, <2>1 DEF StampInv
    <2>3. \A m \in Past', n \in ToSet(eventQ') : Before(stream', m, n)
        BY <1>b, <1>c, <1>d, <2>1, <2>2 DEF StampInv, Before
    <2>4. \A m \in Past' : UpTo(stream', m, emitting')
        BY <1>a, <1>b, <1>c, <2>1 DEF UpTo
    <2> QED BY <2>1, <2>2, <2>3, <2>4 DEF StampInv
<1>3. CASE EmitBuffered
    <2>1. /\ stream' = stream /\ eventQ # <<>> /\ eventQ' = Tail(eventQ)
          /\ emitting' = Head(eventQ) /\ Past' = Past \union {emitting'}
        BY <1>3, StampCases DEF SendUpdate, SendXai, EmitLive, EmitBuffered
    <2>2. ToSet(eventQ) = {emitting'} \union ToSet(eventQ')
        BY <1>a, <2>1, SetAfter
    <2>3. \A i \in DOMAIN eventQ' : /\ i + 1 \in DOMAIN eventQ /\ eventQ'[i] = eventQ[i + 1]
                                    /\ 1 < i + 1 /\ 1 \in DOMAIN eventQ /\ emitting' = eventQ[1]
                                    /\ i \in Nat
        BY <1>a, <2>1, TailAt
    <2>4. \A i, j \in DOMAIN eventQ' : i < j => eventQ'[i] < eventQ'[j]
        BY <2>3 DEF StampInv
    <2>5. \A n \in ToSet(eventQ') : emitting' < n
        <3>1. \A i \in DOMAIN eventQ' : emitting' < eventQ'[i]
            BY <2>3 DEF StampInv
        <3> QED BY <3>1 DEF ToSet
    <2>6. Stamped' = Stamped /\ ToSet(eventQ') \subseteq Stamped /\ emitting' \in Stamped
        BY <1>d, <2>1, <2>2 DEF Stamped
    <2>7. \A n \in ToSet(eventQ') : stream'[n] = "acp"
        BY <2>1, <2>2 DEF StampInv
    <2>8. \A m \in Past', n \in ToSet(eventQ') : Before(stream', m, n)
        BY <2>1, <2>2, <2>5 DEF StampInv, Before
    <2>9. \A m \in Past' : UpTo(stream', m, emitting')
        BY <1>b, <1>c, <2>1, <2>2, <2>6 DEF StampInv, Before, UpTo
    <2> QED BY <2>1, <2>4, <2>6, <2>7, <2>8, <2>9 DEF StampInv
<1>4. CASE EmitLive
    <2>1. stream' = stream /\ eventQ' = eventQ /\ emitting' = 0
        BY <1>4 DEF EmitLive
    <2> QED BY <2>1 DEF StampInv, Past, Stamped
<1>5. CASE UNCHANGED <<stream, eventQ, emitting>>
    BY <1>5 DEF StampInv, Past, Stamped
<1> QED BY <1>1, <1>2, <1>3, <1>4, <1>5, StampCases

\* The events that are on their way live in a queue of messages, and that they are in order.
LiveIn(q) == {q[i].event : i \in {k \in DOMAIN q : q[k].type = "live"}}
InOrder(q, st) ==
    \A i, j \in DOMAIN q : i < j /\ q[i].type = "live" /\ q[j].type = "live" =>
        Before(st, q[i].event, q[j].event)

\* Both, when a message is added to the queue,
LEMMA LiveAppend ==
    ASSUME NEW q \in Seq(Messages), NEW m \in Messages, NEW st
    PROVE  /\ LiveIn(Append(q, m)) = LiveIn(q) \union (IF m.type = "live" THEN {m.event} ELSE {})
           /\ InOrder(q, st) /\ (m.type = "live" => \A n \in LiveIn(q) : Before(st, n, m.event)) =>
                 InOrder(Append(q, m), st)
<1>1. PICK r \in Seq(Messages) :
          /\ r = Append(q, m) /\ Len(q) \in Nat /\ DOMAIN r = DOMAIN q \union {Len(q) + 1}
          /\ r[Len(q) + 1] = m
          /\ \A i \in DOMAIN q : i < Len(q) + 1 /\ r[i] = q[i] /\ i \in Nat
    <2>1. Append(q, m) \in Seq(Messages) /\ DOMAIN q \subseteq Nat
        BY AppendAt
    <2>2. /\ Len(q) \in Nat /\ DOMAIN Append(q, m) = DOMAIN q \union {Len(q) + 1}
          /\ Append(q, m)[Len(q) + 1] = m
          /\ \A i \in DOMAIN q : i < Len(q) + 1 /\ Append(q, m)[i] = q[i]
        BY AppendAt
    <2> QED BY <2>1, <2>2
<1>2. LiveIn(r) = LiveIn(q) \union (IF m.type = "live" THEN {m.event} ELSE {})
    BY <1>1 DEF LiveIn
<1>3. ASSUME InOrder(q, st), m.type = "live" => \A n \in LiveIn(q) : Before(st, n, m.event)
      PROVE  InOrder(r, st)
    <2> SUFFICES ASSUME NEW i \in DOMAIN r, NEW j \in DOMAIN r, i < j, r[i].type = "live",
                        r[j].type = "live"
                 PROVE  Before(st, r[i].event, r[j].event)
        BY DEF InOrder
    <2>1. i \in DOMAIN q /\ r[i] = q[i]
        BY <1>1
    <2>2. CASE j \in DOMAIN q
        BY <1>1, <1>3, <2>1, <2>2 DEF InOrder
    <2>3. CASE j = Len(q) + 1
        BY <1>1, <1>3, <2>1, <2>3 DEF LiveIn
    <2> QED BY <1>1, <2>2, <2>3
<1> QED BY <1>1, <1>2, <1>3

\* when one is taken,
LEMMA LiveTail ==
    ASSUME NEW q \in Seq(Messages), q # <<>>, NEW st
    PROVE  /\ LiveIn(q) = LiveIn(Tail(q))
                          \union (IF Head(q).type = "live" THEN {Head(q).event} ELSE {})
           /\ InOrder(q, st) =>
                 /\ InOrder(Tail(q), st)
                 /\ Head(q).type = "live" => \A n \in LiveIn(Tail(q)) : Before(st, Head(q).event, n)
<1>1. PICK r \in Seq(Messages) :
          /\ r = Tail(q) /\ 1 \in DOMAIN q /\ Head(q) = q[1]
          /\ \A i \in DOMAIN r : i + 1 \in DOMAIN q /\ r[i] = q[i + 1] /\ i \in Nat /\ 1 < i + 1
          /\ \A i \in DOMAIN q \ {1} : i - 1 \in DOMAIN r /\ r[i - 1] = q[i]
    <2>1. Tail(q) \in Seq(Messages) /\ \A i \in DOMAIN Tail(q) : i \in Nat /\ 1 < i + 1
        BY TailAt
    <2> QED BY <2>1, TailAt
<1>2. LiveIn(q) = LiveIn(r) \union (IF Head(q).type = "live" THEN {Head(q).event} ELSE {})
    <2>1. ASSUME NEW i \in DOMAIN q, q[i].type = "live"
          PROVE  q[i].event \in LiveIn(r) \/ (q[i] = Head(q))
        BY <1>1, <2>1 DEF LiveIn
    <2>2. LiveIn(r) \subseteq LiveIn(q)
        BY <1>1 DEF LiveIn
    <2>3. Head(q).type = "live" => Head(q).event \in LiveIn(q)
        BY <1>1 DEF LiveIn
    <2>4. \A n \in LiveIn(q) : n \in LiveIn(r) \/ (Head(q).type = "live" /\ n = Head(q).event)
        BY <2>1 DEF LiveIn
    <2> QED BY <2>2, <2>3, <2>4
<1>3. ASSUME InOrder(q, st)
      PROVE  /\ InOrder(r, st)
             /\ Head(q).type = "live" => \A n \in LiveIn(r) : Before(st, Head(q).event, n)
    <2>1. InOrder(r, st)
        BY <1>1, <1>3 DEF InOrder
    <2>2. ASSUME NEW i \in DOMAIN r, r[i].type = "live", Head(q).type = "live"
          PROVE  Before(st, Head(q).event, r[i].event)
        BY <1>1, <1>3, <2>2 DEF InOrder
    <2> QED BY <2>1, <2>2 DEF LiveIn
<1> QED BY <1>1, <1>2, <1>3

\* when a replay follows it,
LEMMA LiveConcat ==
    ASSUME NEW q \in Seq(Messages), NEW r \in Seq(Messages), NEW st,
           \A i \in DOMAIN r : r[i].type = "replay"
    PROVE  /\ LiveIn(q \o r) = LiveIn(q)
           /\ InOrder(q, st) => InOrder(q \o r, st)
<1>1. PICK p \in Seq(Messages) :
          /\ p = q \o r /\ \A i \in DOMAIN q : i \in DOMAIN p /\ p[i] = q[i]
          /\ \A i \in DOMAIN p \ DOMAIN q : p[i].type = "replay"
    <2>1. \A i \in DOMAIN (q \o r) \ DOMAIN q : (q \o r)[i].type = "replay"
        <3>1. \A i \in DOMAIN (q \o r) \ DOMAIN q :
                 i - Len(q) \in DOMAIN r /\ (q \o r)[i] = r[i - Len(q)]
            BY ConcatAt
        <3> QED BY <3>1
    <2>2. /\ q \o r \in Seq(Messages)
          /\ \A i \in DOMAIN q : i \in DOMAIN (q \o r) /\ (q \o r)[i] = q[i]
        BY ConcatAt
    <2> QED BY <2>1, <2>2
<1>2. LiveIn(p) = LiveIn(q)
    BY <1>1 DEF LiveIn
<1>3. InOrder(q, st) => InOrder(p, st)
    BY <1>1 DEF InOrder
<1> QED BY <1>1, <1>2, <1>3

\* and when events are stamped.
LEMMA LiveGrows ==
    ASSUME NEW q, NEW st, NEW st2, NEW E, LiveIn(q) \subseteq E, \A n \in E : st2[n] = st[n],
           InOrder(q, st)
    PROVE  InOrder(q, st2)
<1>1. \A i \in DOMAIN q : q[i].type = "live" => q[i].event \in E
    BY DEF LiveIn
<1> QED BY <1>1 DEF InOrder, Before

\* An event is on its way in a queue when its message is.
LEMMA LiveMessage ==
    ASSUME NEW q \in Seq(Messages), NEW n \in Events
    PROVE  n \in LiveIn(q) <=> Live(n) \in ToSet(q)
<1>1. \A i \in DOMAIN q : q[i].type = "live" /\ q[i].event = n <=> q[i] = Live(n)
    BY MessageTypes
<1> QED BY <1>1 DEF LiveIn, ToSet

\* What the steps do to the events that are on their way to the leader.
LEMMA LiveSteps ==
    ASSUME TypeOK, StampInv, [Next]_vars, InOrder(gateway, stream), LiveIn(gateway) \subseteq Emitted
    PROVE  /\ \/ /\ EmitLive /\ emitting \in Past
                 /\ LiveIn(gateway') \subseteq LiveIn(gateway) \union {emitting}
                 /\ stream[emitting] = "xai" => LiveIn(gateway') = LiveIn(gateway) \union {emitting}
                 /\ LiveIn(gateway) \subseteq LiveIn(gateway')
              \/ /\ Deliver
                 /\ LiveIn(gateway) =
                       LiveIn(gateway') \union
                       (IF Head(gateway).type = "live" THEN {Head(gateway).event} ELSE {})
                 /\ Head(gateway).type = "live" =>
                       \A n \in LiveIn(gateway') : Before(stream, Head(gateway).event, n)
              \/ ~EmitLive /\ ~Deliver /\ LiveIn(gateway') = LiveIn(gateway)
           /\ InOrder(gateway', stream')
<1>a. /\ gateway \in Seq(Messages) /\ file \in Seq(Lines) /\ offset \in [Clients -> Nat]
      /\ emitting \in Nat /\ Events \subseteq Nat
    BY LoadAssumption DEF TypeOK, AgentType, DiskType, SessionType, Events
<1>b. /\ Emitted \subseteq Past /\ \A n \in Past : stream'[n] = stream[n] /\ n \in Nat /\ n \in Events
    BY StampCases DEF Emitted
<1>1. ASSUME EmitLive
      PROVE  /\ LiveIn(gateway') \subseteq LiveIn(gateway) \union {emitting} /\ emitting \in Past
             /\ stream[emitting] = "xai" => LiveIn(gateway') = LiveIn(gateway) \union {emitting}
             /\ LiveIn(gateway) \subseteq LiveIn(gateway')
             /\ InOrder(gateway', stream)
    <2>1. /\ emitting # 0 /\ gateway' \in {gateway, Append(gateway, Live(emitting))}
          /\ stream[emitting] = "xai" => gateway' = Append(gateway, Live(emitting))
        BY <1>1 DEF EmitLive, PassesGate
    <2>2. emitting \in Past /\ emitting \in Events
        BY <1>b, <2>1 DEF StampInv
    <2>3. PICK m \in Messages : m = Live(emitting) /\ m.type = "live" /\ m.event = emitting
        BY <2>2, MessageTypes
    <2>4. \A n \in LiveIn(gateway) : Before(stream, n, emitting)
        <3>1. \A n \in Emitted : UpTo(stream, n, emitting) /\ n # emitting
            BY <2>1 DEF StampInv, Emitted
        <3> QED BY <1>a, <1>b, <3>1 DEF UpTo, Before
    <2>5. /\ LiveIn(Append(gateway, m)) = LiveIn(gateway) \union {emitting}
          /\ InOrder(Append(gateway, m), stream)
        BY <1>a, <2>3, <2>4, LiveAppend
    <2> QED BY <2>1, <2>2, <2>3, <2>5
<1>2. ASSUME Interact \/ DropInteraction
      PROVE  LiveIn(gateway') = LiveIn(gateway) /\ InOrder(gateway', stream)
    <2>1. PICK m \in Messages : gateway' = Append(gateway, m) /\ m.type # "live"
        BY <1>2, MessageTypes DEF Interact, DropInteraction
    <2> QED BY <1>a, <2>1, LiveAppend
<1>3. ASSUME Deliver
      PROVE  /\ LiveIn(gateway) =
                   LiveIn(gateway') \union
                   (IF Head(gateway).type = "live" THEN {Head(gateway).event} ELSE {})
             /\ Head(gateway).type = "live" =>
                   \A n \in LiveIn(gateway') : Before(stream, Head(gateway).event, n)
             /\ InOrder(gateway', stream)
    <2>1. gateway # <<>> /\ gateway' = Tail(gateway)
        BY <1>3 DEF Deliver
    <2> QED BY <1>a, <2>1, LiveTail
<1>4. ASSUME NEW c \in Clients, ReplayUpdates(c) \/ ReplayDelta(c)
      PROVE  LiveIn(gateway') = LiveIn(gateway) /\ InOrder(gateway', stream)
    <2>1. SubSeq(file, offset[c] + 1, Len(file)) \in Seq(Lines)
        BY <1>a
    <2>2. PICK ls \in Seq(Lines) : gateway' = gateway \o Replayed(c, ls)
        BY <1>a, <1>4, <2>1 DEF ReplayUpdates, ReplayDelta
    <2>3. /\ Replayed(c, ls) \in Seq(Messages)
          /\ \A i \in DOMAIN Replayed(c, ls) : Replayed(c, ls)[i].type = "replay"
        BY ReplayedAt, MessageTypes
    <2> QED BY <1>a, <2>2, <2>3, LiveConcat
<1>5. InOrder(gateway', stream) /\ LiveIn(gateway') \subseteq Past => InOrder(gateway', stream')
    BY <1>b, LiveGrows
<1>6. LiveIn(gateway) \subseteq Past
    BY <1>b
<1>7. CASE EmitLive
    BY <1>1, <1>5, <1>6, <1>7
<1>8. CASE Deliver
    <2>1. LiveIn(gateway') \subseteq LiveIn(gateway)
        BY <1>3, <1>8
    <2> QED BY <1>3, <1>5, <1>6, <1>8, <2>1
<1>9. CASE ~EmitLive /\ ~Deliver
    <2>1. LiveIn(gateway') = LiveIn(gateway) /\ InOrder(gateway', stream)
        BY <1>2, <1>4, <1>9, WireSteps
    <2> QED BY <1>5, <1>6, <1>9, <2>1
<1> QED BY <1>7, <1>8, <1>9

\* What is sent live was emitted, and is sent in order: on the way to the leader, held back by
\* it, and before what is still to come.
WireInv ==
    /\ LiveIn(gateway) \subseteq Emitted /\ InOrder(gateway, stream)
    /\ \A c \in Clients :
          /\ LiveIn(buffer[c]) \subseteq Emitted /\ InOrder(buffer[c], stream)
          /\ \A m \in LiveIn(buffer[c]), n \in LiveIn(gateway) : Before(stream, m, n)

\* A highwater mark is that of an event the client was sent, and what is still on its way to
\* the leader is above it.
SeenInv ==
    \A c \in Clients, s \in Streams :
        /\ screen[c].seen[s] # 0 => screen[c].seen[s] \in Emitted /\ stream[screen[c].seen[s]] = s
        /\ \A n \in LiveIn(gateway) : stream[n] = s => screen[c].seen[s] < n

\* What the leader holds back is what it had and what is delivered.
LEMMA HeldSteps ==
    ASSUME TypeOK, PhaseInv, [Next]_vars, NEW c \in Clients
    PROVE  \/ buffer'[c] = buffer[c]
           \/ buffer'[c] = <<>>
           \/ /\ Deliver /\ Head(gateway).type # "replay"
              /\ buffer'[c] = Append(buffer[c], Head(gateway)) /\ Head(gateway) \in Messages
              /\ buffer[c] \in Seq(Messages) /\ c \in loading /\ HeldBack(c)
<1>a. /\ gateway \in Seq(Messages) /\ buffer \in [Clients -> Seq(Untargeted)]
      /\ loading \subseteq Clients
    BY DEF TypeOK, AgentType, LeaderType
<1>1. ASSUME NEW d \in Clients, Disconnect(d) \/ LoadFails(d) \/ Respond(d)
      PROVE  buffer'[c] \in {buffer[c], <<>>}
    <2>1. buffer' = [buffer EXCEPT ![d] = <<>>]
        BY <1>1 DEF Disconnect, LoadFails, Respond, Answered
    <2> QED BY <1>a, <2>1
<1>2. ASSUME Deliver
      PROVE  \/ buffer'[c] = buffer[c]
             \/ /\ Head(gateway).type # "replay" /\ buffer'[c] = Append(buffer[c], Head(gateway))
                /\ Head(gateway) \in Messages /\ buffer[c] \in Seq(Messages)
                /\ c \in loading /\ HeldBack(c)
    <2>1. Head(gateway) \in Messages
        BY <1>2, <1>a, TailAt DEF Deliver
    <2>2. buffer[c] \in Seq(Messages)
        BY <1>a, MessageTypes
    <2> QED BY <1>2, <2>1, <2>2 DEF Deliver, Unicast, Broadcast, HeldBack
<1>3. UNCHANGED buffer => buffer'[c] = buffer[c]
    OBVIOUS
<1> QED BY <1>1, <1>2, <1>3, BufferSteps

\* What is sent live stays in order.
LEMMA WireStep ==
    ASSUME TypeOK, PhaseInv, StampInv, WireInv, [Next]_vars
    PROVE  WireInv'
<1>b. /\ Emitted \subseteq Past /\ Emitted \subseteq Emitted' /\ Past \subseteq Past'
      /\ \A n \in Past : stream'[n] = stream[n] /\ n \in Nat /\ n \in Events
    BY StampCases DEF Emitted
<1>c. LiveIn(gateway) \subseteq Emitted /\ InOrder(gateway, stream)
    BY DEF WireInv
<1>1. LiveIn(gateway') \subseteq Emitted'
    <2>1. EmitLive => emitting' = 0 /\ Past' = Past /\ 0 \notin Past
        BY DEF EmitLive, Past, Stamped
    <2>2. EmitLive /\ emitting \in Past => emitting \in Emitted'
        BY <2>1 DEF Emitted
    <2> QED BY <1>b, <1>c, <2>2, LiveSteps
<1>2. InOrder(gateway', stream')
    BY <1>c, LiveSteps
<1>3. ASSUME NEW c \in Clients
      PROVE  /\ LiveIn(buffer'[c]) \subseteq Emitted' /\ InOrder(buffer'[c], stream')
             /\ \A m \in LiveIn(buffer'[c]), n \in LiveIn(gateway') : Before(stream', m, n)
    <2>a. /\ LiveIn(buffer[c]) \subseteq Emitted /\ InOrder(buffer[c], stream)
          /\ \A m \in LiveIn(buffer[c]), n \in LiveIn(gateway) : Before(stream, m, n)
        BY DEF WireInv
    <2>1. CASE buffer'[c] = buffer[c]
        <3>1. LiveIn(buffer'[c]) \subseteq Emitted /\ InOrder(buffer'[c], stream)
            BY <2>1, <2>a
        <3>2. InOrder(buffer'[c], stream')
            BY <1>b, <3>1, LiveGrows
        <3>3. ASSUME NEW m \in LiveIn(buffer[c]), NEW n \in LiveIn(gateway')
              PROVE  Before(stream', m, n)
            <4>0. m \in Emitted /\ m \in Past /\ m \in Nat
                BY <1>b, <2>a
            <4>1. CASE n \in LiveIn(gateway)
                <5>1. Before(stream, m, n) /\ n \in Past
                    BY <1>b, <1>c, <2>a, <4>1
                <5> QED BY <1>b, <4>0, <5>1 DEF Before
            <4>2. CASE EmitLive /\ n = emitting /\ emitting \in Past
                <5>1. UpTo(stream, m, emitting) /\ m # emitting
                    BY <4>0, <4>2 DEF StampInv, Emitted, Past, Stamped
                <5> QED BY <1>b, <4>0, <4>2, <5>1 DEF UpTo, Before
            <4> QED BY <1>c, <4>1, <4>2, LiveSteps
        <3> QED BY <1>b, <2>1, <3>1, <3>2, <3>3
    <2>2. CASE buffer'[c] = <<>>
        BY <2>2 DEF LiveIn, InOrder
    <2>3. CASE /\ Deliver /\ Head(gateway).type # "replay"
               /\ buffer'[c] = Append(buffer[c], Head(gateway)) /\ Head(gateway) \in Messages
               /\ buffer[c] \in Seq(Messages)
        <3> DEFINE m == Head(gateway)
        <3>1. /\ LiveIn(gateway) = LiveIn(gateway') \union (IF m.type = "live" THEN {m.event} ELSE {})
              /\ m.type = "live" => \A n \in LiveIn(gateway') : Before(stream, m.event, n)
              /\ stream' = stream /\ Emitted' = Emitted
            <4>2. stream' = stream /\ eventQ' = eventQ /\ emitting' = emitting
                BY <2>3 DEF Deliver, session
            <4>3. ~EmitLive
                BY <4>2 DEF EmitLive
            <4> QED BY <1>c, <2>3, <4>2, <4>3, LiveSteps DEF Emitted, Past, Stamped
        <3> HIDE DEF m
        <3>2. LiveIn(buffer'[c]) = LiveIn(buffer[c]) \union (IF m.type = "live" THEN {m.event} ELSE {})
            BY <2>3, LiveAppend DEF m
        <3>3. m.type = "live" => \A n \in LiveIn(buffer[c]) : Before(stream, n, m.event)
            BY <2>a, <3>1
        <3>4. InOrder(buffer'[c], stream)
            BY <2>3, <2>a, <3>3, LiveAppend DEF m
        <3>5. LiveIn(buffer'[c]) \subseteq Emitted
            BY <1>c, <2>a, <3>1, <3>2
        <3>6. \A k \in LiveIn(buffer'[c]), n \in LiveIn(gateway') : Before(stream, k, n)
            BY <2>a, <3>1, <3>2
        <3> QED BY <3>1, <3>4, <3>5, <3>6
    <2> QED BY <2>1, <2>2, <2>3, HeldSteps
<1> QED BY <1>1, <1>2, <1>3 DEF WireInv

\* A message moves the highwater mark of its event's stream only,
LEMMA SeenAfter ==
    ASSUME NEW t \in Screens, NEW m \in Messages, NEW s \in Streams
    PROVE  \/ Receive(t, m).seen[s] = t.seen[s]
           \/ m.type = "live" /\ stream[m.event] = s /\ Receive(t, m).seen[s] = m.event
<1>1. t.seen \in [Streams -> 0..MaxEvents]
    BY DEF Screens
<1>2. CASE m.type = "live" /\ ~(m.event <= t.seen[stream[m.event]])
    <2>1. Receive(t, m).seen = [t.seen EXCEPT ![stream[m.event]] = m.event]
        BY <1>2, ReceiveAt
    <2> QED BY <1>1, <1>2, <2>1
<1>3. CASE m.type = "live" /\ m.event <= t.seen[stream[m.event]]
    BY <1>3, ReceiveAt
<1>4. CASE m.type # "live"
    <2>1. m.type \in {"replay", "ask", "resolved"}
        BY <1>4, MessageTypes
    <2>2. Receive(t, m).seen = t.seen
        BY <2>1, ReceiveAt
    <2> QED BY <2>2
<1> QED BY <1>2, <1>3, <1>4

\* and adds to what is shown.
LEMMA ShownAfter ==
    ASSUME NEW t \in Screens, NEW m \in Messages
    PROVE  /\ ToSet(t.events) \subseteq ToSet(Receive(t, m).events)
           /\ m.type = "live" /\ ~(m.event <= t.seen[stream[m.event]]) =>
                 ToSet(Receive(t, m).events) = ToSet(t.events) \union {m.event}
           /\ m.type = "replay" =>
                 ToSet(Receive(t, m).events) = ToSet(t.events) \union ToSet(m.line)
           /\ m.type \in {"ask", "resolved"} \/ (m.type = "live" /\ m.event <= t.seen[stream[m.event]]) =>
                 ToSet(Receive(t, m).events) = ToSet(t.events)
<1>1. t.events \in Seq(Events)
    BY DEF Screens
<1>2. CASE m.type = "live" /\ ~(m.event <= t.seen[stream[m.event]])
    <2>1. Receive(t, m).events = Append(t.events, m.event) /\ m.event \in Events
        BY <1>2, ReceiveAt, MessageTypes
    <2>2. ToSet(Receive(t, m).events) = ToSet(t.events) \union {m.event}
        BY <1>1, <2>1, SetAfter
    <2> QED BY <1>2, <2>2
<1>3. CASE m.type = "live" /\ m.event <= t.seen[stream[m.event]]
    <2>1. Receive(t, m) = t
        BY <1>3, ReceiveAt
    <2> QED BY <1>3, <2>1
<1>4. CASE m.type = "replay"
    <2>1. Receive(t, m).events = t.events \o m.line /\ m.line \in Seq(Events)
        BY <1>4, ReceiveAt, MessageTypes DEF Lines
    <2>2. ToSet(Receive(t, m).events) = ToSet(t.events) \union ToSet(m.line)
        BY <1>1, <2>1, SetAfter
    <2> QED BY <1>4, <2>2
<1>5. CASE m.type \in {"ask", "resolved"}
    <2>1. Receive(t, m).events = t.events
        BY <1>5, ReceiveAt
    <2> QED BY <1>5, <2>1
<1> QED BY <1>2, <1>3, <1>4, <1>5, MessageTypes

\* The release of the buffer does both with what was held back.
LEMMA ReleasedSeen ==
    ASSUME NEW c, buffer[c] \in Seq(Untargeted), screen[c] \in Screens
    PROVE  /\ \A s \in Streams :
                 \/ Released(c).seen[s] = screen[c].seen[s]
                 \/ Released(c).seen[s] \in LiveIn(buffer[c]) /\ stream[Released(c).seen[s]] = s
           /\ ToSet(screen[c].events) \subseteq ToSet(Released(c).events)
           /\ ToSet(Released(c).events) \subseteq ToSet(screen[c].events) \union LiveIn(buffer[c])
<1> DEFINE n == Len(buffer[c])
           Marks(t) == \A s \in Streams :
                          \/ t.seen[s] = screen[c].seen[s]
                          \/ t.seen[s] \in LiveIn(buffer[c]) /\ stream[t.seen[s]] = s
           Shows(t) == /\ ToSet(screen[c].events) \subseteq ToSet(t.events)
                       /\ ToSet(t.events) \subseteq ToSet(screen[c].events) \union LiveIn(buffer[c])
           G == [i \in Nat |-> {t \in Screens : Marks(t) /\ Shows(t)}]
<1>a. n \in Nat /\ DOMAIN buffer[c] = 1..n
    OBVIOUS
<1>1. ASSUME NEW i \in 1..n, NEW t \in G[i - 1]
      PROVE  Round(c, t, buffer[c][i]) \in G[i]
    <2>0. i \in Nat /\ i - 1 \in Nat /\ t \in Screens /\ Marks(t) /\ Shows(t)
        BY <1>1
    <2>1. PICK m \in Messages : m = buffer[c][i] /\ m.type # "replay"
        <3>1. buffer[c][i] \in Untargeted
            BY <1>a
        <3> QED BY <3>1, MessageTypes DEF Untargeted, Ask, Resolved
    <2>2. Receive(t, m) \in Screens
        BY <2>0, ReceiveType
    <2>3. m.type = "live" => m.event \in LiveIn(buffer[c])
        BY <1>a, <2>1 DEF LiveIn
    <2>4. Marks(Receive(t, m))
        BY <2>0, <2>3, SeenAfter
    <2>5. Shows(Receive(t, m))
        <3>1. \/ ToSet(Receive(t, m).events) = ToSet(t.events)
              \/ m.type = "live" /\ ToSet(Receive(t, m).events) = ToSet(t.events) \union {m.event}
            BY <2>0, <2>1, ShownAfter, MessageTypes
        <3> QED BY <2>0, <2>3, <3>1
    <2> HIDE DEF Marks, Shows
    <2> QED BY <2>0, <2>1, <2>2, <2>4, <2>5 DEF Round
<1>2. screen[c] \in G[0]
    OBVIOUS
<1>3. Released(c) \in G[n]
    <2> HIDE DEF G
    <2> QED BY <1>1, <1>2, ReleasedInv
<1>4. Marks(Released(c)) /\ Shows(Released(c))
    <2> HIDE DEF Marks, Shows
    <2> QED BY <1>a, <1>3
<1> QED BY <1>4

\* What a step does to a client's screen.
LEMMA ScreenCases ==
    ASSUME TypeOK, PhaseInv, [Next]_vars, NEW c \in Clients
    PROVE  \/ screen'[c] = screen[c]
           \/ /\ Deliver /\ Head(gateway) \in Messages /\ screen[c] \in Screens
              /\ screen'[c] = Receive(screen[c], Head(gateway))
           \/ /\ LoadFails(c) \/ Respond(c)
              /\ c \in loading /\ Released(c) \in Screens
              /\ screen'[c].seen = Released(c).seen /\ screen'[c].events = Released(c).events
<1>1. screen[c] \in Screens /\ buffer[c] \in Seq(Untargeted) /\ cached \in BOOLEAN
    BY DEF TypeOK, LeaderType
<1>2. ASSUME NEW d \in Clients, LoadFails(d) \/ Respond(d), screen'[c] # screen[c]
      PROVE  /\ LoadFails(c) \/ Respond(c)
             /\ c \in loading /\ Released(c) \in Screens
             /\ screen'[c].seen = Released(c).seen /\ screen'[c].events = Released(c).events
    <2>1. Answered(d)
        BY <1>2 DEF LoadFails, Respond
    <2>2. d = c /\ c \in loading
        BY <1>2, <2>1, AnsweredScreen
    <2>3. Released(c) \in Screens /\ Ask \in Messages /\ Ask.type = "ask"
        BY <1>1, ReleasedType, MessageTypes
    <2>4. screen'[c] = IF cached THEN Receive(Released(c), Ask) ELSE Released(c)
        BY <2>1, <2>2, AnsweredScreen
    <2>5. /\ Receive(Released(c), Ask).seen = Released(c).seen
          /\ Receive(Released(c), Ask).events = Released(c).events
        BY <2>3, ReceiveAt
    <2> QED BY <1>2, <2>2, <2>3, <2>4, <2>5
<1>3. ASSUME Deliver, screen'[c] # screen[c]
      PROVE  screen'[c] = Receive(screen[c], Head(gateway)) /\ Head(gateway) \in Messages
    BY <1>3, DeliveredScreen
<1>4. CASE screen'[c] = screen[c]
    BY <1>4
<1>5. CASE screen'[c] # screen[c]
    <2>1. Deliver \/ \E d \in Clients : LoadFails(d) \/ Respond(d)
        BY <1>5, ScreenSteps
    <2> QED BY <1>1, <1>2, <1>3, <1>5, <2>1
<1> QED BY <1>4, <1>5

\* Nothing is taken from a screen.
LEMMA ShownGrows ==
    ASSUME TypeOK, PhaseInv, [Next]_vars, NEW c \in Clients
    PROVE  Shown(c) \subseteq ToSet(screen'[c].events)
<1>1. screen[c] \in Screens /\ buffer[c] \in Seq(Untargeted)
    BY DEF TypeOK, LeaderType
<1>2. \A m \in Messages : ToSet(screen[c].events) \subseteq ToSet(Receive(screen[c], m).events)
    BY <1>1, ShownAfter
<1>3. ToSet(screen[c].events) \subseteq ToSet(Released(c).events)
    BY <1>1, ReleasedSeen
<1> QED BY <1>2, <1>3, ScreenCases DEF Shown

\* The highwater marks stay below what is still to come.
LEMMA SeenStep ==
    ASSUME TypeOK, PhaseInv, StampInv, WireInv, SeenInv, [Next]_vars
    PROVE  SeenInv'
<1>a. screen \in [Clients -> Screens] /\ buffer \in [Clients -> Seq(Untargeted)]
    BY DEF TypeOK, LeaderType
<1>b. /\ Emitted \subseteq Past /\ Emitted \subseteq Emitted'
      /\ \A n \in Past : stream'[n] = stream[n] /\ n \in Nat /\ n \in Events
    BY StampCases DEF Emitted
<1>c. LiveIn(gateway) \subseteq Emitted /\ InOrder(gateway, stream)
    BY DEF WireInv
<1> SUFFICES ASSUME NEW c \in Clients, NEW s \in Streams
             PROVE  /\ screen'[c].seen[s] # 0 =>
                          screen'[c].seen[s] \in Emitted' /\ stream'[screen'[c].seen[s]] = s
                    /\ \A n \in LiveIn(gateway') : stream'[n] = s => screen'[c].seen[s] < n
    BY DEF SeenInv
<1>1. CASE screen'[c].seen[s] = screen[c].seen[s]
    <2> DEFINE x == screen[c].seen[s]
    <2>1. x \in Nat /\ (x # 0 => x \in Emitted /\ x \in Past /\ stream[x] = s)
        <3>1. screen[c].seen \in [Streams -> 0..MaxEvents]
            BY <1>a DEF Screens
        <3>2. x \in Nat
            BY <3>1, LoadAssumption
        <3> QED BY <1>b, <3>2 DEF SeenInv
    <2>2. ASSUME NEW n \in LiveIn(gateway'), stream'[n] = s PROVE x < n
        <3>1. CASE n \in LiveIn(gateway)
            BY <1>b, <1>c, <2>2, <3>1 DEF SeenInv
        <3>2. CASE n = emitting /\ emitting \in Past
            <4>1. stream[emitting] = s /\ emitting \in Nat \ {0}
                BY <1>b, <2>2, <3>2 DEF Past, Stamped
            <4>2. x # 0 => UpTo(stream, x, emitting) /\ x # emitting
                BY <2>1, <4>1 DEF StampInv, Emitted
            <4> QED BY <2>1, <3>2, <4>1, <4>2 DEF UpTo
        <3> QED BY <1>c, <3>1, <3>2, LiveSteps
    <2> HIDE DEF x
    <2>3. x # 0 => x \in Emitted' /\ stream'[x] = s
        BY <1>b, <2>1
    <2> QED BY <1>1, <2>2, <2>3 DEF x
<1>2. ASSUME NEW x \in Emitted, x = screen'[c].seen[s], stream[x] = s, stream' = stream,
             \A n \in LiveIn(gateway') : Before(stream, x, n)
      PROVE  /\ screen'[c].seen[s] # 0 =>
                   screen'[c].seen[s] \in Emitted' /\ stream'[screen'[c].seen[s]] = s
             /\ \A n \in LiveIn(gateway') : stream'[n] = s => screen'[c].seen[s] < n
    BY <1>b, <1>2 DEF Before
<1>3. CASE /\ Deliver /\ Head(gateway) \in Messages
           /\ screen'[c] = Receive(screen[c], Head(gateway)) /\ screen'[c].seen[s] # screen[c].seen[s]
    <2> DEFINE m == Head(gateway)
    <2>1. m.type = "live" /\ stream[m.event] = s /\ screen'[c].seen[s] = m.event
        BY <1>3, <1>a, SeenAfter
    <2>2. stream' = stream /\ emitting' = emitting
        BY <1>3 DEF Deliver, session
    <2>3. ~EmitLive
        BY <2>2 DEF EmitLive
    <2>4. m.event \in Emitted /\ \A n \in LiveIn(gateway') : Before(stream, m.event, n)
        BY <1>3, <1>c, <2>1, <2>3, LiveSteps
    <2> QED BY <1>2, <2>1, <2>2, <2>4
<1>4. CASE /\ LoadFails(c) \/ Respond(c)
           /\ screen'[c].seen = Released(c).seen /\ screen'[c].seen[s] # screen[c].seen[s]
    <2>1. screen'[c].seen[s] \in LiveIn(buffer[c]) /\ stream[screen'[c].seen[s]] = s
        BY <1>4, <1>a, ReleasedSeen
    <2>2. stream' = stream /\ gateway' = gateway
        BY <1>4, AnswersAt
    <2>3. /\ LiveIn(buffer[c]) \subseteq Emitted
          /\ \A m \in LiveIn(buffer[c]), n \in LiveIn(gateway) : Before(stream, m, n)
        BY DEF WireInv
    <2> QED BY <1>2, <2>1, <2>2, <2>3
<1> QED BY <1>1, <1>3, <1>4, ScreenCases

\* One-shots reach a client from the moment its load is answered.
LEMMA ReachStep ==
    ASSUME TypeOK, PhaseInv, StampInv, WireInv, SeenInv, OneShotsReach, [Next]_vars
    PROVE  OneShotsReach'
<1>a. /\ screen \in [Clients -> Screens] /\ gateway \in Seq(Messages) /\ gateway' \in Seq(Messages)
      /\ online \in [Clients -> {"new", "on", "off"}] /\ load \in [Clients -> Labels]
    BY TypeStep DEF TypeOK, LeaderType, AgentType
<1>b. /\ Emitted \subseteq Past /\ Past \subseteq Stamped
      /\ \A n \in Stamped : stream'[n] = stream[n] /\ n \in Nat /\ n \in Events /\ n \in Stamped'
    BY StampCases DEF Emitted
<1>c. LiveIn(gateway) \subseteq Emitted /\ InOrder(gateway, stream)
    BY DEF WireInv
<1> SUFFICES ASSUME NEW c \in Clients, Attached(c)', NEW n \in attached'[c] + 1 .. Len(stream'),
                    stream'[n] = "xai", Settled(n)'
             PROVE  n \in ToSet(screen'[c].events)
    BY DEF OneShotsReach, Shown
<1>0. stream \in Seq(Streams) /\ Len(stream) \in Nat /\ attached \in [Clients -> 0..MaxEvents]
    BY DEF TypeOK, SessionType, HistoryType
<1>1. CASE LoadFails(c) \/ Respond(c)
    <2>1. attached'[c] = Len(stream) /\ stream' = stream
        BY <1>1, AnswersAt
    <2> QED BY <1>0, <2>1
<1>2. CASE ~(LoadFails(c) \/ Respond(c))
    <2>1. attached'[c] = attached[c] /\ load[c] = "done"
        <3>1. CASE \E d \in Clients : LoadFails(d) \/ Respond(d)
            BY <1>2, <3>1, AnswersAt DEF Attached
        <3>2. CASE ~ \E d \in Clients : LoadFails(d) \/ Respond(d)
            BY <3>2, NoAnswer DEF Attached
        <3> QED BY <3>1, <3>2
    <2>2. online[c] = "on"
        <3>1. ASSUME NEW d \in Clients, Request(d) \/ Disconnect(d) PROVE online[c] = "on"
            BY <1>a, <2>1, <3>1 DEF Request, Disconnect, Attached, PhaseInv
        <3> QED BY <3>1, RouteSteps DEF Attached
    <2>3. Attached(c)
        BY <2>1, <2>2 DEF Attached
    <2>4. n \in Stamped /\ n \in Events /\ stream[n] = "xai" /\ n \in attached[c] + 1 .. Len(stream)
        <3>1. n \in Stamped' /\ n \in Nat /\ attached[c] + 1 <= n
            BY <1>0, <2>1, LoadAssumption, TypeStep DEF Stamped, TypeOK, SessionType
        <3>2. n \in Stamped
            <4>1. stream' = stream => Stamped' = Stamped
                BY DEF Stamped
            <4>2. emitting' # n
                BY DEF Settled
            <4> QED BY <3>1, <4>1, <4>2, StampCases
        <3> QED BY <1>0, <1>b, <3>1, <3>2 DEF Stamped
    <2>5. n # emitting' /\ n \notin ToSet(eventQ') /\ n \notin LiveIn(gateway')
        BY <1>a, <2>4, LiveMessage DEF Settled
    <2>6. n \notin ToSet(eventQ)
        BY <2>4 DEF StampInv
    <2>7. n # emitting
        <3>1. EmitLive /\ n = emitting => n \in LiveIn(gateway')
            BY <1>c, <2>4, LiveSteps DEF EmitLive, Deliver, session
        <3>2. n # 0
            BY <2>4 DEF Stamped
        <3> QED BY <2>5, <3>1, <3>2, EmitSteps DEF EmitBuffered, SendXai
    <2>8. CASE n \notin LiveIn(gateway)
        <3>1. Settled(n)
            BY <1>a, <2>4, <2>6, <2>7, <2>8, LiveMessage DEF Settled
        <3>2. n \in Shown(c)
            BY <2>3, <2>4, <3>1 DEF OneShotsReach
        <3> QED BY <3>2, ShownGrows
    <2>9. CASE n \in LiveIn(gateway)
        <3> DEFINE m == Head(gateway)
        <3>1. Deliver /\ m.type = "live" /\ m.event = n
            BY <1>c, <2>5, <2>9, LiveSteps
        <3>2. m \in Messages /\ screen'[c] = Receive(screen[c], m)
            <4>1. c \in subs /\ c \notin loading
                BY <2>1, <2>2 DEF PhaseInv, Busy
            <4> QED BY <3>1, <4>1, DeliveredScreen DEF HeldBack
        <3>3. screen[c].seen["xai"] < n /\ screen[c].seen["xai"] \in Nat
            <4>1. screen[c].seen \in [Streams -> 0..MaxEvents]
                BY <1>a DEF Screens
            <4> QED BY <2>4, <2>9, <4>1, LoadAssumption DEF SeenInv, Streams
        <3>4. ~(m.event <= screen[c].seen[stream[m.event]])
            BY <1>b, <2>4, <3>1, <3>3
        <3> HIDE DEF m
        <3>5. ToSet(screen'[c].events) = ToSet(screen[c].events) \union {m.event}
            BY <1>a, <3>1, <3>2, <3>4, ShownAfter
        <3> QED BY <3>1, <3>5
    <2> QED BY <2>8, <2>9
<1> QED BY <1>1, <1>2

\* In the beginning nothing is stamped.
LEMMA ReachInit ==
    ASSUME Init
    PROVE  StampInv /\ WireInv /\ SeenInv /\ OneShotsReach
<1>1. /\ stream = <<>> /\ eventQ = <<>> /\ emitting = 0 /\ gateway = <<>>
      /\ \A c \in Clients : buffer[c] = <<>> /\ screen[c].seen = [s \in Streams |-> 0]
      /\ \A c \in Clients : attached[c] = 0
    BY DEF Init
<1>2. LiveIn(<<>>) = {} /\ ToSet(<<>>) = {} /\ \A st : InOrder(<<>>, st)
    BY DEF LiveIn, ToSet, InOrder
<1>3. StampInv
    BY <1>1, <1>2 DEF StampInv, Past, Stamped
<1>4. WireInv
    BY <1>1, <1>2 DEF WireInv
<1>5. SeenInv
    BY <1>1, <1>2 DEF SeenInv
<1>6. OneShotsReach
    BY <1>1 DEF OneShotsReach
<1> QED BY <1>3, <1>4, <1>5, <1>6

ReachInv == TypeOK /\ PhaseInv /\ StampInv /\ WireInv /\ SeenInv /\ OneShotsReach

\* These are kept together.
LEMMA ReachCorrect == Spec => []ReachInv
<1>1. Init => ReachInv
    BY TypeInit, ReachInit DEF ReachInv
<1>2. ReachInv /\ [Next]_vars => ReachInv'
    BY TypeStep, StampStep, WireStep, SeenStep, ReachStep DEF ReachInv
<1> QED BY <1>1, <1>2, PTL DEF Spec

\* A one-shot that the session emits after a client's load was answered is shown by that client
\* once it has gone everywhere it goes, whatever the loads of others do to the gate
\* (send_xai_notification passes no gate).
THEOREM OneShotsReachCorrect == Spec => []OneShotsReach
BY ReachCorrect, PTL DEF ReachInv

-------------------------------------------------------------------------------
(* The second flush *)

\* The second flush of a load is asked for once.  It is on its way to the session or to the
\* persistence actor only while the load waits for it, or has given up.
Second(c) == [who |-> c, nth |-> 2]
FlushAt(c, i) == persistQ[i].type = "flush" /\ Second(c) \in persistQ[i].for
FlushInv ==
    /\ \A i \in DOMAIN persistQ : persistQ[i].type = "flush" => \A f, g \in persistQ[i].for : f = g
    /\ \A c \in late : load[c] \in {"open", "drain", "done"}
    /\ \A c \in Clients, i \in DOMAIN cmdQ :
          cmdQ[i] = Second(c) => load[c] = "flush2" \/ c \in late
    /\ \A c \in Clients, i \in DOMAIN persistQ :
          FlushAt(c, i) => load[c] = "flush2" \/ c \in late
    /\ \A c \in Clients, i, j \in DOMAIN cmdQ : cmdQ[i] = Second(c) /\ cmdQ[j] = Second(c) => i = j
    /\ \A c \in Clients, i \in DOMAIN persistQ, j \in DOMAIN cmdQ :
          ~(FlushAt(c, i) /\ cmdQ[j] = Second(c))
    /\ \A c \in Clients, i, j \in DOMAIN persistQ : FlushAt(c, i) /\ FlushAt(c, j) => i = j

\* Where a load can get to in a step.
LEMMA LoadMoves ==
    ASSUME TypeOK, PhaseInv, FlushInv, [Next]_vars, NEW c \in Clients
    PROVE  \/ load'[c] = load[c]
           \/ Request(c) /\ load[c] = "idle" /\ load'[c] = "asked"
           \/ CloseGate(c) /\ load[c] = "asked" /\ load'[c] = "flush1"
           \/ load[c] = "flush1" /\ load'[c] = "light"
           \/ FlushTimeout(c) /\ load[c] = "flush2" /\ load'[c] = "open" /\ late' = late \union {c}
           \/ LoadFails(c) /\ load[c] = "light" /\ load'[c] = "failed"
           \/ ReplayUpdates(c) /\ load[c] = "light" /\ load'[c] = "replay"
           \/ SecondFlush(c) /\ load[c] = "replay" /\ load'[c] = "flush2"
           \/ /\ PersistFlush /\ load[c] = "flush2" /\ load'[c] = "delta"
              /\ persistQ # <<>> /\ FlushAt(c, 1)
           \/ ReplayDelta(c) /\ load[c] = "delta" /\ load'[c] = "open"
           \/ OpenGate(c) /\ load[c] = "open" /\ load'[c] = "drain"
           \/ Respond(c) /\ load[c] = "drain" /\ load'[c] = "done"
<1>a. AgentType /\ load \in [Clients -> Labels]
    BY DEF TypeOK, AgentType
<1>1. ASSUME NEW d \in Clients, NEW l \in Labels, Goto(d, l), load'[c] # load[c]
      PROVE  d = c /\ load'[c] = l
    BY <1>1, <1>a, GotoAt
<1> USE DEF Labels
<1>2. ASSUME NEW d \in Clients, Request(d), load'[c] # load[c]
      PROVE  Request(c) /\ load[c] = "idle" /\ load'[c] = "asked"
    BY <1>a, <1>2 DEF Request, PhaseInv
<1>3. ASSUME NEW d \in Clients, CloseGate(d), load'[c] # load[c]
      PROVE  CloseGate(c) /\ load[c] = "asked" /\ load'[c] = "flush1"
    <2>1. Goto(d, "flush1") /\ load[d] = "asked"
        BY <1>3 DEF CloseGate
    <2> QED BY <1>1, <1>3, <2>1
<1>4. ASSUME NEW d \in Clients, FlushTimeout(d), load'[c] # load[c]
      PROVE  \/ load[c] = "flush1" /\ load'[c] = "light"
             \/ FlushTimeout(c) /\ load[c] = "flush2" /\ load'[c] = "open" /\ late' = late \union {c}
    <2>1. \/ Goto(d, "light") /\ load[d] = "flush1"
          \/ Goto(d, "open") /\ load[d] = "flush2" /\ late' = late \union {d}
        BY <1>4 DEF FlushTimeout
    <2> QED BY <1>1, <1>4, <2>1
<1>5. ASSUME NEW d \in Clients, LoadFails(d), load'[c] # load[c]
      PROVE  LoadFails(c) /\ load[c] = "light" /\ load'[c] = "failed"
    <2>1. Goto(d, "failed") /\ load[d] = "light"
        BY <1>5 DEF LoadFails
    <2> QED BY <1>1, <1>5, <2>1
<1>6. ASSUME NEW d \in Clients, ReplayUpdates(d), load'[c] # load[c]
      PROVE  ReplayUpdates(c) /\ load[c] = "light" /\ load'[c] = "replay"
    <2>1. Goto(d, "replay") /\ load[d] = "light"
        BY <1>6 DEF ReplayUpdates
    <2> QED BY <1>1, <1>6, <2>1
<1>7. ASSUME NEW d \in Clients, SecondFlush(d), load'[c] # load[c]
      PROVE  SecondFlush(c) /\ load[c] = "replay" /\ load'[c] = "flush2"
    <2>1. Goto(d, "flush2") /\ load[d] = "replay"
        BY <1>7 DEF SecondFlush
    <2> QED BY <1>1, <1>7, <2>1
<1>8. ASSUME NEW d \in Clients, ReplayDelta(d), load'[c] # load[c]
      PROVE  ReplayDelta(c) /\ load[c] = "delta" /\ load'[c] = "open"
    <2>1. Goto(d, "open") /\ load[d] = "delta"
        BY <1>8 DEF ReplayDelta
    <2> QED BY <1>1, <1>8, <2>1
<1>9. ASSUME NEW d \in Clients, OpenGate(d), load'[c] # load[c]
      PROVE  OpenGate(c) /\ load[c] = "open" /\ load'[c] = "drain"
    <2>1. Goto(d, "drain") /\ load[d] = "open"
        BY <1>9 DEF OpenGate
    <2> QED BY <1>1, <1>9, <2>1
<1>10. ASSUME NEW d \in Clients, Respond(d), load'[c] # load[c]
       PROVE  Respond(c) /\ load[c] = "drain" /\ load'[c] = "done"
    <2>1. Goto(d, "done") /\ load[d] = "drain"
        BY <1>10 DEF Respond
    <2> QED BY <1>1, <1>10, <2>1
<1>11. ASSUME PersistFlush, load'[c] # load[c]
       PROVE  \/ load[c] = "flush1" /\ load'[c] = "light"
              \/ /\ load[c] = "flush2" /\ load'[c] = "delta"
                 /\ persistQ # <<>> /\ FlushAt(c, 1)
    <2>1. persistQ # <<>> /\ Head(persistQ).type = "flush" /\ persistQ \in Seq(Writes)
        BY <1>11 DEF PersistFlush, TypeOK, DiskType
    <2>2. PICK w \in Writes : w = Head(persistQ) /\ w = persistQ[1] /\ 1 \in DOMAIN persistQ
        BY <2>1, TailAt
    <2>3. PICK f \in w.for : f.who = c /\ Awaits(f)
        BY <1>11, <2>2 DEF PersistFlush
    <2>4. load'[c] = AfterFlush(CHOOSE g \in w.for : TRUE)
        BY <1>11, <2>2, <2>3 DEF PersistFlush
    <2>5. (CHOOSE g \in w.for : TRUE) = f
        BY <2>1, <2>2, <2>3 DEF FlushInv
    <2>6. f \in Flushes
        BY <2>1, <2>2, <2>3 DEF Writes
    <2>7. CASE f.nth = 1
        BY <2>3, <2>4, <2>5, <2>7 DEF Awaits, AfterFlush
    <2>8. CASE f.nth = 2
        <3>1. f = Second(c)
            BY <2>3, <2>6, <2>8 DEF Second, Flushes
        <3> QED BY <2>1, <2>2, <2>3, <2>4, <2>5, <2>8, <3>1 DEF Awaits, AfterFlush, FlushAt
    <2> QED BY <2>6, <2>7, <2>8 DEF Flushes
<1>12. CASE load'[c] = load[c]
    BY <1>12
<1>13. CASE load'[c] # load[c]
    BY <1>13, <1>2, <1>3, <1>4, <1>5, <1>6, <1>7, <1>8, <1>9, <1>10, <1>11, LoadSteps
<1> QED BY <1>12, <1>13

\* The session takes a flush and passes it on.
FlushTaken(w) ==
    /\ persistQ' = Append(persistQ, w) /\ UNCHANGED <<pending, file>>
    /\ w.type = "flush" /\ w.for = {Head(cmdQ)} /\ Head(cmdQ) \in Flushes
    /\ cmdQ # <<>> /\ cmdQ' = Tail(cmdQ) /\ UNCHANGED <<late, load>>
    /\ UNCHANGED <<stream, eventQ, emitting>> /\ eventQ = <<>>
    /\ \A c \in Clients : owed'[c] = IF Head(cmdQ) = Second(c) THEN Len(stream) ELSE owed[c]

\* What the session puts in the queue when it takes a flush.
LEMMA FlushIsTaken ==
    ASSUME TypeOK, FlushComplete
    PROVE  \E w \in Writes : FlushTaken(w)
<1>a. cmdQ \in Seq(Flushes)
    BY DEF TypeOK, SessionType
<1>1. PICK f \in Flushes : f = Head(cmdQ)
    BY <1>a, TailAt DEF FlushComplete
<1>2. [type |-> "flush", for |-> {f}] \in Writes
    BY DEF Writes
<1>3. owed' = IF f.nth = 2 THEN [owed EXCEPT ![f.who] = Len(stream)] ELSE owed
    BY <1>1 DEF FlushComplete
<1>4. ASSUME NEW c \in Clients PROVE f = Second(c) <=> f.nth = 2 /\ f.who = c
    BY DEF Flushes, Second
<1>5. \A c \in Clients : owed'[c] = IF f = Second(c) THEN Len(stream) ELSE owed[c]
    BY <1>3, <1>4 DEF TypeOK, HistoryType
<1> QED BY <1>1, <1>2, <1>5 DEF FlushComplete, FlushTaken, session, agent

\* What is sent to the persistence actor, and what it takes.
LEMMA WriteCases ==
    ASSUME TypeOK, [Next]_vars
    PROVE  \/ UNCHANGED persistQ /\ ~FlushComplete /\ ~PersistUpdate /\ ~PersistFlush
           \/ /\ persistQ # <<>> /\ persistQ' = Tail(persistQ) /\ UNCHANGED <<cmdQ, owed, eventQ>>
              /\ PersistUpdate \/ PersistFlush
           \/ \E w \in Writes :
                 /\ persistQ' = Append(persistQ, w) /\ UNCHANGED <<pending, file>>
                 /\ \/ /\ EmitBuffered \/ SendXai
                       /\ w.type = "update" /\ w.event = emitting' /\ UNCHANGED <<cmdQ, owed, load>>
                    \/ /\ ChatFlush /\ w.type = "flush" /\ w.for = {} /\ UNCHANGED <<cmdQ, owed, load>>
                    \/ FlushComplete /\ FlushTaken(w)
<1>a. persistQ \in Seq(Writes) /\ cmdQ \in Seq(Flushes)
    BY DEF TypeOK, DiskType, SessionType
<1>1. ASSUME EmitBuffered \/ SendXai
      PROVE  \E w \in Writes : /\ persistQ' = Append(persistQ, w) /\ UNCHANGED <<pending, file>>
                               /\ w.type = "update" /\ w.event = emitting'
                               /\ UNCHANGED <<cmdQ, owed, load>>
    <2>1. emitting' \in Events
        <3>1. emitting' # 0
            <4>1. EmitBuffered => emitting' \in Events
                BY TailAt DEF EmitBuffered, TypeOK, SessionType
            <4>2. SendXai => emitting' = Len(stream) + 1
                <5>1. SendXai => stream' = Append(stream, "xai") /\ emitting' = Len(stream')
                    BY DEF SendXai
                <5>2. stream \in Seq(Streams) /\ "xai" \in Streams
                    BY DEF TypeOK, SessionType, Streams
                <5> QED BY <5>1, <5>2, AppendAt
            <4>3. Len(stream) \in Nat
                BY DEF TypeOK, SessionType
            <4> QED BY <1>1, <4>1, <4>2, <4>3 DEF Events
        <3>2. emitting' \in 0..MaxEvents
            BY SessionTypeStep DEF SessionType
        <3> QED BY <3>1, <3>2, LoadAssumption DEF Events
    <2>2. [type |-> "update", event |-> emitting'] \in Writes
        BY <2>1 DEF Writes
    <2> QED BY <1>1, <2>2 DEF EmitBuffered, SendXai, agent, history
<1>2. ASSUME ChatFlush
      PROVE  \E w \in Writes : /\ persistQ' = Append(persistQ, w) /\ UNCHANGED <<pending, file>>
                               /\ w.type = "flush" /\ w.for = {} /\ UNCHANGED <<cmdQ, owed, load>>
    <2>1. [type |-> "flush", for |-> {}] \in Writes
        BY DEF Writes
    <2> QED BY <1>2, <2>1 DEF ChatFlush, agent, history
<1>3. FlushComplete => \E w \in Writes : FlushTaken(w)
    BY FlushIsTaken
<1>4. ASSUME PersistUpdate \/ PersistFlush
      PROVE  persistQ # <<>> /\ persistQ' = Tail(persistQ) /\ UNCHANGED <<cmdQ, owed, eventQ>>
    BY <1>4 DEF PersistUpdate, PersistFlush, history, session
<1>5. CASE FlushComplete \/ PersistUpdate \/ PersistFlush
    BY <1>3, <1>4, <1>5 DEF FlushTaken
<1>6. CASE ~(FlushComplete \/ PersistUpdate \/ PersistFlush)
    BY <1>1, <1>2, <1>6, WriteSteps
<1> QED BY <1>5, <1>6

\* The second flush of a load stays the only one.
LEMMA FlushStep ==
    ASSUME TypeOK, PhaseInv, FlushInv, [Next]_vars
    PROVE  FlushInv'
<1>a. /\ persistQ \in Seq(Writes) /\ cmdQ \in Seq(Flushes) /\ load \in [Clients -> Labels]
      /\ late \subseteq Clients /\ late' \subseteq Clients
    BY TypeStep DEF TypeOK, DiskType, SessionType, AgentType, HistoryType
<1>1. late \subseteq late'
    BY LateSteps DEF FlushTimeout
<1>2. \A c \in late' : load'[c] \in {"open", "drain", "done"}
    <2> SUFFICES ASSUME NEW c \in late' PROVE load'[c] \in {"open", "drain", "done"}
        OBVIOUS
    <2>1. CASE c \in late
        <3>1. load[c] \in {"open", "drain", "done"} /\ c \in Clients
            BY <1>a, <2>1 DEF FlushInv
        <3> QED BY <3>1, LoadMoves
    <2>2. CASE c \notin late
        <3>1. PICK d \in Clients : FlushTimeout(d)
            BY <2>2, LateSteps
        <3>2. c = d /\ Goto(d, "open") /\ "open" \in Labels /\ AgentType
            BY <2>2, <3>1 DEF FlushTimeout, Labels, TypeOK
        <3>3. load'[c] = "open"
            BY <3>2, GotoAt
        <3> QED BY <3>3
    <2> QED BY <2>1, <2>2
<1>3. ASSUME NEW c \in Clients, load[c] = "flush2" \/ c \in late
      PROVE  \/ load'[c] = "flush2" \/ c \in late'
             \/ PersistFlush /\ FlushAt(c, 1) /\ persistQ # <<>>
    BY <1>1, <1>3, LoadMoves
<1>4. CASE UNCHANGED <<persistQ, cmdQ>> /\ ~PersistFlush
    BY <1>2, <1>3, <1>4 DEF FlushInv, FlushAt
<1>5. ASSUME NEW w \in Writes, persistQ' = Append(persistQ, w), UNCHANGED <<cmdQ, load>>,
             w.type = "flush" => w.for = {}
      PROVE  FlushInv'
    <2>1. /\ \A i \in DOMAIN persistQ' : \/ i = Len(persistQ) + 1 /\ persistQ'[i] = w
                                         \/ i \in DOMAIN persistQ /\ persistQ'[i] = persistQ[i]
        BY <1>a, <1>5, AppendAt
    <2>2. \A c \in Clients, i \in DOMAIN persistQ' :
             FlushAt(c, i)' => i \in DOMAIN persistQ /\ FlushAt(c, i)
        BY <1>5, <2>1 DEF FlushAt
    <2>3. \A i \in DOMAIN persistQ' : persistQ'[i].type = "flush" =>
             \A f, g \in persistQ'[i].for : f = g
        BY <1>5, <2>1 DEF FlushInv
    <2> HIDE DEF FlushAt
    <2> QED BY <1>1, <1>2, <1>5, <2>2, <2>3 DEF FlushInv
<1>6. CASE PersistUpdate \/ PersistFlush
    <2>1. persistQ # <<>> /\ persistQ' = Tail(persistQ) /\ cmdQ' = cmdQ
        BY <1>6 DEF PersistUpdate, PersistFlush
    <2>2. \A i \in DOMAIN persistQ' : i + 1 \in DOMAIN persistQ /\ persistQ'[i] = persistQ[i + 1]
                                      /\ i \in Nat /\ i + 1 # 1 /\ 1 \in DOMAIN persistQ
        BY <1>a, <2>1, TailAt
    <2>3. \A c \in Clients, i \in DOMAIN persistQ' :
             FlushAt(c, i)' => i + 1 \in DOMAIN persistQ /\ FlushAt(c, i + 1)
        BY <2>2 DEF FlushAt
    <2>4. \A i \in DOMAIN persistQ' : persistQ'[i].type = "flush" =>
             \A f, g \in persistQ'[i].for : f = g
        BY <2>2 DEF FlushInv
    <2>5. 1 \in DOMAIN persistQ
        BY <1>a, <2>1, TailAt
    <2> HIDE DEF FlushAt
    <2>6. \A c \in Clients, i \in DOMAIN persistQ' :
             FlushAt(c, i)' => load'[c] = "flush2" \/ c \in late'
        <3> SUFFICES ASSUME NEW c \in Clients, NEW i \in DOMAIN persistQ', FlushAt(c, i)'
                     PROVE  load'[c] = "flush2" \/ c \in late'
            OBVIOUS
        <3>1. FlushAt(c, i + 1) /\ i + 1 \in DOMAIN persistQ /\ i + 1 # 1
            BY <2>2, <2>3
        <3>2. load[c] = "flush2" \/ c \in late
            BY <3>1 DEF FlushInv
        <3>3. ~FlushAt(c, 1)
            BY <2>5, <3>1 DEF FlushInv
        <3> QED BY <1>3, <3>2, <3>3
    <2>7. \A c \in Clients, i \in DOMAIN cmdQ' :
             cmdQ'[i] = Second(c) => load'[c] = "flush2" \/ c \in late'
        <3> SUFFICES ASSUME NEW c \in Clients, NEW i \in DOMAIN cmdQ, cmdQ[i] = Second(c)
                     PROVE  load'[c] = "flush2" \/ c \in late'
            BY <2>1
        <3>1. load[c] = "flush2" \/ c \in late
            BY DEF FlushInv
        <3>2. ~FlushAt(c, 1)
            BY <2>5 DEF FlushInv
        <3> QED BY <1>3, <3>1, <3>2
    <2>8. \A c \in Clients, i, j \in DOMAIN persistQ' : FlushAt(c, i)' /\ FlushAt(c, j)' => i = j
        <3> SUFFICES ASSUME NEW c \in Clients, NEW i \in DOMAIN persistQ', NEW j \in DOMAIN persistQ',
                            FlushAt(c, i)', FlushAt(c, j)'
                     PROVE  i = j
            OBVIOUS
        <3>1. /\ FlushAt(c, i + 1) /\ i + 1 \in DOMAIN persistQ /\ i \in Nat
              /\ FlushAt(c, j + 1) /\ j + 1 \in DOMAIN persistQ /\ j \in Nat
            BY <2>2, <2>3
        <3>2. i + 1 = j + 1
            BY <3>1 DEF FlushInv
        <3> QED BY <3>1, <3>2
    <2>9. \A c \in Clients, i \in DOMAIN persistQ', j \in DOMAIN cmdQ' :
             ~(FlushAt(c, i)' /\ cmdQ'[j] = Second(c))
        BY <2>1, <2>3 DEF FlushInv
    <2>10. \A c \in Clients, i, j \in DOMAIN cmdQ' :
              cmdQ'[i] = Second(c) /\ cmdQ'[j] = Second(c) => i = j
        BY <2>1 DEF FlushInv
    <2> QED BY <1>2, <2>4, <2>6, <2>7, <2>8, <2>9, <2>10 DEF FlushInv
<1>7. ASSUME NEW w \in Writes, persistQ' = Append(persistQ, w), w.type = "flush",
             w.for = {Head(cmdQ)}, cmdQ # <<>>, cmdQ' = Tail(cmdQ), UNCHANGED <<late, load>>
      PROVE  FlushInv'
    <2>1. /\ \A i \in DOMAIN persistQ' : \/ i = Len(persistQ) + 1 /\ persistQ'[i] = w
                                         \/ i \in DOMAIN persistQ /\ persistQ'[i] = persistQ[i]
        BY <1>a, <1>7, AppendAt
    <2>2. \A i \in DOMAIN cmdQ' : i + 1 \in DOMAIN cmdQ /\ cmdQ'[i] = cmdQ[i + 1]
                                  /\ i \in Nat /\ i + 1 # 1
        BY <1>a, <1>7, TailAt
    <2>3. 1 \in DOMAIN cmdQ /\ Head(cmdQ) = cmdQ[1]
        BY <1>a, <1>7, TailAt
    <2>4. \A c \in Clients, i \in DOMAIN persistQ' : FlushAt(c, i)' =>
             \/ i \in DOMAIN persistQ /\ FlushAt(c, i)
             \/ i = Len(persistQ) + 1 /\ cmdQ[1] = Second(c)
        BY <1>7, <2>1, <2>3 DEF FlushAt
    <2>5. \A i \in DOMAIN persistQ' : persistQ'[i].type = "flush" =>
             \A f, g \in persistQ'[i].for : f = g
        BY <1>7, <2>1 DEF FlushInv
    <2> HIDE DEF FlushAt
    <2>6. \A c \in Clients, i \in DOMAIN persistQ' :
             FlushAt(c, i)' => load'[c] = "flush2" \/ c \in late'
        BY <1>7, <2>3, <2>4 DEF FlushInv
    <2>7. \A c \in Clients, i \in DOMAIN cmdQ' :
             cmdQ'[i] = Second(c) => load'[c] = "flush2" \/ c \in late'
        BY <1>7, <2>2 DEF FlushInv
    <2>8. \A c \in Clients, i, j \in DOMAIN persistQ' : FlushAt(c, i)' /\ FlushAt(c, j)' => i = j
        BY <2>3, <2>4 DEF FlushInv
    <2>9. \A c \in Clients, i \in DOMAIN persistQ', j \in DOMAIN cmdQ' :
             ~(FlushAt(c, i)' /\ cmdQ'[j] = Second(c))
        BY <2>2, <2>3, <2>4 DEF FlushInv
    <2>10. \A c \in Clients, i, j \in DOMAIN cmdQ' :
              cmdQ'[i] = Second(c) /\ cmdQ'[j] = Second(c) => i = j
        <3> SUFFICES ASSUME NEW c \in Clients, NEW i \in DOMAIN cmdQ', NEW j \in DOMAIN cmdQ',
                            cmdQ'[i] = Second(c), cmdQ'[j] = Second(c)
                     PROVE  i = j
            OBVIOUS
        <3>1. i + 1 = j + 1 /\ i \in Nat /\ j \in Nat
            BY <2>2 DEF FlushInv
        <3> QED BY <3>1
    <2> QED BY <1>2, <2>5, <2>6, <2>7, <2>8, <2>9, <2>10 DEF FlushInv
<1>8. ASSUME NEW d \in Clients, CloseGate(d) \/ SecondFlush(d) PROVE FlushInv'
    <2>1. /\ persistQ' = persistQ /\ late' = late
          /\ \E f \in Flushes : /\ cmdQ' = Append(cmdQ, f)
                                /\ \A c \in Clients : f = Second(c) => c = d /\ SecondFlush(d)
        <3>1. persistQ' = persistQ /\ late' = late
            BY <1>8 DEF CloseGate, SecondFlush, disk, history
        <3>2. CASE CloseGate(d)
            <4>1. [who |-> d, nth |-> 1] \in Flushes /\ \A c : [who |-> d, nth |-> 1] # Second(c)
                BY DEF Flushes, Second
            <4> QED BY <3>1, <3>2, <4>1 DEF CloseGate, SendFlush
        <3>3. CASE SecondFlush(d)
            <4>1. Second(d) \in Flushes /\ \A c : Second(d) = Second(c) => c = d
                BY DEF Flushes, Second
            <4>2. cmdQ' = Append(cmdQ, Second(d))
                BY <3>3 DEF SecondFlush, SendFlush, Second
            <4> QED BY <3>1, <3>3, <4>1, <4>2
        <3> QED BY <1>8, <3>2, <3>3
    <2>2. PICK f \in Flushes : /\ cmdQ' = Append(cmdQ, f)
                               /\ \A c \in Clients : f = Second(c) => c = d /\ SecondFlush(d)
        BY <2>1
    <2>3. \A i \in DOMAIN cmdQ' : \/ i = Len(cmdQ) + 1 /\ cmdQ'[i] = f
                                  \/ i \in DOMAIN cmdQ /\ cmdQ'[i] = cmdQ[i]
        BY <1>a, <2>2, AppendAt
    <2>4. SecondFlush(d) => /\ load'[d] = "flush2" /\ load[d] = "replay" /\ d \notin late
                            /\ \A i \in DOMAIN cmdQ : cmdQ[i] # Second(d)
                            /\ \A i \in DOMAIN persistQ : ~FlushAt(d, i)
        <3>1. SecondFlush(d) => load[d] = "replay" /\ Goto(d, "flush2") /\ "flush2" \in Labels
            BY DEF SecondFlush, Labels
        <3>2. SecondFlush(d) => load'[d] = "flush2"
            BY <3>1, GotoAt DEF TypeOK
        <3>3. SecondFlush(d) => d \notin late
            BY <3>1 DEF FlushInv
        <3> QED BY <3>1, <3>2, <3>3 DEF FlushInv
    <2>5. ~PersistFlush
        BY <1>a, <2>1, SeqTypes, TailAt DEF PersistFlush
    <2>6. \A c \in Clients : load[c] = "flush2" \/ c \in late => load'[c] = "flush2" \/ c \in late'
        BY <1>3, <2>5
    <2>7. \A c \in Clients : \A i : FlushAt(c, i)' <=> FlushAt(c, i)
        BY <2>1 DEF FlushAt
    <2>8. \A i \in DOMAIN persistQ' : persistQ'[i].type = "flush" =>
             \A g, h \in persistQ'[i].for : g = h
        BY <2>1 DEF FlushInv
    <2> HIDE DEF FlushAt
    <2>9. \A c \in Clients, i \in DOMAIN persistQ' :
             FlushAt(c, i)' => load'[c] = "flush2" \/ c \in late'
        BY <2>1, <2>6, <2>7 DEF FlushInv
    <2>10. \A c \in Clients, i \in DOMAIN cmdQ' :
             cmdQ'[i] = Second(c) => load'[c] = "flush2" \/ c \in late'
        BY <2>2, <2>3, <2>4, <2>6 DEF FlushInv
    <2>11. \A c \in Clients, i, j \in DOMAIN persistQ' : FlushAt(c, i)' /\ FlushAt(c, j)' => i = j
        BY <2>1, <2>7 DEF FlushInv
    <2>12. \A c \in Clients, i \in DOMAIN persistQ', j \in DOMAIN cmdQ' :
             ~(FlushAt(c, i)' /\ cmdQ'[j] = Second(c))
        BY <2>1, <2>2, <2>3, <2>4, <2>7 DEF FlushInv
    <2>13. \A c \in Clients, i, j \in DOMAIN cmdQ' :
              cmdQ'[i] = Second(c) /\ cmdQ'[j] = Second(c) => i = j
        BY <2>2, <2>3, <2>4 DEF FlushInv
    <2> QED BY <1>2, <2>8, <2>9, <2>10, <2>11, <2>12, <2>13 DEF FlushInv
<1>9. CASE \E c \in Clients : CloseGate(c) \/ SecondFlush(c)
    BY <1>8, <1>9
<1>10. CASE ~ \E c \in Clients : CloseGate(c) \/ SecondFlush(c)
    <2>1. cmdQ' = cmdQ \/ FlushComplete
        BY <1>10, CmdSteps
    <2>2. CASE UNCHANGED persistQ /\ ~FlushComplete /\ ~PersistFlush
        BY <1>4, <2>1, <2>2
    <2>3. CASE PersistUpdate \/ PersistFlush
        BY <1>6, <2>3
    <2>4. CASE \E w \in Writes : /\ persistQ' = Append(persistQ, w) /\ UNCHANGED <<cmdQ, load>>
                                 /\ w.type = "flush" => w.for = {}
        BY <1>5, <2>4
    <2>5. CASE \E w \in Writes :
                 /\ persistQ' = Append(persistQ, w) /\ w.type = "flush" /\ w.for = {Head(cmdQ)}
                 /\ cmdQ # <<>> /\ cmdQ' = Tail(cmdQ) /\ UNCHANGED <<late, load>>
        BY <1>7, <2>5
    <2> QED BY <2>2, <2>3, <2>4, <2>5, WriteCases DEF FlushTaken
<1> QED BY <1>9, <1>10

-------------------------------------------------------------------------------
(* What a load replays *)

InFile(n) == \E l \in DOMAIN file : n \in ToSet(file[l])
OnDisk(n) == InFile(n) \/ n \in ToSet(pending)

\* The persistence actor has event n, or is sent it before position k of its queue.
Persisted(n, k) ==
    OnDisk(n) \/ \E i \in DOMAIN persistQ : i < k /\ persistQ[i].type = "update" /\ persistQ[i].event = n

\* Client c shows event n, or it is on its way in a replay.
Has(c, n) ==
    \/ n \in Shown(c)
    \/ \E i \in DOMAIN gateway : /\ gateway[i].type = "replay" /\ gateway[i].to = c
                                 /\ n \in ToSet(gateway[i].line)

\* Everything emitted is persisted.  What was stamped when the session took the second flush is
\* ahead of that flush in the queue, then in the file, then replayed.
CompleteInv ==
    /\ \A n \in Past : Persisted(n, Len(persistQ) + 1)
    /\ \A c \in Clients, k \in DOMAIN persistQ :
          load[c] = "flush2" /\ FlushAt(c, k) => \A n \in 1..owed[c] : Persisted(n, k)
    /\ \A c \in Clients : load[c] = "delta" => \A n \in 1..owed[c] : InFile(n)
    /\ \A c \in Clients : online[c] = "on" /\ load[c] \in {"replay", "flush2", "delta"} =>
          \A l \in 1..offset[c] : \A n \in ToSet(file[l]) : Has(c, n)
    /\ \A c \in Clients \ late : online[c] = "on" /\ load[c] \in {"open", "drain"} =>
          \A n \in 1..owed[c] : Has(c, n)

\* The file is only appended to, a flush leaves nothing pending, and nothing gets lost.
LEMMA DiskCases ==
    ASSUME TypeOK, [Next]_vars
    PROVE  /\ \A l \in DOMAIN file : l \in DOMAIN file' /\ file'[l] = file[l]
           /\ \A n : (InFile(n) => InFile(n)') /\ (OnDisk(n) => OnDisk(n)')
           /\ PersistFlush => \A n : OnDisk(n) => InFile(n)'
           /\ PersistUpdate => \A n : n = Head(persistQ).event => OnDisk(n)'
           /\ \A n : OnDisk(n)' =>
                 OnDisk(n) \/ (PersistUpdate /\ n = Head(persistQ).event)
<1>a. file \in Seq(Lines) /\ pending \in Seq(Events) /\ persistQ \in Seq(Writes)
    BY DEF TypeOK, DiskType
<1>0. \A n : OnDisk(n) <=> InFile(n) \/ n \in ToSet(pending)
    BY DEF OnDisk
<1>1. ASSUME NEW x \in Lines, file' = Append(file, x)
      PROVE  /\ \A l \in DOMAIN file : l \in DOMAIN file' /\ file'[l] = file[l]
             /\ \A n : InFile(n)' <=> InFile(n) \/ n \in ToSet(x)
    <2>1. /\ DOMAIN file' = DOMAIN file \union {Len(file) + 1} /\ file'[Len(file) + 1] = x
          /\ \A l \in DOMAIN file : file'[l] = file[l]
        BY <1>a, <1>1, AppendAt
    <2> QED BY <2>1 DEF InFile
<1>2. ASSUME file' = file
      PROVE  /\ \A l \in DOMAIN file : l \in DOMAIN file' /\ file'[l] = file[l]
             /\ \A n : InFile(n)' <=> InFile(n)
    BY <1>2 DEF InFile
<1>3. CASE PersistFlush
    <2>1. /\ file' = (IF pending = <<>> THEN file ELSE Append(file, pending)) /\ pending' = <<>>
        BY <1>3 DEF PersistFlush, FlushPending
    <2>2. ToSet(pending') = {} /\ (pending = <<>> => ToSet(pending) = {})
        BY <1>a, <2>1, SetAfter DEF ToSet
    <2>3. pending # <<>> => pending \in Lines
        BY <1>a DEF Lines
    <2>4. /\ \A l \in DOMAIN file : l \in DOMAIN file' /\ file'[l] = file[l]
          /\ \A n : InFile(n)' <=> InFile(n) \/ n \in ToSet(pending)
        BY <1>1, <1>2, <2>1, <2>2, <2>3
    <2>5. ~PersistUpdate
        BY <1>3 DEF PersistFlush, PersistUpdate
    <2> QED BY <2>2, <2>4, <2>5 DEF OnDisk
<1>4. CASE PersistUpdate
    <2>1. PICK w \in Writes : w = Head(persistQ) /\ w.type = "update"
        BY <1>4, <1>a, TailAt DEF PersistUpdate
    <2>2. w.event \in Events
        BY <2>1 DEF Writes
    <2>3. \/ pending' = Append(pending, w.event) /\ file' = file
          \/ pending # <<>> /\ pending' = <<w.event>> /\ file' = Append(file, pending)
          \/ file' = Append(file, <<w.event>>) /\ pending' = pending
        BY <1>4, <2>1 DEF PersistUpdate, MaybeMerge
    <2>4. /\ <<w.event>> \in Lines /\ (pending # <<>> => pending \in Lines)
          /\ ToSet(<<w.event>>) = {w.event}
          /\ ToSet(Append(pending, w.event)) = ToSet(pending) \union {w.event}
        BY <1>a, <2>2, SetAfter DEF Lines
    <2>5. ~PersistFlush
        BY <1>4 DEF PersistFlush, PersistUpdate
    <2>6. /\ \A l \in DOMAIN file : l \in DOMAIN file' /\ file'[l] = file[l]
          /\ \A n : InFile(n) => InFile(n)'
          /\ \A n : InFile(n)' \/ n \in ToSet(pending') <=> OnDisk(n) \/ n = w.event
        BY <1>0, <1>1, <1>2, <2>3, <2>4
    <2>7. \A n : OnDisk(n)' <=> InFile(n)' \/ n \in ToSet(pending')
        BY DEF OnDisk
    <2>8. \A n : OnDisk(n)' <=> OnDisk(n) \/ n = Head(persistQ).event
        BY <2>1, <2>6, <2>7
    <2> QED BY <1>4, <2>5, <2>6, <2>8
<1>5. CASE ~PersistFlush /\ ~PersistUpdate
    <2>1. pending' = pending /\ file' = file
        BY <1>5, DiskSteps
    <2> QED BY <1>2, <1>5, <2>1 DEF OnDisk
<1> QED BY <1>3, <1>4, <1>5

\* What a client that is loading has stays with it.
LEMMA HasKept ==
    ASSUME TypeOK, PhaseInv, [Next]_vars, NEW c \in loading, NEW n, Has(c, n)
    PROVE  Has(c, n)'
<1>a. /\ gateway \in Seq(Messages) /\ c \in Clients /\ screen[c] \in Screens
      /\ offset \in [Clients -> Nat] /\ file \in Seq(Lines)
    BY DEF TypeOK, AgentType, LeaderType, DiskType
<1>1. n \in Shown(c) => Has(c, n)'
    BY <1>a, ShownGrows DEF Has, Shown
<1>2. ASSUME NEW i \in DOMAIN gateway, gateway[i].type = "replay", gateway[i].to = c,
             n \in ToSet(gateway[i].line)
      PROVE  Has(c, n)'
    <2>1. ASSUME i \in DOMAIN gateway', gateway'[i] = gateway[i] PROVE Has(c, n)'
        BY <1>2, <2>1 DEF Has
    <2>2. ASSUME NEW m \in Messages, gateway' = Append(gateway, m) PROVE Has(c, n)'
        BY <1>a, <2>1, <2>2, AppendAt
    <2>3. ASSUME NEW r \in Seq(Messages), gateway' = gateway \o r PROVE Has(c, n)'
        BY <1>a, <2>1, <2>3, ConcatAt
    <2>4. CASE Deliver
        <3>0. gateway # <<>> /\ gateway' = Tail(gateway)
            BY <2>4 DEF Deliver
        <3>1. CASE i = 1
            <4>1. PICK m \in Messages : m = Head(gateway) /\ m = gateway[1]
                BY <1>a, <3>0, TailAt
            <4>2. screen'[c] = Receive(screen[c], m)
                BY <1>2, <1>a, <2>4, <3>1, <4>1, DeliveredScreen
            <4>3. m.type = "replay"
                BY <1>2, <3>1, <4>1
            <4>s. screen[c] \in Screens
                BY <1>a
            <4>t. ToSet(Receive(screen[c], m).events) = ToSet(screen[c].events) \union ToSet(m.line)
                BY <4>3, <4>s, ShownAfter
            <4>4. ToSet(screen'[c].events) = ToSet(screen[c].events) \union ToSet(m.line)
                BY <4>2, <4>t
            <4> QED BY <1>2, <3>1, <4>1, <4>4 DEF Has, Shown
        <3>2. CASE i # 1
            <4>1. i - 1 \in DOMAIN gateway' /\ gateway'[i - 1] = gateway[i]
                BY <1>a, <3>0, <3>2, TailAt
            <4> QED BY <1>2, <4>1 DEF Has
        <3> QED BY <3>1, <3>2
    <2>5. CASE EmitLive
        <3>1. emitting \in Events
            BY <2>5 DEF EmitLive, TypeOK, SessionType, Events
        <3>2. gateway' = gateway \/ gateway' = Append(gateway, Live(emitting))
            BY <2>5 DEF EmitLive
        <3>3. Live(emitting) \in Messages
            BY <3>1, MessageTypes
        <3> QED BY <2>1, <2>2, <3>2, <3>3
    <2>6. CASE Interact \/ DropInteraction
        <3>1. Ask \in Messages /\ Resolved \in Messages
            BY MessageTypes
        <3> QED BY <2>2, <2>6, <3>1 DEF Interact, DropInteraction
    <2>7. ASSUME NEW d \in Clients, ReplayUpdates(d) \/ ReplayDelta(d) PROVE Has(c, n)'
        <3>1. SubSeq(file, offset[d] + 1, Len(file)) \in Seq(Lines)
            BY <1>a
        <3>2. PICK ls \in Seq(Lines) : gateway' = gateway \o Replayed(d, ls)
            BY <1>a, <2>7, <3>1 DEF ReplayUpdates, ReplayDelta
        <3>3. Replayed(d, ls) \in Seq(Messages)
            BY ReplayedAt
        <3> QED BY <2>3, <3>2, <3>3
    <2>8. gateway' = gateway => Has(c, n)'
        BY <2>1
    <2> QED BY <2>4, <2>5, <2>6, <2>7, <2>8, WireSteps
<1> QED BY <1>1, <1>2 DEF Has

\* What is replayed to a client is on its way to it.
LEMMA HasReplayed ==
    ASSUME TypeOK, NEW c \in Clients, NEW ls \in Seq(Lines), gateway' = gateway \o Replayed(c, ls),
           NEW l \in DOMAIN ls, NEW n \in ToSet(ls[l])
    PROVE  Has(c, n)'
<1>a. gateway \in Seq(Messages) /\ Len(gateway) \in Nat
    BY DEF TypeOK, AgentType
<1>1. /\ Replayed(c, ls) \in Seq(Messages) /\ l \in DOMAIN Replayed(c, ls)
      /\ Replayed(c, ls)[l] = Replay(c, ls[l])
    BY ReplayedAt
<1>2. PICK i \in DOMAIN gateway' : gateway'[i] = Replay(c, ls[l])
    <2>1. l + Len(gateway) \in DOMAIN (gateway \o Replayed(c, ls))
          /\ (gateway \o Replayed(c, ls))[l + Len(gateway)] = Replay(c, ls[l])
        BY <1>a, <1>1, ConcatAt
    <2> QED BY <2>1
<1>3. /\ gateway'[i].type = "replay" /\ gateway'[i].to = c /\ gateway'[i].line = ls[l]
    BY <1>2 DEF Replay
<1> QED BY <1>3 DEF Has

\* What is persisted ahead of a position stays so when the queue moves on.
LEMMA PersistedKept ==
    ASSUME TypeOK, [Next]_vars, NEW n, NEW k \in Nat, Persisted(n, k)
    PROVE  /\ ~(PersistUpdate \/ PersistFlush) => Persisted(n, k)'
           /\ PersistUpdate \/ PersistFlush => Persisted(n, k - 1)'
<1>a. persistQ \in Seq(Writes)
    BY DEF TypeOK, DiskType
<1>b. OnDisk(n) => OnDisk(n)'
    BY DiskCases
<1>1. CASE OnDisk(n)
    BY <1>1, <1>b DEF Persisted
<1>2. ASSUME NEW i \in DOMAIN persistQ, i < k, persistQ[i].type = "update", persistQ[i].event = n
      PROVE  /\ ~(PersistUpdate \/ PersistFlush) => Persisted(n, k)'
             /\ PersistUpdate \/ PersistFlush => Persisted(n, k - 1)'
    <2>1. ASSUME i \in DOMAIN persistQ', persistQ'[i] = persistQ[i] PROVE Persisted(n, k)'
        BY <1>2, <2>1 DEF Persisted
    <2>2. ASSUME NEW w \in Writes, persistQ' = Append(persistQ, w) PROVE Persisted(n, k)'
        BY <1>a, <2>1, <2>2, AppendAt
    <2>3. CASE ~(PersistUpdate \/ PersistFlush)
        <3>1. persistQ' = persistQ \/ \E w \in Writes : persistQ' = Append(persistQ, w)
            BY <2>3, WriteCases
        <3> QED BY <2>1, <2>2, <2>3, <3>1
    <2>4. CASE PersistUpdate \/ PersistFlush
        <3>1. persistQ # <<>> /\ persistQ' = Tail(persistQ)
            BY <2>4 DEF PersistUpdate, PersistFlush
        <3>2. CASE i = 1
            <4>1. Head(persistQ) = persistQ[1]
                BY <1>a, <3>1, TailAt
            <4>2. PersistUpdate
                BY <1>2, <2>4, <3>2, <4>1 DEF PersistFlush
            <4>3. OnDisk(n)'
                BY <1>2, <3>2, <4>1, <4>2, DiskCases
            <4> QED BY <2>4, <4>3 DEF Persisted
        <3>3. CASE i # 1
            <4>1. i - 1 \in DOMAIN persistQ' /\ persistQ'[i - 1] = persistQ[i] /\ i \in Nat
                BY <1>a, <3>1, <3>3, TailAt
            <4>2. i - 1 < k - 1
                BY <1>2, <4>1
            <4> QED BY <1>2, <2>4, <4>1, <4>2 DEF Persisted
        <3> QED BY <3>2, <3>3
    <2> QED BY <2>3, <2>4
<1> QED BY <1>1, <1>2 DEF Persisted

\* What a load is owed is settled once its second flush was taken.
LEMMA OwedKept ==
    ASSUME TypeOK, FlushInv, [Next]_vars, NEW c \in Clients,
           c \notin late, load[c] # "flush2"
    PROVE  owed'[c] = owed[c]
<1>1. CASE FlushComplete
    <2>1. cmdQ \in Seq(Flushes) /\ cmdQ # <<>>
        BY <1>1 DEF TypeOK, SessionType, FlushComplete
    <2>2. 1 \in DOMAIN cmdQ /\ Head(cmdQ) = cmdQ[1]
        BY <2>1, TailAt
    <2>3. Head(cmdQ) # Second(c)
        BY <2>2 DEF FlushInv
    <2>4. owed'[c] = IF Head(cmdQ) = Second(c) THEN Len(stream) ELSE owed[c]
        BY <1>1, FlushIsTaken DEF FlushTaken
    <2> QED BY <2>3, <2>4
<1>2. CASE ~FlushComplete
    BY <1>2, OwedSteps
<1> QED BY <1>1, <1>2

\* What is owed to a load stays ahead of its flush, then in the file, then replayed.
LEMMA CompleteStep ==
    ASSUME TypeOK, PhaseInv, StampInv, FlushInv, CompleteInv, [Next]_vars
    PROVE  CompleteInv'
<1>a. /\ persistQ \in Seq(Writes) /\ file \in Seq(Lines) /\ offset \in [Clients -> Nat]
      /\ \A c \in Clients : offset[c] <= Len(file)
      /\ load \in [Clients -> Labels] /\ online \in [Clients -> {"new", "on", "off"}]
    BY DEF TypeOK, DiskType, AgentType, LeaderType
<1>e. Len(persistQ) \in Nat /\ Len(file) \in Nat
    BY <1>a
<1>b. late \subseteq late'
    BY LateSteps DEF FlushTimeout
<1>c. ASSUME NEW c \in Clients, online'[c] = "on", load'[c] # "asked" PROVE online[c] = "on"
    <2>1. ASSUME NEW d \in Clients, Request(d) \/ Disconnect(d) PROVE online[c] = "on"
        BY <1>a, <1>e, <1>c, <2>1 DEF Request, Disconnect
    <2> QED BY <1>c, <2>1, RouteSteps
<1>d. ASSUME NEW c \in Clients, online[c] = "on", load[c] \in Busy, NEW n, Has(c, n)
      PROVE  Has(c, n)'
    <2>1. c \in loading
        BY <1>d DEF PhaseInv
    <2> QED BY <1>d, <2>1, HasKept
<1>1. \A n \in Past' : Persisted(n, Len(persistQ) + 1)'
    <2> SUFFICES ASSUME NEW n \in Past' PROVE Persisted(n, Len(persistQ) + 1)'
        OBVIOUS
    <2>1. CASE PersistUpdate \/ PersistFlush
        <3>1. Past' = Past
            BY <2>1 DEF PersistUpdate, PersistFlush, session, Past, Stamped
        <3>2. Len(persistQ') = Len(persistQ) - 1
            BY <1>a, <1>e, <2>1, TailAt DEF PersistUpdate, PersistFlush
        <3>3. Persisted(n, Len(persistQ) + 1)
            BY <3>1 DEF CompleteInv
        <3>4. PICK k \in Nat : k = Len(persistQ) + 1 /\ Persisted(n, k)
            BY <1>a, <1>e, <3>3
        <3>5. Persisted(n, k - 1)' /\ k - 1 = Len(persistQ') + 1
            BY <1>a, <1>e, <2>1, <3>2, <3>4, PersistedKept
        <3> QED BY <3>5 DEF Persisted
    <2>2. CASE n \in Past /\ ~(PersistUpdate \/ PersistFlush)
        <3>1. PICK k \in Nat : k = Len(persistQ) + 1 /\ Persisted(n, k)
            BY <1>a, <1>e, <2>2 DEF CompleteInv
        <3>2. Persisted(n, k)'
            BY <2>2, <3>1, PersistedKept
        <3>3. k <= Len(persistQ') + 1 /\ Len(persistQ') \in Nat
            BY <1>a, <1>e, <2>2, <3>1, SeqTypes, WriteCases
        <3>4. DOMAIN persistQ' \subseteq Nat
            BY TypeStep DEF TypeOK, DiskType
        <3> QED BY <3>2, <3>3, <3>4 DEF Persisted
    <2>3. CASE n \notin Past
        <3>1. n = emitting' /\ (SendXai \/ EmitBuffered)
            BY <2>3, StampCases
        <3>2. ~PersistUpdate /\ ~PersistFlush /\ ~FlushComplete /\ ~ChatFlush
            <4>1. emitting = 0 /\ n # 0
                BY <2>3, <3>1, StampCases DEF Past, Stamped, SendXai, EmitBuffered
            <4> QED BY <3>1, <4>1
                DEF PersistUpdate, PersistFlush, FlushComplete, ChatFlush, session
        <3>3. PICK w \in Writes : /\ persistQ' = Append(persistQ, w)
                                  /\ w.type = "update" /\ w.event = n
            <4>1. persistQ' # persistQ
                <5>1. \E w \in Writes : persistQ' = Append(persistQ, w)
                    BY <3>1, DiskTypeStep, WriteCases, <3>2 DEF SendXai, EmitBuffered
                <5> QED BY <1>a, <1>e, <5>1, SeqTypes
            <4> QED BY <3>1, <3>2, <4>1, WriteCases
        <3>4. Len(persistQ) + 1 \in DOMAIN persistQ' /\ persistQ'[Len(persistQ) + 1] = w
              /\ Len(persistQ') = Len(persistQ) + 1
            BY <1>a, <1>e, <3>3, AppendAt
        <3>5. Len(persistQ) + 1 < Len(persistQ') + 1
            BY <1>a, <1>e, <3>4
        <3> QED BY <3>3, <3>4, <3>5 DEF Persisted
    <2> QED BY <2>1, <2>2, <2>3
<1>2. ASSUME NEW c \in Clients, NEW k \in DOMAIN persistQ', load'[c] = "flush2", FlushAt(c, k)',
             NEW n \in 1..owed'[c]
      PROVE  Persisted(n, k)'
    <2>0. c \notin late /\ load[c] \in {"replay", "flush2"}
        <3>1. load[c] \in {"replay", "flush2"}
            BY <1>2, LoadMoves
        <3> QED BY <3>1 DEF FlushInv
    <2>1. CASE FlushComplete
        <3>1. PICK w \in Writes :
                 /\ persistQ' = Append(persistQ, w) /\ w.type = "flush" /\ w.for = {Head(cmdQ)}
                 /\ UNCHANGED <<stream, eventQ, load>> /\ eventQ = <<>>
                 /\ owed'[c] = IF Head(cmdQ) = Second(c) THEN Len(stream) ELSE owed[c]
            BY <2>1, FlushIsTaken DEF FlushTaken
        <3>2. \/ k = Len(persistQ) + 1 /\ persistQ'[k] = w
              \/ k \in DOMAIN persistQ /\ persistQ'[k] = persistQ[k]
            BY <1>a, <1>e, <3>1, AppendAt
        <3>3. ~(PersistUpdate \/ PersistFlush)
            BY <2>1 DEF PersistUpdate, PersistFlush, FlushComplete
        <3>4. CASE k = Len(persistQ) + 1 /\ persistQ'[k] = w
            <4>1. Head(cmdQ) = Second(c)
                BY <1>2, <3>1, <3>4 DEF FlushAt
            <4>2. n \in Past
                BY <3>1, <4>1 DEF Past, Stamped, ToSet
            <4>3. Persisted(n, k) /\ k \in Nat
                BY <1>a, <1>e, <3>4, <4>2 DEF CompleteInv
            <4> QED BY <3>3, <4>3, PersistedKept
        <3>5. CASE k \in DOMAIN persistQ /\ persistQ'[k] = persistQ[k]
            <4>1. FlushAt(c, k)
                BY <1>2, <3>5 DEF FlushAt
            <4>2. 1 \in DOMAIN cmdQ /\ Head(cmdQ) = cmdQ[1]
                BY <2>1, TailAt DEF FlushComplete, TypeOK, SessionType
            <4>3. Head(cmdQ) # Second(c)
                BY <3>5, <4>1, <4>2 DEF FlushInv
            <4>4. load[c] = "flush2" /\ n \in 1..owed[c]
                BY <1>2, <3>1, <4>3
            <4>5. Persisted(n, k) /\ k \in Nat
                BY <1>a, <1>e, <3>5, <4>1, <4>4 DEF CompleteInv
            <4> QED BY <3>3, <4>5, PersistedKept
        <3> QED BY <3>2, <3>4, <3>5
    <2>2. CASE ~FlushComplete
        <3>1. n \in 1..owed[c]
            BY <1>2, <2>2, OwedSteps
        <3>2. CASE PersistUpdate \/ PersistFlush
            <4>1. persistQ # <<>> /\ persistQ' = Tail(persistQ) /\ cmdQ' = cmdQ
                BY <3>2 DEF PersistUpdate, PersistFlush
            <4>2. k + 1 \in DOMAIN persistQ /\ persistQ'[k] = persistQ[k + 1] /\ k + 1 \in Nat /\ k \in Nat
                BY <1>a, <1>e, <4>1, TailAt
            <4>3. FlushAt(c, k + 1)
                BY <1>2, <4>2 DEF FlushAt
            <4>4. load[c] = "flush2"
                BY <2>0, <4>2, <4>3 DEF FlushInv
            <4>5. PICK j \in Nat : j = k + 1 /\ Persisted(n, j)
                BY <3>1, <4>2, <4>3, <4>4 DEF CompleteInv
            <4>6. Persisted(n, j - 1)' /\ j - 1 = k
                BY <3>2, <4>2, <4>5, PersistedKept
            <4> QED BY <4>6 DEF Persisted
        <3>3. CASE ~(PersistUpdate \/ PersistFlush)
            <4>1. k \in DOMAIN persistQ /\ FlushAt(c, k)
                <5>1. CASE persistQ' = persistQ
                    BY <1>2, <5>1 DEF FlushAt
                <5>2. CASE \E w \in Writes : /\ persistQ' = Append(persistQ, w)
                                             /\ w.type = "flush" => w.for = {}
                    <6>1. PICK w \in Writes : /\ persistQ' = Append(persistQ, w)
                                              /\ w.type = "flush" => w.for = {}
                        BY <5>2
                    <6>2. \/ k = Len(persistQ) + 1 /\ persistQ'[k] = w
                          \/ k \in DOMAIN persistQ /\ persistQ'[k] = persistQ[k]
                        BY <1>a, <1>e, <6>1, AppendAt
                    <6> QED BY <1>2, <6>1, <6>2 DEF FlushAt
                <5> QED BY <2>2, <3>3, <5>1, <5>2, WriteCases
            <4>2. load[c] = "flush2"
                BY <2>0, <4>1 DEF FlushInv
            <4>3. Persisted(n, k) /\ k \in Nat
                BY <1>a, <1>e, <3>1, <4>1, <4>2 DEF CompleteInv
            <4> QED BY <3>3, <4>3, PersistedKept
        <3> QED BY <3>2, <3>3
    <2> QED BY <2>1, <2>2
<1>3. ASSUME NEW c \in Clients, load'[c] = "delta", NEW n \in 1..owed'[c]
      PROVE  InFile(n)'
    <2>1. CASE load[c] = "delta"
        <3>1. c \notin late
            BY <2>1 DEF FlushInv
        <3>2. owed'[c] = owed[c]
            BY <2>1, <3>1, OwedKept
        <3> QED BY <1>3, <2>1, <3>2, DiskCases DEF CompleteInv
    <2>2. CASE load[c] # "delta"
        <3>1. PersistFlush /\ load[c] = "flush2" /\ persistQ # <<>> /\ FlushAt(c, 1)
            BY <1>3, <2>2, LoadMoves
        <3>2. owed' = owed /\ 1 \in DOMAIN persistQ
            BY <1>a, <1>e, <3>1, TailAt DEF PersistFlush, history
        <3>3. Persisted(n, 1)
            BY <1>3, <3>1, <3>2 DEF CompleteInv
        <3>4. \A i \in DOMAIN persistQ : ~(i < 1)
            BY <1>a, <1>e
        <3>5. OnDisk(n)
            BY <3>3, <3>4 DEF Persisted
        <3> QED BY <3>1, <3>5, DiskCases
    <2> QED BY <2>1, <2>2
<1>4. ASSUME NEW c \in Clients, online'[c] = "on", load'[c] \in {"replay", "flush2", "delta"},
             NEW l \in 1..offset'[c], NEW n \in ToSet(file'[l])
      PROVE  Has(c, n)'
    <2>1. online[c] = "on"
        BY <1>4, <1>c
    <2>2. CASE ReplayUpdates(c)
        <3>1. /\ gateway' = gateway \o Replayed(c, file) /\ file' = file
              /\ offset'[c] = Len(file)
            BY <1>a, <1>e, <2>2 DEF ReplayUpdates, disk
        <3>2. l \in DOMAIN file
            BY <1>a, <1>e, <1>4, <3>1
        <3> QED BY <1>4, <1>a, <3>1, <3>2, HasReplayed
    <2>3. CASE ~ReplayUpdates(c)
        <3>1. load[c] \in {"replay", "flush2", "delta"} /\ load[c] \in Busy
            BY <1>4, <2>3, LoadMoves DEF Busy
        <3>2. offset'[c] = offset[c]
            <4>1. ASSUME NEW d \in Clients, ReplayUpdates(d) PROVE offset'[c] = offset[c]
                BY <1>a, <1>e, <2>3, <4>1 DEF ReplayUpdates
            <4> QED BY <4>1, OffsetSteps
        <3>3. l \in DOMAIN file /\ l \in 1..offset[c]
            BY <1>a, <1>e, <1>4, <3>2
        <3>4. file'[l] = file[l]
            BY <3>3, DiskCases
        <3>5. Has(c, n)
            BY <1>4, <2>1, <3>1, <3>3, <3>4 DEF CompleteInv
        <3> QED BY <1>d, <2>1, <3>1, <3>5
    <2> QED BY <2>2, <2>3
<1>5. ASSUME NEW c \in Clients, c \notin late', online'[c] = "on", load'[c] \in {"open", "drain"},
             NEW n \in 1..owed'[c]
      PROVE  Has(c, n)'
    <2>1. online[c] = "on" /\ c \notin late
        BY <1>5, <1>b, <1>c
    <2>2. CASE load[c] \in {"open", "drain"}
        <3>1. owed'[c] = owed[c]
            BY <2>1, <2>2, OwedKept
        <3>2. Has(c, n) /\ load[c] \in Busy
            BY <1>5, <2>1, <2>2, <3>1 DEF CompleteInv, Busy
        <3> QED BY <1>d, <2>1, <3>2
    <2>3. CASE load[c] \notin {"open", "drain"}
        <3>1. ReplayDelta(c) /\ load[c] = "delta" /\ load[c] \in Busy
            BY <1>5, <2>3, LoadMoves DEF Busy
        <3> DEFINE ls == SubSeq(file, offset[c] + 1, Len(file))
        <3>2. gateway' = gateway \o Replayed(c, ls)
            BY <3>1 DEF ReplayDelta
        <3>3. owed'[c] = owed[c]
            BY <2>1, <3>1, OwedKept
        <3>4. PICK l \in DOMAIN file : n \in ToSet(file[l])
            BY <1>5, <3>1, <3>3 DEF CompleteInv, InFile
        <3>5. CASE l <= offset[c]
            <4>1. l \in 1..offset[c]
                BY <1>a, <1>e, <3>4, <3>5
            <4>2. Has(c, n)
                BY <2>1, <3>1, <3>4, <4>1 DEF CompleteInv
            <4> QED BY <1>d, <2>1, <3>1, <4>2
        <3>6. CASE ~(l <= offset[c])
            <4>1. offset[c] \in Nat /\ l \in Nat /\ l <= Len(file)
                BY <1>a, <1>e, <3>4
            <4>2. l - offset[c] \in 1..(Len(file) - offset[c])
                BY <1>a, <1>e, <3>6, <4>1
            <4>3. /\ ls \in Seq(Lines) /\ l - offset[c] \in DOMAIN ls
                  /\ ls[l - offset[c]] = file[l]
                BY <1>a, <1>e, <3>6, <4>1, <4>2, SuffixAt
            <4> HIDE DEF ls
            <4> QED BY <3>2, <3>4, <4>3, HasReplayed
        <3> QED BY <3>5, <3>6
    <2> QED BY <2>2, <2>3
<1> QED BY <1>1, <1>2, <1>3, <1>4, <1>5 DEF CompleteInv

\* An answered load has shown what was owed.
LEMMA LoadCompleteStep ==
    ASSUME TypeOK, PhaseInv, FlushInv, CompleteInv, LoadComplete, [Next]_vars
    PROVE  LoadComplete'
<1> SUFFICES ASSUME NEW c \in Clients, c \notin late', Attached(c)', NEW n \in 1..owed'[c]
             PROVE  n \in ToSet(screen'[c].events)
    BY DEF LoadComplete, Shown
<1>a. c \notin late
    BY LateSteps DEF FlushTimeout
<1>b. online \in [Clients -> {"new", "on", "off"}]
    BY DEF TypeOK, LeaderType
<1>1. online[c] = "on"
    <2>1. ASSUME NEW d \in Clients, Request(d) \/ Disconnect(d) PROVE online[c] = "on"
        <3>1. CASE Request(d) /\ d = c
            BY <3>1 DEF Request, Attached, TypeOK, AgentType
        <3>2. CASE Disconnect(d) \/ d # c
            BY <1>b, <2>1, <3>2 DEF Request, Disconnect, Attached
        <3> QED BY <2>1, <3>1, <3>2
    <2> QED BY <2>1, RouteSteps DEF Attached
<1>2. CASE load[c] = "done"
    <2>1. owed'[c] = owed[c]
        BY <1>2, <1>a, OwedKept
    <2>2. n \in Shown(c)
        BY <1>1, <1>2, <1>a, <2>1 DEF LoadComplete, Attached
    <2> QED BY <2>2, ShownGrows
<1>3. CASE load[c] # "done"
    <2>1. Respond(c) /\ load[c] = "drain"
        BY <1>3, LoadMoves DEF Attached
    <2>2. owed'[c] = owed[c]
        BY <1>a, <2>1, OwedKept
    <2>3. Has(c, n)
        BY <1>1, <1>a, <2>1, <2>2 DEF CompleteInv
    <2>4. Drained(c)
        BY <2>1 DEF Respond
    <2>5. n \in Shown(c)
        BY <2>3, <2>4 DEF Has, Drained
    <2> QED BY <2>5, ShownGrows
<1> QED BY <1>2, <1>3

\* In the beginning nothing is owed.
LEMMA CompleteInit ==
    ASSUME Init
    PROVE  FlushInv /\ CompleteInv /\ LoadComplete
<1>1. /\ stream = <<>> /\ persistQ = <<>> /\ cmdQ = <<>> /\ late = {}
      /\ \A c \in Clients : owed[c] = 0 /\ load[c] \in {"done", "idle"}
    BY DEF Init
<1>2. Past = {}
    BY <1>1 DEF Past, Stamped
<1>3. FlushInv
    BY <1>1 DEF FlushInv
<1>4. CompleteInv
    BY <1>1, <1>2 DEF CompleteInv
<1>5. LoadComplete
    BY <1>1 DEF LoadComplete
<1> QED BY <1>3, <1>4, <1>5

LoadedInv ==
    TypeOK /\ PhaseInv /\ StampInv /\ FlushInv /\ CompleteInv /\ LoadComplete

\* These are kept together.
LEMMA LoadedCorrect == Spec => []LoadedInv
<1>1. Init => LoadedInv
    BY TypeInit, ReachInit, CompleteInit DEF LoadedInv
<1>2. LoadedInv /\ [Next]_vars => LoadedInv'
    BY TypeStep, StampStep, FlushStep, CompleteStep, LoadCompleteStep DEF LoadedInv
<1> QED BY <1>1, <1>2, PTL DEF Spec

\* A client whose load was answered, and whose second flush was, shows every event that was
\* stamped when the session took that flush (load_session, flush_session and the replays).
THEOREM LoadCompleteCorrect == Spec => []LoadComplete
BY LoadedCorrect, PTL DEF LoadedInv

-------------------------------------------------------------------------------
(* The order of what is shown *)

\* In sequence q the events of each stream are in order; those in A precede those in B.
Sorted(q, st) == \A i, j \in DOMAIN q : i < j => UpTo(st, q[i], q[j])
Ranked(A, B, st) == \A m \in A, n \in B : UpTo(st, m, n)
Rising(line) == \A i, j \in DOMAIN line : i <= j => line[i] <= line[j]

\* The persistence actor has and is sent each stream in order, when st gives the streams of
\* the events in P.
DiskOrder(st, P) ==
    /\ \A n : OnDisk(n) => n \in P
    /\ Rising(pending) /\ \A n \in ToSet(pending) : st[n] = "acp"
    /\ \A l \in DOMAIN file : Rising(file[l]) /\ Ranked(ToSet(file[l]), ToSet(pending), st)
    /\ \A k, l \in DOMAIN file : k < l => Ranked(ToSet(file[k]), ToSet(file[l]), st)
    /\ \A i \in DOMAIN persistQ : persistQ[i].type = "update" =>
          /\ persistQ[i].event \in P
          /\ \A n : OnDisk(n) => UpTo(st, n, persistQ[i].event)
    /\ \A i, j \in DOMAIN persistQ :
          i < j /\ persistQ[i].type = "update" /\ persistQ[j].type = "update" =>
             UpTo(st, persistQ[i].event, persistQ[j].event)

DiskInv == DiskOrder(stream, Past)

\* It depends on the streams of these events only.
LEMMA DiskOrderKept ==
    ASSUME NEW st, NEW P, NEW st2, NEW P2, DiskOrder(st, P), P \subseteq P2,
           \A n \in P : st2[n] = st[n]
    PROVE  DiskOrder(st2, P2)
<1>1. /\ \A l \in DOMAIN file : \A n \in ToSet(file[l]) : n \in P
      /\ \A n \in ToSet(pending) : n \in P
    BY DEF DiskOrder, OnDisk, InFile
<1>2. \A l \in DOMAIN file : Ranked(ToSet(file[l]), ToSet(pending), st2)
    BY <1>1 DEF DiskOrder, Ranked, UpTo
<1>3. \A k, l \in DOMAIN file : k < l => Ranked(ToSet(file[k]), ToSet(file[l]), st2)
    BY <1>1 DEF DiskOrder, Ranked, UpTo
<1>4. \A i \in DOMAIN persistQ : persistQ[i].type = "update" =>
          /\ persistQ[i].event \in P
          /\ \A n : OnDisk(n) => UpTo(st2, n, persistQ[i].event)
    BY DEF DiskOrder, UpTo
<1>5. \A i, j \in DOMAIN persistQ :
          i < j /\ persistQ[i].type = "update" /\ persistQ[j].type = "update" =>
             UpTo(st2, persistQ[i].event, persistQ[j].event)
    BY DEF DiskOrder, UpTo
<1> QED BY <1>1, <1>2, <1>3, <1>4, <1>5 DEF DiskOrder

\* A line that grows at its end.
LEMMA RisingAppend ==
    ASSUME NEW q \in Seq(Events), NEW n \in Events, Rising(q), \A m \in ToSet(q) : m <= n
    PROVE  Rising(Append(q, n))
<1>a. Events \subseteq Nat
    BY DEF Events
<1>1. /\ DOMAIN Append(q, n) = DOMAIN q \union {Len(q) + 1} /\ Len(q) \in Nat
      /\ Append(q, n)[Len(q) + 1] = n
      /\ \A i \in DOMAIN q : i < Len(q) + 1 /\ Append(q, n)[i] = q[i]
    BY AppendAt
<1>2. \A i \in DOMAIN q : q[i] <= n /\ i \in Nat
    BY DEF ToSet
<1>3. PICK r : r = Append(q, n)
    OBVIOUS
<1> SUFFICES ASSUME NEW i \in DOMAIN r, NEW j \in DOMAIN r, i <= j PROVE r[i] <= r[j]
    BY <1>3 DEF Rising
<1>4. CASE j \in DOMAIN q
    <2>1. i \in DOMAIN q
        BY <1>1, <1>2, <1>3, <1>4
    <2> QED BY <1>1, <1>3, <1>4, <2>1 DEF Rising
<1>5. CASE j = Len(q) + 1
    BY <1>1, <1>2, <1>3, <1>5, <1>a
<1> QED BY <1>1, <1>3, <1>4, <1>5

\* The persistence actor keeps each stream in order.
LEMMA DiskStep ==
    ASSUME TypeOK, PhaseInv, StampInv, DiskInv, [Next]_vars
    PROVE  DiskInv'
<1>a. file \in Seq(Lines) /\ pending \in Seq(Events) /\ persistQ \in Seq(Writes)
    BY DEF TypeOK, DiskType
<1>b. Past \subseteq Past' /\ \A n \in Past : stream'[n] = stream[n] /\ n \in Events
    BY StampCases
<1>c. Events \subseteq Nat
    BY DEF Events
<1>1. PICK st, P : st = stream' /\ P = Past' /\ DiskOrder(st, P)
    <2>1. PICK st, P : st = stream' /\ P = Past'
        OBVIOUS
    <2>2. DiskOrder(stream, Past)
        BY DEF DiskInv
    <2>3. PICK st0, P0 : st0 = stream /\ P0 = Past /\ DiskOrder(st0, P0)
        BY <2>2
    <2> QED BY <1>b, <2>1, <2>3, DiskOrderKept
<1>2. CASE UNCHANGED <<persistQ, pending, file>>
    BY <1>1, <1>2 DEF DiskInv, DiskOrder, OnDisk, InFile
<1>3. ASSUME NEW w \in Writes, persistQ' = Append(persistQ, w), UNCHANGED <<pending, file>>,
             w.type = "update" => w.event \in P /\ \A m \in P : UpTo(st, m, w.event)
      PROVE  DiskInv'
    <2>1. /\ DOMAIN persistQ' = DOMAIN persistQ \union {Len(persistQ) + 1} /\ Len(persistQ) \in Nat
          /\ persistQ'[Len(persistQ) + 1] = w
          /\ \A i \in DOMAIN persistQ : i < Len(persistQ) + 1 /\ persistQ'[i] = persistQ[i]
        BY <1>a, <1>3, AppendAt
    <2>2. \A n : OnDisk(n)' <=> OnDisk(n)
        BY <1>3 DEF OnDisk, InFile
    <2>3. \A i \in DOMAIN persistQ' : persistQ'[i].type = "update" =>
             /\ persistQ'[i].event \in P
             /\ \A n : OnDisk(n)' => UpTo(st, n, persistQ'[i].event)
        BY <1>1, <1>3, <2>1, <2>2 DEF DiskOrder
    <2>4. \A i, j \in DOMAIN persistQ' :
             i < j /\ persistQ'[i].type = "update" /\ persistQ'[j].type = "update" =>
                UpTo(st, persistQ'[i].event, persistQ'[j].event)
        <3> SUFFICES ASSUME NEW i \in DOMAIN persistQ', NEW j \in DOMAIN persistQ', i < j,
                            persistQ'[i].type = "update", persistQ'[j].type = "update"
                     PROVE  UpTo(st, persistQ'[i].event, persistQ'[j].event)
            OBVIOUS
        <3>1. i \in DOMAIN persistQ /\ persistQ'[i] = persistQ[i]
            BY <1>a, <2>1
        <3>2. CASE j \in DOMAIN persistQ
            BY <1>1, <2>1, <3>1, <3>2 DEF DiskOrder
        <3>3. CASE j = Len(persistQ) + 1
            <4>1. persistQ[i].event \in P
                BY <1>1, <3>1 DEF DiskOrder
            <4> QED BY <1>3, <2>1, <3>1, <3>3, <4>1
        <3> QED BY <2>1, <3>2, <3>3
    <2>5. /\ \A n : OnDisk(n)' => n \in P
          /\ Rising(pending') /\ \A n \in ToSet(pending') : st[n] = "acp"
          /\ \A l \in DOMAIN file' : Rising(file'[l]) /\ Ranked(ToSet(file'[l]), ToSet(pending'), st)
          /\ \A k, l \in DOMAIN file' : k < l => Ranked(ToSet(file'[k]), ToSet(file'[l]), st)
        BY <1>1, <1>3, <2>2 DEF DiskOrder
    <2> HIDE DEF OnDisk
    <2> QED BY <1>1, <2>3, <2>4, <2>5 DEF DiskInv, DiskOrder
<1>4. CASE PersistUpdate \/ PersistFlush
    <2>0. /\ persistQ # <<>> /\ persistQ' = Tail(persistQ) /\ stream' = stream /\ Past' = Past
        BY <1>4 DEF PersistUpdate, PersistFlush, session, Past, Stamped
    <2>1. \A i \in DOMAIN persistQ' : /\ i + 1 \in DOMAIN persistQ /\ persistQ'[i] = persistQ[i + 1]
                                      /\ i \in Nat /\ 1 < i + 1
        BY <1>a, <2>0, TailAt
    <2>2. PICK w \in Writes : w = Head(persistQ) /\ w = persistQ[1] /\ 1 \in DOMAIN persistQ
        BY <1>a, <2>0, TailAt
    <2>3. \A n : OnDisk(n)' => OnDisk(n) \/ (PersistUpdate /\ n = w.event)
        BY <2>2, DiskCases
    <2>4. PersistUpdate => w.type = "update" /\ w.event \in Events
        BY <2>2 DEF PersistUpdate, Writes
    <2>5. \A n : OnDisk(n)' => n \in P
        BY <1>1, <2>2, <2>3, <2>4 DEF DiskOrder
    <2>6. \A i \in DOMAIN persistQ' : persistQ'[i].type = "update" =>
             /\ persistQ'[i].event \in P
             /\ \A n : OnDisk(n)' => UpTo(st, n, persistQ'[i].event)
        BY <1>1, <2>1, <2>2, <2>3, <2>4 DEF DiskOrder
    <2>7. \A i, j \in DOMAIN persistQ' :
             i < j /\ persistQ'[i].type = "update" /\ persistQ'[j].type = "update" =>
                UpTo(st, persistQ'[i].event, persistQ'[j].event)
        BY <1>1, <2>1 DEF DiskOrder
    <2>8. ASSUME NEW x \in Lines, file' = Append(file, x), Rising(x), pending' \in Seq(Events),
                 \A l \in DOMAIN file : Ranked(ToSet(file[l]), ToSet(x), st),
                 \A l \in DOMAIN file : Ranked(ToSet(file[l]), ToSet(pending'), st),
                 Ranked(ToSet(x), ToSet(pending'), st)
          PROVE  /\ \A l \in DOMAIN file' :
                       Rising(file'[l]) /\ Ranked(ToSet(file'[l]), ToSet(pending'), st)
                 /\ \A k, l \in DOMAIN file' : k < l => Ranked(ToSet(file'[k]), ToSet(file'[l]), st)
        <3>1. /\ DOMAIN file' = DOMAIN file \union {Len(file) + 1} /\ Len(file) \in Nat
              /\ file'[Len(file) + 1] = x /\ DOMAIN file \subseteq Nat
              /\ \A i \in DOMAIN file : i < Len(file) + 1 /\ file'[i] = file[i]
            BY <1>a, <2>8, AppendAt
        <3>2. \A l \in DOMAIN file : Rising(file[l])
            BY <1>1 DEF DiskOrder
        <3>3. \A l \in DOMAIN file' :
                 Rising(file'[l]) /\ Ranked(ToSet(file'[l]), ToSet(pending'), st)
            BY <2>8, <3>1, <3>2
        <3>4. \A k, l \in DOMAIN file' : k < l => Ranked(ToSet(file'[k]), ToSet(file'[l]), st)
            <4> SUFFICES ASSUME NEW k \in DOMAIN file', NEW l \in DOMAIN file', k < l
                         PROVE  Ranked(ToSet(file'[k]), ToSet(file'[l]), st)
                OBVIOUS
            <4>1. k \in DOMAIN file /\ file'[k] = file[k]
                BY <3>1
            <4>2. CASE l \in DOMAIN file
                BY <1>1, <3>1, <4>1, <4>2 DEF DiskOrder
            <4>3. CASE l = Len(file) + 1
                BY <2>8, <3>1, <4>1, <4>3
            <4> QED BY <3>1, <4>2, <4>3
        <3> QED BY <3>3, <3>4
    <2>a. /\ \A l \in DOMAIN file : Rising(file[l]) /\ Ranked(ToSet(file[l]), ToSet(pending), st)
          /\ \A k, l \in DOMAIN file : k < l => Ranked(ToSet(file[k]), ToSet(file[l]), st)
          /\ Rising(pending) /\ \A n \in ToSet(pending) : st[n] = "acp"
        BY <1>1 DEF DiskOrder
    <2>b. /\ \A l \in DOMAIN file : \A n \in ToSet(file[l]) : OnDisk(n)
          /\ \A n \in ToSet(pending) : OnDisk(n)
        BY DEF OnDisk, InFile
    <2>c. w.type = "update" => \A n : OnDisk(n) => UpTo(st, n, w.event)
        BY <1>1, <2>2 DEF DiskOrder
    <2>9. /\ \A l \in DOMAIN file' :
                Rising(file'[l]) /\ Ranked(ToSet(file'[l]), ToSet(pending'), st)
          /\ \A k, l \in DOMAIN file' : k < l => Ranked(ToSet(file'[k]), ToSet(file'[l]), st)
          /\ Rising(pending') /\ \A n \in ToSet(pending') : st[n] = "acp"
        <3>1. CASE PersistFlush
            <4>1. /\ file' = (IF pending = <<>> THEN file ELSE Append(file, pending))
                  /\ pending' = <<>>
                BY <3>1 DEF PersistFlush, FlushPending
            <4>2. /\ pending' \in Seq(Events) /\ ToSet(pending') = {} /\ Rising(pending')
                  /\ \A A : Ranked(A, ToSet(pending'), st)
                BY <4>1 DEF ToSet, Rising, Ranked
            <4>3. pending # <<>> => pending \in Lines
                BY <1>a DEF Lines
            <4> QED BY <2>8, <2>a, <4>1, <4>2, <4>3
        <3>2. CASE PersistUpdate
            <4>0. PICK n \in Events : n = w.event /\ w.type = "update"
                BY <2>4, <3>2
            <4>1. \/ st[n] = "acp" /\ pending' = Append(pending, n) /\ file' = file
                  \/ /\ st[n] = "acp" /\ pending # <<>> /\ pending' = <<n>>
                     /\ file' = Append(file, pending)
                  \/ st[n] # "acp" /\ file' = Append(file, <<n>>) /\ pending' = pending
                BY <1>1, <2>0, <2>2, <3>2, <4>0 DEF PersistUpdate, MaybeMerge
            <4>2. /\ <<n>> \in Lines /\ (pending # <<>> => pending \in Lines)
                  /\ <<n>> \in Seq(Events)
                  /\ ToSet(<<n>>) = {n} /\ ToSet(Append(pending, n)) = ToSet(pending) \union {n}
                BY <1>a, <4>0, SetAfter DEF Lines
            <4>3. Rising(<<n>>)
                BY <1>c DEF Rising
            <4>4. /\ \A l \in DOMAIN file : Ranked(ToSet(file[l]), {n}, st)
                  /\ Ranked(ToSet(pending), {n}, st)
                BY <2>b, <2>c, <4>0 DEF Ranked
            <4>5. CASE st[n] = "acp" /\ pending' = Append(pending, n) /\ file' = file
                <5>1. \A m \in ToSet(pending) : m <= n
                    BY <2>a, <4>4, <4>5 DEF Ranked, UpTo
                <5>2. Rising(pending')
                    BY <1>a, <2>a, <4>5, <5>1, RisingAppend
                <5>3. \A l \in DOMAIN file : Ranked(ToSet(file[l]), ToSet(pending'), st)
                    BY <2>a, <4>2, <4>4, <4>5 DEF Ranked
                <5>4. \A m \in ToSet(pending') : st[m] = "acp"
                    BY <2>a, <4>2, <4>5
                <5> QED BY <2>a, <4>5, <5>2, <5>3, <5>4
            <4>6. CASE /\ st[n] = "acp" /\ pending # <<>> /\ pending' = <<n>>
                       /\ file' = Append(file, pending)
                BY <2>8, <2>a, <4>2, <4>3, <4>4, <4>6
            <4>7. CASE st[n] # "acp" /\ file' = Append(file, <<n>>) /\ pending' = pending
                <5>1. Ranked({n}, ToSet(pending), st)
                    BY <2>a, <4>7 DEF Ranked, UpTo
                <5>2. /\ pending' \in Seq(Events) /\ Ranked(ToSet(<<n>>), ToSet(pending'), st)
                      /\ \A l \in DOMAIN file : Ranked(ToSet(file[l]), ToSet(<<n>>), st)
                      /\ \A l \in DOMAIN file : Ranked(ToSet(file[l]), ToSet(pending'), st)
                    BY <1>a, <2>a, <4>2, <4>4, <4>7, <5>1
                <5>3. Rising(pending') /\ \A m \in ToSet(pending') : st[m] = "acp"
                    BY <2>a, <4>7
                <5>4. PICK x \in Lines : x = <<n>>
                    BY <4>2
                <5> QED BY <2>8, <4>3, <4>7, <5>2, <5>3, <5>4
            <4> QED BY <4>1, <4>5, <4>6, <4>7
        <3> QED BY <1>4, <3>1, <3>2
    <2> HIDE DEF OnDisk
    <2> QED BY <1>1, <2>5, <2>6, <2>7, <2>9 DEF DiskInv, DiskOrder
<1>5. CASE ~(PersistUpdate \/ PersistFlush)
    <2>0. UNCHANGED <<pending, file>>
        BY <1>5, DiskSteps
    <2>1. CASE persistQ' = persistQ
        BY <1>2, <2>0, <2>1
    <2>2. ASSUME NEW w \in Writes, persistQ' = Append(persistQ, w), w.type = "flush" PROVE DiskInv'
        BY <1>3, <2>0, <2>2
    <2>3. ASSUME NEW w \in Writes, persistQ' = Append(persistQ, w), w.event = emitting',
                 EmitBuffered \/ SendXai
          PROVE  DiskInv'
        <3>1. emitting' \in Past' /\ emitting' # 0
            BY <2>3, StampCases DEF EmitBuffered, SendXai, EmitLive, SendUpdate, Past, Stamped
        <3>2. \A m \in Past' : UpTo(stream', m, emitting')
            BY <3>1, StampStep DEF StampInv
        <3> QED BY <1>1, <1>3, <2>0, <2>3, <3>1, <3>2
    <2> QED BY <1>5, <2>1, <2>2, <2>3, WriteCases DEF FlushTaken
<1> QED BY <1>4, <1>5

\* The replays on the wire hold events of the past in order, before what is sent live after
\* them, and those for one client are in order.
ReplayOrder(q, st, P) ==
    /\ \A i \in DOMAIN q : q[i].type = "replay" => ToSet(q[i].line) \subseteq P /\ Rising(q[i].line)
    /\ \A i, j \in DOMAIN q : i < j /\ q[i].type = "replay" /\ q[j].type = "live" =>
          Ranked(ToSet(q[i].line), {q[j].event}, st)
    /\ \A i, j \in DOMAIN q :
          i < j /\ q[i].type = "replay" /\ q[j].type = "replay" /\ q[i].to = q[j].to =>
             Ranked(ToSet(q[i].line), ToSet(q[j].line), st)

\* Event n is in the part of the file that client c was first replayed.
FromFile(c, n) == \E l \in 1..offset[c] : n \in ToSet(file[l])

ReplayInv ==
    /\ ReplayOrder(gateway, stream, Past)
    /\ \A c \in Clients : load[c] = "replay" =>
          \A i \in DOMAIN gateway : gateway[i].type = "replay" /\ gateway[i].to = c =>
             \A n \in ToSet(gateway[i].line) : FromFile(c, n)

\* The order of replays depends on the streams of past events only,
LEMMA ReplayKept ==
    ASSUME NEW q, NEW st, NEW P, NEW st2, NEW P2, ReplayOrder(q, st, P), P \subseteq P2,
           \A n \in P : st2[n] = st[n], LiveIn(q) \subseteq P
    PROVE  ReplayOrder(q, st2, P2)
<1>1. \A j \in DOMAIN q : q[j].type = "live" => q[j].event \in P
    BY DEF LiveIn
<1>2. \A i \in DOMAIN q : q[i].type = "replay" => ToSet(q[i].line) \subseteq P
    BY DEF ReplayOrder
<1>3. \A i, j \in DOMAIN q : i < j /\ q[i].type = "replay" /\ q[j].type = "live" =>
          Ranked(ToSet(q[i].line), {q[j].event}, st2)
    BY <1>1, <1>2 DEF ReplayOrder, Ranked, UpTo
<1>4. \A i, j \in DOMAIN q :
          i < j /\ q[i].type = "replay" /\ q[j].type = "replay" /\ q[i].to = q[j].to =>
             Ranked(ToSet(q[i].line), ToSet(q[j].line), st2)
    BY <1>2 DEF ReplayOrder, Ranked, UpTo
<1>5. \A i \in DOMAIN q : q[i].type = "replay" => ToSet(q[i].line) \subseteq P2 /\ Rising(q[i].line)
    BY DEF ReplayOrder
<1> QED BY <1>3, <1>4, <1>5 DEF ReplayOrder

\* and is kept by the queue's operations.
LEMMA ReplayTail ==
    ASSUME NEW q \in Seq(Messages), q # <<>>, NEW st, NEW P, ReplayOrder(q, st, P)
    PROVE  ReplayOrder(Tail(q), st, P)
<1>1. PICK r : /\ r = Tail(q)
               /\ \A i \in DOMAIN r : i + 1 \in DOMAIN q /\ r[i] = q[i + 1] /\ i \in Nat
    <2>1. \A i \in DOMAIN Tail(q) : i + 1 \in DOMAIN q /\ Tail(q)[i] = q[i + 1] /\ i \in Nat
        BY TailAt
    <2> QED BY <2>1
<1>2. \A i \in DOMAIN r : r[i].type = "replay" => ToSet(r[i].line) \subseteq P /\ Rising(r[i].line)
    BY <1>1 DEF ReplayOrder
<1>3. ASSUME NEW i \in DOMAIN r, NEW j \in DOMAIN r, i < j
      PROVE  /\ r[i].type = "replay" /\ r[j].type = "live" => Ranked(ToSet(r[i].line), {r[j].event}, st)
             /\ r[i].type = "replay" /\ r[j].type = "replay" /\ r[i].to = r[j].to =>
                   Ranked(ToSet(r[i].line), ToSet(r[j].line), st)
    <2>1. /\ i + 1 \in DOMAIN q /\ j + 1 \in DOMAIN q /\ i + 1 < j + 1
          /\ r[i] = q[i + 1] /\ r[j] = q[j + 1]
        BY <1>1, <1>3
    <2> HIDE DEF Ranked
    <2> QED BY <2>1 DEF ReplayOrder
<1> HIDE DEF Ranked
<1> QED BY <1>1, <1>2, <1>3 DEF ReplayOrder

\* A live message may follow when it is past everything,
LEMMA ReplayAppend ==
    ASSUME NEW q \in Seq(Messages), NEW m \in Messages, NEW st, NEW P, ReplayOrder(q, st, P),
           m.type # "replay", m.type = "live" => \A n \in P : UpTo(st, n, m.event)
    PROVE  ReplayOrder(Append(q, m), st, P)
<1>1. PICK r : /\ r = Append(q, m) /\ DOMAIN r = DOMAIN q \union {Len(q) + 1} /\ Len(q) \in Nat
               /\ r[Len(q) + 1] = m /\ \A i \in DOMAIN q : r[i] = q[i] /\ i < Len(q) + 1
    <2>1. /\ DOMAIN Append(q, m) = DOMAIN q \union {Len(q) + 1} /\ Len(q) \in Nat
          /\ Append(q, m)[Len(q) + 1] = m
          /\ \A i \in DOMAIN q : Append(q, m)[i] = q[i] /\ i < Len(q) + 1
        BY AppendAt
    <2> QED BY <2>1
<1>2. \A i \in DOMAIN r : r[i].type = "replay" =>
         i \in DOMAIN q /\ r[i] = q[i] /\ ToSet(r[i].line) \subseteq P /\ Rising(r[i].line)
    BY <1>1 DEF ReplayOrder
<1>3. \A i, j \in DOMAIN r : i < j /\ r[i].type = "replay" /\ r[j].type = "live" =>
          Ranked(ToSet(r[i].line), {r[j].event}, st)
    <2> SUFFICES ASSUME NEW i \in DOMAIN r, NEW j \in DOMAIN r, i < j, r[i].type = "replay",
                        r[j].type = "live"
                 PROVE  Ranked(ToSet(r[i].line), {r[j].event}, st)
        OBVIOUS
    <2>1. CASE j \in DOMAIN q
        BY <1>1, <1>2, <2>1 DEF ReplayOrder
    <2>2. CASE j = Len(q) + 1
        BY <1>1, <1>2, <2>2 DEF Ranked
    <2> QED BY <1>1, <2>1, <2>2
<1>4. \A i, j \in DOMAIN r :
          i < j /\ r[i].type = "replay" /\ r[j].type = "replay" /\ r[i].to = r[j].to =>
             Ranked(ToSet(r[i].line), ToSet(r[j].line), st)
    BY <1>2 DEF ReplayOrder
<1> QED BY <1>1, <1>2, <1>3, <1>4 DEF ReplayOrder

\* What load_session sends in a replay: the lines of the file from some point on.
LEMMA ReplaySent ==
    ASSUME TypeOK, NEW c \in Clients, ReplayUpdates(c) \/ ReplayDelta(c)
    PROVE  \E a \in Nat :
              /\ a = IF load[c] = "light" THEN 0 ELSE offset[c]
              /\ load[c] \in {"light", "delta"} /\ file' = file
              /\ \A i \in DOMAIN gateway : /\ i \in DOMAIN gateway' /\ gateway'[i] = gateway[i]
                                           /\ i <= Len(gateway)
              /\ \A i \in DOMAIN gateway' \ DOMAIN gateway :
                    /\ i - Len(gateway) \in Nat \ {0} /\ i - Len(gateway) + a \in DOMAIN file
                    /\ gateway'[i] = Replay(c, file[i - Len(gateway) + a])
                    /\ file[i - Len(gateway) + a] \in Lines
<1>a. /\ gateway \in Seq(Messages) /\ file \in Seq(Lines) /\ offset[c] \in Nat
      /\ offset[c] <= Len(file) /\ Len(file) \in Nat /\ Len(gateway) \in Nat
    BY DEF TypeOK, AgentType, DiskType
<1>1. PICK a \in Nat, ls \in Seq(Lines) :
          /\ a = (IF load[c] = "light" THEN 0 ELSE offset[c])
          /\ load[c] \in {"light", "delta"} /\ file' = file
          /\ gateway' = gateway \o Replayed(c, ls)
          /\ \A i \in DOMAIN ls : i \in Nat \ {0} /\ i + a \in DOMAIN file /\ ls[i] = file[i + a]
    <2>1. CASE ReplayUpdates(c)
        <3>1. /\ load[c] = "light" /\ file' = file /\ gateway' = gateway \o Replayed(c, file)
            BY <2>1 DEF ReplayUpdates, disk
        <3>2. \A i \in DOMAIN file : i \in Nat \ {0} /\ i + 0 \in DOMAIN file /\ file[i] = file[i + 0]
            BY <1>a
        <3> QED BY <1>a, <3>1, <3>2
    <2>2. CASE ReplayDelta(c)
        <3> DEFINE ls == SubSeq(file, offset[c] + 1, Len(file))
        <3>1. /\ load[c] = "delta" /\ file' = file /\ gateway' = gateway \o Replayed(c, ls)
            BY <2>2 DEF ReplayDelta, disk
        <3>2. /\ ls \in Seq(Lines) /\ \A i \in DOMAIN ls : i \in 1..(Len(file) - offset[c])
              /\ \A i \in 1..(Len(file) - offset[c]) : ls[i] = file[i + offset[c]]
            BY <1>a, SuffixAt
        <3> HIDE DEF ls
        <3>3. \A i \in DOMAIN ls : /\ i \in Nat \ {0} /\ i + offset[c] \in DOMAIN file
                                   /\ ls[i] = file[i + offset[c]]
            BY <1>a, <3>2
        <3> QED BY <1>a, <3>1, <3>2, <3>3
    <2> QED BY <2>1, <2>2
<1>2. /\ Replayed(c, ls) \in Seq(Messages) /\ DOMAIN Replayed(c, ls) = DOMAIN ls
      /\ \A i \in DOMAIN ls : Replayed(c, ls)[i] = Replay(c, ls[i])
    BY ReplayedAt
<1>3. /\ \A i \in DOMAIN gateway : i \in DOMAIN gateway' /\ gateway'[i] = gateway[i] /\ i <= Len(gateway)
      /\ \A i \in DOMAIN gateway' \ DOMAIN gateway :
            i - Len(gateway) \in DOMAIN ls /\ gateway'[i] = Replay(c, ls[i - Len(gateway)])
    <2>1. PICK r \in Seq(Messages) : r = Replayed(c, ls)
        BY <1>2
    <2>2. /\ \A i \in DOMAIN gateway : i \in DOMAIN gateway' /\ gateway'[i] = gateway[i] /\ i <= Len(gateway)
          /\ \A i \in DOMAIN gateway' \ DOMAIN gateway :
                i - Len(gateway) \in DOMAIN r /\ gateway'[i] = r[i - Len(gateway)]
        BY <1>1, <1>a, <2>1, ConcatAt
    <2> QED BY <1>2, <2>1, <2>2
<1>4. \A i \in DOMAIN file : file[i] \in Lines
    BY <1>a
<1> HIDE DEF Replay
<1>5. \A i \in DOMAIN gateway' \ DOMAIN gateway :
          /\ i - Len(gateway) \in Nat \ {0} /\ i - Len(gateway) + a \in DOMAIN file
          /\ gateway'[i] = Replay(c, file[i - Len(gateway) + a])
          /\ file[i - Len(gateway) + a] \in Lines
    BY <1>1, <1>3, <1>4
<1> QED BY <1>1, <1>3, <1>5

\* Where the replays on the wire come from.
LEMMA ReplayFrom ==
    ASSUME TypeOK, [Next]_vars, NEW c \in Clients, ~ReplayUpdates(c), ~ReplayDelta(c)
    PROVE  \A i \in DOMAIN gateway' : gateway'[i].type = "replay" /\ gateway'[i].to = c =>
              \E j \in DOMAIN gateway : gateway[j] = gateway'[i]
<1>a. gateway \in Seq(Messages)
    BY DEF TypeOK, AgentType
<1>1. ASSUME NEW m \in Messages, m.type # "replay", gateway' = Append(gateway, m)
      PROVE  \A i \in DOMAIN gateway' : gateway'[i].type = "replay" =>
                \E j \in DOMAIN gateway : gateway[j] = gateway'[i]
    BY <1>a, <1>1, AppendAt
<1>2. CASE EmitLive
    <2>1. emitting \in Events
        BY <1>2 DEF EmitLive, TypeOK, SessionType, Events
    <2>2. gateway' = gateway \/ gateway' = Append(gateway, Live(emitting))
        BY <1>2 DEF EmitLive
    <2>3. Live(emitting) \in Messages /\ Live(emitting).type # "replay"
        BY <2>1, MessageTypes
    <2> QED BY <1>1, <2>2, <2>3
<1>3. CASE Interact \/ DropInteraction
    <2>1. /\ Ask \in Messages /\ Resolved \in Messages
          /\ Ask.type # "replay" /\ Resolved.type # "replay"
        BY MessageTypes
    <2>2. gateway' = Append(gateway, Ask) \/ gateway' = Append(gateway, Resolved)
        BY <1>3 DEF Interact, DropInteraction
    <2> QED BY <1>1, <2>1, <2>2
<1>4. CASE Deliver
    <2>1. gateway # <<>> /\ gateway' = Tail(gateway)
        BY <1>4 DEF Deliver
    <2> QED BY <1>a, <2>1, TailAt
<1>5. ASSUME NEW d \in Clients, ReplayUpdates(d) \/ ReplayDelta(d)
      PROVE  \A i \in DOMAIN gateway' : gateway'[i].type = "replay" /\ gateway'[i].to = c =>
                \E j \in DOMAIN gateway : gateway[j] = gateway'[i]
    <2>1. d # c
        BY <1>5
    <2>2. /\ \A i \in DOMAIN gateway : gateway'[i] = gateway[i]
          /\ \A i \in DOMAIN gateway' \ DOMAIN gateway : \E l \in Lines : gateway'[i] = Replay(d, l)
        BY <1>5, ReplaySent
    <2>3. \A i \in DOMAIN gateway' \ DOMAIN gateway : gateway'[i].to = d
        BY <2>2, MessageTypes
    <2> QED BY <2>1, <2>2, <2>3
<1> QED BY <1>2, <1>3, <1>4, <1>5, WireSteps

\* The replays stay in order.
LEMMA ReplayStep ==
    ASSUME TypeOK, PhaseInv, StampInv, WireInv, FlushInv, DiskInv, ReplayInv, [Next]_vars
    PROVE  ReplayInv'
<1>a. /\ gateway \in Seq(Messages) /\ file \in Seq(Lines) /\ Len(gateway) \in Nat
      /\ offset \in [Clients -> Nat] /\ \A c \in Clients : offset[c] <= Len(file)
    BY DEF TypeOK, AgentType, DiskType
<1>b. /\ Emitted \subseteq Past /\ Past \subseteq Past'
      /\ \A n \in Past : stream'[n] = stream[n] /\ n \in Nat /\ n \in Events
    BY StampCases DEF Emitted
<1>c. LiveIn(gateway) \subseteq Past
    BY <1>b DEF WireInv
<1>1. PICK st, P : st = stream' /\ P = Past' /\ ReplayOrder(gateway, st, P)
    <2>1. PICK st, P : st = stream' /\ P = Past'
        OBVIOUS
    <2>2. PICK st0, P0 : st0 = stream /\ P0 = Past /\ ReplayOrder(gateway, st0, P0)
        BY DEF ReplayInv
    <2> QED BY <1>b, <1>c, <2>1, <2>2, ReplayKept
<1>2. ReplayOrder(gateway', st, P)
    <2>1. CASE EmitLive
        <3>1. /\ emitting # 0 /\ gateway' \in {gateway, Append(gateway, Live(emitting))}
              /\ stream' = stream /\ Past' = Past
            BY <2>1 DEF EmitLive, PassesGate, Past, Stamped
        <3>2. emitting \in Past /\ emitting \in Events /\ \A n \in Past : UpTo(stream, n, emitting)
            BY <1>b, <3>1 DEF StampInv
        <3>3. PICK m \in Messages : m = Live(emitting) /\ m.type = "live" /\ m.event = emitting
            BY <3>2, MessageTypes
        <3>4. ReplayOrder(Append(gateway, m), st, P)
            BY <1>1, <1>a, <3>1, <3>2, <3>3, ReplayAppend
        <3> QED BY <1>1, <3>1, <3>3, <3>4
    <2>2. CASE Interact \/ DropInteraction
        <3>1. PICK m \in Messages : gateway' = Append(gateway, m) /\ m.type \in {"ask", "resolved"}
            BY <2>2, MessageTypes DEF Interact, DropInteraction
        <3> QED BY <1>1, <1>a, <3>1, ReplayAppend
    <2>3. CASE Deliver
        <3>1. gateway # <<>> /\ gateway' = Tail(gateway)
            BY <2>3 DEF Deliver
        <3> QED BY <1>1, <1>a, <3>1, ReplayTail
    <2>4. ASSUME NEW c \in Clients, ReplayUpdates(c) \/ ReplayDelta(c)
          PROVE  ReplayOrder(gateway', st, P)
        <3>1. PICK a \in Nat :
                 /\ load[c] \in {"light", "delta"}
                 /\ \A i \in DOMAIN gateway : /\ i \in DOMAIN gateway' /\ gateway'[i] = gateway[i]
                                              /\ i <= Len(gateway)
                 /\ \A i \in DOMAIN gateway' \ DOMAIN gateway :
                       /\ i - Len(gateway) \in Nat \ {0} /\ i - Len(gateway) + a \in DOMAIN file
                       /\ gateway'[i] = Replay(c, file[i - Len(gateway) + a])
                       /\ file[i - Len(gateway) + a] \in Lines
            BY <2>4, ReplaySent
        <3>2. stream' = stream /\ Past' = Past
            BY <2>4 DEF ReplayUpdates, ReplayDelta, session, Past, Stamped
        <3>3. /\ \A l \in DOMAIN file : ToSet(file[l]) \subseteq P /\ Rising(file[l])
              /\ \A k, l \in DOMAIN file : k < l => Ranked(ToSet(file[k]), ToSet(file[l]), st)
            <4>1. DiskOrder(st, P)
                BY <1>1, <3>2 DEF DiskInv
            <4> QED BY <4>1 DEF DiskOrder, OnDisk, InFile
        <3>4. \A i \in DOMAIN gateway : gateway[i].type = "replay" => gateway[i].to # c
            BY <3>1 DEF PhaseInv, Replaying
        <3>5. \A i \in DOMAIN gateway' \ DOMAIN gateway :
                 /\ gateway'[i].type = "replay" /\ gateway'[i].to = c
                 /\ gateway'[i].line = file[i - Len(gateway) + a]
            BY <3>1, MessageTypes
        <3>6. \A i \in DOMAIN gateway' : gateway'[i].type = "replay" =>
                 ToSet(gateway'[i].line) \subseteq P /\ Rising(gateway'[i].line)
            BY <1>1, <3>1, <3>3, <3>5 DEF ReplayOrder
        <3>7. ASSUME NEW i \in DOMAIN gateway', NEW j \in DOMAIN gateway', i < j,
                     gateway'[i].type = "replay", gateway'[j].type = "live"
              PROVE  Ranked(ToSet(gateway'[i].line), {gateway'[j].event}, st)
            <4>1. j \in DOMAIN gateway /\ gateway'[j] = gateway[j]
                BY <3>1, <3>5, <3>7
            <4>2. i \in DOMAIN gateway
                <5>1. i \notin DOMAIN gateway => i - Len(gateway) \in Nat \ {0}
                    BY <3>1
                <5>2. i \in Nat /\ j \in Nat /\ j <= Len(gateway)
                    BY <1>a, <3>1, <3>7, <4>1, TypeStep DEF TypeOK, AgentType
                <5> QED BY <1>a, <3>7, <5>1, <5>2
            <4> QED BY <1>1, <3>1, <3>7, <4>1, <4>2 DEF ReplayOrder
        <3>8. ASSUME NEW i \in DOMAIN gateway', NEW j \in DOMAIN gateway', i < j,
                     gateway'[i].type = "replay", gateway'[j].type = "replay",
                     gateway'[i].to = gateway'[j].to
              PROVE  Ranked(ToSet(gateway'[i].line), ToSet(gateway'[j].line), st)
            <4>1. CASE i \in DOMAIN gateway /\ j \in DOMAIN gateway
                BY <1>1, <3>1, <3>8, <4>1 DEF ReplayOrder
            <4>2. CASE i \notin DOMAIN gateway /\ j \notin DOMAIN gateway
                <5>1. i \in Nat /\ j \in Nat
                    BY TypeStep DEF TypeOK, AgentType
                <5>2. i - Len(gateway) + a < j - Len(gateway) + a
                    BY <1>a, <3>8, <5>1
                <5> HIDE DEF Ranked
                <5> QED BY <3>1, <3>3, <3>5, <4>2, <5>2
            <4>3. i \in DOMAIN gateway <=> j \in DOMAIN gateway
                BY <3>1, <3>4, <3>5, <3>8
            <4> QED BY <4>1, <4>2, <4>3
        <3> HIDE DEF Ranked
        <3> QED BY <3>6, <3>7, <3>8 DEF ReplayOrder
    <2>5. gateway' = gateway => ReplayOrder(gateway', st, P)
        BY <1>1
    <2> QED BY <2>1, <2>2, <2>3, <2>4, <2>5, WireSteps
<1>3. ASSUME NEW c \in Clients, load'[c] = "replay", NEW i \in DOMAIN gateway',
             gateway'[i].type = "replay", gateway'[i].to = c, NEW n \in ToSet(gateway'[i].line)
      PROVE  \E l \in 1..offset'[c] : n \in ToSet(file'[l])
    <2>1. CASE ReplayUpdates(c)
        <3>1. PICK a \in Nat :
                 /\ a = (IF load[c] = "light" THEN 0 ELSE offset[c]) /\ file' = file
                 /\ \A j \in DOMAIN gateway : gateway'[j] = gateway[j]
                 /\ \A j \in DOMAIN gateway' \ DOMAIN gateway :
                       /\ j - Len(gateway) \in Nat \ {0} /\ j - Len(gateway) + a \in DOMAIN file
                       /\ gateway'[j] = Replay(c, file[j - Len(gateway) + a])
                       /\ file[j - Len(gateway) + a] \in Lines
            BY <2>1, ReplaySent
        <3>2. load[c] = "light" /\ offset'[c] = Len(file)
            BY <1>a, <2>1 DEF ReplayUpdates
        <3>3. i \notin DOMAIN gateway
            BY <1>3, <3>1, <3>2 DEF PhaseInv, Replaying
        <3>4. gateway'[i].line = file[i - Len(gateway) + a]
            BY <3>1, <3>3, MessageTypes
        <3> QED BY <1>3, <1>a, <3>1, <3>2, <3>3, <3>4
    <2>2. CASE ~ReplayUpdates(c)
        <3>1. load[c] = "replay" /\ ~ReplayDelta(c)
            <4>1. load[c] = "replay"
                BY <1>3, <2>2, LoadMoves
            <4> QED BY <4>1 DEF ReplayDelta
        <3>2. offset'[c] = offset[c]
            BY <1>a, <2>2, OffsetSteps DEF ReplayUpdates
        <3>3. PICK j \in DOMAIN gateway : gateway[j] = gateway'[i]
            BY <1>3, <2>2, <3>1, ReplayFrom
        <3>4. PICK l \in 1..offset[c] : n \in ToSet(file[l])
            BY <1>3, <3>1, <3>3 DEF ReplayInv, FromFile
        <3>5. file'[l] = file[l]
            BY <1>a, DiskCases
        <3> QED BY <3>2, <3>4, <3>5
    <2> QED BY <2>1, <2>2
<1> QED BY <1>1, <1>2, <1>3 DEF ReplayInv, FromFile

\* What a client shows is in order, and before what is still sent live.  A client that is loading
\* shows what was replayed to it: nothing at first, then part of the file, always up to the
\* leader's cutoff, and before what is still to be replayed.
ClientOrder(c) ==
    /\ Shown(c) \subseteq Past
    /\ c \notin spilled => /\ Sorted(screen[c].events, stream)
                           /\ Ranked(Shown(c), LiveIn(gateway), stream)
    /\ c \in loading \ spilled =>
          /\ load[c] \in {"asked", "flush1", "light"} => Shown(c) = {}
          /\ load[c] \in {"replay", "flush2", "delta"} => \A n \in Shown(c) : FromFile(c, n)
          /\ \A n \in Shown(c) : n <= cutoff[c]
          /\ \A i \in DOMAIN gateway : gateway[i].type = "replay" /\ gateway[i].to = c =>
                Ranked(Shown(c), ToSet(gateway[i].line), stream)

OrderInv == \A c \in Clients : ClientOrder(c)

\* The order depends on the streams of what is shown only,
LEMMA SortedKept ==
    ASSUME NEW q, NEW st, NEW st2, NEW P, ToSet(q) \subseteq P, \A n \in P : st2[n] = st[n],
           Sorted(q, st)
    PROVE  Sorted(q, st2)
<1>1. \A i \in DOMAIN q : q[i] \in P
    BY DEF ToSet
<1> QED BY <1>1 DEF Sorted, UpTo

\* as does that of two sets,
LEMMA RankedKept ==
    ASSUME NEW A, NEW B, NEW st, NEW st2, NEW P, A \subseteq P, B \subseteq P,
           \A n \in P : st2[n] = st[n], Ranked(A, B, st)
    PROVE  Ranked(A, B, st2)
BY DEF Ranked, UpTo

\* and is kept when an event
LEMMA SortedAppend ==
    ASSUME NEW q \in Seq(Events), NEW n \in Events, NEW st, Sorted(q, st), Ranked(ToSet(q), {n}, st)
    PROVE  Sorted(Append(q, n), st)
<1>1. PICK r : /\ r = Append(q, n) /\ DOMAIN r = DOMAIN q \union {Len(q) + 1} /\ Len(q) \in Nat
               /\ r[Len(q) + 1] = n /\ \A i \in DOMAIN q : r[i] = q[i] /\ i < Len(q) + 1 /\ i \in Nat
    <2>1. /\ DOMAIN Append(q, n) = DOMAIN q \union {Len(q) + 1} /\ Len(q) \in Nat
          /\ Append(q, n)[Len(q) + 1] = n
          /\ \A i \in DOMAIN q : Append(q, n)[i] = q[i] /\ i < Len(q) + 1
        BY AppendAt
    <2>2. \A i \in DOMAIN q : i \in Nat
        OBVIOUS
    <2> QED BY <2>1, <2>2
<1> SUFFICES ASSUME NEW i \in DOMAIN r, NEW j \in DOMAIN r, i < j PROVE UpTo(st, r[i], r[j])
    BY <1>1 DEF Sorted
<1>2. i \in DOMAIN q /\ r[i] = q[i]
    BY <1>1
<1> HIDE DEF UpTo
<1>3. CASE j \in DOMAIN q
    BY <1>1, <1>2, <1>3 DEF Sorted
<1>4. CASE j = Len(q) + 1
    <2>1. q[i] \in ToSet(q) /\ r[j] = n
        BY <1>1, <1>2, <1>4 DEF ToSet
    <2> QED BY <1>2, <2>1 DEF Ranked
<1> QED BY <1>1, <1>3, <1>4

\* or a line is added that comes after it.
LEMMA SortedConcat ==
    ASSUME NEW q \in Seq(Events), NEW l \in Seq(Events), NEW st, Sorted(q, st), Rising(l),
           Ranked(ToSet(q), ToSet(l), st)
    PROVE  Sorted(q \o l, st)
<1>1. PICK r : /\ r = q \o l /\ Len(q) \in Nat
               /\ \A i \in DOMAIN q : r[i] = q[i] /\ i <= Len(q)
               /\ \A i \in DOMAIN r \ DOMAIN q : i - Len(q) \in DOMAIN l /\ r[i] = l[i - Len(q)]
               /\ \A i \in DOMAIN r : i \in Nat
               /\ \A i \in DOMAIN r \ DOMAIN q : i > Len(q)
    <2>0. q \o l \in Seq(Events)
        BY ConcatAt
    <2>1. /\ Len(q) \in Nat
          /\ \A i \in DOMAIN q : (q \o l)[i] = q[i] /\ i <= Len(q)
          /\ \A i \in DOMAIN (q \o l) \ DOMAIN q :
                i - Len(q) \in DOMAIN l /\ (q \o l)[i] = l[i - Len(q)]
        BY ConcatAt
    <2>2. PICK r \in Seq(Events) : r = q \o l
        BY <2>0
    <2>3. \A i \in DOMAIN r : i \in Nat /\ (i \notin DOMAIN q => i > Len(q))
        OBVIOUS
    <2> QED BY <2>1, <2>2, <2>3
<1> SUFFICES ASSUME NEW i \in DOMAIN r, NEW j \in DOMAIN r, i < j PROVE UpTo(st, r[i], r[j])
    BY <1>1 DEF Sorted
<1>2. CASE j \in DOMAIN q
    <2>1. i \in DOMAIN q
        BY <1>1, <1>2
    <2> HIDE DEF UpTo
    <2> QED BY <1>1, <1>2, <2>1 DEF Sorted
<1>3. CASE i \in DOMAIN q /\ j \notin DOMAIN q
    <2>1. r[i] \in ToSet(q) /\ r[j] \in ToSet(l)
        BY <1>1, <1>3 DEF ToSet
    <2> QED BY <2>1 DEF Ranked
<1>4. CASE i \notin DOMAIN q /\ j \notin DOMAIN q
    <2>1. i - Len(q) <= j - Len(q)
        BY <1>1
    <2>2. r[i] <= r[j]
        BY <1>1, <1>4, <2>1 DEF Rising
    <2> QED BY <2>2 DEF UpTo
<1> QED BY <1>2, <1>3, <1>4

\* The release of the buffer keeps it: what is sent on is past the cutoff, hence past everything
\* replayed, and in the order in which it was held back.
LEMMA ReleasedSorted ==
    ASSUME NEW c, buffer[c] \in Seq(Untargeted), screen[c] \in Screens, cutoff[c] \in Nat,
           Sorted(screen[c].events, stream), InOrder(buffer[c], stream),
           \A n \in ToSet(screen[c].events) : n <= cutoff[c]
    PROVE  Sorted(Released(c).events, stream)
<1> DEFINE n == Len(buffer[c])
           SentOn(i, e) == \E k \in 1..i : buffer[c][k].type = "live" /\ buffer[c][k].event = e
           Sum(i, t) == /\ Sorted(t.events, stream)
                        /\ \A e \in ToSet(t.events) : e <= cutoff[c] \/ SentOn(i, e)
           G == [i \in Nat |-> {t \in Screens : Sum(i, t)}]
<1>a. n \in Nat /\ DOMAIN buffer[c] = 1..n /\ Events \subseteq Nat
    BY DEF Events
<1>1. ASSUME NEW i \in 1..n, NEW t \in G[i - 1]
      PROVE  Round(c, t, buffer[c][i]) \in G[i]
    <2>0. i \in Nat /\ i - 1 \in Nat /\ t \in Screens /\ Sum(i - 1, t)
        BY <1>1
    <2>1. PICK m \in Messages : m = buffer[c][i] /\ m.type # "replay"
        <3>1. buffer[c][i] \in Untargeted
            BY <1>a
        <3> QED BY <3>1, MessageTypes DEF Untargeted, Ask, Resolved
    <2>2. Receive(t, m) \in Screens /\ t.events \in Seq(Events)
        BY <2>0, ReceiveType DEF Screens
    <2>3. \A e : SentOn(i - 1, e) => SentOn(i, e)
        BY <2>0
    <2>4. Sum(i, t)
        BY <2>0, <2>3
    <2>5. CASE m.type = "live" /\ Kept(c, m) /\ ~(m.event <= t.seen[stream[m.event]])
        <3>1. m.event \in Events /\ m.event > cutoff[c]
            BY <2>5, MessageTypes DEF Kept
        <3>2. Receive(t, m).events = Append(t.events, m.event)
            BY <2>0, <2>5, ReceiveAt
        <3>3. ASSUME NEW e \in ToSet(t.events) PROVE UpTo(stream, e, m.event)
            <4>0. e \in Nat /\ m.event \in Nat
                BY <1>a, <2>2, <3>1, <3>3, SetAfter
            <4>1. CASE e <= cutoff[c]
                <5>1. e <= m.event
                    BY <3>1, <4>0, <4>1
                <5> QED BY <5>1 DEF UpTo
            <4>2. CASE SentOn(i - 1, e)
                <5>1. PICK k \in 1..(i - 1) : buffer[c][k].type = "live" /\ buffer[c][k].event = e
                    BY <4>2
                <5>2. k \in DOMAIN buffer[c] /\ i \in DOMAIN buffer[c] /\ k < i
                    BY <1>a, <2>0, <5>1
                <5>3. Before(stream, e, m.event)
                    BY <2>1, <2>5, <5>1, <5>2 DEF InOrder
                <5>4. e < m.event => e <= m.event
                    BY <4>0
                <5> QED BY <5>3, <5>4 DEF Before, UpTo
            <4> QED BY <2>0, <4>1, <4>2
        <3>4. Sorted(Receive(t, m).events, stream)
            <4>1. Ranked(ToSet(t.events), {m.event}, stream)
                BY <3>3 DEF Ranked
            <4> QED BY <2>0, <2>2, <3>1, <3>2, <4>1, SortedAppend
        <3>5. SentOn(i, m.event)
            BY <2>0, <2>1, <2>5
        <3>6. ToSet(Receive(t, m).events) = ToSet(t.events) \union {m.event}
            BY <2>0, <2>5, ShownAfter
        <3> HIDE DEF SentOn
        <3>7. Sum(i, Receive(t, m))
            BY <2>4, <3>4, <3>5, <3>6
        <3> HIDE DEF Sum
        <3> QED BY <2>0, <2>1, <2>2, <2>5, <3>7 DEF Round
    <2>6. CASE ~(m.type = "live" /\ Kept(c, m) /\ ~(m.event <= t.seen[stream[m.event]]))
        <3>1. Receive(t, m).events = t.events \/ ~Kept(c, m)
            <4>1. m.type = "live" /\ m.event <= t.seen[stream[m.event]] => Receive(t, m) = t
                BY <2>0, ReceiveAt
            <4>2. m.type \in {"ask", "resolved"} => Receive(t, m).events = t.events
                BY <2>0, ReceiveAt
            <4>3. m.type \in {"live", "ask", "resolved"}
                BY <2>1, MessageTypes
            <4> QED BY <2>6, <4>1, <4>2, <4>3
        <3>2. Receive(t, m).events = t.events => Sum(i, Receive(t, m))
            BY <2>4
        <3> HIDE DEF Sum
        <3> QED BY <2>0, <2>1, <2>2, <2>4, <3>1, <3>2 DEF Round
    <2> QED BY <2>5, <2>6
<1>2. screen[c] \in G[0]
    OBVIOUS
<1>3. Released(c) \in G[n]
    <2> HIDE DEF G
    <2> QED BY <1>1, <1>2, ReleasedInv
<1>4. Sum(n, Released(c))
    <2> HIDE DEF Sum
    <2> QED BY <1>a, <1>3
<1> QED BY <1>4

\* The cutoff of a load only rises, and is not below a line that was replayed.
LEMMA CutoffMoves ==
    ASSUME TypeOK, PhaseInv, [Next]_vars, NEW c \in loading, c \in loading'
    PROVE  /\ cutoff[c] \in Nat /\ cutoff'[c] \in Nat /\ cutoff[c] <= cutoff'[c]
           /\ Deliver /\ Head(gateway).type = "replay" /\ Head(gateway).to = c =>
                 Last(Head(gateway).line) <= cutoff'[c]
<1>a. /\ cutoff \in [Clients -> 0..MaxEvents] /\ c \in Clients /\ gateway \in Seq(Messages)
      /\ cutoff' \in [Clients -> 0..MaxEvents] /\ MaxEvents \in Nat
    BY LoadAssumption, TypeStep DEF TypeOK, LeaderType, AgentType
<1>b. cutoff[c] \in Nat /\ cutoff'[c] \in Nat
    BY <1>a
<1>1. CASE Deliver
    <2>1. PICK m \in Messages : m = Head(gateway)
        BY <1>1, <1>a, TailAt DEF Deliver
    <2>2. CASE m.type = "replay"
        <3>1. m.to \in Clients /\ m.line \in Lines
            BY <2>2, MessageTypes
        <3>2. \/ UNCHANGED cutoff
              \/ cutoff' = [cutoff EXCEPT ![m.to] = IF LineSeq(m.line) > @ THEN LineSeq(m.line) ELSE @]
            BY <1>1, <2>1, <2>2 DEF Deliver, Unicast
        <3>3. m.to = c => cutoff' = [cutoff EXCEPT ![m.to] = IF LineSeq(m.line) > @ THEN LineSeq(m.line) ELSE @]
            BY <1>1, <1>a, <2>1, <2>2 DEF Deliver, Unicast, PhaseInv
        <3>4. Last(m.line) \in Nat
            <4>1. m.line \in Seq(Events) /\ m.line # <<>> /\ Events \subseteq Nat
                BY <3>1 DEF Lines, Events
            <4>2. m.line[Len(m.line)] \in Events
                BY <4>1
            <4> QED BY <4>1, <4>2 DEF Last
        <3>5. CASE m.to = c
            BY <1>a, <1>b, <2>1, <3>3, <3>4, <3>5 DEF LineSeq
        <3>6. CASE m.to # c
            BY <1>a, <1>b, <2>1, <3>2, <3>6
        <3> QED BY <3>5, <3>6
    <2>3. CASE m.type # "replay"
        <3>1. UNCHANGED cutoff
            BY <1>1, <2>1, <2>3 DEF Deliver, Broadcast
        <3> QED BY <1>b, <2>1, <2>3, <3>1
    <2> QED BY <2>2, <2>3
<1>2. CASE ~Deliver
    <2>1. ASSUME NEW d \in Clients, Disconnect(d) \/ LoadFails(d) \/ Respond(d)
          PROVE  cutoff'[c] = cutoff[c]
        <3>1. cutoff' = [cutoff EXCEPT ![d] = 0] /\ loading' = loading \ {d}
            BY <2>1 DEF Disconnect, LoadFails, Respond, Answered
        <3>2. d # c
            BY <3>1
        <3> QED BY <1>a, <3>1, <3>2
    <2>2. cutoff'[c] = cutoff[c]
        BY <1>2, <2>1, BufferSteps
    <2> QED BY <1>2, <1>b, <2>2
<1> QED BY <1>1, <1>2

\* The order after a step that leaves the client's screen as it is,
LEMMA OrderSame ==
    ASSUME TypeOK, PhaseInv, FreshInv, StampInv, WireInv, FlushInv, DiskInv, ReplayInv,
           [Next]_vars, NEW c \in Clients, ClientOrder(c), screen'[c] = screen[c]
    PROVE  ClientOrder(c)'
<1>a. /\ file \in Seq(Lines) /\ offset \in [Clients -> Nat] /\ Len(file) \in Nat
      /\ offset[c] <= Len(file) /\ screen[c] \in Screens /\ loading \subseteq Clients
    BY DEF TypeOK, AgentType, DiskType, LeaderType
<1>b. /\ Emitted \subseteq Past /\ Past \subseteq Past'
      /\ \A n \in Past : stream'[n] = stream[n] /\ n \in Nat /\ n \in Events
    BY StampCases DEF Emitted
<1>c. LiveIn(gateway) \subseteq Emitted /\ InOrder(gateway, stream)
    BY DEF WireInv
<1>d. PICK S : S = Shown(c) /\ S = Shown(c)' /\ S \subseteq Past
    BY DEF ClientOrder, Shown
<1>e. c \notin spilled' => c \notin spilled
    BY SpilledSteps DEF Deliver, Unicast, Broadcast
<1>1. c \notin spilled' => Sorted(screen'[c].events, stream')
    <2>1. ToSet(screen[c].events) \subseteq Past
        BY <1>d DEF Shown
    <2> SUFFICES ASSUME c \notin spilled PROVE Sorted(screen[c].events, stream')
        BY <1>e
    <2>2. Sorted(screen[c].events, stream)
        BY DEF ClientOrder
    <2> QED BY <1>b, <2>1, <2>2, SortedKept
<1>2. c \notin spilled' => Ranked(S, LiveIn(gateway'), stream')
    <2> SUFFICES ASSUME c \notin spilled, NEW m \in S, NEW n \in LiveIn(gateway')
                 PROVE  UpTo(stream', m, n)
        BY <1>e DEF Ranked
    <2>0. m \in Past
        BY <1>d
    <2>1. CASE n \in LiveIn(gateway)
        <3>1. UpTo(stream, m, n) /\ n \in Past
            BY <1>b, <1>c, <1>d, <2>1 DEF ClientOrder, Ranked
        <3> QED BY <1>b, <2>0, <3>1 DEF UpTo
    <2>2. CASE EmitLive /\ n = emitting /\ emitting \in Past
        <3>1. UpTo(stream, m, n)
            BY <2>0, <2>2 DEF StampInv, EmitLive
        <3> QED BY <1>b, <2>0, <2>2, <3>1 DEF UpTo
    <2> QED BY <1>c, <2>1, <2>2, LiveSteps
<1>3. ASSUME c \in loading', c \notin spilled', c \notin loading
      PROVE  S = {}
    <2>1. Request(c)
        BY <1>3, LoadingSteps DEF Request, Disconnect, LoadFails, Respond, Answered
    <2>2. screen[c].events = <<>>
        BY <2>1 DEF Request, FreshInv
    <2> QED BY <1>d, <2>2 DEF Shown, ToSet
<1>4. ASSUME c \in loading', c \notin spilled', c \in loading
      PROVE  /\ load'[c] \in {"asked", "flush1", "light"} => S = {}
             /\ load'[c] \in {"replay", "flush2", "delta"} =>
                   \A n \in S : \E l \in 1..offset'[c] : n \in ToSet(file'[l])
             /\ \A n \in S : n <= cutoff'[c]
             /\ \A i \in DOMAIN gateway' : gateway'[i].type = "replay" /\ gateway'[i].to = c =>
                   Ranked(S, ToSet(gateway'[i].line), stream')
    <2>a. /\ load[c] \in {"asked", "flush1", "light"} => S = {}
          /\ load[c] \in {"replay", "flush2", "delta"} => \A n \in S : FromFile(c, n)
          /\ \A n \in S : n <= cutoff[c]
          /\ \A i \in DOMAIN gateway : gateway[i].type = "replay" /\ gateway[i].to = c =>
                Ranked(S, ToSet(gateway[i].line), stream)
        BY <1>4, <1>d, <1>e DEF ClientOrder
    <2>b. load[c] \in Busy
        BY <1>4 DEF PhaseInv
    <2>1. load'[c] \in {"asked", "flush1", "light"} => load[c] \in {"asked", "flush1", "light"}
        BY <2>b, LoadMoves DEF Busy
    <2>2. ASSUME load'[c] \in {"replay", "flush2", "delta"}, NEW n \in S
          PROVE  \E l \in 1..offset'[c] : n \in ToSet(file'[l])
        <3>1. load[c] \in {"replay", "flush2", "delta"} /\ ~ReplayUpdates(c)
            <4>1. load[c] # "light"
                BY <2>2, <2>a
            <4>2. ~ReplayUpdates(c)
                BY <4>1 DEF ReplayUpdates
            <4> QED BY <2>2, <4>1, <4>2, LoadMoves
        <3>2. offset'[c] = offset[c]
            BY <1>a, <3>1, OffsetSteps DEF ReplayUpdates
        <3>3. PICK l \in 1..offset[c] : n \in ToSet(file[l])
            BY <2>a, <3>1 DEF FromFile
        <3>4. file'[l] = file[l]
            BY <1>a, DiskCases
        <3> QED BY <3>2, <3>3, <3>4
    <2>3. ASSUME NEW n \in S PROVE n <= cutoff'[c]
        <3>1. cutoff[c] \in Nat /\ cutoff'[c] \in Nat /\ cutoff[c] <= cutoff'[c]
            BY <1>4, CutoffMoves
        <3>2. n \in Nat /\ n <= cutoff[c]
            BY <1>b, <1>d, <2>a
        <3> QED BY <3>1, <3>2
    <2>4. ASSUME NEW i \in DOMAIN gateway', gateway'[i].type = "replay", gateway'[i].to = c
          PROVE  Ranked(S, ToSet(gateway'[i].line), stream')
        <3>1. CASE ReplayUpdates(c)
            <4>1. S = {}
                BY <2>a, <3>1 DEF ReplayUpdates
            <4> QED BY <4>1 DEF Ranked
        <3>2. CASE ReplayDelta(c)
            <4>1. PICK a \in Nat :
                     /\ a = (IF load[c] = "light" THEN 0 ELSE offset[c])
                     /\ \A j \in DOMAIN gateway : gateway'[j] = gateway[j]
                     /\ \A j \in DOMAIN gateway' \ DOMAIN gateway :
                           /\ j - Len(gateway) \in Nat \ {0} /\ j - Len(gateway) + a \in DOMAIN file
                           /\ gateway'[j] = Replay(c, file[j - Len(gateway) + a])
                           /\ file[j - Len(gateway) + a] \in Lines
                BY <3>2, ReplaySent
            <4>2. load[c] = "delta" /\ stream' = stream
                BY <3>2 DEF ReplayDelta, session
            <4>3. i \notin DOMAIN gateway
                BY <2>4, <4>1, <4>2 DEF PhaseInv, Replaying
            <4>4. PICK k \in DOMAIN file : gateway'[i].line = file[k] /\ k > offset[c]
                <5>1. PICK k \in DOMAIN file : k = i - Len(gateway) + a
                    BY <4>1, <4>3
                <5>2. gateway'[i].line = file[k]
                    BY <4>1, <4>3, <5>1, MessageTypes
                <5>3. k > offset[c]
                    <6>1. PICK d \in Nat \ {0} : d = i - Len(gateway)
                        BY <4>1, <4>3
                    <6>2. a = offset[c]
                        BY <4>1, <4>2
                    <6>3. k = d + a
                        BY <5>1, <6>1
                    <6> QED BY <6>1, <6>2, <6>3
                <5> QED BY <5>2, <5>3
            <4>5. ASSUME NEW m \in S, NEW n \in ToSet(file[k]) PROVE UpTo(stream, m, n)
                <5>1. PICK l \in 1..offset[c] : m \in ToSet(file[l])
                    BY <2>a, <4>2 DEF FromFile
                <5>2. l \in DOMAIN file /\ l < k
                    BY <1>a, <4>4, <5>1
                <5>3. Ranked(ToSet(file[l]), ToSet(file[k]), stream)
                    BY <5>2 DEF DiskInv, DiskOrder
                <5> QED BY <5>1, <5>3 DEF Ranked
            <4> QED BY <4>2, <4>4, <4>5 DEF Ranked
        <3>3. CASE ~ReplayUpdates(c) /\ ~ReplayDelta(c)
            <4>1. PICK j \in DOMAIN gateway : gateway[j] = gateway'[i]
                BY <2>4, <3>3, ReplayFrom
            <4>2. Ranked(S, ToSet(gateway[j].line), stream)
                BY <2>4, <2>a, <4>1
            <4>3. ToSet(gateway[j].line) \subseteq Past
                BY <2>4, <4>1 DEF ReplayInv, ReplayOrder
            <4>4. Ranked(S, ToSet(gateway[j].line), stream')
                BY <1>b, <1>d, <4>2, <4>3, RankedKept
            <4> QED BY <4>1, <4>4
        <3> QED BY <3>1, <3>2, <3>3
    <2> QED BY <2>1, <2>2, <2>3, <2>4, <2>a
<1>5. ASSUME S = {}
      PROVE  /\ \A n \in S : FromFile(c, n)' /\ n <= cutoff'[c]
             /\ \A B : Ranked(S, B, stream')
    BY <1>5 DEF Ranked
<1>6. S \subseteq Past'
    BY <1>b, <1>d
<1>7. ASSUME c \in loading' \ spilled'
      PROVE  /\ load'[c] \in {"asked", "flush1", "light"} => S = {}
             /\ load'[c] \in {"replay", "flush2", "delta"} => \A n \in S : FromFile(c, n)'
             /\ \A n \in S : n <= cutoff'[c]
             /\ \A i \in DOMAIN gateway' : gateway'[i].type = "replay" /\ gateway'[i].to = c =>
                   Ranked(S, ToSet(gateway'[i].line), stream')
    <2>1. CASE c \in loading
        BY <1>4, <1>7, <2>1 DEF FromFile
    <2>2. CASE c \notin loading
        BY <1>3, <1>5, <1>7, <2>2
    <2> QED BY <2>1, <2>2
<1> HIDE DEF FromFile, Ranked, Sorted
<1> QED BY <1>1, <1>2, <1>6, <1>7, <1>d DEF ClientOrder

\* after the delivery of a replayed line,
LEMMA OrderReplayed ==
    ASSUME TypeOK, PhaseInv, StampInv, WireInv, ReplayInv,
           Deliver, NEW c \in loading, ClientOrder(c),
           Head(gateway).type = "replay", Head(gateway).to = c
    PROVE  ClientOrder(c)'
<1>0. [Next]_vars
    BY DEF Next
<1>a. /\ gateway \in Seq(Messages) /\ gateway # <<>> /\ gateway' = Tail(gateway) /\ c \in Clients
      /\ screen[c] \in Screens /\ Events \subseteq Nat
    BY DEF TypeOK, AgentType, LeaderType, Deliver, Events
<1>b. /\ UNCHANGED <<stream, load, offset, file, loading, spilled>> /\ Past' = Past
    BY DEF Deliver, Unicast, session, agent, disk, Past, Stamped
<1>1. PICK m \in Messages : m = Head(gateway) /\ m = gateway[1] /\ 1 \in DOMAIN gateway
    BY <1>a, TailAt
<1>2. \A i \in DOMAIN gateway' : i + 1 \in DOMAIN gateway /\ gateway'[i] = gateway[i + 1] /\ 1 < i + 1
    <2>1. \A i \in DOMAIN Tail(gateway) : i + 1 \in DOMAIN gateway /\ Tail(gateway)[i] = gateway[i + 1]
        BY <1>a, TailAt
    <2>2. Tail(gateway) \in Seq(Messages)
        BY <1>a, TailAt
    <2>3. \A i \in DOMAIN Tail(gateway) : 1 < i + 1
        BY <2>2
    <2> QED BY <1>a, <2>1, <2>3
<1>3. /\ m.type = "replay" /\ m.to = c /\ m.line \in Seq(Events) /\ m.line # <<>>
    BY <1>1, MessageTypes DEF Lines
<1>4. /\ ToSet(m.line) \subseteq Past /\ Rising(m.line)
      /\ \A j \in DOMAIN gateway : 1 < j /\ gateway[j].type = "live" =>
            Ranked(ToSet(m.line), {gateway[j].event}, stream)
      /\ \A j \in DOMAIN gateway : 1 < j /\ gateway[j].type = "replay" /\ gateway[j].to = c =>
            Ranked(ToSet(m.line), ToSet(gateway[j].line), stream)
    <2> HIDE DEF Ranked, Rising
    <2> QED BY <1>1, <1>3 DEF ReplayInv, ReplayOrder
<1>5. /\ screen'[c].events = screen[c].events \o m.line /\ screen[c].events \in Seq(Events)
    <2>1. screen'[c] = Receive(screen[c], m)
        BY <1>1, <1>3, <1>a, DeliveredScreen
    <2>2. Receive(screen[c], m).events = screen[c].events \o m.line
        BY <1>3, <1>a, ReceiveAt
    <2> QED BY <1>a, <2>1, <2>2 DEF Screens
<1>6. PICK S, T : S = Shown(c) /\ T = Shown(c)' /\ T = S \union ToSet(m.line)
    <2>1. ToSet(screen'[c].events) = ToSet(screen[c].events) \union ToSet(m.line)
        BY <1>3, <1>5, SetAfter
    <2> QED BY <2>1 DEF Shown
<1>7. T \subseteq Past'
    BY <1>4, <1>6, <1>b DEF ClientOrder
<1>8. ASSUME c \notin spilled
      PROVE  /\ Sorted(screen'[c].events, stream)
             /\ Ranked(T, LiveIn(gateway'), stream)
             /\ load[c] \notin {"asked", "flush1", "light", "flush2", "delta"}
             /\ load[c] = "replay" => \A n \in T : FromFile(c, n)
             /\ \A n \in T : n <= cutoff'[c]
             /\ \A i \in DOMAIN gateway' : gateway'[i].type = "replay" /\ gateway'[i].to = c =>
                   Ranked(T, ToSet(gateway'[i].line), stream)
    <2>a. /\ Sorted(screen[c].events, stream) /\ Ranked(S, LiveIn(gateway), stream)
          /\ load[c] = "replay" => \A n \in S : FromFile(c, n)
          /\ \A n \in S : n <= cutoff[c]
          /\ \A i \in DOMAIN gateway : gateway[i].type = "replay" /\ gateway[i].to = c =>
                Ranked(S, ToSet(gateway[i].line), stream)
        BY <1>6, <1>8 DEF ClientOrder
    <2>1. Sorted(screen'[c].events, stream)
        <3>1. Ranked(ToSet(screen[c].events), ToSet(m.line), stream)
            BY <1>1, <1>3, <1>6, <2>a DEF Shown
        <3> HIDE DEF Sorted, Ranked, Rising
        <3> QED BY <1>3, <1>4, <1>5, <2>a, <3>1, SortedConcat
    <2>2. Ranked(T, LiveIn(gateway'), stream)
        <3>1. LiveIn(gateway') \subseteq LiveIn(gateway)
            BY <1>2 DEF LiveIn
        <3>2. ASSUME NEW k \in ToSet(m.line), NEW n \in LiveIn(gateway') PROVE UpTo(stream, k, n)
            <4>1. PICK i \in DOMAIN gateway' : gateway'[i].type = "live" /\ gateway'[i].event = n
                BY DEF LiveIn
            <4>2. Ranked(ToSet(m.line), {n}, stream)
                BY <1>2, <1>4, <4>1
            <4> QED BY <4>2 DEF Ranked
        <3> QED BY <1>6, <2>a, <3>1, <3>2 DEF Ranked
    <2>3. load[c] \in Replaying
        BY <1>1, <1>3 DEF PhaseInv
    <2>4. load[c] = "replay" => \A n \in T : FromFile(c, n)
        <3>1. load[c] = "replay" => \A n \in ToSet(m.line) : FromFile(c, n)
            BY <1>1, <1>3, <1>a DEF ReplayInv
        <3> QED BY <1>6, <2>a, <3>1
    <2>5. \A n \in T : n <= cutoff'[c]
        <3>1. /\ cutoff[c] \in Nat /\ cutoff'[c] \in Nat /\ cutoff[c] <= cutoff'[c]
              /\ Last(m.line) <= cutoff'[c]
            BY <1>0, <1>1, <1>3, <1>b, CutoffMoves
        <3>2. ASSUME NEW n \in ToSet(m.line) PROVE n <= cutoff'[c]
            <4>1. PICK i \in DOMAIN m.line : n = m.line[i]
                BY <3>2 DEF ToSet
            <4>2. Len(m.line) \in DOMAIN m.line /\ i <= Len(m.line)
                BY <1>3
            <4>3. n <= Last(m.line)
                BY <1>4, <4>1, <4>2 DEF Rising, Last
            <4>4. n \in Nat /\ Last(m.line) \in Nat
                <5>1. m.line[i] \in Events /\ m.line[Len(m.line)] \in Events
                    BY <1>3, <4>1, <4>2
                <5> QED BY <1>a, <4>1, <5>1 DEF Last
            <4> QED BY <3>1, <4>3, <4>4
        <3>3. ASSUME NEW n \in S PROVE n <= cutoff'[c]
            <4>1. n \in Nat
                BY <1>5, <1>6, <1>a, SetAfter DEF Shown
            <4> QED BY <2>a, <3>1, <4>1
        <3> QED BY <1>6, <3>2, <3>3
    <2>6. ASSUME NEW i \in DOMAIN gateway', gateway'[i].type = "replay", gateway'[i].to = c
          PROVE  Ranked(T, ToSet(gateway'[i].line), stream)
        <3>1. /\ Ranked(S, ToSet(gateway'[i].line), stream)
              /\ Ranked(ToSet(m.line), ToSet(gateway'[i].line), stream)
            BY <1>2, <1>4, <2>6, <2>a
        <3> QED BY <1>6, <3>1 DEF Ranked
    <2> HIDE DEF FromFile, Ranked, Sorted
    <2> QED BY <2>1, <2>2, <2>3, <2>4, <2>5, <2>6 DEF Replaying
<1>9. \A n : FromFile(c, n)' <=> FromFile(c, n)
    BY <1>b DEF FromFile
<1> HIDE DEF FromFile, Ranked, Sorted
<1> QED BY <1>6, <1>7, <1>8, <1>9, <1>b DEF ClientOrder

\* after the delivery of a live message to a client it is not held back from,
LEMMA OrderLive ==
    ASSUME TypeOK, PhaseInv, StampInv, WireInv,
           Deliver, NEW c \in Clients, ClientOrder(c),
           Head(gateway).type # "replay", c \in subs, ~HeldBack(c)
    PROVE  ClientOrder(c)'
<1>0. [Next]_vars
    BY DEF Next
<1>a. /\ gateway \in Seq(Messages) /\ gateway # <<>> /\ gateway' = Tail(gateway)
      /\ screen[c] \in Screens /\ Events \subseteq Nat
    BY DEF TypeOK, AgentType, LeaderType, Deliver, Events
<1>b. /\ UNCHANGED <<stream, loading, emitting>> /\ Past' = Past
    BY DEF Deliver, session, Past, Stamped
<1>c. /\ Emitted \subseteq Past /\ \A n \in Past : n \in Nat /\ n \in Events
      /\ LiveIn(gateway) \subseteq Emitted /\ InOrder(gateway, stream)
    BY <1>0, StampCases DEF Emitted, WireInv
<1>1. PICK m \in Messages : m = Head(gateway) /\ m.type \in {"live", "ask", "resolved"}
    BY <1>a, TailAt, MessageTypes
<1>2. screen'[c] = Receive(screen[c], m)
    BY <1>1, <1>a, DeliveredScreen
<1>3. c \notin spilled' => c \notin spilled /\ c \notin loading
    BY <1>1 DEF Deliver, Broadcast
<1>4. /\ LiveIn(gateway') \subseteq LiveIn(gateway)
      /\ m.type = "live" => /\ m.event \in LiveIn(gateway)
                            /\ \A n \in LiveIn(gateway') : Before(stream, m.event, n)
    <2>1. ~EmitLive
        BY <1>b DEF EmitLive
    <2> QED BY <1>0, <1>1, <1>c, <2>1, LiveSteps
<1>5. CASE m.type = "live" /\ ~(m.event <= screen[c].seen[stream[m.event]])
    <2>1. /\ screen'[c].events = Append(screen[c].events, m.event)
          /\ ToSet(screen'[c].events) = ToSet(screen[c].events) \union {m.event}
        <3>1. Receive(screen[c], m).events = Append(screen[c].events, m.event)
            BY <1>5, <1>a, ReceiveAt
        <3>2. ToSet(Receive(screen[c], m).events) = ToSet(screen[c].events) \union {m.event}
            BY <1>5, <1>a, ShownAfter
        <3> QED BY <1>2, <3>1, <3>2
    <2>2. m.event \in Past /\ m.event \in Events /\ screen[c].events \in Seq(Events)
        BY <1>4, <1>5, <1>a, <1>c DEF Screens
    <2>3. Shown(c)' \subseteq Past'
        BY <1>b, <2>1, <2>2 DEF ClientOrder, Shown
    <2>4. ASSUME c \notin spilled'
          PROVE  /\ Sorted(screen'[c].events, stream)
                 /\ Ranked(ToSet(screen'[c].events), LiveIn(gateway'), stream)
        <3>1. Sorted(screen[c].events, stream) /\ Ranked(ToSet(screen[c].events), LiveIn(gateway), stream)
            BY <1>3, <2>4 DEF ClientOrder, Shown
        <3>2. Ranked(ToSet(screen[c].events), {m.event}, stream)
            BY <1>4, <1>5, <3>1 DEF Ranked
        <3>3. Sorted(screen'[c].events, stream)
            BY <2>1, <2>2, <3>1, <3>2, SortedAppend
        <3>4. \A n \in LiveIn(gateway') : UpTo(stream, m.event, n)
            <4>1. \A n \in LiveIn(gateway') : n \in Nat /\ m.event \in Nat
                BY <1>4, <1>a, <1>c, <2>2
            <4> QED BY <1>4, <1>5, <4>1 DEF Before, UpTo
        <3>5. Ranked(ToSet(screen'[c].events), LiveIn(gateway'), stream)
            BY <1>4, <2>1, <3>1, <3>4 DEF Ranked
        <3> QED BY <3>3, <3>5
    <2> QED BY <1>3, <1>b, <2>3, <2>4 DEF ClientOrder, Shown
<1>6. CASE ~(m.type = "live" /\ ~(m.event <= screen[c].seen[stream[m.event]]))
    <2>1. screen'[c].events = screen[c].events
        <3>1. m.type = "live" /\ m.event <= screen[c].seen[stream[m.event]] =>
                 Receive(screen[c], m) = screen[c]
            BY <1>a, ReceiveAt
        <3>2. m.type \in {"ask", "resolved"} => Receive(screen[c], m).events = screen[c].events
            BY <1>a, ReceiveAt
        <3> QED BY <1>1, <1>2, <1>6, <3>1, <3>2
    <2>2. Shown(c)' = Shown(c)
        BY <2>1 DEF Shown
    <2>3. Shown(c)' \subseteq Past'
        BY <1>b, <2>2 DEF ClientOrder
    <2>4. c \notin spilled' => /\ Sorted(screen'[c].events, stream)
                               /\ Ranked(Shown(c)', LiveIn(gateway'), stream)
        <3>1. Ranked(Shown(c), LiveIn(gateway), stream) => Ranked(Shown(c), LiveIn(gateway'), stream)
            BY <1>4 DEF Ranked
        <3> HIDE DEF Sorted, Ranked
        <3> QED BY <1>3, <2>1, <2>2, <3>1 DEF ClientOrder
    <2> QED BY <1>3, <1>b, <2>3, <2>4 DEF ClientOrder
<1> QED BY <1>5, <1>6

\* and after the answer to its load.
LEMMA OrderAnswered ==
    ASSUME TypeOK, PhaseInv, StampInv, WireInv, NEW c \in Clients, ClientOrder(c), c \in loading,
           LoadFails(c) \/ Respond(c), screen'[c].events = Released(c).events
    PROVE  ClientOrder(c)'
<1>0. [Next]_vars
    BY DEF Next, AgentStep
<1>a. /\ screen[c] \in Screens /\ buffer[c] \in Seq(Untargeted) /\ cutoff[c] \in Nat
    BY LoadAssumption DEF TypeOK, LeaderType
<1>b. /\ UNCHANGED <<stream, gateway, spilled>> /\ Past' = Past /\ c \notin loading'
    <2>1. UNCHANGED <<stream, eventQ, gateway, spilled>> /\ loading' = loading \ {c}
        BY AnswersAt
    <2> QED BY <2>1 DEF Past, Stamped
<1>c. /\ Emitted \subseteq Past /\ \A n \in Past : n \in Nat
      /\ LiveIn(gateway) \subseteq Emitted
      /\ LiveIn(buffer[c]) \subseteq Emitted /\ InOrder(buffer[c], stream)
      /\ \A m \in LiveIn(buffer[c]), n \in LiveIn(gateway) : Before(stream, m, n)
    BY <1>0, StampCases DEF Emitted, WireInv
<1>1. PICK T : T = Shown(c)' /\ T \subseteq Shown(c) \union LiveIn(buffer[c])
    <2>1. ToSet(Released(c).events) \subseteq ToSet(screen[c].events) \union LiveIn(buffer[c])
        BY <1>a, ReleasedSeen
    <2> QED BY <2>1 DEF Shown
<1>2. T \subseteq Past'
    BY <1>1, <1>b, <1>c DEF ClientOrder
<1>3. ASSUME c \notin spilled
      PROVE  Sorted(Released(c).events, stream) /\ Ranked(T, LiveIn(gateway), stream)
    <2>1. /\ Sorted(screen[c].events, stream) /\ \A n \in ToSet(screen[c].events) : n <= cutoff[c]
          /\ Ranked(Shown(c), LiveIn(gateway), stream)
        BY <1>3 DEF ClientOrder, Shown
    <2>2. Sorted(Released(c).events, stream)
        <3> HIDE DEF Sorted
        <3> QED BY <1>a, <1>c, <2>1, ReleasedSorted
    <2>3. \A m \in LiveIn(buffer[c]), n \in LiveIn(gateway) : UpTo(stream, m, n)
        <3>1. \A m \in LiveIn(buffer[c]), n \in LiveIn(gateway) : m \in Nat /\ n \in Nat
            BY <1>c
        <3> QED BY <1>c, <3>1 DEF Before, UpTo
    <2> QED BY <1>1, <2>1, <2>2, <2>3 DEF Ranked
<1> HIDE DEF Ranked, Sorted
<1> QED BY <1>1, <1>2, <1>3, <1>b DEF ClientOrder

\* No step puts a client's events out of order.
LEMMA OrderStep ==
    ASSUME TypeOK, PhaseInv, FreshInv, StampInv, WireInv, FlushInv, DiskInv, ReplayInv, OrderInv,
           [Next]_vars
    PROVE  OrderInv'
<1> SUFFICES ASSUME NEW c \in Clients PROVE ClientOrder(c)'
    BY DEF OrderInv
<1>0. ClientOrder(c)
    BY DEF OrderInv
<1>1. CASE screen'[c] = screen[c]
    BY <1>0, <1>1, OrderSame
<1>2. CASE Deliver /\ screen'[c] # screen[c]
    <2>1. CASE Head(gateway).type = "replay"
        BY <1>0, <1>2, <2>1, DeliveredScreen, OrderReplayed
    <2>2. CASE Head(gateway).type # "replay"
        BY <1>0, <1>2, <2>2, DeliveredScreen, OrderLive
    <2> QED BY <2>1, <2>2
<1>3. CASE /\ LoadFails(c) \/ Respond(c)
           /\ c \in loading /\ screen'[c].events = Released(c).events
    BY <1>0, <1>3, OrderAnswered
<1> QED BY <1>1, <1>2, <1>3, ScreenCases

\* In the beginning nothing is persisted, on the wire or shown.
LEMMA OrderInit ==
    ASSUME Init
    PROVE  DiskInv /\ ReplayInv /\ OrderInv
<1>1. /\ persistQ = <<>> /\ pending = <<>> /\ file = <<>> /\ gateway = <<>> /\ loading = {}
      /\ \A c \in Clients : screen[c].events = <<>>
    BY DEF Init
<1>2. ToSet(<<>>) = {} /\ LiveIn(<<>>) = {}
    BY DEF ToSet, LiveIn
<1>3. \A n : ~OnDisk(n)
    BY <1>1, <1>2 DEF OnDisk, InFile
<1>4. DiskInv
    BY <1>1, <1>2, <1>3 DEF DiskInv, DiskOrder, Rising
<1>5. ReplayInv
    BY <1>1 DEF ReplayInv, ReplayOrder
<1>6. OrderInv
    BY <1>1, <1>2 DEF OrderInv, ClientOrder, Shown, Sorted, Ranked
<1> QED BY <1>4, <1>5, <1>6

SortedInv ==
    /\ TypeOK /\ PhaseInv /\ FreshInv /\ StampInv /\ WireInv /\ FlushInv
    /\ DiskInv /\ ReplayInv /\ OrderInv

\* These are kept together.
LEMMA SortedCorrect == Spec => []SortedInv
<1>1. Init => SortedInv
    BY TypeInit, TalkInit, ReachInit, CompleteInit, OrderInit DEF SortedInv
<1>2. SortedInv /\ [Next]_vars => SortedInv'
    BY TypeStep, FreshStep, StampStep, WireStep, FlushStep, DiskStep, ReplayStep, OrderStep
       DEF SortedInv
<1> QED BY <1>1, <1>2, PTL DEF Spec

\* A client whose live buffer did not overflow sees the events of each stream in the order of
\* their ids, the file's replay, its delta, the released buffer and the live events together
\* (server.rs, the cutoff of load_replay_max_seq; replay_session_updates).
THEOREM StreamOrderCorrect == Spec => []StreamOrder
<1>1. SortedInv => StreamOrder
    BY DEF SortedInv, OrderInv, ClientOrder, Sorted, UpTo, StreamOrder
<1> QED BY <1>1, SortedCorrect, PTL

-------------------------------------------------------------------------------
(* The routing tables *)

\* The routing tables are typed, and a client has an entry in them only while
\* it is connected.
RoutesInv ==
    /\ online \in [Clients -> {"new", "on", "off"}]
    /\ subs \subseteq Clients
    /\ RoutesLive

\* Nobody subscribes, leaves or is answered.
LEMMA RoutesKept ==
    ASSUME RoutesInv, UNCHANGED <<online, subs, driver>>,
           loading' \subseteq loading
    PROVE  RoutesInv'
BY DEF RoutesInv, RoutesLive

\* The routes hold in the beginning
LEMMA RoutesInit == Init => RoutesInv
<1> SUFFICES ASSUME Init PROVE RoutesInv
    OBVIOUS
<1>1. online \in [Clients -> {"new", "on", "off"}]
    BY DEF Init
<1>2. subs \subseteq Clients /\ loading \subseteq subs
    BY LoadAssumption DEF Init
<1>3. \A c \in subs : online[c] = "on"
    BY LoadAssumption DEF Init
<1>4. IF subs = {} THEN driver = NoClient ELSE driver \in subs
    BY DEF Init
<1> QED BY <1>1, <1>2, <1>3, <1>4 DEF RoutesInv, RoutesLive

\* Request subscribes a client that is new, and so not subscribed yet.
LEMMA RoutesRequest ==
    ASSUME RoutesInv, NEW c \in Clients, Request(c)
    PROVE  RoutesInv'
<1>1. online' = [online EXCEPT ![c] = "on"] /\ subs' = subs \union {c}
    BY DEF Request
<1>2. online' \in [Clients -> {"new", "on", "off"}] /\ subs' \subseteq Clients
    BY <1>1 DEF RoutesInv
<1>3. \A d \in subs' : online'[d] = "on"
    BY <1>1 DEF RoutesInv, RoutesLive
<1>4. loading' \subseteq subs'
    BY <1>1 DEF RoutesInv, RoutesLive, Request
<1>5. driver' \in subs'
    BY <1>1, LoadAssumption DEF RoutesInv, RoutesLive, Request
<1> QED BY <1>2, <1>3, <1>4, <1>5 DEF RoutesInv, RoutesLive

\* Disconnect takes the client out of every table, and passes the driver's role
\* on to a client that is left.
LEMMA RoutesDisconnect ==
    ASSUME RoutesInv, NEW c \in Clients, Disconnect(c)
    PROVE  RoutesInv'
<1>1. /\ online' = [online EXCEPT ![c] = "off"]
      /\ subs' = subs \ {c} /\ loading' = loading \ {c}
    BY DEF Disconnect
<1>2. online' \in [Clients -> {"new", "on", "off"}] /\ subs' \subseteq Clients
    BY <1>1 DEF RoutesInv
<1>3. \A d \in subs' : online'[d] = "on"
    BY <1>1 DEF RoutesInv, RoutesLive
<1>4. loading' \subseteq subs'
    BY <1>1 DEF RoutesInv, RoutesLive
<1>5. IF subs' = {} THEN driver' = NoClient ELSE driver' \in subs'
    <2>1. CASE driver # c
        <3>1. driver' = driver
            BY <2>1 DEF Disconnect
        <3>2. CASE driver = NoClient
            BY <1>1, <3>1, <3>2, LoadAssumption DEF RoutesInv, RoutesLive
        <3>3. CASE driver # NoClient
            BY <1>1, <2>1, <3>1, <3>3 DEF RoutesInv, RoutesLive
        <3> QED BY <3>2, <3>3
    <2>2. CASE driver = c
        BY <2>2 DEF Disconnect
    <2> QED BY <2>1, <2>2
<1> QED BY <1>2, <1>3, <1>4, <1>5 DEF RoutesInv, RoutesLive

\* and are kept by every step.
LEMMA RoutesStep == RoutesInv /\ [Next]_vars => RoutesInv'
<1> SUFFICES ASSUME RoutesInv, [Next]_vars PROVE RoutesInv'
    OBVIOUS
<1>1. CASE SessionStep
    BY <1>1, RoutesKept
       DEF SessionStep, SendUpdate, EmitBuffered, SendXai, EmitLive, FlushComplete,
           Interact, DropInteraction, leader
<1>2. CASE PersistStep
    BY <1>2, RoutesKept
       DEF PersistStep, ChatFlush, PersistUpdate, PersistFlush, leader
<1>3. CASE Deliver
    BY <1>3, RoutesKept DEF Deliver
<1>4. ASSUME NEW c \in Clients, AgentStep(c) PROVE RoutesInv'
    <2>1. CASE LoadFails(c) \/ Respond(c)
        BY <2>1, RoutesKept DEF LoadFails, Respond, Answered
    <2>2. CASE \/ CloseGate(c) \/ FlushTimeout(c) \/ ReplayUpdates(c)
               \/ SecondFlush(c) \/ ReplayDelta(c) \/ OpenGate(c)
        BY <2>2, RoutesKept
           DEF CloseGate, FlushTimeout, ReplayUpdates, SecondFlush, ReplayDelta,
               OpenGate, leader
    <2> QED BY <1>4, <2>1, <2>2 DEF AgentStep
<1>5. CASE UNCHANGED vars
    BY <1>5, RoutesKept DEF vars, leader
<1> QED BY <1>1, <1>2, <1>3, <1>4, <1>5, RoutesRequest, RoutesDisconnect DEF Next

\* Whoever loads, fails to load or disconnects, the leader's routing tables name
\* connected clients only, and a session with subscribers has one of them for its
\* driver, the client its reverse-requests are meant for.
THEOREM RoutesCorrect == Spec => []RoutesLive
<1>1. RoutesInv => RoutesLive
    BY DEF RoutesInv
<1> QED BY <1>1, RoutesInit, RoutesStep, PTL DEF Spec
==============================================================================
