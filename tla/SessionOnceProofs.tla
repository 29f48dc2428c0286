--------------------------- MODULE SessionOnceProofs ---------------------------
(***************************************************************************)
(* Theorems about the turns of SessionActor: a prompt gets one turn and    *)
(* one answer, and its own turn gives it.  They rest on an inductive       *)
(* invariant that says in which place a prompt is.                         *)
(***************************************************************************)
EXTENDS SessionActorProofs

\* A prompt that was handed to the session and is not answered; one without a turn.
Open(p) == p \in sent /\ answered[p] = "open"
Fresh(p) == Open(p) /\ task[p] = "none"

\* Queued prompts are open, and only the running one has a turn.
QueueOnce ==
    /\ NoRepeats(pending)
    /\ \A p \in Elems(pending) : Open(p) /\ (task[p] = "none" \/ p = running)

\* Interjections are in no queue and have no turn.
SteerOnce ==
    /\ NoRepeats(interjections)
    /\ \A p \in Elems(interjections) : Fresh(p) /\ p \notin Elems(pending)

\* The prompt the run loop is about to queue is nowhere else.
Placing == {"enqueue", "fallback"}
CurOnce ==
    pc \in Placing => Fresh(cur) /\ cur \notin Elems(pending) \cup Elems(interjections)

\* So are those a cancel has set aside, until it answers them.
CancelPCs == {"cancel_gate", "cancel_abort", "cancel_unpin", "cancel_answer"}
Condemned == Elems(doomed) \cup ({rewound} \ {None})
DoomedOnce ==
    /\ \A p \in Condemned : Open(p) /\ p \notin Elems(pending) \cup Elems(interjections)
    /\ pc \notin CancelPCs => Condemned = {}

\* A prompt that nobody has sent has neither turn nor answer; nor was a plan's resumption
\* sent before it began.
SentOnce ==
    /\ \A p \in Ids : p \notin sent => task[p] = "none" /\ answered[p] = "open"
    /\ \A p \in Plans : plan[p] = "idle" => p \notin sent

OnceInv == QueueOnce /\ SteerOnce /\ CurOnce /\ DoomedOnce /\ SentOnce

\* Completions are those of turns that have ended, in the channel and in the run loop's hand.
EndedOnce ==
    /\ \A p \in Elems(completions) : task[p] = "ended"
    /\ pc \in {"complete_gate", "complete_lock"} => task[cur] = "ended"

-------------------------------------------------------------------------------
(* Queues *)

\* What a queue holds has the queue's type.
LEMMA ElemsType ==
    ASSUME NEW T, NEW q \in Seq(T)
    PROVE  Elems(q) \subseteq T
BY DEF Elems

\* Nothing is in an empty queue.
LEMMA EmptyQueue == Elems(<<>>) = {} /\ NoRepeats(<<>>)
BY DEF Elems, NoRepeats

\* One prompt makes a queue.
LEMMA SingleQueue ==
    ASSUME NEW T, NEW x \in T
    PROVE  <<x>> \in Seq(T) /\ Elems(<<x>>) = {x} /\ NoRepeats(<<x>>)
BY DEF Elems, NoRepeats

\* A pop takes the front, and it alone.
LEMMA TailElems ==
    ASSUME NEW T, NEW q \in Seq(T), q # <<>>, NoRepeats(q)
    PROVE  /\ Head(q) \in Elems(q)
           /\ NoRepeats(Tail(q))
           /\ Elems(Tail(q)) = Elems(q) \ {Head(q)}
<1>1. /\ Tail(q) \in Seq(T) /\ Len(Tail(q)) = Len(q) - 1 /\ Len(q) \in Nat /\ Len(q) > 0
      /\ DOMAIN q = 1..Len(q) /\ DOMAIN Tail(q) = 1..Len(Tail(q))
      /\ \A i \in 1..Len(Tail(q)) : Tail(q)[i] = q[i + 1]
      /\ Head(q) = q[1]
    BY HeadTailProperties
<1>2. Head(q) \in Elems(q)
    BY <1>1 DEF Elems
<1>3. NoRepeats(Tail(q))
    <2> SUFFICES ASSUME NEW i \in 1..Len(Tail(q)), NEW j \in 1..Len(Tail(q)),
                        Tail(q)[i] = Tail(q)[j]
                 PROVE  i = j
        BY <1>1 DEF NoRepeats
    <2>1. q[i + 1] = q[j + 1] /\ i + 1 \in DOMAIN q /\ j + 1 \in DOMAIN q
        BY <1>1
    <2>2. i + 1 = j + 1
        BY <2>1 DEF NoRepeats
    <2> QED BY <2>2
<1>4. ASSUME NEW x \in Elems(Tail(q)) PROVE x \in Elems(q) \ {Head(q)}
    <2>1. PICK i \in 1..Len(Tail(q)) : x = q[i + 1]
        BY <1>1 DEF Elems
    <2>2. i + 1 \in DOMAIN q /\ 1 \in DOMAIN q /\ i + 1 # 1
        BY <1>1
    <2> QED BY <1>1, <2>1, <2>2 DEF Elems, NoRepeats
<1>5. ASSUME NEW x \in Elems(q) \ {Head(q)} PROVE x \in Elems(Tail(q))
    <2>1. PICK i \in 1..Len(q) : x = q[i]
        BY <1>1 DEF Elems
    <2>2. i - 1 \in 1..Len(Tail(q))
        BY <1>1, <2>1
    <2>3. x = Tail(q)[i - 1]
        BY <1>1, <2>1, <2>2
    <2> QED BY <1>1, <2>2, <2>3 DEF Elems
<1> QED BY <1>2, <1>3, <1>4, <1>5

\* What is left after a pop was there before.
LEMMA TailSubset ==
    ASSUME NEW T, NEW q \in Seq(T), q # <<>>
    PROVE  Head(q) \in Elems(q) /\ Elems(Tail(q)) \subseteq Elems(q)
<1>1. /\ Len(Tail(q)) = Len(q) - 1 /\ Len(q) \in Nat /\ Len(q) > 0
      /\ DOMAIN q = 1..Len(q) /\ DOMAIN Tail(q) = 1..Len(Tail(q))
      /\ \A i \in 1..Len(Tail(q)) : Tail(q)[i] = q[i + 1]
      /\ Head(q) = q[1]
    BY HeadTailProperties
<1>2. ASSUME NEW x \in Elems(Tail(q)) PROVE x \in Elems(q)
    <2>1. PICK i \in 1..Len(Tail(q)) : x = q[i + 1]
        BY <1>1 DEF Elems
    <2>2. i + 1 \in DOMAIN q
        BY <1>1
    <2> QED BY <2>1, <2>2 DEF Elems
<1> QED BY <1>1, <1>2 DEF Elems

\* A new prompt joins the end of the queue.
LEMMA AppendElems ==
    ASSUME NEW T, NEW q \in Seq(T), NEW x \in T
    PROVE  /\ Elems(Append(q, x)) = Elems(q) \cup {x}
           /\ NoRepeats(q) /\ x \notin Elems(q) => NoRepeats(Append(q, x))
<1> DEFINE r == Append(q, x)
<1>1. /\ DOMAIN r = 1..(Len(q) + 1) /\ DOMAIN q = 1..Len(q) /\ Len(q) \in Nat
      /\ r[Len(q) + 1] = x /\ \A i \in 1..Len(q) : r[i] = q[i]
    OBVIOUS
<1> HIDE DEF r
<1>2. Elems(r) = Elems(q) \cup {x}
    <2>1. ASSUME NEW y \in Elems(r) PROVE y \in Elems(q) \cup {x}
        <3>1. PICK i \in 1..(Len(q) + 1) : y = r[i]
            BY <1>1 DEF Elems
        <3>2. i \in 1..Len(q) \/ i = Len(q) + 1
            BY <1>1
        <3> QED BY <1>1, <3>1, <3>2 DEF Elems
    <2>2. ASSUME NEW y \in Elems(q) PROVE y \in Elems(r)
        <3>1. PICK i \in 1..Len(q) : y = q[i]
            BY <1>1 DEF Elems
        <3>2. i \in 1..(Len(q) + 1)
            BY <1>1
        <3> QED BY <1>1, <3>1, <3>2 DEF Elems
    <2>3. x \in Elems(r)
        BY <1>1 DEF Elems
    <2> QED BY <2>1, <2>2, <2>3
<1>3. ASSUME NoRepeats(q), x \notin Elems(q) PROVE NoRepeats(r)
    <2> SUFFICES ASSUME NEW i \in 1..(Len(q) + 1), NEW j \in 1..(Len(q) + 1), r[i] = r[j]
                 PROVE  i = j
        BY <1>1 DEF NoRepeats
    <2>1. ASSUME NEW k \in 1..Len(q) PROVE r[k] # x
        BY <1>1, <1>3 DEF Elems
    <2>2. CASE i \in 1..Len(q) /\ j \in 1..Len(q)
        BY <1>1, <1>3, <2>2 DEF NoRepeats
    <2> QED BY <1>1, <2>1, <2>2
<1> QED BY <1>2, <1>3 DEF r

\* Concatenation of two queues that share nothing.
LEMMA ConcatElems ==
    ASSUME NEW T, NEW q \in Seq(T), NEW s \in Seq(T)
    PROVE  /\ Elems(q \o s) = Elems(q) \cup Elems(s)
           /\ NoRepeats(q) /\ NoRepeats(s) /\ Elems(q) \cap Elems(s) = {}
              => NoRepeats(q \o s)
<1> DEFINE k == Len(q) + 1
<1>1. k \in 1..(Len(q) + 1) /\ Len(q) \in Nat /\ Len(s) \in Nat
    OBVIOUS
<1>2. q \o s = InsertSeq(q, k, s)
    <2>1. q \o s \in Seq(T) /\ InsertSeq(q, k, s) \in Seq(T)
        BY <1>1, ConcatProperties, InsertSeqType
    <2>2. Len(q \o s) = Len(q) + Len(s) /\ Len(InsertSeq(q, k, s)) = Len(q) + Len(s)
        BY <1>1, ConcatProperties, InsertSeqType
    <2>3. ASSUME NEW i \in 1..(Len(q) + Len(s)) PROVE (q \o s)[i] = InsertSeq(q, k, s)[i]
        <3>1. (q \o s)[i] = IF i <= Len(q) THEN q[i] ELSE s[i - Len(q)]
            BY ConcatProperties
        <3> QED BY <1>1, <3>1 DEF InsertSeq
    <2> HIDE DEF k
    <2> QED BY <2>1, <2>2, <2>3, SeqEqual
<1> QED BY <1>1, <1>2, InsertSeqElems, InsertSeqNoRepeats

-------------------------------------------------------------------------------
(* What a step may do with the places of the prompts *)

\* The run loop does not come to hold a prompt, and keeps to a cancel it has begun.
PcKept ==
    /\ pc' \in Placing => pc' = pc /\ cur' = cur
    /\ pc \in CancelPCs => pc' \in CancelPCs

\* No turn is begun, nor a plan's resumption taken back.
Steady ==
    /\ \A p \in Ids : task'[p] = "none" <=> task[p] = "none"
    /\ \A p \in Plans : plan'[p] = "idle" => plan[p] = "idle"

\* Prompts in the queue and interjections are prompts.
LEMMA PlaceTypes ==
    ASSUME TypeOK
    PROVE  /\ Elems(pending) \subseteq Ids /\ Elems(interjections) \subseteq Steers
           /\ Elems(interjections) \subseteq Ids /\ Elems(doomed) \subseteq Ids
           /\ Elems(completions) \subseteq Ids /\ Condemned \subseteq Ids
<1>1. /\ Elems(pending) \subseteq Ids /\ Elems(interjections) \subseteq Steers
      /\ Elems(doomed) \subseteq Ids /\ Elems(completions) \subseteq Ids
    BY ElemsType DEF TypeOK, QueueType, LocalType, TaskType
<1>2. rewound \in Ids \cup {None}
    BY DEF TypeOK, LocalType
<1> QED BY <1>1, <1>2, IdsMembers DEF Condemned

\* A step that only takes prompts out of the queue and the interjections, and answers none but
\* those, keeps the invariant.
LEMMA OnceLess ==
    ASSUME TypeOK, CurKnown, OnceInv, PcKept, Steady,
           UNCHANGED <<running, sent, doomed, rewound>>,
           NoRepeats(pending'), Elems(pending') \subseteq Elems(pending),
           NoRepeats(interjections'), Elems(interjections') \subseteq Elems(interjections),
           \A p \in Ids : \/ answered'[p] = answered[p]
                          \/ p \in (Elems(pending) \cup Elems(interjections))
                                   \ (Elems(pending') \cup Elems(interjections'))
    PROVE  OnceInv'
<1> DEFINE Gone == (Elems(pending) \cup Elems(interjections))
                     \ (Elems(pending') \cup Elems(interjections'))
<1>0. /\ Elems(pending) \subseteq Ids /\ Elems(interjections) \subseteq Ids
      /\ Condemned \subseteq Ids /\ Condemned' = Condemned
    BY PlaceTypes DEF Condemned
<1>1. ASSUME NEW p \in Ids, Open(p), p \notin Gone PROVE Open(p)'
    BY <1>1 DEF Open
<1>2. QueueOnce'
    <2>1. ASSUME NEW p \in Elems(pending') PROVE Open(p)' /\ (task'[p] = "none" \/ p = running')
        <3>1. p \in Ids /\ Open(p) /\ p \notin Gone /\ (task[p] = "none" \/ p = running)
            BY <1>0, <2>1 DEF OnceInv, QueueOnce
        <3> QED BY <1>1, <3>1 DEF Steady
    <2> QED BY <2>1 DEF QueueOnce
<1>3. SteerOnce'
    <2>1. ASSUME NEW p \in Elems(interjections') PROVE Fresh(p)' /\ p \notin Elems(pending')
        <3>1. p \in Ids /\ Open(p) /\ p \notin Gone /\ task[p] = "none" /\ p \notin Elems(pending)
            BY <1>0, <2>1 DEF OnceInv, SteerOnce, Fresh
        <3> QED BY <1>1, <3>1 DEF Steady, Fresh
    <2> QED BY <2>1 DEF SteerOnce
<1>4. CurOnce'
    <2> SUFFICES ASSUME pc' \in Placing
                 PROVE  Fresh(cur)' /\ cur' \notin Elems(pending') \cup Elems(interjections')
        BY DEF CurOnce
    <2>1. pc \in Placing /\ cur' = cur
        BY DEF PcKept
    <2>2. /\ cur \in Ids /\ Open(cur) /\ task[cur] = "none"
          /\ cur \notin Elems(pending) \cup Elems(interjections)
        BY <2>1, IdsMembers DEF OnceInv, CurOnce, Fresh, CurKnown, Placing
    <2>3. Open(cur)'
        BY <1>1, <2>1, <2>2 DEF Open
    <2> QED BY <2>1, <2>2, <2>3 DEF Fresh, Steady
<1>5. DoomedOnce'
    <2>1. ASSUME NEW p \in Condemned
          PROVE  Open(p)' /\ p \notin Elems(pending') \cup Elems(interjections')
        <3>1. Open(p) /\ p \notin Elems(pending) \cup Elems(interjections)
            BY DEF OnceInv, DoomedOnce
        <3> QED BY <1>0, <1>1, <3>1
    <2> QED BY <1>0, <2>1 DEF DoomedOnce, OnceInv, PcKept
<1>6. SentOnce'
    <2>1. ASSUME NEW p \in Ids, p \notin sent PROVE p \notin Gone
        BY <2>1 DEF OnceInv, QueueOnce, SteerOnce, Fresh, Open
    <2> QED BY <2>1, IdsMembers DEF SentOnce, OnceInv, Steady
<1> QED BY <1>2, <1>3, <1>4, <1>5, <1>6 DEF OnceInv

\* A step that touches none of them keeps it.
LEMMA OnceKept ==
    ASSUME TypeOK, CurKnown, OnceInv, PcKept, Steady,
           UNCHANGED <<pending, interjections, running, sent, answered, doomed, rewound>>
    PROVE  OnceInv'
BY OnceLess DEF OnceInv, QueueOnce, SteerOnce

\* A step that queues a prompt x nobody has sent keeps it.
LEMMA OnceMore ==
    ASSUME TypeOK, CurKnown, OnceInv, PcKept, Steady,
           UNCHANGED <<interjections, running, answered, doomed, rewound>>,
           NEW x \in Ids, x \notin sent, sent' = sent \cup {x}, pending' = Append(pending, x),
           x \in Plans => plan'[x] # "idle"
    PROVE  OnceInv'
<1>0. /\ Elems(pending) \subseteq Ids /\ Elems(interjections) \subseteq Ids
      /\ Condemned \subseteq Ids /\ Condemned' = Condemned
    BY PlaceTypes DEF Condemned
<1>1. x \notin Elems(pending) \cup Elems(interjections) \cup Condemned
    BY DEF OnceInv, QueueOnce, SteerOnce, DoomedOnce, Fresh, Open
<1>2. NoRepeats(pending') /\ Elems(pending') = Elems(pending) \cup {x}
    BY <1>1, AppendElems DEF TypeOK, QueueType, OnceInv, QueueOnce
<1>3. Open(x)' /\ task'[x] = "none"
    BY DEF Open, OnceInv, SentOnce, Steady
<1>4. ASSUME NEW p \in Ids, Open(p) PROVE Open(p)'
    BY <1>4 DEF Open
<1>5. QueueOnce'
    <2>1. ASSUME NEW p \in Elems(pending) PROVE Open(p)' /\ (task'[p] = "none" \/ p = running')
        BY <1>0, <1>4, <2>1 DEF OnceInv, QueueOnce, Steady
    <2> QED BY <1>2, <1>3, <2>1 DEF QueueOnce
<1>6. SteerOnce'
    <2>1. ASSUME NEW p \in Elems(interjections) PROVE Fresh(p)' /\ p \notin Elems(pending')
        BY <1>0, <1>1, <1>2, <1>4, <2>1 DEF OnceInv, SteerOnce, Fresh, Steady
    <2> QED BY <2>1 DEF SteerOnce, OnceInv
<1>7. CurOnce'
    <2> SUFFICES ASSUME pc' \in Placing
                 PROVE  Fresh(cur)' /\ cur' \notin Elems(pending') \cup Elems(interjections')
        BY DEF CurOnce
    <2>1. pc \in Placing /\ cur' = cur
        BY DEF PcKept
    <2>2. /\ cur \in Ids /\ Open(cur) /\ task[cur] = "none" /\ cur # x
          /\ cur \notin Elems(pending) \cup Elems(interjections)
        BY <2>1, IdsMembers DEF OnceInv, CurOnce, Fresh, Open, CurKnown, Placing
    <2>3. Open(cur)'
        BY <1>4, <2>1, <2>2 DEF Open
    <2> QED BY <1>2, <2>1, <2>2, <2>3 DEF Fresh, Steady
<1>8. DoomedOnce'
    <2>1. ASSUME NEW p \in Condemned
          PROVE  Open(p)' /\ p \notin Elems(pending') \cup Elems(interjections')
        <3>1. Open(p) /\ p \notin Elems(pending) \cup Elems(interjections)
            BY DEF OnceInv, DoomedOnce
        <3> QED BY <1>0, <1>1, <1>2, <1>4, <3>1
    <2> QED BY <1>0, <2>1 DEF DoomedOnce, OnceInv, PcKept
<1>9. SentOnce'
    BY IdsMembers DEF SentOnce, OnceInv, Steady
<1> QED BY <1>5, <1>6, <1>7, <1>8, <1>9 DEF OnceInv

\* Promotion gives a turn to a queued prompt, which had none.
LEMMA OncePromote ==
    ASSUME TypeOK, CurKnown, OnceInv, PcKept, Promote,
           UNCHANGED <<pending, interjections, sent, answered, doomed, rewound>>,
           \A p \in Plans : plan'[p] = "idle" => plan[p] = "idle"
    PROVE  OnceInv'
<1>1. CASE ~CanPromote
    BY <1>1, OnceKept DEF Promote, slotVars, Steady
<1>2. CASE CanPromote
    <2> DEFINE h == Head(pending)
    <2>1. /\ running = None /\ running' = h /\ task' = [task EXCEPT ![h] = "spawned"]
          /\ h \in Elems(pending) /\ h \in Ids
        BY <1>2, TailElems, PlaceTypes
        DEF Promote, CanPromote, TypeOK, QueueType, OnceInv, QueueOnce
    <2> HIDE DEF h
    <2>0. /\ Elems(pending) \subseteq Ids /\ Elems(interjections) \subseteq Ids
          /\ Condemned \subseteq Ids /\ Condemned' = Condemned
        BY PlaceTypes DEF Condemned
    <2>2. /\ task \in [Ids -> TaskStates] /\ None \notin Ids
        BY IdsAssumption DEF TypeOK, TaskType
    <2>3. \A p : Open(p)' <=> Open(p)
        BY DEF Open
    <2>4. QueueOnce'
        BY <2>0, <2>1, <2>2, <2>3 DEF OnceInv, QueueOnce
    <2>5. SteerOnce'
        BY <2>0, <2>1, <2>2, <2>3 DEF OnceInv, SteerOnce, Fresh
    <2>6. CurOnce'
        <3> SUFFICES ASSUME pc' \in Placing
                     PROVE  Fresh(cur)' /\ cur' \notin Elems(pending) \cup Elems(interjections)
            BY DEF CurOnce
        <3>1. pc \in Placing /\ cur' = cur
            BY DEF PcKept
        <3>2. /\ cur \in Ids /\ Fresh(cur) /\ cur \notin Elems(pending) \cup Elems(interjections)
            BY <3>1, IdsMembers DEF OnceInv, CurOnce, CurKnown, Placing
        <3> QED BY <2>1, <2>2, <3>1, <3>2 DEF Fresh, Open
    <2>7. DoomedOnce'
        BY <2>0, <2>3 DEF OnceInv, DoomedOnce, PcKept
    <2>8. SentOnce'
        <3>1. h \in sent
            BY <2>1 DEF OnceInv, QueueOnce, Open
        <3> QED BY <2>1, <2>2, <3>1 DEF OnceInv, SentOnce
    <2> QED BY <2>4, <2>5, <2>6, <2>7, <2>8 DEF OnceInv
<1> QED BY <1>1, <1>2

\* Placing a prompt that waits in the run loop's hand, and the interjections that missed
\* their turn: both leave their place for the queue.
LEMMA OncePlaced ==
    ASSUME TypeOK, CurKnown, OnceInv, Steady,
           pc' \notin Placing, pc \notin CancelPCs,
           UNCHANGED <<running, answered, sent, doomed, rewound>>,
           NEW M \in SUBSET Ids, NEW q \in Seq(Ids),
           NoRepeats(q), Elems(q) \subseteq Elems(pending),
           \A p \in M : Fresh(p),
           NoRepeats(pending'), Elems(pending') = Elems(q) \cup M,
           NoRepeats(interjections'),
           Elems(interjections') \subseteq Elems(interjections) \ M
    PROVE  OnceInv'
<1>0. Elems(pending) \subseteq Ids /\ Elems(interjections) \subseteq Ids /\ Condemned' = Condemned
    BY PlaceTypes DEF Condemned
<1>1. \A p : Open(p)' <=> Open(p)
    BY DEF Open
<1>2. QueueOnce'
    <2>1. ASSUME NEW p \in Elems(q) PROVE Open(p)' /\ (task'[p] = "none" \/ p = running')
        BY <1>0, <1>1, <2>1 DEF OnceInv, QueueOnce, Steady
    <2>2. ASSUME NEW p \in M PROVE Open(p)' /\ task'[p] = "none"
        BY <1>1, <2>2 DEF Fresh, Steady
    <2> QED BY <2>1, <2>2 DEF QueueOnce
<1>3. SteerOnce'
    <2>1. ASSUME NEW p \in Elems(interjections') PROVE Fresh(p)' /\ p \notin Elems(pending')
        BY <1>0, <1>1, <2>1 DEF OnceInv, SteerOnce, Fresh, Steady
    <2> QED BY <2>1 DEF SteerOnce
<1>4. CurOnce' /\ DoomedOnce'
    BY <1>0 DEF CurOnce, DoomedOnce, OnceInv
<1>5. SentOnce'
    BY IdsMembers DEF SentOnce, OnceInv, Steady
<1> QED BY <1>2, <1>3, <1>4, <1>5 DEF OnceInv

\* The order a client asks for names each row once.
LEMMA ReorderNames ==
    ASSUME NEW u \in Users, NEW v \in Users
    PROVE  /\ (IF u = v THEN <<u>> ELSE <<u, v>>) \in Seq(Ids)
           /\ NoRepeats(IF u = v THEN <<u>> ELSE <<u, v>>)
<1>1. NoRepeats(IF u = v THEN <<u>> ELSE <<u, v>>)
    BY DEF NoRepeats
<1> QED BY <1>1, ReorderRequest

\* A cancel takes the running turn's prompt, which is the front, out of the queue, or all.
LEMMA OnceLock ==
    ASSUME TypeOK, FrontIsRunning, OnceInv, CancelLock
    PROVE  OnceInv'
<1>1. /\ pc = "cancel_lock" /\ pc' = "cancel_gate" /\ running' = None
      /\ UNCHANGED <<interjections, sent, answered, plan>>
      /\ task' = task \/ task' = Aborted(running)
    BY DEF CancelLock, outVars, otherVars
<1>2. \/ pending # <<>> /\ rewound' = Head(pending) /\ pending' = Tail(pending) /\ doomed' = <<>>
      \/ pending # <<>> /\ rewound' = None /\ pending' = Tail(pending) /\ doomed' = <<Head(pending)>>
      \/ rewound' = None /\ pending' = <<>> /\ doomed' = pending
    BY DEF CancelLock
<1>3. /\ pending \in Seq(Ids) /\ NoRepeats(pending) /\ Elems(pending) \subseteq Ids
      /\ None \notin Ids
    BY PlaceTypes, IdsAssumption DEF TypeOK, QueueType, OnceInv, QueueOnce
<1>4. Steady
    BY <1>1 DEF Steady, Aborted, Live, TypeOK, TaskType
<1>5. \A p : Open(p)' <=> Open(p)
    BY <1>1 DEF Open
<1>6. /\ NoRepeats(pending') /\ Elems(pending') \cup Condemned' \subseteq Elems(pending)
      /\ Elems(pending') \cap Condemned' = {}
      /\ pending # <<>> => Head(pending) \notin Elems(pending')
      /\ pending = <<>> => Elems(pending') = {}
    <2>1. CASE pending # <<>> /\ pending' = Tail(pending)
        <3>1. /\ Head(pending) \in Elems(pending) /\ NoRepeats(Tail(pending))
              /\ Elems(Tail(pending)) = Elems(pending) \ {Head(pending)}
            BY <1>3, <2>1, TailElems
        <3>2. Condemned' \subseteq {Head(pending)}
            <4>1. Elems(<<Head(pending)>>) = {Head(pending)}
                BY <1>3, <3>1, SingleQueue
            <4>2. CASE doomed' = <<>> /\ rewound' = Head(pending)
                BY <4>2, EmptyQueue DEF Condemned
            <4>3. CASE doomed' = <<Head(pending)>> /\ rewound' = None
                BY <4>1, <4>3 DEF Condemned
            <4>4. CASE pending' = <<>> /\ doomed' = pending /\ rewound' = None
                <5>1. Elems(Tail(pending)) = {}
                    BY <2>1, <4>4, EmptyQueue
                <5> QED BY <3>1, <4>4, <5>1 DEF Condemned
            <4> QED BY <1>2, <4>2, <4>3, <4>4
        <3> QED BY <2>1, <3>1, <3>2
    <2>2. CASE rewound' = None /\ pending' = <<>> /\ doomed' = pending
        BY <2>2, EmptyQueue DEF Condemned
    <2> QED BY <1>2, <2>1, <2>2
<1>7. QueueOnce'
    <2>1. ASSUME NEW p \in Elems(pending') PROVE Open(p)' /\ task'[p] = "none"
        <3>1. p \in Ids /\ Open(p) /\ (task[p] = "none" \/ p = running)
            BY <1>3, <1>6 DEF OnceInv, QueueOnce
        <3>2. p # running
            <4>1. running # None => Head(pending) = running /\ pending # <<>>
                BY <1>1 DEF FrontIsRunning, Stopping
            <4> QED BY <1>3, <1>6, <3>1, <4>1
        <3> QED BY <1>4, <1>5, <3>1, <3>2 DEF Steady
    <2> QED BY <1>6, <2>1 DEF QueueOnce
<1>8. SteerOnce'
    BY <1>1, <1>4, <1>5, <1>6, PlaceTypes DEF OnceInv, SteerOnce, Fresh, Steady
<1>9. CurOnce'
    BY <1>1 DEF CurOnce, Placing
<1>10. DoomedOnce'
    <2>1. ASSUME NEW p \in Condemned'
          PROVE  Open(p)' /\ p \notin Elems(pending') \cup Elems(interjections')
        <3>1. p \in Elems(pending) /\ p \notin Elems(pending')
            BY <1>6, <2>1
        <3> QED BY <1>1, <1>5, <3>1 DEF OnceInv, QueueOnce, SteerOnce
    <2> QED BY <1>1, <2>1 DEF DoomedOnce, CancelPCs
<1>11. SentOnce'
    BY <1>1, <1>4 DEF OnceInv, SentOnce, Steady
<1> QED BY <1>7, <1>8, <1>9, <1>10, <1>11 DEF OnceInv

\* A cancel answers the prompts it has set aside, which are in no other place.
LEMMA OnceAnswer ==
    ASSUME TypeOK, OnceInv, CancelAnswer
    PROVE  OnceInv'
<1>1. /\ pc = "cancel_answer" /\ pc' = "start" /\ rewound' = None /\ doomed' = <<>>
      /\ UNCHANGED <<pending, interjections, running, sent, task, plan>>
    BY DEF CancelAnswer, queueVars, otherVars
<1>2. \A p \in Ids : answered'[p] = answered[p] \/ p \in Condemned
    BY DEF CancelAnswer, Condemned, TypeOK, OutType
<1>3. ASSUME NEW p \in Ids, Open(p), p \notin Condemned PROVE Open(p)'
    BY <1>1, <1>2, <1>3 DEF Open
<1>4. /\ Elems(pending) \subseteq Ids /\ Elems(interjections) \subseteq Ids /\ Condemned \subseteq Ids
      /\ Condemned \cap (Elems(pending) \cup Elems(interjections)) = {}
    BY PlaceTypes DEF OnceInv, DoomedOnce
<1>5. QueueOnce' /\ SteerOnce'
    BY <1>1, <1>3, <1>4 DEF OnceInv, QueueOnce, SteerOnce, Fresh
<1>6. CurOnce'
    BY <1>1 DEF CurOnce, Placing
<1>7. DoomedOnce'
    BY <1>1, EmptyQueue DEF DoomedOnce, Condemned
<1>8. SentOnce'
    BY <1>1, <1>2 DEF OnceInv, SentOnce, DoomedOnce, Open
<1> QED BY <1>5, <1>6, <1>7, <1>8 DEF OnceInv

\* A completion takes the prompt it owns, and answers that one.
LEMMA OnceComplete ==
    ASSUME TypeOK, FrontIsRunning, OnceInv, CompleteLock
    PROVE  OnceInv'
<1>1. /\ pc = "complete_lock" /\ pc' = "complete_emit"
      /\ UNCHANGED <<interjections, sent, task, plan, doomed, rewound>>
    BY DEF CompleteLock, taskVars, otherVars
<1>2. /\ pending \in Seq(Ids) /\ NoRepeats(pending) /\ Elems(pending) \subseteq Ids
      /\ Elems(interjections) \subseteq Ids /\ None \notin Ids
    BY PlaceTypes, IdsAssumption DEF TypeOK, QueueType, OnceInv, QueueOnce
<1>3. running # None => pending # <<>> /\ Head(pending) = running
    BY <1>1 DEF FrontIsRunning, Stopping
<1>4. Condemned = {} /\ Condemned' = {}
    BY <1>1 DEF OnceInv, DoomedOnce, Condemned, CancelPCs
<1>5. CASE ~Owns(cur)
    <2>1. UNCHANGED <<pending, answered>> /\ (running' = running \/ running = cur)
        BY <1>5 DEF CompleteLock, FreesSlot
    <2>2. running' = running
        <3>1. running = cur => running = None
            BY <1>3, <1>5 DEF Owns
        <3> QED BY <1>5, <2>1, <3>1 DEF CompleteLock
    <2>3. \A p : Open(p)' <=> Open(p)
        BY <1>1, <2>1 DEF Open
    <2>4. QueueOnce' /\ SteerOnce' /\ SentOnce'
        BY <1>1, <2>1, <2>2, <2>3 DEF OnceInv, QueueOnce, SteerOnce, SentOnce, Fresh
    <2> QED BY <1>1, <1>4, <2>4 DEF OnceInv, CurOnce, DoomedOnce, Placing
<1>6. CASE Owns(cur)
    <2>1. /\ pending # <<>> /\ pending' = Tail(pending) /\ running' = None
          /\ answered' = [answered EXCEPT ![Head(pending)] = "turn"]
        BY <1>6 DEF CompleteLock, FreesSlot, Owns
    <2>2. /\ Head(pending) \in Elems(pending) /\ NoRepeats(pending')
          /\ Elems(pending') = Elems(pending) \ {Head(pending)}
        BY <1>2, <2>1, TailElems
    <2>3. ASSUME NEW p \in Ids, Open(p), p # Head(pending) PROVE Open(p)'
        BY <1>1, <2>1, <2>3 DEF Open, TypeOK, OutType
    <2>4. QueueOnce'
        <3>1. ASSUME NEW p \in Elems(pending') PROVE Open(p)' /\ task'[p] = "none"
            BY <1>1, <1>2, <1>3, <2>2, <2>3, <3>1 DEF OnceInv, QueueOnce
        <3> QED BY <2>2, <3>1 DEF QueueOnce
    <2>5. SteerOnce'
        BY <1>1, <1>2, <2>2, <2>3 DEF OnceInv, SteerOnce, Fresh
    <2>6. SentOnce'
        <3>1. Head(pending) \in sent
            BY <2>2 DEF OnceInv, QueueOnce, Open
        <3> QED BY <1>1, <2>1, <3>1 DEF OnceInv, SentOnce, TypeOK, OutType
    <2> QED BY <1>1, <1>4, <2>4, <2>5, <2>6 DEF OnceInv, CurOnce, DoomedOnce, Placing
<1> QED BY <1>5, <1>6

\* Every step preserves the places of the prompts: one step per action.
LEMMA OnceStep ==
    ASSUME TypeOK, CurKnown, FrontIsRunning, OnceInv, [Next]_vars
    PROVE  OnceInv'
<1> DEFINE Quiet == UNCHANGED <<pending, interjections, running, sent, answered, doomed, rewound>>
           Idle == Quiet /\ UNCHANGED <<task, plan>>
<1>a. Idle /\ PcKept => OnceInv'
    BY OnceKept DEF Steady
<1>b. Quiet /\ PcKept /\ Steady => OnceInv'
    BY OnceKept
<1> HIDE DEF Quiet
<1> USE DEF Placing, CancelPCs
<1>1. ASSUME NEW t \in Tasks, NEW covered \in BOOLEAN, TaskCompleted(t, covered)
      PROVE  OnceInv'
    BY <1>1, <1>a DEF TaskCompleted, PcKept, Quiet, queueVars, slotVars, taskVars, otherVars,
        localVars, outVars
<1>2. ASSUME NEW t \in Tasks, DropMonitorNotifications(t) PROVE OnceInv'
    BY <1>2, <1>a DEF DropMonitorNotifications, PcKept, Quiet, queueVars, slotVars, taskVars,
        otherVars, localVars, outVars
<1>3. ASSUME NEW p \in Users \cup Tasks \cup Crons, NEW now \in BOOLEAN, Prompt(p, now)
      PROVE  OnceInv'
    <2>1. /\ pc = "top" /\ pc' = "enqueue" /\ cur' = p /\ p \notin sent /\ sent' = sent \cup {p}
          /\ UNCHANGED <<pending, interjections, running, answered, doomed, rewound, task, plan>>
        BY <1>3 DEF Prompt, Ready, queueVars, slotVars, taskVars, otherVars, outVars
    <2>2. p \in Ids /\ p \notin Plans
        BY IdsMembers, IdsAssumption DEF Synthetic
    <2>3. \A x : Open(x) => Open(x)'
        BY <2>1 DEF Open
    <2>4. Fresh(p)' /\ p \notin Elems(pending) \cup Elems(interjections)
        BY <2>1, <2>2 DEF Fresh, Open, OnceInv, SentOnce, QueueOnce, SteerOnce
    <2>5. QueueOnce' /\ SteerOnce'
        BY <2>1, <2>3 DEF OnceInv, QueueOnce, SteerOnce, Fresh
    <2>6. CurOnce'
        BY <2>1, <2>4 DEF CurOnce
    <2>7. DoomedOnce'
        BY <2>1 DEF OnceInv, DoomedOnce, Condemned
    <2>8. SentOnce'
        BY <2>1, <2>2 DEF OnceInv, SentOnce
    <2> QED BY <2>5, <2>6, <2>7, <2>8 DEF OnceInv
<1>4. ASSUME Enqueue PROVE OnceInv'
    <2>1. PICK S : LET q == Sweep(pending, S) IN
              /\ q \in Seq(Ids) /\ <<cur>> \in Seq(Ids)
              /\ \E k \in FrontSlot(q)..(Len(q) + 1) :
                    k \in 1..(Len(q) + 1) /\ pending' = InsertSeq(q, k, <<cur>>)
        BY <1>4, Enqueued
    <2> DEFINE q == Sweep(pending, S)
    <2>2. q \in Seq(Ids) /\ <<cur>> \in Seq(Ids) /\ cur \in Ids
        BY <1>4, <2>1 DEF CurKnown, Enqueue
    <2>3. PICK k \in 1..(Len(q) + 1) : pending' = InsertSeq(q, k, <<cur>>)
        BY <2>1
    <2>4. NoRepeats(q) /\ Elems(q) \subseteq Elems(pending)
        BY KeepNoRepeats, KeepElems DEF Sweep, TypeOK, QueueType, OnceInv, QueueOnce
    <2> HIDE DEF q
    <2>5. Fresh(cur) /\ cur \notin Elems(pending) \cup Elems(interjections)
        BY <1>4 DEF Enqueue, OnceInv, CurOnce
    <2>6. Elems(<<cur>>) = {cur} /\ NoRepeats(<<cur>>)
        BY <2>2, SingleQueue
    <2>7. NoRepeats(pending') /\ Elems(pending') = Elems(q) \cup {cur}
        <3>1. Elems(q) \cap Elems(<<cur>>) = {}
            BY <2>4, <2>5, <2>6
        <3>2. NoRepeats(pending')
            BY <2>2, <2>3, <2>4, <2>6, <3>1, InsertSeqNoRepeats
        <3>3. Elems(pending') = Elems(q) \cup Elems(<<cur>>)
            BY <2>2, <2>3, InsertSeqElems
        <3> QED BY <2>6, <3>2, <3>3
    <2>8. /\ pc = "enqueue" /\ pc' \in {"cancel", "start"}
          /\ UNCHANGED <<running, answered, sent, doomed, rewound, task, plan, interjections>>
        BY <1>4 DEF Enqueue, slotVars, taskVars, otherVars, outVars
    <2>9. NoRepeats(interjections')
        BY <2>8 DEF OnceInv, SteerOnce
    <2>10. Steady
        BY <2>8 DEF Steady
    <2>11. {cur} \in SUBSET Ids /\ \A p \in {cur} : Fresh(p)
        BY <2>2, <2>5
    <2>12. Elems(interjections') \subseteq Elems(interjections) \ {cur}
        BY <2>5, <2>8
    <2> QED BY <2>2, <2>4, <2>7, <2>8, <2>9, <2>10, <2>11, <2>12, OncePlaced
<1>5. ASSUME NEW s \in Steers, Interject(s) PROVE OnceInv'
    <2>1. /\ pc = "top" /\ s \notin sent /\ sent' = sent \cup {s}
          /\ UNCHANGED <<pending, running, answered, doomed, rewound, task, plan>>
        BY <1>5 DEF Interject, Ready, queueVars, slotVars, taskVars, otherVars, outVars
    <2>2. \/ interjections' = Append(interjections, s) /\ pc' = pc
          \/ interjections' = interjections /\ pc' = "fallback" /\ cur' = s
        BY <1>5 DEF Interject
    <2>3. s \in Ids /\ s \notin Plans /\ interjections \in Seq(Steers)
        BY IdsMembers, IdsAssumption DEF Synthetic, TypeOK
    <2>4. \A x : Open(x) => Open(x)'
        BY <2>1 DEF Open
    <2>5. Fresh(s)' /\ s \notin Elems(pending) \cup Elems(interjections)
        BY <2>1, <2>3 DEF Fresh, Open, OnceInv, SentOnce, QueueOnce, SteerOnce
    <2>6. /\ Elems(Append(interjections, s)) = Elems(interjections) \cup {s}
          /\ NoRepeats(Append(interjections, s))
        BY <2>3, <2>5, AppendElems DEF OnceInv, SteerOnce
    <2>7. QueueOnce'
        BY <2>1, <2>4 DEF OnceInv, QueueOnce
    <2>8. SteerOnce'
        <3>1. ASSUME NEW p \in Elems(interjections) PROVE Fresh(p)' /\ p \notin Elems(pending')
            BY <2>1, <2>4, <3>1 DEF OnceInv, SteerOnce, Fresh
        <3>2. NoRepeats(interjections') /\ Elems(interjections') \subseteq Elems(interjections) \cup {s}
            BY <2>2, <2>6 DEF OnceInv, SteerOnce
        <3> QED BY <2>1, <2>5, <3>1, <3>2 DEF SteerOnce
    <2>9. CurOnce'
        <3>1. CASE pc' = pc
            BY <2>1, <3>1 DEF CurOnce
        <3>2. CASE interjections' = interjections /\ cur' = s
            BY <2>1, <2>5, <3>2 DEF CurOnce
        <3> QED BY <2>2, <3>1, <3>2
    <2>10. DoomedOnce'
        BY <2>1 DEF OnceInv, DoomedOnce, Condemned
    <2>11. SentOnce'
        BY <2>1, <2>3 DEF OnceInv, SentOnce
    <2> QED BY <2>7, <2>8, <2>9, <2>10, <2>11 DEF OnceInv
<1>6. ASSUME Fallback PROVE OnceInv'
    <2>1. /\ pc = "fallback" /\ pc' = "start"
          /\ UNCHANGED <<running, answered, sent, doomed, rewound, task, plan, interjections>>
          /\ pending' = InsertSeq(pending, FrontSlot(pending), <<cur>>)
        BY <1>6 DEF Fallback, slotVars, taskVars, otherVars, outVars
    <2>2. cur \in Ids /\ <<cur>> \in Seq(Ids) /\ pending \in Seq(Ids)
        BY <2>1, IdsMembers DEF CurKnown, TypeOK, QueueType
    <2>3. Fresh(cur) /\ cur \notin Elems(pending) \cup Elems(interjections)
        BY <2>1 DEF OnceInv, CurOnce
    <2>4. Elems(<<cur>>) = {cur} /\ NoRepeats(<<cur>>)
        BY <2>2, SingleQueue
    <2>5. NoRepeats(pending) /\ NoRepeats(interjections')
        BY <2>1 DEF OnceInv, QueueOnce, SteerOnce
    <2>6. NoRepeats(pending') /\ Elems(pending') = Elems(pending) \cup {cur}
        <3>1. Elems(pending) \cap Elems(<<cur>>) = {} /\ FrontSlot(pending) \in 1..(Len(pending) + 1)
            BY <2>2, <2>3, <2>4, SlotInQueue
        <3>2. NoRepeats(pending')
            BY <2>1, <2>2, <2>4, <2>5, <3>1, InsertSeqNoRepeats
        <3>3. Elems(pending') = Elems(pending) \cup Elems(<<cur>>)
            BY <2>1, <2>2, <3>1, InsertSeqElems
        <3> QED BY <2>4, <3>2, <3>3
    <2>7. Steady
        BY <2>1 DEF Steady
    <2>8. {cur} \in SUBSET Ids /\ \A p \in {cur} : Fresh(p)
        BY <2>2, <2>3
    <2>9. Elems(interjections') \subseteq Elems(interjections) \ {cur}
        BY <2>1, <2>3
    <2> QED BY <2>1, <2>2, <2>5, <2>6, <2>7, <2>8, <2>9, OncePlaced
<1>7. ASSUME Start PROVE OnceInv'
    BY <1>7, OncePromote DEF Start, PcKept, TypeOK, LoopType, queueVars, otherVars, localVars
<1>8. ASSUME NEW g \in Goals, GoalSummaryTurn(g) PROVE OnceInv'
    <2>1. g \in Ids /\ g \notin Plans
        BY IdsMembers, IdsAssumption
    <2> QED BY <1>8, <2>1, OnceMore DEF GoalSummaryTurn, Ready, PcKept, Steady, slotVars,
        taskVars, otherVars, localVars, outVars
<1>9. ASSUME NEW u \in Users, RemoveQueuedPrompt(u) PROVE OnceInv'
    <2>1. /\ pending' = Keep(pending, Ids \ {u}) /\ u \in Elems(pending) /\ u \in Ids
          /\ answered' = [answered EXCEPT ![u] = "removed"]
          /\ UNCHANGED <<running, sent, doomed, rewound, interjections, task, plan, pc, cur>>
        BY <1>9, IdsMembers DEF RemoveQueuedPrompt, Editable, slotVars, taskVars, otherVars, localVars
    <2>2. NoRepeats(pending') /\ Elems(pending') = Elems(pending) \cap (Ids \ {u})
        BY <2>1, KeepNoRepeats, KeepElems DEF TypeOK, QueueType, OnceInv, QueueOnce
    <2>3. NoRepeats(interjections) /\ u \notin Elems(interjections)
        BY <2>1 DEF OnceInv, SteerOnce
    <2>4. \A p \in Ids : answered'[p] = answered[p] \/ p = u
        BY <2>1 DEF TypeOK, OutType
    <2>5. PcKept /\ Steady
        BY <2>1 DEF PcKept, Steady
    <2> QED BY <2>1, <2>2, <2>3, <2>4, <2>5, OnceLess
<1>10. ASSUME NEW c \in Clients \cup {None}, ClearQueue(c) PROVE OnceInv'
    <2>1. /\ pending' = Keep(pending, Ids \ Cleared(c)) /\ Cleared(c) \subseteq Elems(pending)
          /\ answered' = [p \in Ids |-> IF p \in Cleared(c) THEN "removed" ELSE answered[p]]
          /\ UNCHANGED <<running, sent, doomed, rewound, interjections, task, plan, pc, cur>>
        BY <1>10 DEF ClearQueue, Cleared, Editable, slotVars, taskVars, otherVars, localVars
    <2>2. NoRepeats(pending') /\ Elems(pending') = Elems(pending) \cap (Ids \ Cleared(c))
        BY <2>1, KeepNoRepeats, KeepElems DEF TypeOK, QueueType, OnceInv, QueueOnce
    <2>3. NoRepeats(interjections) /\ Cleared(c) \cap Elems(interjections) = {}
        BY <2>1 DEF OnceInv, SteerOnce
    <2>4. \A p \in Ids : answered'[p] = answered[p] \/ p \in Cleared(c)
        BY <2>1
    <2>5. PcKept /\ Steady
        BY <2>1 DEF PcKept, Steady
    <2> QED BY <2>1, <2>2, <2>3, <2>4, <2>5, OnceLess
<1>11. ASSUME NEW order \in Seq(Ids), NoRepeats(order), ReorderQueue(order) PROVE OnceInv'
    <2> DEFINE rows == {u \in Users : u \in Elems(pending) /\ u # running}
               old == Keep(pending, Ids \ rows)
               new == Keep(order, rows)
               rest == Keep(pending, rows \ Elems(order))
    <2>1. /\ pending' = old \o new \o rest
          /\ UNCHANGED <<running, sent, answered, doomed, rewound, interjections, task, plan, pc, cur>>
        BY <1>11 DEF ReorderQueue, Reordered, slotVars, taskVars, otherVars, localVars, outVars
    <2>2. pending \in Seq(Ids) /\ NoRepeats(pending) /\ rows \subseteq Elems(pending)
        BY DEF TypeOK, QueueType, OnceInv, QueueOnce
    <2> HIDE DEF rows
    <2>3. old \in Seq(Ids) /\ new \in Seq(Ids) /\ rest \in Seq(Ids)
        BY <2>2, KeepByRank
    <2>4. NoRepeats(old) /\ NoRepeats(new) /\ NoRepeats(rest)
        BY <1>11, <2>2, KeepNoRepeats
    <2>5. /\ Elems(old) = Elems(pending) \cap (Ids \ rows)
          /\ Elems(new) = Elems(order) \cap rows
          /\ Elems(rest) = Elems(pending) \cap (rows \ Elems(order))
        BY <1>11, <2>2, KeepElems
    <2> HIDE DEF old, new, rest
    <2> DEFINE front == old \o new
    <2>6. front \in Seq(Ids) /\ NoRepeats(front) /\ Elems(front) = Elems(old) \cup Elems(new)
        BY <2>3, <2>4, <2>5, ConcatElems, ConcatProperties
    <2>6a. pending' = front \o rest
        BY <2>1
    <2> HIDE DEF front
    <2>7. NoRepeats(pending') /\ Elems(pending') = Elems(old) \cup Elems(new) \cup Elems(rest)
        <3>1. Elems(front) \cap Elems(rest) = {}
            BY <2>5, <2>6
        <3>2. NoRepeats(front \o rest) /\ Elems(front \o rest) = Elems(front) \cup Elems(rest)
            BY <2>3, <2>4, <2>6, <3>1, ConcatElems
        <3> QED BY <2>6, <2>6a, <3>2
    <2>8. Elems(pending') \subseteq Elems(pending) /\ NoRepeats(interjections)
        BY <2>2, <2>5, <2>7 DEF OnceInv, SteerOnce
    <2>9. PcKept /\ Steady
        BY <2>1 DEF PcKept, Steady
    <2> QED BY <2>1, <2>7, <2>8, <2>9, OnceLess
<1>12. ASSUME NEW u \in Users, EditQueuedPrompt(u) PROVE OnceInv'
    BY <1>12, <1>a DEF EditQueuedPrompt, PcKept, Quiet, slotVars, taskVars, otherVars,
        localVars, outVars
<1>13. ASSUME NEW u \in Users, NEW edit \in BOOLEAN, InterjectQueuedPrompt(u, edit)
      PROVE  OnceInv'
    <2> DEFINE q == Keep(pending, Ids \ {u})
    <2>1. /\ pending' = InsertSeq(q, NowSlot(q), <<u>>) /\ u \in Elems(pending) /\ u \in Ids
          /\ pc = "top" /\ pc' \in {"cancel", "start"}
          /\ UNCHANGED <<running, sent, answered, doomed, rewound, interjections, task, plan>>
        BY <1>13, IdsMembers DEF InterjectQueuedPrompt, Editable, Ready, slotVars, taskVars,
            otherVars, outVars
    <2>2. q \in Seq(Ids) /\ NoRepeats(q) /\ Elems(q) = Elems(pending) \cap (Ids \ {u})
        BY KeepByRank, KeepNoRepeats, KeepElems DEF TypeOK, QueueType, OnceInv, QueueOnce
    <2> HIDE DEF q
    <2>3. <<u>> \in Seq(Ids) /\ Elems(<<u>>) = {u} /\ NoRepeats(<<u>>)
        BY <2>1, SingleQueue
    <2>4. NoRepeats(pending') /\ Elems(pending') \subseteq Elems(pending)
        <3>1. Elems(q) \cap Elems(<<u>>) = {} /\ NowSlot(q) \in 1..(Len(q) + 1)
            BY <2>2, <2>3, SlotInQueue
        <3>2. NoRepeats(pending')
            BY <2>1, <2>2, <2>3, <3>1, InsertSeqNoRepeats
        <3>3. Elems(pending') = Elems(q) \cup Elems(<<u>>)
            BY <2>1, <2>2, <2>3, <3>1, InsertSeqElems
        <3> QED BY <2>1, <2>2, <2>3, <3>2, <3>3
    <2>5. PcKept /\ Steady /\ NoRepeats(interjections)
        BY <2>1 DEF PcKept, Steady, OnceInv, SteerOnce
    <2> QED BY <2>1, <2>4, <2>5, OnceLess
<1>14. ASSUME NEW rewind \in BOOLEAN, NEW kill \in BOOLEAN, Cancel(rewind, kill)
      PROVE  OnceInv'
    BY <1>14, <1>a DEF Cancel, Ready, PcKept, Quiet, queueVars, slotVars, taskVars, otherVars,
        outVars
<1>15. ASSUME NEW t \in Monitors, InjectNotification(t) PROVE OnceInv'
    BY <1>15, <1>a DEF InjectNotification, Ready, PcKept, Quiet, queueVars, slotVars, taskVars,
        otherVars, localVars, outVars
<1>16. ASSUME Shutdown PROVE OnceInv'
    <2>1. /\ pending' = Keep(pending, Ids \ Synthetic) /\ pc = "top" /\ pc' = "shutdown"
          /\ UNCHANGED <<running, sent, answered, doomed, rewound, interjections, task, plan>>
        BY <1>16 DEF Shutdown, Ready, slotVars, taskVars, otherVars, localVars, outVars
    <2>2. NoRepeats(pending') /\ Elems(pending') \subseteq Elems(pending)
        BY <2>1, KeepNoRepeats, KeepElems DEF TypeOK, QueueType, OnceInv, QueueOnce
    <2>3. PcKept /\ Steady /\ NoRepeats(interjections)
        BY <2>1 DEF PcKept, Steady, OnceInv, SteerOnce
    <2> QED BY <2>1, <2>2, <2>3, OnceLess
<1>17. ASSUME ShutdownEnd PROVE OnceInv'
    <2>1. Quiet /\ PcKept
        BY <1>17 DEF ShutdownEnd, PcKept, Quiet, queueVars, localVars, outVars
    <2>2. Steady
        BY <1>17 DEF ShutdownEnd, Steady
    <2> QED BY <1>b, <2>1, <2>2
<1>18. ASSUME CancelBegin PROVE OnceInv'
    <2>1. /\ pc = "cancel" /\ pc' = "cancel_lock" /\ interjections' = <<>>
          /\ answered' = [p \in Ids |-> IF p \in Elems(interjections) THEN "cleared" ELSE answered[p]]
          /\ UNCHANGED <<pending, running, sent, doomed, rewound, task, plan>>
        BY <1>18 DEF CancelBegin, queueVars, slotVars, taskVars, otherVars
    <2>2. /\ Elems(interjections') = {} /\ NoRepeats(interjections') /\ NoRepeats(pending)
          /\ Elems(interjections) \cap Elems(pending) = {}
        BY <2>1, EmptyQueue DEF OnceInv, QueueOnce, SteerOnce
    <2>3. \A p \in Ids : answered'[p] = answered[p] \/ p \in Elems(interjections)
        BY <2>1
    <2>4. PcKept /\ Steady
        BY <2>1 DEF PcKept, Steady
    <2> QED BY <2>1, <2>2, <2>3, <2>4, OnceLess
<1>19. ASSUME CancelLock PROVE OnceInv'
    BY OnceLock, <1>19
<1>23. ASSUME CancelAnswer PROVE OnceInv'
    BY OnceAnswer, <1>23
<1>26. ASSUME CompleteLock PROVE OnceInv'
    BY OnceComplete, <1>26
<1>20. ASSUME CancelGate PROVE OnceInv'
    BY <1>20, <1>a DEF CancelGate, PcKept, Quiet, queueVars, slotVars, taskVars, otherVars,
        localVars, outVars
<1>21. ASSUME CancelAbort PROVE OnceInv'
    <2>1. Quiet /\ PcKept
        BY <1>21 DEF CancelAbort, AbortVictim, PcKept, Quiet, queueVars, slotVars, localVars, outVars
    <2>2. Steady
        BY <1>21 DEF CancelAbort, AbortVictim, Aborted, Live, Steady, otherVars, TypeOK, TaskType
    <2> QED BY <1>b, <2>1, <2>2
<1>22. ASSUME CancelUnpin PROVE OnceInv'
    BY <1>22, <1>a DEF CancelUnpin, PcKept, Quiet, queueVars, taskVars, otherVars, localVars, outVars
<1>24. ASSUME Completion PROVE OnceInv'
    BY <1>24, <1>a DEF Completion, PcKept, Quiet, queueVars, otherVars, outVars
<1>25. ASSUME CompleteGate PROVE OnceInv'
    BY <1>25, <1>a DEF CompleteGate, PcKept, Quiet, queueVars, slotVars, taskVars, otherVars,
        localVars, outVars
<1>27. ASSUME CompleteEmit PROVE OnceInv'
    BY <1>27, <1>a DEF CompleteEmit, PcKept, Quiet, queueVars, taskVars, otherVars
<1>28. ASSUME TurnEnd PROVE OnceInv'
    <2>1. /\ PcKept /\ Steady
          /\ UNCHANGED <<interjections, running, answered, doomed, rewound, task, plan>>
        BY <1>28 DEF TurnEnd, PcKept, Steady, slotVars, taskVars, otherVars, localVars, outVars
    <2>2. CASE QueueContinuation
        <3>1. PICK g \in Goals \ sent : pending' = Append(pending, g) /\ sent' = sent \cup {g}
            BY <2>2 DEF QueueContinuation
        <3>2. g \in Ids /\ g \notin Plans
            BY IdsMembers, IdsAssumption
        <3> QED BY <2>1, <3>1, <3>2, OnceMore
    <2>3. CASE UNCHANGED <<pending, sent>>
        BY <1>a, <2>1, <2>3 DEF Quiet
    <2> QED BY <1>28, <2>2, <2>3 DEF TurnEnd
<1>29. ASSUME Flush PROVE OnceInv'
    <2>1. /\ pc = "flush" /\ pc' = "start" /\ interjections' = <<>>
          /\ pending' = InsertSeq(pending, FrontSlot(pending), interjections)
          /\ UNCHANGED <<running, sent, answered, doomed, rewound, task, plan>>
        BY <1>29 DEF Flush, FlushTo, slotVars, taskVars, otherVars, localVars, outVars
    <2>2. /\ pending \in Seq(Ids) /\ interjections \in Seq(Ids)
          /\ Elems(interjections) \in SUBSET Ids
        BY IdsMembers, SeqMonotonic, PlaceTypes DEF TypeOK, QueueType
    <2>3. /\ NoRepeats(pending) /\ NoRepeats(interjections)
          /\ Elems(pending) \cap Elems(interjections) = {}
          /\ \A p \in Elems(interjections) : Fresh(p)
        BY DEF OnceInv, QueueOnce, SteerOnce
    <2>4. /\ NoRepeats(pending')
          /\ Elems(pending') = Elems(pending) \cup Elems(interjections)
        BY <2>1, <2>2, <2>3, SlotInQueue, InsertSeqElems, InsertSeqNoRepeats
    <2>5. NoRepeats(interjections') /\ Elems(interjections') = {}
        BY <2>1, EmptyQueue
    <2>6. Steady
        BY <2>1 DEF Steady
    <2> QED BY <2>1, <2>2, <2>3, <2>4, <2>5, <2>6, OncePlaced
<1>30. ASSUME Drain PROVE OnceInv'
    <2>1. /\ PcKept /\ Steady
          /\ UNCHANGED <<interjections, running, answered, doomed, rewound, task, plan>>
        BY <1>30 DEF Drain, PcKept, Steady, slotVars, taskVars, otherVars, localVars, outVars
    <2>2. \/ UNCHANGED <<pending, sent>>
          \/ \E b \in Batches \ sent : pending' = Append(pending, b) /\ sent' = sent \cup {b}
        BY <1>30 DEF Drain
    <2>3. CASE UNCHANGED <<pending, sent>>
        BY <1>a, <2>1, <2>3 DEF Quiet
    <2>4. CASE \E b \in Batches \ sent : pending' = Append(pending, b) /\ sent' = sent \cup {b}
        <3>1. PICK b \in Batches \ sent : pending' = Append(pending, b) /\ sent' = sent \cup {b}
            BY <2>4
        <3>2. b \in Ids /\ b \notin Plans
            BY IdsMembers, IdsAssumption
        <3> QED BY <2>1, <3>1, <3>2, OnceMore
    <2> QED BY <2>2, <2>3, <2>4
<1>31. ASSUME McpRelease PROVE OnceInv'
    BY <1>31, OncePromote DEF McpRelease, PcKept, queueVars, localVars
<1>32. ASSUME NEW p \in Plans, PlanEnqueue(p) PROVE OnceInv'
    <2>1. /\ PcKept
          /\ UNCHANGED <<interjections, running, answered, doomed, rewound, task>>
          /\ plan[p] = "idle" /\ plan' = [plan EXCEPT ![p] = "queued"]
          /\ pending' = Append(pending, p) /\ sent' = sent \cup {p}
        BY <1>32 DEF PlanEnqueue, PcKept, slotVars, taskVars, localVars, outVars
    <2>2. p \in Ids /\ p \notin sent
        BY <2>1, IdsMembers DEF OnceInv, SentOnce
    <2>3. Steady /\ plan'[p] # "idle"
        BY <2>1 DEF Steady, TypeOK, OtherType
    <2> QED BY <2>1, <2>2, <2>3, OnceMore
<1>33. ASSUME NEW p \in Plans, PlanStart(p) PROVE OnceInv'
    <2>1. \A x \in Plans : plan'[x] = "idle" => plan[x] = "idle"
        BY <1>33 DEF PlanStart, TypeOK, OtherType
    <2> QED BY <1>33, <2>1, OncePromote DEF PlanStart, PcKept, queueVars, localVars
<1>34. ASSUME CloseRewindWindow PROVE OnceInv'
    BY <1>34, <1>a DEF CloseRewindWindow, PcKept, Quiet, queueVars, taskVars, otherVars,
        localVars, outVars
<1>35. ASSUME NEW t \in Ids, TurnBegin(t) \/ TurnIndex(t) \/ TurnReady(t) PROVE OnceInv'
    <2>1. Quiet /\ PcKept
        BY <1>35 DEF TurnBegin, TurnIndex, TurnReady, PcKept, Quiet, queueVars, slotVars,
            localVars, outVars
    <2>2. Steady
        BY <1>35 DEF TurnBegin, TurnIndex, TurnReady, Steady, otherVars, TypeOK, TaskType
    <2> QED BY <1>b, <2>1, <2>2
<1>38. ASSUME NEW t \in Ids,
              TurnGoalRound(t) \/ TurnSetGoal(t) \/ TurnEnterWait(t) \/ WaitGuardDrop(t)
                \/ InjectMonitorEvents(t)
      PROVE  OnceInv'
    BY <1>38, <1>a DEF TurnGoalRound, TurnSetGoal, TurnEnterWait, WaitGuardDrop, LeaveWait,
        InjectMonitorEvents, PcKept, Quiet, queueVars, slotVars, taskVars, otherVars,
        localVars, outVars
<1>42. ASSUME NEW t \in Ids, NEW C \in SUBSET Tasks, TurnToolResult(t, C) PROVE OnceInv'
    <2>1. /\ pending' = Sweep(pending, C) /\ PcKept /\ Steady
          /\ UNCHANGED <<running, sent, answered, doomed, rewound, interjections>>
        BY <1>42 DEF TurnToolResult, DropConsumed, PcKept, Steady, slotVars, taskVars,
            otherVars, localVars, outVars
    <2>2. NoRepeats(pending') /\ Elems(pending') \subseteq Elems(pending)
        BY <2>1, KeepNoRepeats, KeepElems DEF Sweep, TypeOK, QueueType, OnceInv, QueueOnce
    <2>3. NoRepeats(interjections)
        BY DEF OnceInv, SteerOnce
    <2> QED BY <2>1, <2>2, <2>3, OnceLess
<1>43. ASSUME NEW t \in Ids, DrainInterjections(t) PROVE OnceInv'
    <2>1. /\ interjections' = <<>> /\ PcKept /\ Steady
          /\ answered' = [p \in Ids |-> IF p \in Elems(interjections) THEN "merged" ELSE answered[p]]
          /\ UNCHANGED <<pending, running, sent, doomed, rewound>>
        BY <1>43 DEF DrainInterjections, Merge, PcKept, Steady, queueVars, slotVars, taskVars,
            otherVars, localVars
    <2>2. /\ Elems(interjections') = {} /\ NoRepeats(interjections') /\ NoRepeats(pending)
          /\ Elems(interjections) \cap Elems(pending) = {}
        BY <2>1, EmptyQueue DEF OnceInv, QueueOnce, SteerOnce
    <2>3. \A p \in Ids : answered'[p] = answered[p] \/ p \in Elems(interjections)
        BY <2>1
    <2> QED BY <2>1, <2>2, <2>3, OnceLess
<1>45. ASSUME NEW t \in Ids, TurnUnpin(t) \/ TaskDropped(t) PROVE OnceInv'
    <2>1. Quiet /\ PcKept
        BY <1>45 DEF TurnUnpin, TaskDropped, PcKept, Quiet, queueVars, localVars, outVars
    <2>2. Steady
        BY <1>45 DEF TurnUnpin, TaskDropped, Steady, otherVars, TypeOK, TaskType
    <2> QED BY <1>b, <2>1, <2>2
<1>46. ASSUME NEW t \in Ids, TurnFinish(t) \/ TurnPauseGoal(t) \/ TurnClearGoal(t)
      PROVE  OnceInv'
    <2>0. Finish(t) /\ task[t] # "none"
        BY <1>46 DEF TurnFinish, TurnPauseGoal, TurnClearGoal
    <2>1. Quiet /\ PcKept
        BY <2>0 DEF Finish, PcKept, Quiet, queueVars, slotVars, localVars, outVars
    <2>2. Steady
        BY <2>0 DEF Finish, Steady, otherVars, TypeOK, TaskType
    <2> QED BY <1>b, <2>1, <2>2
<1>48. ASSUME UNCHANGED vars PROVE OnceInv'
    BY <1>48, <1>a DEF vars, PcKept, Quiet, queueVars, slotVars, taskVars, otherVars,
        localVars, outVars
<1>49. ASSUME Command PROVE OnceInv'
    BY <1>49, ReorderNames, <1>2, <1>3, <1>5, <1>8, <1>9, <1>10, <1>11, <1>12, <1>13,
        <1>14, <1>15, <1>16
    DEF Command
<1>50. ASSUME LoopStep PROVE OnceInv'
    BY <1>50, <1>4, <1>6, <1>7, <1>18, <1>19, <1>20, <1>21, <1>22, <1>23, <1>24, <1>25,
        <1>26, <1>27, <1>28, <1>29, <1>30, <1>17
    DEF LoopStep
<1>51. ASSUME NEW t \in Ids, TurnProgress(t) \/ TurnWork(t) PROVE OnceInv'
    BY <1>51, <1>35, <1>38, <1>42, <1>43, <1>45, <1>46 DEF TurnProgress, TurnWork
<1> QED BY <1>38, <1>45, <1>1, <1>31, <1>34, <1>32, <1>33, <1>48, <1>49, <1>50, <1>51
    DEF Next

-------------------------------------------------------------------------------
(* Turns and their completions *)

TurnInv == EndedOnce /\ LiveTurns

\* A step that spawns no turn and leaves the slot and the channel alone.
Going ==
    /\ \A p \in Ids : task[p] = "ended" => task'[p] = "ended"
    /\ Live' \subseteq Live
    /\ pc' \in {"complete_gate", "complete_lock"}
          => pc \in {"complete_gate", "complete_lock"} /\ cur' = cur
    /\ pc \in {"cancel_gate", "cancel_abort"} => pc' \in {"cancel_gate", "cancel_abort"}

\* It preserves the invariant.
LEMMA TurnKept ==
    ASSUME TypeOK, CurKnown, TurnInv, Going, UNCHANGED <<completions, running, victim>>
    PROVE  TurnInv'
<1>1. EndedOnce'
    BY PlaceTypes DEF TurnInv, EndedOnce, Going, CurKnown
<1>2. LiveTurns'
    BY DEF TurnInv, LiveTurns, Going
<1> QED BY <1>1, <1>2 DEF TurnInv

\* A promotion spawns the turn that takes the slot; its prompt had no turn, so no completion
\* of an earlier one can be on its way.
LEMMA TurnPromote ==
    ASSUME TypeOK, CurKnown, OnceInv, TurnInv, Promote, UNCHANGED <<completions, cur, victim>>,
           pc' = pc \/ (pc = "start" /\ pc' \in {"top", "drain"})
    PROVE  TurnInv'
<1>1. CASE ~CanPromote
    <2>1. UNCHANGED <<task, running>>
        BY <1>1 DEF Promote, slotVars
    <2>2. Going
        BY <2>1 DEF Going, Live
    <2> QED BY <2>1, <2>2, TurnKept
<1>2. CASE CanPromote
    <2> DEFINE h == Head(pending)
    <2>1. /\ running = None /\ running' = h /\ task' = [task EXCEPT ![h] = "spawned"]
          /\ h \in Elems(pending)
        BY <1>2, TailElems DEF Promote, CanPromote, TypeOK, QueueType, OnceInv, QueueOnce
    <2> HIDE DEF h
    <2>2. /\ task \in [Ids -> TaskStates] /\ None \notin Ids /\ h \in Ids
          /\ Elems(completions) \subseteq Ids
        BY <2>1, PlaceTypes, IdsAssumption DEF TypeOK, TaskType
    <2>3. task[h] = "none"
        BY <2>1, <2>2 DEF OnceInv, QueueOnce
    <2>4. EndedOnce'
        BY <2>1, <2>2, <2>3 DEF TurnInv, EndedOnce, CurKnown
    <2>5. LiveTurns'
        BY <2>1, <2>2 DEF TurnInv, LiveTurns, Live
    <2> QED BY <2>4, <2>5 DEF TurnInv
<1> QED BY <1>1, <1>2

\* Every step preserves the invariant of the turns.
LEMMA TurnStep ==
    ASSUME TypeOK, CurKnown, FrontIsRunning, OnceInv, TurnInv, [Next]_vars
    PROVE  TurnInv'
<1> DEFINE Still == UNCHANGED <<task, completions, running, victim>>
<1>a. Still /\ Going => TurnInv'
    BY TurnKept
<1>b. /\ task \in [Ids -> TaskStates] /\ completions \in Seq(Ids) /\ None \notin Ids
      /\ Elems(completions) \subseteq Ids
    BY PlaceTypes, IdsAssumption DEF TypeOK, TaskType
<1>1. ASSUME NEW t \in Tasks, NEW covered \in BOOLEAN, TaskCompleted(t, covered)
      PROVE  TurnInv'
    BY <1>1, <1>a DEF TaskCompleted, Going, Live, slotVars, taskVars, localVars
<1>2. ASSUME NEW t \in Tasks, DropMonitorNotifications(t) PROVE TurnInv'
    BY <1>2, <1>a DEF DropMonitorNotifications, Going, Live, slotVars, taskVars, localVars
<1>3. ASSUME NEW p \in Users \cup Tasks \cup Crons, NEW now \in BOOLEAN, Prompt(p, now)
      PROVE  TurnInv'
    BY <1>3, <1>a DEF Prompt, Ready, Going, Live, slotVars, taskVars
<1>4. ASSUME Enqueue PROVE TurnInv'
    BY <1>4, <1>a DEF Enqueue, Going, Live, slotVars, taskVars
<1>5. ASSUME NEW s \in Steers, Interject(s) PROVE TurnInv'
    BY <1>5, <1>a DEF Interject, Ready, Going, Live, slotVars, taskVars
<1>6. ASSUME Fallback PROVE TurnInv'
    BY <1>6, <1>a DEF Fallback, Going, Live, slotVars, taskVars
<1>7. ASSUME Start PROVE TurnInv'
    BY <1>7, TurnPromote DEF Start, localVars, TypeOK, LoopType
<1>8. ASSUME NEW g \in Goals, GoalSummaryTurn(g) PROVE TurnInv'
    BY <1>8, <1>a DEF GoalSummaryTurn, Ready, Going, Live, slotVars, taskVars, localVars
<1>9. ASSUME NEW u \in Users, RemoveQueuedPrompt(u) PROVE TurnInv'
    BY <1>9, <1>a DEF RemoveQueuedPrompt, Going, Live, slotVars, taskVars, localVars
<1>10. ASSUME NEW c \in Clients \cup {None}, ClearQueue(c) PROVE TurnInv'
    BY <1>10, <1>a DEF ClearQueue, Going, Live, slotVars, taskVars, localVars
<1>11. ASSUME NEW order \in Seq(Ids), ReorderQueue(order) PROVE TurnInv'
    BY <1>11, <1>a DEF ReorderQueue, Going, Live, slotVars, taskVars, localVars
<1>12. ASSUME NEW u \in Users, EditQueuedPrompt(u) PROVE TurnInv'
    BY <1>12, <1>a DEF EditQueuedPrompt, Going, Live, slotVars, taskVars, localVars
<1>13. ASSUME NEW u \in Users, NEW edit \in BOOLEAN, InterjectQueuedPrompt(u, edit)
      PROVE  TurnInv'
    BY <1>13, <1>a DEF InterjectQueuedPrompt, Ready, Going, Live, slotVars, taskVars
<1>14. ASSUME NEW rewind \in BOOLEAN, NEW kill \in BOOLEAN, Cancel(rewind, kill)
      PROVE  TurnInv'
    BY <1>14, <1>a DEF Cancel, Ready, Going, Live, slotVars, taskVars
<1>15. ASSUME NEW t \in Monitors, InjectNotification(t) PROVE TurnInv'
    BY <1>15, <1>a DEF InjectNotification, Ready, Going, Live, slotVars, taskVars, localVars
<1>16. ASSUME Shutdown PROVE TurnInv'
    BY <1>16, <1>a DEF Shutdown, Ready, Going, Live, slotVars, taskVars, localVars
<1>17. ASSUME ShutdownEnd PROVE TurnInv'
    <2>1. Going
        BY <1>17, <1>b DEF ShutdownEnd, Going, Live
    <2> QED BY <1>17, <2>1, TurnKept DEF ShutdownEnd, localVars
<1>18. ASSUME CancelBegin PROVE TurnInv'
    BY <1>18, <1>a DEF CancelBegin, Going, Live, slotVars, taskVars
<1>19. ASSUME CancelLock PROVE TurnInv'
    <2>1. /\ pc = "cancel_lock" /\ pc' = "cancel_gate" /\ running' = None
          /\ completions' = completions
          /\ \/ task' = Aborted(running)
             \/ victim' = running /\ task' = task
        BY <1>19 DEF CancelLock
    <2>2. EndedOnce'
        BY <1>b, <2>1 DEF TurnInv, EndedOnce, Aborted, Live
    <2>3. LiveTurns'
        BY <1>b, <2>1 DEF TurnInv, LiveTurns, Aborted, Live
    <2> QED BY <2>2, <2>3 DEF TurnInv
<1>20. ASSUME CancelGate PROVE TurnInv'
    BY <1>20, <1>a DEF CancelGate, Going, Live, slotVars, taskVars, localVars
<1>21. ASSUME CancelAbort PROVE TurnInv'
    <2>1. /\ pc = "cancel_abort" /\ pc' = "cancel_unpin" /\ task' = Aborted(victim)
          /\ UNCHANGED <<completions, running, victim>>
        BY <1>21 DEF CancelAbort, AbortVictim, slotVars, localVars
    <2>2. EndedOnce'
        BY <1>b, <2>1 DEF TurnInv, EndedOnce, Aborted, Live
    <2>3. LiveTurns'
        BY <1>b, <2>1 DEF TurnInv, LiveTurns, Aborted, Live
    <2> QED BY <2>2, <2>3 DEF TurnInv
<1>22. ASSUME CancelUnpin PROVE TurnInv'
    BY <1>22, <1>a DEF CancelUnpin, Going, Live, taskVars, localVars
<1>23. ASSUME CancelAnswer PROVE TurnInv'
    <2>1. /\ pc = "cancel_answer" /\ pc' = "start"
          /\ UNCHANGED <<task, completions, running>>
        BY <1>23 DEF CancelAnswer
    <2> QED BY <2>1 DEF TurnInv, EndedOnce, LiveTurns, Live
<1>24. ASSUME Completion PROVE TurnInv'
    <2>1. /\ pc = "top" /\ pc' \in {"complete_gate", "complete_lock"} /\ completions # <<>>
          /\ cur' = Head(completions) /\ completions' = Tail(completions)
          /\ UNCHANGED <<task, running, victim>>
        BY <1>24 DEF Completion
    <2>2. Head(completions) \in Elems(completions) /\ Elems(Tail(completions)) \subseteq Elems(completions)
        BY <1>b, <2>1, TailSubset
    <2> QED BY <2>1, <2>2 DEF TurnInv, EndedOnce, LiveTurns, Live
<1>25. ASSUME CompleteGate PROVE TurnInv'
    BY <1>25, <1>a DEF CompleteGate, Going, Live, slotVars, taskVars, localVars
<1>26. ASSUME CompleteLock PROVE TurnInv'
    <2>1. /\ pc = "complete_lock" /\ pc' = "complete_emit"
          /\ running' = IF FreesSlot(cur) THEN None ELSE running
          /\ UNCHANGED <<task, completions, victim>>
        BY <1>26 DEF CompleteLock, taskVars
    <2>2. FreesSlot(cur) => running \in {None, cur}
        BY <2>1 DEF FreesSlot, Owns, FrontIsRunning, Stopping
    <2>3. task[cur] = "ended"
        BY <2>1 DEF TurnInv, EndedOnce
    <2>4. EndedOnce'
        BY <2>1 DEF TurnInv, EndedOnce
    <2>5. LiveTurns'
        BY <1>b, <2>1, <2>2, <2>3 DEF TurnInv, LiveTurns, Live
    <2> QED BY <2>4, <2>5 DEF TurnInv
<1>27. ASSUME CompleteEmit PROVE TurnInv'
    BY <1>27, <1>a DEF CompleteEmit, Going, Live, taskVars
<1>28. ASSUME TurnEnd PROVE TurnInv'
    BY <1>28, <1>a DEF TurnEnd, Going, Live, slotVars, taskVars, localVars
<1>29. ASSUME Flush PROVE TurnInv'
    BY <1>29, <1>a DEF Flush, FlushTo, Going, Live, slotVars, taskVars, localVars
<1>30. ASSUME Drain PROVE TurnInv'
    BY <1>30, <1>a DEF Drain, Going, Live, slotVars, taskVars, localVars
<1>31. ASSUME McpRelease PROVE TurnInv'
    BY <1>31, TurnPromote DEF McpRelease, localVars
<1>32. ASSUME NEW p \in Plans, PlanEnqueue(p) PROVE TurnInv'
    BY <1>32, <1>a DEF PlanEnqueue, Going, Live, slotVars, taskVars, localVars
<1>33. ASSUME NEW p \in Plans, PlanStart(p) PROVE TurnInv'
    BY <1>33, TurnPromote DEF PlanStart, localVars
<1>34. ASSUME CloseRewindWindow PROVE TurnInv'
    BY <1>34, <1>a DEF CloseRewindWindow, Going, Live, taskVars, localVars
<1>35. ASSUME NEW t \in Ids,
              TurnBegin(t) \/ TurnIndex(t) \/ TurnReady(t) \/ TurnUnpin(t) \/ TaskDropped(t)
      PROVE  TurnInv'
    <2>1. /\ UNCHANGED <<pc, cur, completions, running, victim>>
          /\ \/ task[t] \in {"spawned", "early", "indexed", "live"}
             \/ task[t] \in {"aborted", "aborted_live"} /\ task'[t] = "dropped"
          /\ \E s : task' = [task EXCEPT ![t] = s]
        BY <1>35, <1>b DEF TurnBegin, TurnIndex, TurnReady, TurnUnpin, TaskDropped, slotVars, localVars
    <2>2. Going
        BY <1>b, <2>1 DEF Going, Live
    <2> QED BY <2>1, <2>2, TurnKept
<1>38. ASSUME NEW t \in Ids,
              TurnGoalRound(t) \/ TurnSetGoal(t) \/ TurnEnterWait(t) \/ WaitGuardDrop(t)
                \/ InjectMonitorEvents(t)
      PROVE  TurnInv'
    BY <1>38, <1>a DEF TurnGoalRound, TurnSetGoal, TurnEnterWait, WaitGuardDrop, LeaveWait,
        InjectMonitorEvents, Going, Live, slotVars, taskVars, localVars
<1>42. ASSUME NEW t \in Ids, NEW C \in SUBSET Tasks, TurnToolResult(t, C) PROVE TurnInv'
    BY <1>42, <1>a DEF TurnToolResult, Going, Live, slotVars, taskVars, localVars
<1>43. ASSUME NEW t \in Ids, DrainInterjections(t) PROVE TurnInv'
    BY <1>43, <1>a DEF DrainInterjections, Merge, Going, Live, slotVars, taskVars, localVars
<1>46. ASSUME NEW t \in Ids, TurnFinish(t) \/ TurnPauseGoal(t) \/ TurnClearGoal(t)
      PROVE  TurnInv'
    <2>1. /\ task' = [task EXCEPT ![t] = "ended"] /\ completions' = Append(completions, t)
          /\ UNCHANGED <<pc, cur, running, victim>>
        BY <1>46 DEF TurnFinish, TurnPauseGoal, TurnClearGoal, Finish, slotVars, localVars
    <2>2. Elems(completions') = Elems(completions) \cup {t}
        BY <1>b, <2>1, AppendElems
    <2>3. EndedOnce'
        BY <1>b, <2>1, <2>2 DEF TurnInv, EndedOnce, CurKnown
    <2>4. LiveTurns'
        BY <1>b, <2>1 DEF TurnInv, LiveTurns, Live
    <2> QED BY <2>3, <2>4 DEF TurnInv
<1>48. ASSUME UNCHANGED vars PROVE TurnInv'
    BY <1>48, <1>a DEF vars, Going, Live, slotVars, taskVars, localVars
<1>49. ASSUME Command PROVE TurnInv'
    BY <1>49, ReorderRequest, <1>2, <1>3, <1>5, <1>8, <1>9, <1>10, <1>11, <1>12, <1>13,
        <1>14, <1>15, <1>16
    DEF Command
<1>50. ASSUME LoopStep PROVE TurnInv'
    BY <1>50, <1>4, <1>6, <1>7, <1>18, <1>19, <1>20, <1>21, <1>22, <1>23, <1>24, <1>25,
        <1>26, <1>27, <1>28, <1>29, <1>30, <1>17
    DEF LoopStep
<1>51. ASSUME NEW t \in Ids, TurnProgress(t) \/ TurnWork(t) PROVE TurnInv'
    BY <1>51, <1>35, <1>38, <1>42, <1>43, <1>46 DEF TurnProgress, TurnWork
<1> QED BY <1>35, <1>38, <1>1, <1>31, <1>34, <1>32, <1>33, <1>48, <1>49, <1>50, <1>51
    DEF Next

-------------------------------------------------------------------------------
(* No prompt is lost *)

\* The prompts that a client waits for, and where one can be.
Held == Users \cup Steers
Somewhere(p) ==
    \/ cur = p /\ pc \in Placing
    \/ p \in Elems(pending) \cup Elems(interjections) \cup Condemned
    \/ answered[p] # "open"
PlaceInv ==
    /\ ~Stopping => \A p \in sent \cap Held : Somewhere(p)
    /\ rewound # None => doomed = <<>>

\* A step after which no prompt has left its place preserves it.
LEMMA PlaceStill ==
    ASSUME PlaceInv, ~Stopping' => ~Stopping,
           UNCHANGED <<interjections, answered, doomed, rewound>>,
           Elems(pending) \cap Held \subseteq Elems(pending'),
           sent' \cap Held \subseteq sent,
           pc \in Placing => pc' = pc /\ cur' = cur
    PROVE  PlaceInv'
<1>1. Condemned' = Condemned
    BY DEF Condemned
<1>2. ASSUME ~Stopping', NEW p \in sent' \cap Held PROVE Somewhere(p)'
    <2>1. p \in sent /\ Somewhere(p) /\ p \in Held
        BY <1>2 DEF PlaceInv
    <2> QED BY <1>1, <2>1 DEF Somewhere
<1> QED BY <1>2 DEF PlaceInv

\* Every step preserves it.
LEMMA PlaceStep ==
    ASSUME TypeOK, CurKnown, OnceInv, PlaceInv, [Next]_vars
    PROVE  PlaceInv'
<1> DEFINE Calm == UNCHANGED <<pending, interjections, answered, doomed, rewound, sent>>
           Loop == (pc \in Placing => pc' = pc /\ cur' = cur) /\ (~Stopping' => ~Stopping)
<1>a. Calm /\ Loop => PlaceInv'
    BY PlaceStill
<1> HIDE DEF Calm
<1> USE DEF Placing, Stopping
<1>b. /\ pending \in Seq(Ids) /\ Elems(pending) \subseteq Ids
      /\ interjections \in Seq(Ids) /\ Elems(interjections) \subseteq Ids
      /\ NoRepeats(pending) /\ answered \in [Ids -> Answers] /\ Held \subseteq Ids
      /\ None \notin Ids
      /\ Held \cap Synthetic = {} /\ Held \cap Tasks = {} /\ Held \cap Goals = {}
      /\ Held \cap Batches = {} /\ Held \cap Plans = {}
    BY PlaceTypes, IdsMembers, IdsAssumption, SeqMonotonic
    DEF TypeOK, QueueType, OutType, OnceInv, QueueOnce, Held, Synthetic
<1>1. ASSUME NEW t \in Tasks, NEW covered \in BOOLEAN, TaskCompleted(t, covered)
      PROVE  PlaceInv'
    BY <1>1, <1>a DEF TaskCompleted, Calm, queueVars, localVars, outVars
<1>2. ASSUME NEW t \in Tasks, DropMonitorNotifications(t) PROVE PlaceInv'
    BY <1>2, <1>a DEF DropMonitorNotifications, Calm, queueVars, localVars, outVars
<1>3. ASSUME NEW p \in Users \cup Tasks \cup Crons, NEW now \in BOOLEAN, Prompt(p, now)
      PROVE  PlaceInv'
    <2>1. /\ pc = "top" /\ pc' = "enqueue" /\ cur' = p /\ sent' = sent \cup {p}
          /\ UNCHANGED <<pending, interjections, answered, doomed, rewound>>
        BY <1>3 DEF Prompt, Ready, queueVars, outVars
    <2> QED BY <2>1 DEF PlaceInv, Somewhere, Condemned
<1>4. ASSUME Enqueue PROVE PlaceInv'
    <2> DEFINE S == IF cur \in Users THEN Preempted(pending) ELSE {}
               q == Sweep(pending, S)
               k == IF JumpsQueue(cur, q) THEN NowSlot(q) ELSE Len(q) + 1
    <2>1. /\ pc = "enqueue" /\ pc' \in {"cancel", "start"} /\ pending' = InsertSeq(q, k, <<cur>>)
          /\ UNCHANGED <<sent, interjections, answered, doomed, rewound>>
        BY <1>4 DEF Enqueue, outVars
    <2>2. S \subseteq Synthetic /\ cur \in Ids
        BY <2>1 DEF Preempted, CurKnown
    <2> HIDE DEF S
    <2>3. q \in Seq(Ids) /\ Elems(q) = Elems(pending) \cap (Ids \ (S \ {running}))
        BY <1>b, KeepByRank, KeepElems DEF Sweep
    <2> HIDE DEF q
    <2>4. k \in 1..(Len(q) + 1)
        BY <2>3, SlotInQueue
    <2>5. <<cur>> \in Seq(Ids) /\ Elems(<<cur>>) = {cur}
        BY <2>2, SingleQueue
    <2> HIDE DEF k
    <2>6. Elems(pending') = Elems(q) \cup {cur}
        <3>1. q \in Seq(Ids) /\ <<cur>> \in Seq(Ids)
            BY <2>3, <2>5
        <3>2. Elems(InsertSeq(q, k, <<cur>>)) = Elems(q) \cup Elems(<<cur>>)
            BY <2>4, <3>1, InsertSeqElems
        <3> QED BY <2>1, <2>5, <3>2
    <2>7. Condemned' = Condemned
        BY <2>1 DEF Condemned
    <2>8. ASSUME NEW p \in sent \cap Held, Somewhere(p) PROVE Somewhere(p)'
        BY <1>b, <2>1, <2>2, <2>3, <2>6, <2>7, <2>8 DEF Somewhere
    <2> QED BY <2>1, <2>8 DEF PlaceInv
<1>5. ASSUME NEW s \in Steers, Interject(s) PROVE PlaceInv'
    <2>1. /\ pc = "top" /\ sent' = sent \cup {s}
          /\ \/ interjections' = Append(interjections, s) /\ pc' = pc
             \/ interjections' = interjections /\ pc' = "fallback" /\ cur' = s
          /\ UNCHANGED <<pending, answered, doomed, rewound>>
        BY <1>5 DEF Interject, Ready, queueVars, outVars
    <2>2. Elems(Append(interjections, s)) = Elems(interjections) \cup {s}
        BY <1>b, IdsMembers, AppendElems
    <2>3. Condemned' = Condemned
        BY <2>1 DEF Condemned
    <2>4. Somewhere(s)' /\ Elems(interjections) \subseteq Elems(interjections')
        BY <2>1, <2>2 DEF Somewhere
    <2>5. ASSUME NEW p, Somewhere(p) PROVE Somewhere(p)'
        BY <2>1, <2>3, <2>4, <2>5 DEF Somewhere
    <2> QED BY <2>1, <2>4, <2>5 DEF PlaceInv
<1>6. ASSUME Fallback PROVE PlaceInv'
    <2>1. /\ pc = "fallback" /\ pc' = "start"
          /\ pending' = InsertSeq(pending, FrontSlot(pending), <<cur>>)
          /\ UNCHANGED <<sent, interjections, answered, doomed, rewound>>
        BY <1>6 DEF Fallback, outVars
    <2>2. <<cur>> \in Seq(Ids) /\ Elems(<<cur>>) = {cur}
        BY <2>1, IdsMembers, SingleQueue DEF CurKnown
    <2>3. Elems(pending') = Elems(pending) \cup {cur}
        <3>1. Elems(pending') = Elems(pending) \cup Elems(<<cur>>)
            BY <1>b, <2>1, <2>2, SlotInQueue, InsertSeqElems
        <3> QED BY <2>2, <3>1
    <2>4. Condemned' = Condemned
        BY <2>1 DEF Condemned
    <2> QED BY <2>1, <2>3, <2>4 DEF PlaceInv, Somewhere
<1>7. ASSUME Start PROVE PlaceInv'
    BY <1>7, <1>a DEF Start, Calm, queueVars, localVars, TypeOK, LoopType
<1>8. ASSUME NEW g \in Goals, GoalSummaryTurn(g) PROVE PlaceInv'
    <2>1. /\ pending' = Append(pending, g) /\ sent' = sent \cup {g} /\ Loop
          /\ UNCHANGED <<interjections, answered, doomed, rewound>>
        BY <1>8 DEF GoalSummaryTurn, Ready, localVars, outVars
    <2>2. Elems(pending') = Elems(pending) \cup {g}
        BY <1>b, <2>1, IdsMembers, AppendElems
    <2> QED BY <1>b, <2>1, <2>2, PlaceStill
<1>9. ASSUME NEW u \in Users, RemoveQueuedPrompt(u) PROVE PlaceInv'
    <2>1. /\ pending' = Keep(pending, Ids \ {u}) /\ u \in Ids
          /\ answered' = [answered EXCEPT ![u] = "removed"]
          /\ UNCHANGED <<sent, interjections, doomed, rewound, pc, cur>>
        BY <1>9, IdsMembers DEF RemoveQueuedPrompt, localVars
    <2>2. Elems(pending') = Elems(pending) \cap (Ids \ {u}) /\ Condemned' = Condemned
        BY <1>b, <2>1, KeepElems DEF Condemned
    <2>3. \A p \in Ids : answered[p] # "open" \/ p = u => answered'[p] # "open"
        BY <1>b, <2>1
    <2>4. ASSUME NEW p \in sent \cap Held, Somewhere(p) PROVE Somewhere(p)'
        BY <1>b, <2>1, <2>2, <2>3, <2>4 DEF Somewhere
    <2> QED BY <2>1, <2>4 DEF PlaceInv
<1>10. ASSUME NEW c \in Clients \cup {None}, ClearQueue(c) PROVE PlaceInv'
    <2>1. /\ pending' = Keep(pending, Ids \ Cleared(c))
          /\ answered' = [p \in Ids |-> IF p \in Cleared(c) THEN "removed" ELSE answered[p]]
          /\ UNCHANGED <<sent, interjections, doomed, rewound, pc, cur>>
        BY <1>10 DEF ClearQueue, localVars
    <2>2. Elems(pending') = Elems(pending) \cap (Ids \ Cleared(c)) /\ Condemned' = Condemned
        BY <1>b, <2>1, KeepElems DEF Condemned
    <2>3. \A p \in Ids : answered[p] # "open" \/ p \in Cleared(c) => answered'[p] # "open"
        BY <1>b, <2>1
    <2>4. ASSUME NEW p \in sent \cap Held, Somewhere(p) PROVE Somewhere(p)'
        BY <1>b, <2>1, <2>2, <2>3, <2>4 DEF Somewhere
    <2> QED BY <2>1, <2>4 DEF PlaceInv
<1>11. ASSUME NEW order \in Seq(Ids), ReorderQueue(order) PROVE PlaceInv'
    <2> DEFINE rows == {u \in Users : u \in Elems(pending) /\ u # running}
               old == Keep(pending, Ids \ rows)
               new == Keep(order, rows)
               rest == Keep(pending, rows \ Elems(order))
               front == old \o new
    <2>1. /\ pending' = front \o rest /\ Loop
          /\ UNCHANGED <<sent, answered, doomed, rewound, interjections>>
        BY <1>11 DEF ReorderQueue, Reordered, localVars, outVars
    <2>2. rows \subseteq Elems(pending)
        OBVIOUS
    <2> HIDE DEF rows
    <2>3. old \in Seq(Ids) /\ new \in Seq(Ids) /\ rest \in Seq(Ids)
        BY <1>b, KeepByRank
    <2>4. /\ Elems(old) = Elems(pending) \cap (Ids \ rows)
          /\ Elems(new) = Elems(order) \cap rows
          /\ Elems(rest) = Elems(pending) \cap (rows \ Elems(order))
        BY <1>b, KeepElems
    <2> HIDE DEF old, new, rest
    <2>5. front \in Seq(Ids) /\ Elems(front) = Elems(old) \cup Elems(new)
        BY <2>3, ConcatElems, ConcatProperties
    <2> HIDE DEF front
    <2>6. Elems(front \o rest) = Elems(front) \cup Elems(rest)
        BY <2>3, <2>5, ConcatElems
    <2>7. Elems(pending) \subseteq Elems(pending')
        BY <1>b, <2>1, <2>2, <2>4, <2>5, <2>6
    <2> QED BY <2>1, <2>7, PlaceStill
<1>12. ASSUME NEW u \in Users, EditQueuedPrompt(u) PROVE PlaceInv'
    BY <1>12, <1>a DEF EditQueuedPrompt, Calm, localVars, outVars
<1>13. ASSUME NEW u \in Users, NEW edit \in BOOLEAN, InterjectQueuedPrompt(u, edit)
      PROVE  PlaceInv'
    <2> DEFINE q == Keep(pending, Ids \ {u})
    <2>1. /\ pending' = InsertSeq(q, NowSlot(q), <<u>>) /\ u \in Ids
          /\ pc = "top" /\ pc' \in {"cancel", "start"}
          /\ UNCHANGED <<sent, answered, doomed, rewound, interjections>>
        BY <1>13, IdsMembers DEF InterjectQueuedPrompt, Ready, outVars
    <2>2. q \in Seq(Ids) /\ Elems(q) = Elems(pending) \cap (Ids \ {u})
        BY <1>b, KeepByRank, KeepElems
    <2> HIDE DEF q
    <2>3. <<u>> \in Seq(Ids) /\ Elems(<<u>>) = {u}
        BY <2>1, SingleQueue
    <2>4. Elems(pending') = Elems(q) \cup {u}
        <3>1. Elems(pending') = Elems(q) \cup Elems(<<u>>)
            BY <2>1, <2>2, <2>3, SlotInQueue, InsertSeqElems
        <3> QED BY <2>3, <3>1
    <2> QED BY <1>b, <2>1, <2>2, <2>4, PlaceStill
<1>14. ASSUME NEW rewind \in BOOLEAN, NEW kill \in BOOLEAN, Cancel(rewind, kill)
      PROVE  PlaceInv'
    BY <1>14, <1>a DEF Cancel, Ready, Calm, queueVars, outVars
<1>15. ASSUME NEW t \in Monitors, InjectNotification(t) PROVE PlaceInv'
    BY <1>15, <1>a DEF InjectNotification, Ready, Calm, queueVars, localVars, outVars
<1>16. ASSUME Shutdown PROVE PlaceInv'
    BY <1>16 DEF Shutdown, PlaceInv, localVars
<1>17. ASSUME ShutdownEnd PROVE PlaceInv'
    BY <1>17 DEF ShutdownEnd, PlaceInv, localVars
<1>18. ASSUME CancelBegin PROVE PlaceInv'
    <2>1. /\ pc = "cancel" /\ pc' = "cancel_lock"
          /\ answered' = [p \in Ids |-> IF p \in Elems(interjections) THEN "cleared" ELSE answered[p]]
          /\ UNCHANGED <<pending, sent, doomed, rewound>>
        BY <1>18 DEF CancelBegin, queueVars
    <2>2. \A p \in Ids : answered[p] # "open" \/ p \in Elems(interjections) => answered'[p] # "open"
        BY <2>1
    <2>3. ASSUME NEW p \in sent \cap Held, Somewhere(p) PROVE Somewhere(p)'
        BY <1>b, <2>1, <2>2, <2>3 DEF Somewhere, Condemned
    <2> QED BY <2>1, <2>3 DEF PlaceInv
<1>19. ASSUME CancelLock PROVE PlaceInv'
    <2>1. /\ pc = "cancel_lock" /\ pc' = "cancel_gate"
          /\ UNCHANGED <<interjections, sent, answered>>
        BY <1>19 DEF CancelLock, outVars
    <2>2. \/ pending # <<>> /\ rewound' = Head(pending) /\ pending' = Tail(pending) /\ doomed' = <<>>
          \/ pending # <<>> /\ rewound' = None /\ pending' = Tail(pending) /\ doomed' = <<Head(pending)>>
          \/ rewound' = None /\ doomed' = pending
        BY <1>19 DEF CancelLock
    <2>3. Condemned = {}
        BY <2>1 DEF OnceInv, DoomedOnce, CancelPCs
    <2>4. Elems(pending) \subseteq Elems(pending') \cup Condemned'
        <3>1. CASE pending # <<>> /\ pending' = Tail(pending)
            <4>1. /\ Elems(Tail(pending)) = Elems(pending) \ {Head(pending)}
                  /\ Head(pending) \in Ids
                BY <1>b, <3>1, TailElems
            <4>2. Elems(<<Head(pending)>>) = {Head(pending)}
                BY <4>1, SingleQueue
            <4> QED BY <1>b, <2>2, <3>1, <4>1, <4>2 DEF Condemned
        <3>2. CASE doomed' = pending
            BY <3>2 DEF Condemned
        <3> QED BY <2>2, <3>1, <3>2
    <2>5. ASSUME NEW p \in sent \cap Held, Somewhere(p) PROVE Somewhere(p)'
        BY <2>1, <2>3, <2>4, <2>5 DEF Somewhere
    <2> QED BY <2>1, <2>2, <2>5 DEF PlaceInv
<1>20. ASSUME CancelGate \/ CancelAbort \/ CancelUnpin PROVE PlaceInv'
    BY <1>20, <1>a DEF CancelGate, CancelAbort, AbortVictim, CancelUnpin, Calm, queueVars,
        localVars, outVars
<1>23. ASSUME CancelAnswer PROVE PlaceInv'
    <2>1. /\ pc = "cancel_answer" /\ pc' = "start" /\ rewound' = None
          /\ UNCHANGED <<pending, interjections, sent>>
        BY <1>23 DEF CancelAnswer, queueVars
    <2>2. \A p \in Ids : answered[p] # "open" \/ p \in Condemned => answered'[p] # "open"
        <3>1. CASE rewound # None
            <4>1. answered' = [answered EXCEPT ![rewound] = "rewound"] /\ rewound \in Ids
                BY <1>23, <3>1 DEF CancelAnswer, TypeOK, LocalType
            <4>2. Condemned = {rewound}
                BY <3>1, EmptyQueue DEF PlaceInv, Condemned
            <4> QED BY <1>b, <4>1, <4>2
        <3>2. CASE rewound = None
            <4>1. answered' = [p \in Ids |-> IF p \in Elems(doomed) THEN "cancelled" ELSE answered[p]]
                BY <1>23, <3>2 DEF CancelAnswer
            <4>2. Condemned = Elems(doomed)
                BY <3>2 DEF Condemned
            <4> QED BY <4>1, <4>2
        <3> QED BY <3>1, <3>2
    <2>3. ASSUME NEW p \in sent \cap Held, Somewhere(p) PROVE Somewhere(p)'
        BY <1>b, <2>1, <2>2, <2>3 DEF Somewhere
    <2> QED BY <2>1, <2>3 DEF PlaceInv
<1>24. ASSUME Completion \/ CompleteGate \/ CompleteEmit PROVE PlaceInv'
    BY <1>24, <1>a DEF Completion, CompleteGate, CompleteEmit, Calm, queueVars, localVars, outVars
<1>26. ASSUME CompleteLock PROVE PlaceInv'
    <2>1. /\ pc = "complete_lock" /\ pc' = "complete_emit"
          /\ UNCHANGED <<interjections, sent, doomed, rewound>>
        BY <1>26 DEF CompleteLock
    <2>2. CASE ~Owns(cur)
        <3>1. Calm /\ Loop
            BY <1>26, <2>1, <2>2 DEF CompleteLock, Calm
        <3> QED BY <1>a, <3>1
    <2>3. CASE Owns(cur)
        <3>1. /\ pending # <<>> /\ pending' = Tail(pending)
              /\ answered' = [answered EXCEPT ![Head(pending)] = "turn"]
            BY <1>26, <2>3 DEF CompleteLock, Owns
        <3>2. Elems(pending') = Elems(pending) \ {Head(pending)} /\ Head(pending) \in Ids
            BY <1>b, <3>1, TailElems
        <3>3. \A p \in Ids : answered[p] # "open" \/ p = Head(pending) => answered'[p] # "open"
            BY <1>b, <3>1, <3>2
        <3>4. ASSUME NEW p \in sent \cap Held, Somewhere(p) PROVE Somewhere(p)'
            BY <1>b, <2>1, <3>2, <3>3, <3>4 DEF Somewhere, Condemned
        <3> QED BY <2>1, <3>4 DEF PlaceInv
    <2> QED BY <2>2, <2>3
<1>28. ASSUME TurnEnd PROVE PlaceInv'
    <2>1. Loop /\ UNCHANGED <<interjections, answered, doomed, rewound>>
        BY <1>28 DEF TurnEnd, localVars, outVars
    <2>2. CASE QueueContinuation
        <3>1. PICK g \in Goals \ sent : pending' = Append(pending, g) /\ sent' = sent \cup {g}
            BY <2>2 DEF QueueContinuation
        <3>2. Elems(pending') = Elems(pending) \cup {g}
            BY <1>b, <3>1, IdsMembers, AppendElems
        <3> QED BY <1>b, <2>1, <3>1, <3>2, PlaceStill
    <2>3. CASE UNCHANGED <<pending, sent>>
        BY <1>a, <2>1, <2>3 DEF Calm
    <2> QED BY <1>28, <2>2, <2>3 DEF TurnEnd
<1>29. ASSUME Flush PROVE PlaceInv'
    <2>1. /\ pc = "flush" /\ pc' = "start"
          /\ pending' = InsertSeq(pending, FrontSlot(pending), interjections)
          /\ UNCHANGED <<sent, answered, doomed, rewound>>
        BY <1>29 DEF Flush, FlushTo, localVars, outVars
    <2>2. Elems(pending') = Elems(pending) \cup Elems(interjections)
        BY <1>b, <2>1, SlotInQueue, InsertSeqElems
    <2>3. Condemned' = Condemned
        BY <2>1 DEF Condemned
    <2> QED BY <2>1, <2>2, <2>3 DEF PlaceInv, Somewhere
<1>30. ASSUME Drain PROVE PlaceInv'
    <2>1. Loop /\ UNCHANGED <<interjections, answered, doomed, rewound>>
        BY <1>30 DEF Drain, localVars, outVars
    <2>2. \/ UNCHANGED <<pending, sent>>
          \/ \E b \in Batches \ sent : pending' = Append(pending, b) /\ sent' = sent \cup {b}
        BY <1>30 DEF Drain
    <2>3. CASE UNCHANGED <<pending, sent>>
        BY <1>a, <2>1, <2>3 DEF Calm
    <2>4. CASE \E b \in Batches \ sent : pending' = Append(pending, b) /\ sent' = sent \cup {b}
        <3>1. PICK b \in Batches \ sent : pending' = Append(pending, b) /\ sent' = sent \cup {b}
            BY <2>4
        <3>2. Elems(pending') = Elems(pending) \cup {b}
            BY <1>b, <3>1, IdsMembers, AppendElems
        <3> QED BY <1>b, <2>1, <3>1, <3>2, PlaceStill
    <2> QED BY <2>2, <2>3, <2>4
<1>31. ASSUME McpRelease \/ CloseRewindWindow PROVE PlaceInv'
    BY <1>31, <1>a DEF McpRelease, CloseRewindWindow, Calm, queueVars, localVars, outVars
<1>32. ASSUME NEW p \in Plans, PlanEnqueue(p) PROVE PlaceInv'
    <2>1. /\ Loop /\ UNCHANGED <<interjections, answered, doomed, rewound>>
          /\ pending' = Append(pending, p) /\ sent' = sent \cup {p}
        BY <1>32 DEF PlanEnqueue, localVars, outVars
    <2>2. Elems(pending') = Elems(pending) \cup {p}
        BY <1>b, <2>1, IdsMembers, AppendElems
    <2> QED BY <1>b, <2>1, <2>2, PlaceStill
<1>33. ASSUME NEW p \in Plans, PlanStart(p) PROVE PlaceInv'
    BY <1>33, <1>a DEF PlanStart, Calm, queueVars, localVars
<1>35. ASSUME NEW t \in Ids, TurnProgress(t) \/ WaitGuardDrop(t) \/ TaskDropped(t)
      PROVE  PlaceInv'
    BY <1>35, <1>a DEF TurnProgress, TurnBegin, TurnIndex, TurnReady, TurnUnpin, TurnFinish,
        TurnPauseGoal, TurnClearGoal, Finish, WaitGuardDrop, LeaveWait, TaskDropped, Calm,
        queueVars, localVars, outVars
<1>38. ASSUME NEW t \in Ids,
              TurnGoalRound(t) \/ TurnSetGoal(t) \/ TurnEnterWait(t) \/ InjectMonitorEvents(t)
      PROVE  PlaceInv'
    BY <1>38, <1>a DEF TurnGoalRound, TurnSetGoal, TurnEnterWait, InjectMonitorEvents, Calm,
        queueVars, localVars, outVars
<1>42. ASSUME NEW t \in Ids, NEW C \in SUBSET Tasks, TurnToolResult(t, C) PROVE PlaceInv'
    <2>1. /\ pending' = Sweep(pending, C) /\ Loop
          /\ UNCHANGED <<sent, answered, doomed, rewound, interjections>>
        BY <1>42 DEF TurnToolResult, DropConsumed, localVars, outVars
    <2>2. Elems(pending') = Elems(pending) \cap (Ids \ (C \ {running}))
        BY <1>b, <2>1, KeepElems DEF Sweep
    <2> QED BY <1>b, <2>1, <2>2, PlaceStill
<1>43. ASSUME NEW t \in Ids, DrainInterjections(t) PROVE PlaceInv'
    <2>1. /\ answered' = [p \in Ids |-> IF p \in Elems(interjections) THEN "merged" ELSE answered[p]]
          /\ UNCHANGED <<pc, cur, pending, sent, doomed, rewound>>
        BY <1>43 DEF DrainInterjections, Merge, queueVars, localVars
    <2>2. \A p \in Ids : answered[p] # "open" \/ p \in Elems(interjections) => answered'[p] # "open"
        BY <2>1
    <2>3. ASSUME NEW p \in sent \cap Held, Somewhere(p) PROVE Somewhere(p)'
        BY <1>b, <2>1, <2>2, <2>3 DEF Somewhere, Condemned
    <2> QED BY <2>1, <2>3 DEF PlaceInv
<1>48. ASSUME UNCHANGED vars PROVE PlaceInv'
    BY <1>48, <1>a DEF vars, Calm, queueVars, localVars, outVars
<1>49. ASSUME Command PROVE PlaceInv'
    BY <1>49, ReorderRequest, <1>2, <1>3, <1>5, <1>8, <1>9, <1>10, <1>11, <1>12, <1>13,
        <1>14, <1>15, <1>16
    DEF Command
<1>50. ASSUME LoopStep PROVE PlaceInv'
    BY <1>50, <1>4, <1>6, <1>7, <1>18, <1>19, <1>20, <1>23, <1>24, <1>26, <1>28, <1>29,
        <1>30, <1>17
    DEF LoopStep
<1>51. ASSUME NEW t \in Ids, TurnWork(t) PROVE PlaceInv'
    BY <1>51, <1>38, <1>42, <1>43 DEF TurnWork
<1> QED BY <1>1, <1>31, <1>32, <1>33, <1>35, <1>48, <1>49, <1>50, <1>51 DEF Next

-------------------------------------------------------------------------------
(* The theorems *)

\* The invariant of the proofs: types, the slot, the places, the turns.
SessionInv ==
    /\ TypeOK /\ CurKnown /\ FrontIsRunning
    /\ OnceInv /\ TurnInv /\ PlaceInv

\* Initially there is no prompt.
LEMMA SessionInit == Init => SessionInv
<1> SUFFICES ASSUME Init PROVE SessionInv
    OBVIOUS
<1>1. TypeOK /\ CurKnown /\ FrontIsRunning
    BY InitInv
<1>2. /\ pending = <<>> /\ interjections = <<>> /\ completions = <<>> /\ doomed = <<>>
      /\ rewound = None /\ pc = "top" /\ sent = {}
      /\ task = [p \in Ids |-> "none"] /\ answered = [p \in Ids |-> "open"]
    BY DEF Init
<1>3. OnceInv
    BY <1>2, EmptyQueue DEF OnceInv, QueueOnce, SteerOnce, CurOnce, DoomedOnce, SentOnce,
        Condemned, Placing
<1>4. TurnInv
    BY <1>2, EmptyQueue DEF TurnInv, EndedOnce, LiveTurns, Live
<1>5. PlaceInv
    BY <1>2 DEF PlaceInv
<1> QED BY <1>1, <1>3, <1>4, <1>5 DEF SessionInv

\* Every step preserves all of it.
LEMMA SessionStep == SessionInv /\ [Next]_vars => SessionInv'
BY TypeStep, CurStep, FrontStep, OnceStep, TurnStep, PlaceStep DEF SessionInv

\* No prompt is queued twice, and the only queued prompt with a turn is the running one: no
\* promoter, of the run loop, the MCP task or a plan's resumption, spawns a second turn for it.
THEOREM SpawnedOnceCorrect == Spec => []SpawnedOnce
<1>1. SessionInv => SpawnedOnce
    BY DEF SessionInv, OnceInv, QueueOnce, SpawnedOnce
<1> QED BY <1>1, SessionInit, SessionStep, PTL DEF Spec

\* Besides the running turn nothing executes but the turn a cancel is about to abort.
THEOREM LiveTurnsCorrect == Spec => []LiveTurns
<1>1. SessionInv => LiveTurns
    BY DEF SessionInv, TurnInv
<1> QED BY <1>1, SessionInit, SessionStep, PTL DEF Spec

\* Until shutdown, a prompt or an interjection of a client is in exactly one place, or it is
\* answered: no race of the run loop, the turns and the clients loses or duplicates it.
THEOREM AccountedCorrect == Spec => []Accounted
<1>1. SessionInv => Accounted
    <2> SUFFICES ASSUME SessionInv, ~Stopping, NEW p \in sent \cap (Users \cup Steers)
                 PROVE  Cardinality({i \in 1..5 : Places(p)[i]}) = 1
        BY DEF Accounted
    <2> DEFINE D == {i \in 1..5 : Places(p)[i]}
    <2>1. /\ Places(p)[1] <=> cur = p /\ pc \in Placing
          /\ Places(p)[2] <=> p \in Elems(pending)
          /\ Places(p)[3] <=> p \in Elems(interjections)
          /\ Places(p)[4] <=> p \in Elems(doomed) \/ rewound = p
          /\ Places(p)[5] <=> answered[p] # "open"
        BY DEF Places, Placing
    <2>2. p \in Ids /\ None \notin Ids /\ Somewhere(p)
        BY IdsMembers, IdsAssumption DEF SessionInv, PlaceInv, Held
    <2>3. Places(p)[4] <=> p \in Condemned
        BY <2>1, <2>2 DEF Condemned
    <2>4. \E k \in 1..5 : Places(p)[k]
        BY <2>1, <2>2, <2>3 DEF Somewhere
    <2>5. PICK k \in 1..5 : Places(p)[k]
        BY <2>4
    <2>6. /\ Places(p)[1] => ~Places(p)[2] /\ ~Places(p)[3] /\ ~Places(p)[4] /\ ~Places(p)[5]
          /\ Places(p)[2] => ~Places(p)[3] /\ ~Places(p)[4] /\ ~Places(p)[5]
          /\ Places(p)[3] => ~Places(p)[4] /\ ~Places(p)[5]
          /\ Places(p)[4] => ~Places(p)[5]
        BY <2>1, <2>3 DEF SessionInv, OnceInv, QueueOnce, SteerOnce, CurOnce, DoomedOnce,
            Fresh, Open, Placing, CancelPCs
    <2>7. \A i, j \in 1..5 : Places(p)[i] /\ Places(p)[j] => i = j
        <3>1. \A i \in 1..5 : i = 1 \/ i = 2 \/ i = 3 \/ i = 4 \/ i = 5
            OBVIOUS
        <3> QED BY <2>6, <3>1
    <2>8. D = {k}
        BY <2>5, <2>7
    <2> QED BY <2>8, FS_Singleton
<1> QED BY <1>1, SessionInit, SessionStep, PTL DEF Spec

\* What a step may do to the answers: an answer is final, and a turn's result comes from a
\* turn that has ended.
AnswerOnce ==
    \A p \in Ids :
        /\ answered[p] # "open" => answered'[p] = answered[p]
        /\ answered[p] = "open" /\ answered'[p] = "turn" => task[p] = "ended"

\* A step gives answers to open prompts only: it takes them from a place where prompts are open.
LEMMA AnswerStep ==
    ASSUME SessionInv, [Next]_vars
    PROVE  AnswerOnce
<1>a. answered' = answered => AnswerOnce
    BY DEF AnswerOnce
<1>b. /\ TypeOK /\ CurKnown /\ OnceInv /\ TurnInv /\ answered \in [Ids -> Answers]
      /\ pending \in Seq(Ids)
    BY DEF SessionInv, TypeOK, OutType, QueueType
<1>1. ASSUME NEW u \in Users, RemoveQueuedPrompt(u) PROVE AnswerOnce
    <2>1. answered' = [answered EXCEPT ![u] = "removed"] /\ answered[u] = "open"
        BY <1>1, <1>b DEF RemoveQueuedPrompt, Editable, OnceInv, QueueOnce, Open
    <2> QED BY <1>b, <2>1 DEF AnswerOnce
<1>2. ASSUME NEW c \in Clients \cup {None}, ClearQueue(c) PROVE AnswerOnce
    <2>1. /\ answered' = [p \in Ids |-> IF p \in Cleared(c) THEN "removed" ELSE answered[p]]
          /\ \A p \in Cleared(c) : answered[p] = "open"
        BY <1>2, <1>b DEF ClearQueue, Cleared, Editable, OnceInv, QueueOnce, Open
    <2> QED BY <1>b, <2>1 DEF AnswerOnce
<1>3. ASSUME CancelBegin PROVE AnswerOnce
    <2>1. /\ answered' = [p \in Ids |-> IF p \in Elems(interjections) THEN "cleared" ELSE answered[p]]
          /\ \A p \in Elems(interjections) : answered[p] = "open"
        BY <1>3, <1>b DEF CancelBegin, OnceInv, SteerOnce, Fresh, Open
    <2> QED BY <1>b, <2>1 DEF AnswerOnce
<1>4. ASSUME NEW t \in Ids, DrainInterjections(t) PROVE AnswerOnce
    <2>1. /\ answered' = [p \in Ids |-> IF p \in Elems(interjections) THEN "merged" ELSE answered[p]]
          /\ \A p \in Elems(interjections) : answered[p] = "open"
        BY <1>4, <1>b DEF DrainInterjections, Merge, OnceInv, SteerOnce, Fresh, Open
    <2> QED BY <1>b, <2>1 DEF AnswerOnce
<1>5. ASSUME CancelAnswer PROVE AnswerOnce
    <2>1. \A p \in Condemned : answered[p] = "open"
        BY <1>b DEF OnceInv, DoomedOnce, Open
    <2>2. CASE rewound # None
        BY <1>5, <1>b, <2>1, <2>2 DEF CancelAnswer, AnswerOnce, Condemned
    <2>3. CASE rewound = None
        BY <1>5, <1>b, <2>1, <2>3 DEF CancelAnswer, AnswerOnce, Condemned
    <2> QED BY <2>2, <2>3
<1>6. ASSUME CompleteLock PROVE AnswerOnce
    <2>1. CASE ~Owns(cur)
        BY <1>6, <1>a, <2>1 DEF CompleteLock
    <2>2. CASE Owns(cur)
        <3>1. /\ answered' = [answered EXCEPT ![cur] = "turn"] /\ pending # <<>>
              /\ Head(pending) = cur /\ pc = "complete_lock"
            BY <1>6, <2>2 DEF CompleteLock, Owns
        <3>2. cur \in Elems(pending)
            BY <1>b, <3>1, TailSubset
        <3>3. answered[cur] = "open" /\ task[cur] = "ended"
            BY <1>b, <3>1, <3>2 DEF OnceInv, QueueOnce, Open, TurnInv, EndedOnce
        <3> QED BY <1>b, <3>1, <3>3 DEF AnswerOnce
    <2> QED BY <2>1, <2>2
<1>7. ASSUME Command PROVE AnswerOnce
    <2>1. \/ answered' = answered
          \/ \E u \in Users : RemoveQueuedPrompt(u)
          \/ \E c \in Clients \cup {None} : ClearQueue(c)
        BY <1>7 DEF Command, Prompt, Interject, GoalSummaryTurn, ReorderQueue, EditQueuedPrompt,
            InterjectQueuedPrompt, Cancel, DropMonitorNotifications, InjectNotification,
            Shutdown, outVars
    <2> QED BY <1>a, <1>1, <1>2, <2>1
<1>8. ASSUME LoopStep PROVE AnswerOnce
    <2>1. answered' = answered \/ CancelBegin \/ CancelAnswer \/ CompleteLock
        BY <1>8 DEF LoopStep, Enqueue, Fallback, Start, CancelLock, CancelGate, CancelAbort,
            AbortVictim, CancelUnpin, Completion, CompleteGate, CompleteEmit, TurnEnd, Flush,
            FlushTo, Drain, ShutdownEnd, outVars
    <2> QED BY <1>a, <1>3, <1>5, <1>6, <2>1
<1>9. ASSUME NEW t \in Ids, TurnProgress(t) \/ TurnWork(t) \/ WaitGuardDrop(t) \/ TaskDropped(t)
      PROVE  AnswerOnce
    <2>1. answered' = answered \/ DrainInterjections(t)
        BY <1>9 DEF TurnProgress, TurnBegin, TurnIndex, TurnReady, TurnUnpin, TurnFinish,
            TurnPauseGoal, TurnClearGoal, Finish, TurnWork, TurnGoalRound, TurnSetGoal,
            TurnEnterWait, TurnToolResult, InjectMonitorEvents, WaitGuardDrop, LeaveWait,
            TaskDropped, outVars
    <2> QED BY <1>a, <1>4, <2>1
<1>10. ASSUME NEW p \in Plans, PlanEnqueue(p) \/ PlanStart(p) PROVE AnswerOnce
    BY <1>10, <1>a DEF PlanEnqueue, PlanStart, outVars
<1>11. ASSUME McpRelease \/ CloseRewindWindow PROVE AnswerOnce
    BY <1>11, <1>a DEF McpRelease, CloseRewindWindow, outVars
<1>12. ASSUME NEW t \in Tasks, NEW covered \in BOOLEAN, TaskCompleted(t, covered) PROVE AnswerOnce
    BY <1>12, <1>a DEF TaskCompleted, outVars
<1>13. ASSUME UNCHANGED vars PROVE AnswerOnce
    BY <1>13, <1>a DEF vars, outVars
<1> QED BY <1>7, <1>8, <1>9, <1>10, <1>11, <1>12, <1>13 DEF Next

\* A respond_to is resolved at most once, whoever races to answer the prompt.
THEOREM OneAnswerCorrect == Spec => OneAnswer
<1> DEFINE A == \A p \in Ids : answered[p] # "open" => answered'[p] = answered[p]
<1>1. SessionInv /\ [Next]_vars => [A]_vars
    BY AnswerStep DEF AnswerOnce
<1>2. Spec => [][A]_vars
    BY <1>1, SessionInit, SessionStep, PTL DEF Spec
<1> QED BY <1>2 DEF OneAnswer

\* handle_completion answers a prompt with the result of that prompt's own turn only, although
\* it pops whatever is in front: a stale completion never resolves another prompt.
THEOREM OwnTurnCorrect == Spec => AnsweredByOwnTurn
<1> DEFINE A == \A p \in Ids :
                    answered[p] = "open" /\ answered'[p] = "turn" => task[p] = "ended"
<1>1. SessionInv /\ [Next]_vars => [A]_vars
    BY AnswerStep DEF AnswerOnce
<1>2. Spec => [][A]_vars
    BY <1>1, SessionInit, SessionStep, PTL DEF Spec
<1> QED BY <1>2 DEF AnsweredByOwnTurn
================================================================================
