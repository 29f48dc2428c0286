-------------------------- MODULE SessionActorProofs --------------------------
(***************************************************************************)
(* Theorems about SessionActor, for any sets of prompts, any number of     *)
(* clients and any bounds.                                                 *)
(***************************************************************************)
EXTENDS SessionActor, QueueOpsProofs, SequenceTheorems, TLAPS

\* Where the run loop has a prompt in hand: the await points between taking a prompt from a
\* channel and storing it.
CurKnown ==
    /\ pc \in {"enqueue", "complete_gate", "complete_lock", "complete_emit"} => cur \in Ids
    /\ pc = "fallback" => cur \in Steers

\* The slot a send-now item may take is a position of the queue or its end.
LEMMA SlotInQueue ==
    ASSUME NEW q \in Seq(Ids)
    PROVE  /\ FrontSlot(q) \in 1..(Len(q) + 1)
           /\ NowSlot(q) \in FrontSlot(q)..(Len(q) + 1)
           /\ NowSlot(q) \in 1..(Len(q) + 1)
<1>1. FrontSlot(q) \in 1..(Len(q) + 1)
    BY DEF FrontSlot
<1>2. NowSlot(q) \in FrontSlot(q)..(Len(q) + 1)
    BY <1>1, SkipFromType DEF NowSlot
<1> QED BY <1>1, <1>2

\* A sweep returns a queue.
LEMMA SweepType ==
    ASSUME NEW q \in Seq(Ids), NEW S
    PROVE  Sweep(q, S) \in Seq(Ids)
BY KeepByRank DEF Sweep

\* So does a reordering.
LEMMA ReorderedType ==
    ASSUME NEW q \in Seq(Ids), NEW order \in Seq(Ids)
    PROVE  Reordered(q, order) \in Seq(Ids)
<1> DEFINE rows == {u \in Users : u \in Elems(q) /\ u # running}
<1>1. /\ Keep(q, Ids \ rows) \in Seq(Ids)
      /\ Keep(order, rows) \in Seq(Ids)
      /\ Keep(q, rows \ Elems(order)) \in Seq(Ids)
    BY KeepByRank
<1> HIDE DEF rows
<1>2. Reordered(q, order)
        = Keep(q, Ids \ rows) \o Keep(order, rows) \o Keep(q, rows \ Elems(order))
    BY DEF Reordered, rows
<1> QED BY <1>1, <1>2, ConcatProperties

\* A capped notification queue is a notification queue.
LEMMA CappedType ==
    ASSUME NEW q \in Seq(Tasks)
    PROVE  Capped(q) \in Seq(Tasks)
<1>1. NotificationCap \in Nat \ {0}
    BY BoundsAssumption
<1>2. CASE Len(q) > NotificationCap
    <2>1. SubSeq(q, Len(q) - NotificationCap + 1, Len(q)) \in Seq(Tasks)
        BY <1>1, <1>2, SubSeqProperties
    <2> QED BY <1>2, <2>1 DEF Capped
<1>3. CASE ~(Len(q) > NotificationCap)
    BY <1>3 DEF Capped
<1> QED BY <1>2, <1>3

\* Promotion keeps the slot and the tasks well-typed.
LEMMA PromoteType ==
    ASSUME TypeOK, Promote
    PROVE  /\ running' \in Ids \cup {None} /\ pin' \in Ids \cup {None}
           /\ rewindable' \in BOOLEAN
           /\ task' \in [Ids -> TaskStates]
           /\ ran' \in [Users -> 0..MaxVersion]
<1>1. CASE CanPromote
    <2>1. Head(pending) \in Ids
        BY <1>1 DEF TypeOK, QueueType, CanPromote
    <2> QED BY <1>1, <2>1 DEF TypeOK, QueueType, SlotType, TaskType, OutType, Promote, TaskStates
<1>2. CASE ~CanPromote
    BY <1>2 DEF TypeOK, SlotType, TaskType, OutType, Promote, slotVars
<1> QED BY <1>1, <1>2

\* An abort leaves every task in a known state.
LEMMA AbortedType ==
    ASSUME TypeOK, NEW p
    PROVE  Aborted(p) \in [Ids -> TaskStates]
BY DEF TypeOK, TaskType, Aborted, TaskStates

\* The kinds of prompts are prompts.
LEMMA IdsMembers ==
    /\ Users \subseteq Ids /\ Steers \subseteq Ids /\ Synthetic \subseteq Ids
    /\ Tasks \subseteq Ids /\ Plans \subseteq Ids /\ Goals \subseteq Ids
    /\ Batches \subseteq Ids /\ Crons \subseteq Ids
    /\ Monitors \subseteq Tasks
BY BoundsAssumption DEF Ids, Synthetic

\* A group of variables that a step leaves alone keeps its type.
LEMMA TypeFrame ==
    ASSUME TypeOK
    PROVE  /\ UNCHANGED queueVars => QueueType'
           /\ UNCHANGED slotVars => SlotType'
           /\ UNCHANGED noteVars => NoteType'
           /\ UNCHANGED waitVars => WaitType'
           /\ UNCHANGED goalVars => GoalType'
           /\ UNCHANGED wakeVars => WakeType'
           /\ UNCHANGED taskVars => TaskType'
           /\ UNCHANGED otherVars => OtherType'
           /\ UNCHANGED localVars => LocalType'
           /\ pc' = pc /\ after' = after => LoopType'
           /\ UNCHANGED outVars => OutType'
           /\ UNCHANGED boundVars => BoundType'
           /\ UNCHANGED interjections => interjections' \in Seq(Steers)
           /\ UNCHANGED sent => sent' \in SUBSET Ids
<1>1. UNCHANGED queueVars => QueueType'
    BY DEF TypeOK, QueueType, queueVars
<1>2. UNCHANGED slotVars => SlotType'
    BY DEF TypeOK, SlotType, slotVars
<1>3. UNCHANGED noteVars => NoteType'
    BY DEF TypeOK, NoteType, noteVars
<1>4. UNCHANGED waitVars => WaitType'
    BY DEF TypeOK, WaitType, waitVars
<1>5. UNCHANGED goalVars => GoalType'
    BY DEF TypeOK, GoalType, goalVars
<1>6. UNCHANGED wakeVars => WakeType'
    BY DEF TypeOK, WakeType, wakeVars
<1>7. UNCHANGED taskVars => TaskType'
    BY DEF TypeOK, TaskType, taskVars
<1>8. UNCHANGED otherVars => OtherType'
    BY DEF TypeOK, OtherType, otherVars
<1>9. UNCHANGED localVars => LocalType'
    BY DEF TypeOK, LocalType, localVars
<1>10. UNCHANGED outVars => OutType'
    BY DEF TypeOK, OutType, outVars
<1>11. UNCHANGED boundVars => BoundType'
    BY DEF TypeOK, BoundType, boundVars
<1>12. pc' = pc /\ after' = after => LoopType'
    BY DEF TypeOK, LoopType
<1>13. UNCHANGED interjections => interjections' \in Seq(Steers)
    BY DEF TypeOK
<1>14. UNCHANGED sent => sent' \in SUBSET Ids
    BY DEF TypeOK
<1> QED BY <1>1, <1>2, <1>3, <1>4, <1>5, <1>6, <1>7, <1>8, <1>9, <1>10, <1>11, <1>12, <1>13, <1>14

\* The order a client asks for names queued prompts.
LEMMA ReorderRequest ==
    ASSUME NEW u \in Users, NEW v \in Users
    PROVE  (IF u = v THEN <<u>> ELSE <<u, v>>) \in Seq(Ids)
BY IdsMembers

\* queue_input sweeps the queue and inserts the prompt behind the running front.
LEMMA Enqueued ==
    ASSUME TypeOK, CurKnown, Enqueue
    PROVE  \E S : LET q == Sweep(pending, S) IN
              /\ q \in Seq(Ids) /\ <<cur>> \in Seq(Ids)
              /\ \E k \in FrontSlot(q)..(Len(q) + 1) :
                    k \in 1..(Len(q) + 1) /\ pending' = InsertSeq(q, k, <<cur>>)
<1> DEFINE S == IF cur \in Users THEN Preempted(pending) ELSE {}
           q == Sweep(pending, S)
           k == IF JumpsQueue(cur, q) THEN NowSlot(q) ELSE Len(q) + 1
<1>1. q \in Seq(Ids)
    BY SweepType DEF TypeOK, QueueType
<1>2. <<cur>> \in Seq(Ids)
    BY DEF CurKnown, Enqueue
<1>3. pending' = InsertSeq(q, k, <<cur>>)
    BY DEF Enqueue
<1>4. k \in FrontSlot(q)..(Len(q) + 1) /\ k \in 1..(Len(q) + 1)
    <2> HIDE DEF q
    <2> QED BY <1>1, SlotInQueue
<1> HIDE DEF q, k
<1>5. /\ q \in Seq(Ids) /\ <<cur>> \in Seq(Ids)
      /\ \E j \in FrontSlot(q)..(Len(q) + 1) :
            j \in 1..(Len(q) + 1) /\ pending' = InsertSeq(q, j, <<cur>>)
    BY <1>1, <1>2, <1>3, <1>4
<1> QED BY <1>5 DEF q

\* Every step preserves the types: one step per action, and under it one per group of
\* variables that the action changes.
LEMMA TypeStep ==
    ASSUME TypeOK, CurKnown, [Next]_vars
    PROVE  TypeOK'
<1>1. ASSUME NEW t \in Tasks, NEW covered \in BOOLEAN, TaskCompleted(t, covered)
      PROVE  TypeOK'
    <2>1. /\ QueueType' /\ SlotType' /\ NoteType' /\ WaitType' /\ GoalType' /\ TaskType'
          /\ OtherType' /\ LocalType' /\ OutType' /\ BoundType' /\ LoopType'
          /\ interjections' \in Seq(Steers) /\ sent' \in SUBSET Ids
        BY <1>1, TypeFrame DEF TaskCompleted
    <2>2. WakeType'
        BY <1>1 DEF TypeOK, WakeType, TaskCompleted
    <2> QED BY <2>1, <2>2 DEF TypeOK
<1>2. ASSUME NEW t \in Tasks, DropMonitorNotifications(t) PROVE TypeOK'
    <2>1. /\ QueueType' /\ SlotType' /\ WaitType' /\ GoalType' /\ TaskType' /\ OtherType'
          /\ LocalType' /\ OutType' /\ BoundType' /\ LoopType'
          /\ interjections' \in Seq(Steers) /\ sent' \in SUBSET Ids
        BY <1>2, TypeFrame DEF DropMonitorNotifications
    <2>2. NoteType'
        BY <1>2, KeepByRank DEF TypeOK, NoteType, DropMonitorNotifications
    <2>3. WakeType'
        BY <1>2 DEF TypeOK, WakeType, DropMonitorNotifications
    <2> QED BY <2>1, <2>2, <2>3 DEF TypeOK
<1>3. ASSUME NEW p \in Users \cup Tasks \cup Crons, NEW now \in BOOLEAN, Prompt(p, now)
      PROVE  TypeOK'
    <2>1. /\ QueueType' /\ SlotType' /\ WaitType' /\ GoalType' /\ TaskType' /\ OtherType'
          /\ OutType' /\ BoundType' /\ interjections' \in Seq(Steers)
        BY <1>3, TypeFrame DEF Prompt
    <2>2. NoteType'
        BY <1>3 DEF TypeOK, NoteType, Prompt
    <2>3. WakeType'
        BY <1>3 DEF TypeOK, WakeType, Prompt
    <2>4. LocalType'
        BY <1>3, IdsMembers DEF TypeOK, LocalType, Prompt, NoOpts
    <2>5. LoopType'
        BY <1>3 DEF TypeOK, LoopType, PCs, Prompt
    <2>6. sent' \in SUBSET Ids
        BY <1>3, IdsMembers DEF TypeOK, Prompt
    <2> QED BY <2>1, <2>2, <2>3, <2>4, <2>5, <2>6 DEF TypeOK
<1>4. ASSUME Enqueue PROVE TypeOK'
    <2>1. /\ SlotType' /\ NoteType' /\ WaitType' /\ GoalType' /\ TaskType' /\ OtherType'
          /\ OutType' /\ BoundType' /\ interjections' \in Seq(Steers)
          /\ sent' \in SUBSET Ids
        BY <1>4, TypeFrame DEF Enqueue
    <2>2. QueueType'
        <3>1. pending' \in Seq(Ids)
            BY <1>4, Enqueued, InsertSeqType
        <3>2. send_now' \in SUBSET Ids /\ version' \in [Users -> 0..MaxVersion]
            BY <1>4 DEF TypeOK, QueueType, CurKnown, Enqueue
        <3> QED BY <3>1, <3>2 DEF QueueType
    <2>3. WakeType'
        BY <1>4 DEF TypeOK, WakeType, Enqueue
    <2>4. LocalType'
        BY <1>4 DEF TypeOK, LocalType, Enqueue, JumpsQueue, NoOpts
    <2>5. LoopType'
        BY <1>4 DEF TypeOK, LoopType, PCs, Enqueue
    <2> QED BY <2>1, <2>2, <2>3, <2>4, <2>5 DEF TypeOK
<1>5. ASSUME NEW s \in Steers, Interject(s) PROVE TypeOK'
    <2>1. /\ QueueType' /\ SlotType' /\ NoteType' /\ WaitType' /\ GoalType' /\ WakeType'
          /\ TaskType' /\ OtherType' /\ OutType' /\ BoundType'
        BY <1>5, TypeFrame DEF Interject
    <2>2. LocalType'
        BY <1>5, IdsMembers DEF TypeOK, LocalType, Interject
    <2>3. LoopType'
        BY <1>5 DEF TypeOK, LoopType, PCs, Interject
    <2>4. interjections' \in Seq(Steers)
        BY <1>5 DEF TypeOK, Interject
    <2>5. sent' \in SUBSET Ids
        BY <1>5, IdsMembers DEF TypeOK, Interject
    <2> QED BY <2>1, <2>2, <2>3, <2>4, <2>5 DEF TypeOK
<1>6. ASSUME Fallback PROVE TypeOK'
    <2>1. /\ SlotType' /\ NoteType' /\ WaitType' /\ GoalType' /\ WakeType' /\ TaskType'
          /\ OtherType' /\ OutType' /\ BoundType' /\ interjections' \in Seq(Steers)
          /\ sent' \in SUBSET Ids
        BY <1>6, TypeFrame DEF Fallback
    <2>2. QueueType'
        <3>1. pending \in Seq(Ids) /\ <<cur>> \in Seq(Ids)
            BY <1>6, IdsMembers DEF TypeOK, QueueType, CurKnown, Fallback
        <3>2. pending' \in Seq(Ids)
            BY <1>6, <3>1, SlotInQueue, InsertSeqType DEF Fallback
        <3>3. send_now' \in SUBSET Ids /\ version' \in [Users -> 0..MaxVersion]
            BY <1>6, IdsMembers DEF TypeOK, QueueType, CurKnown, Fallback
        <3> QED BY <3>2, <3>3 DEF QueueType
    <2>3. LocalType'
        BY <1>6 DEF TypeOK, LocalType, Fallback
    <2>4. LoopType'
        BY <1>6 DEF TypeOK, LoopType, PCs, Fallback
    <2> QED BY <2>1, <2>2, <2>3, <2>4 DEF TypeOK
<1>7. ASSUME Start PROVE TypeOK'
    <2>1. /\ QueueType' /\ NoteType' /\ WaitType' /\ GoalType' /\ WakeType' /\ OtherType'
          /\ LocalType' /\ BoundType' /\ interjections' \in Seq(Steers)
          /\ sent' \in SUBSET Ids
        BY <1>7, TypeFrame DEF Start
    <2>2. SlotType'
        BY <1>7, PromoteType DEF TypeOK, SlotType, Start
    <2>3. TaskType'
        BY <1>7, PromoteType DEF TypeOK, TaskType, Start
    <2>4. OutType'
        BY <1>7, PromoteType DEF TypeOK, OutType, Start
    <2>5. LoopType'
        BY <1>7 DEF TypeOK, LoopType, PCs, Start
    <2> QED BY <2>1, <2>2, <2>3, <2>4, <2>5 DEF TypeOK
<1>8. ASSUME NEW g \in Goals, GoalSummaryTurn(g) PROVE TypeOK'
    <2>1. /\ SlotType' /\ NoteType' /\ WaitType' /\ GoalType' /\ WakeType' /\ TaskType'
          /\ OtherType' /\ LocalType' /\ OutType' /\ BoundType'
          /\ interjections' \in Seq(Steers)
        BY <1>8, TypeFrame DEF GoalSummaryTurn
    <2>2. QueueType'
        BY <1>8, IdsMembers DEF TypeOK, QueueType, GoalSummaryTurn
    <2>3. LoopType'
        BY <1>8 DEF TypeOK, LoopType, PCs, GoalSummaryTurn
    <2>4. sent' \in SUBSET Ids
        BY <1>8, IdsMembers DEF TypeOK, GoalSummaryTurn
    <2> QED BY <2>1, <2>2, <2>3, <2>4 DEF TypeOK
<1>9. ASSUME NEW u \in Users, RemoveQueuedPrompt(u) PROVE TypeOK'
    <2>1. /\ SlotType' /\ NoteType' /\ WaitType' /\ GoalType' /\ WakeType' /\ TaskType'
          /\ OtherType' /\ LocalType' /\ BoundType' /\ LoopType'
          /\ interjections' \in Seq(Steers) /\ sent' \in SUBSET Ids
        BY <1>9, TypeFrame DEF RemoveQueuedPrompt
    <2>2. QueueType'
        BY <1>9, KeepByRank DEF TypeOK, QueueType, RemoveQueuedPrompt
    <2>3. OutType'
        BY <1>9, IdsMembers DEF TypeOK, OutType, RemoveQueuedPrompt, Answers
    <2> QED BY <2>1, <2>2, <2>3 DEF TypeOK
<1>10. ASSUME NEW c \in Clients \cup {None}, ClearQueue(c) PROVE TypeOK'
    <2>1. /\ SlotType' /\ NoteType' /\ WaitType' /\ GoalType' /\ WakeType' /\ TaskType'
          /\ OtherType' /\ LocalType' /\ BoundType' /\ LoopType'
          /\ interjections' \in Seq(Steers) /\ sent' \in SUBSET Ids
        BY <1>10, TypeFrame DEF ClearQueue
    <2>2. QueueType'
        BY <1>10, KeepByRank DEF TypeOK, QueueType, ClearQueue
    <2>3. OutType'
        BY <1>10 DEF TypeOK, OutType, ClearQueue, Answers
    <2> QED BY <2>1, <2>2, <2>3 DEF TypeOK
<1>11. ASSUME NEW order \in Seq(Ids), ReorderQueue(order) PROVE TypeOK'
    <2>1. /\ SlotType' /\ NoteType' /\ WaitType' /\ GoalType' /\ WakeType' /\ TaskType'
          /\ OtherType' /\ LocalType' /\ OutType' /\ BoundType' /\ LoopType'
          /\ interjections' \in Seq(Steers) /\ sent' \in SUBSET Ids
        BY <1>11, TypeFrame DEF ReorderQueue
    <2>2. QueueType'
        BY <1>11, ReorderedType DEF TypeOK, QueueType, ReorderQueue
    <2> QED BY <2>1, <2>2 DEF TypeOK
<1>12. ASSUME NEW u \in Users, EditQueuedPrompt(u) PROVE TypeOK'
    <2>1. /\ SlotType' /\ NoteType' /\ WaitType' /\ GoalType' /\ WakeType' /\ TaskType'
          /\ OtherType' /\ LocalType' /\ OutType' /\ BoundType' /\ LoopType'
          /\ interjections' \in Seq(Steers) /\ sent' \in SUBSET Ids
        BY <1>12, TypeFrame DEF EditQueuedPrompt
    <2>2. QueueType'
        BY <1>12, BoundsAssumption DEF TypeOK, QueueType, EditQueuedPrompt
    <2> QED BY <2>1, <2>2 DEF TypeOK
<1>13. ASSUME NEW u \in Users, NEW edit \in BOOLEAN, InterjectQueuedPrompt(u, edit)
      PROVE  TypeOK'
    <2>1. /\ SlotType' /\ NoteType' /\ WaitType' /\ GoalType' /\ WakeType' /\ TaskType'
          /\ OtherType' /\ OutType' /\ BoundType' /\ interjections' \in Seq(Steers)
          /\ sent' \in SUBSET Ids
        BY <1>13, TypeFrame DEF InterjectQueuedPrompt
    <2>2. QueueType'
        <3> DEFINE q == Keep(pending, Ids \ {u})
        <3>1. q \in Seq(Ids) /\ <<u>> \in Seq(Ids)
            BY IdsMembers, KeepByRank DEF TypeOK, QueueType
        <3>2. pending' = InsertSeq(q, NowSlot(q), <<u>>)
            BY <1>13 DEF InterjectQueuedPrompt
        <3> HIDE DEF q
        <3>3. pending' \in Seq(Ids)
            BY <3>1, <3>2, SlotInQueue, InsertSeqType
        <3>4. send_now' \in SUBSET Ids /\ version' \in [Users -> 0..MaxVersion]
            BY <1>13, IdsMembers, BoundsAssumption DEF TypeOK, QueueType, InterjectQueuedPrompt
        <3> QED BY <3>3, <3>4 DEF QueueType
    <2>3. LocalType'
        BY <1>13 DEF TypeOK, LocalType, InterjectQueuedPrompt, NoOpts
    <2>4. LoopType'
        BY <1>13 DEF TypeOK, LoopType, PCs, InterjectQueuedPrompt
    <2> QED BY <2>1, <2>2, <2>3, <2>4 DEF TypeOK
<1>14. ASSUME NEW rewind \in BOOLEAN, NEW kill \in BOOLEAN, Cancel(rewind, kill)
      PROVE  TypeOK'
    <2>1. /\ QueueType' /\ SlotType' /\ NoteType' /\ WaitType' /\ GoalType' /\ WakeType'
          /\ TaskType' /\ OtherType' /\ OutType' /\ interjections' \in Seq(Steers)
          /\ sent' \in SUBSET Ids
        BY <1>14, TypeFrame DEF Cancel
    <2>2. LocalType'
        BY <1>14 DEF TypeOK, LocalType, Cancel, NoOpts
    <2>3. BoundType'
        BY <1>14, BoundsAssumption DEF TypeOK, BoundType, Cancel
    <2>4. LoopType'
        BY <1>14 DEF TypeOK, LoopType, PCs, Cancel
    <2> QED BY <2>1, <2>2, <2>3, <2>4 DEF TypeOK
<1>15. ASSUME NEW t \in Monitors, InjectNotification(t) PROVE TypeOK'
    <2>1. /\ QueueType' /\ SlotType' /\ WaitType' /\ GoalType' /\ WakeType' /\ TaskType'
          /\ OtherType' /\ LocalType' /\ OutType' /\ interjections' \in Seq(Steers)
          /\ sent' \in SUBSET Ids
        BY <1>15, TypeFrame DEF InjectNotification
    <2>2. NoteType'
        <3>1. Append(buffer, t) \in Seq(Tasks) /\ Append(notifs, t) \in Seq(Tasks)
            BY IdsMembers DEF TypeOK, NoteType
        <3>2. Capped(Append(buffer, t)) \in Seq(Tasks) /\ Capped(Append(notifs, t)) \in Seq(Tasks)
            BY <3>1, CappedType
        <3> QED BY <1>15, <3>2 DEF TypeOK, NoteType, InjectNotification
    <2>3. BoundType'
        BY <1>15, BoundsAssumption DEF TypeOK, BoundType, InjectNotification
    <2>4. LoopType'
        BY <1>15 DEF TypeOK, LoopType, PCs, InjectNotification
    <2> QED BY <2>1, <2>2, <2>3, <2>4 DEF TypeOK
<1>16. ASSUME Shutdown PROVE TypeOK'
    <2>1. /\ SlotType' /\ WaitType' /\ GoalType' /\ WakeType' /\ TaskType' /\ OtherType'
          /\ LocalType' /\ OutType' /\ BoundType' /\ interjections' \in Seq(Steers)
          /\ sent' \in SUBSET Ids
        BY <1>16, TypeFrame DEF Shutdown
    <2>2. QueueType'
        BY <1>16, KeepByRank DEF TypeOK, QueueType, Shutdown
    <2>3. NoteType'
        BY <1>16, KeepByRank DEF TypeOK, NoteType, Shutdown
    <2>4. LoopType'
        BY <1>16 DEF TypeOK, LoopType, PCs, Shutdown
    <2> QED BY <2>1, <2>2, <2>3, <2>4 DEF TypeOK
<1>17. ASSUME ShutdownEnd PROVE TypeOK'
    <2>1. /\ QueueType' /\ NoteType' /\ GoalType' /\ WakeType' /\ LocalType' /\ OutType'
          /\ BoundType' /\ interjections' \in Seq(Steers) /\ sent' \in SUBSET Ids
        BY <1>17, TypeFrame DEF ShutdownEnd
    <2>2. SlotType'
        BY <1>17 DEF TypeOK, SlotType, ShutdownEnd
    <2>3. WaitType'
        BY <1>17 DEF TypeOK, WaitType, ShutdownEnd
    <2>4. TaskType'
        BY <1>17 DEF TypeOK, TaskType, ShutdownEnd, TaskStates
    <2>5. OtherType'
        BY <1>17 DEF TypeOK, OtherType, ShutdownEnd
    <2>6. LoopType'
        BY <1>17 DEF TypeOK, LoopType, PCs, ShutdownEnd
    <2> QED BY <2>1, <2>2, <2>3, <2>4, <2>5, <2>6 DEF TypeOK
<1>18. ASSUME CancelBegin PROVE TypeOK'
    <2>1. /\ QueueType' /\ SlotType' /\ NoteType' /\ WaitType' /\ GoalType' /\ WakeType'
          /\ TaskType' /\ OtherType' /\ BoundType' /\ sent' \in SUBSET Ids
        BY <1>18, TypeFrame DEF CancelBegin
    <2>2. LocalType'
        BY <1>18 DEF TypeOK, LocalType, SlotType, CancelBegin
    <2>3. OutType'
        BY <1>18 DEF TypeOK, OutType, CancelBegin, Answers
    <2>4. LoopType'
        BY <1>18 DEF TypeOK, LoopType, PCs, CancelBegin
    <2>5. interjections' \in Seq(Steers)
        BY <1>18 DEF TypeOK, CancelBegin
    <2> QED BY <2>1, <2>2, <2>3, <2>4, <2>5 DEF TypeOK
<1>19. ASSUME CancelLock PROVE TypeOK'
    <2>1. /\ WaitType' /\ GoalType' /\ WakeType' /\ OtherType' /\ OutType' /\ BoundType'
          /\ interjections' \in Seq(Steers) /\ sent' \in SUBSET Ids
        BY <1>19, TypeFrame DEF CancelLock
    <2>2. QueueType'
        <3>1. \/ pending' = <<>>
              \/ pending # <<>> /\ pending' = Tail(pending)
              \/ pending' = pending
            BY <1>19 DEF CancelLock
        <3>2. pending \in Seq(Ids)
            BY DEF TypeOK, QueueType
        <3>3. <<>> \in Seq(Ids) /\ (pending # <<>> => Tail(pending) \in Seq(Ids))
            BY <3>2
        <3>4. pending' \in Seq(Ids)
            BY <3>1, <3>2, <3>3
        <3>5. UNCHANGED <<send_now, version>>
            BY <1>19 DEF CancelLock
        <3> QED BY <3>4, <3>5 DEF TypeOK, QueueType
    <2>3. SlotType'
        BY <1>19 DEF TypeOK, SlotType, CancelLock
    <2>4. NoteType'
        <3>1. notifs' \in {<<>>, notifs \o buffer} /\ buffer' = <<>> /\ suppressed' \in {TRUE, FALSE}
            BY <1>19 DEF CancelLock
        <3>2. <<>> \in Seq(Tasks) /\ notifs \o buffer \in Seq(Tasks)
            BY DEF TypeOK, NoteType
        <3> QED BY <3>1, <3>2 DEF NoteType
    <2>5. TaskType'
        BY <1>19, AbortedType DEF TypeOK, TaskType, CancelLock
    <2>6. LocalType'
        <3>1. /\ victim' \in {None, running}
              /\ rewound' = None \/ (pending # <<>> /\ rewound' = Head(pending))
              /\ \/ doomed' = <<>>
                 \/ doomed' = pending
                 \/ pending # <<>> /\ doomed' = <<Head(pending)>>
              /\ UNCHANGED <<cur, opts, pinned>>
            BY <1>19 DEF CancelLock
        <3>2. pending \in Seq(Ids) /\ (pending # <<>> => Head(pending) \in Ids)
            BY DEF TypeOK, QueueType
        <3>3. <<>> \in Seq(Ids) /\ (pending # <<>> => <<Head(pending)>> \in Seq(Ids))
            BY <3>2
        <3>4. doomed' \in Seq(Ids)
            BY <3>1, <3>2, <3>3
        <3>5. rewound' \in Ids \cup {None}
            BY <3>1, <3>2
        <3>6. victim' \in Ids \cup {None}
            BY <3>1 DEF TypeOK, SlotType
        <3> QED BY <3>1, <3>4, <3>5, <3>6 DEF TypeOK, LocalType
    <2>7. LoopType'
        BY <1>19 DEF TypeOK, LoopType, PCs, CancelLock
    <2> QED BY <2>1, <2>2, <2>3, <2>4, <2>5, <2>6, <2>7 DEF TypeOK
<1>20. ASSUME CancelGate PROVE TypeOK'
    <2>1. /\ QueueType' /\ SlotType' /\ NoteType' /\ WaitType' /\ WakeType' /\ TaskType'
          /\ OtherType' /\ LocalType' /\ OutType' /\ BoundType'
          /\ interjections' \in Seq(Steers) /\ sent' \in SUBSET Ids
        BY <1>20, TypeFrame DEF CancelGate
    <2>2. GoalType'
        BY <1>20 DEF TypeOK, GoalType, CancelGate
    <2>3. LoopType'
        BY <1>20 DEF TypeOK, LoopType, PCs, CancelGate
    <2> QED BY <2>1, <2>2, <2>3 DEF TypeOK
<1>21. ASSUME CancelAbort PROVE TypeOK'
    <2>1. /\ QueueType' /\ SlotType' /\ NoteType' /\ GoalType' /\ WakeType' /\ OtherType'
          /\ LocalType' /\ OutType' /\ BoundType' /\ interjections' \in Seq(Steers)
          /\ sent' \in SUBSET Ids
        BY <1>21, TypeFrame DEF CancelAbort, AbortVictim
    <2>2. WaitType'
        BY <1>21 DEF TypeOK, WaitType, CancelAbort, AbortVictim
    <2>3. TaskType'
        BY <1>21, AbortedType DEF TypeOK, TaskType, CancelAbort, AbortVictim
    <2>4. LoopType'
        BY <1>21 DEF TypeOK, LoopType, PCs, CancelAbort, AbortVictim
    <2> QED BY <2>1, <2>2, <2>3, <2>4 DEF TypeOK
<1>22. ASSUME CancelUnpin PROVE TypeOK'
    <2>1. /\ QueueType' /\ NoteType' /\ WaitType' /\ GoalType' /\ WakeType' /\ TaskType'
          /\ OtherType' /\ LocalType' /\ OutType' /\ BoundType'
          /\ interjections' \in Seq(Steers) /\ sent' \in SUBSET Ids
        BY <1>22, TypeFrame DEF CancelUnpin
    <2>2. SlotType'
        BY <1>22 DEF TypeOK, SlotType, CancelUnpin
    <2>3. LoopType'
        BY <1>22 DEF TypeOK, LoopType, PCs, CancelUnpin
    <2> QED BY <2>1, <2>2, <2>3 DEF TypeOK
<1>23. ASSUME CancelAnswer PROVE TypeOK'
    <2>1. /\ QueueType' /\ WaitType' /\ OtherType' /\ BoundType'
          /\ interjections' \in Seq(Steers) /\ sent' \in SUBSET Ids
        BY <1>23, TypeFrame DEF CancelAnswer
    <2>2. SlotType'
        BY <1>23 DEF TypeOK, SlotType, CancelAnswer
    <2>3. NoteType'
        BY <1>23 DEF TypeOK, NoteType, CancelAnswer
    <2>4. GoalType'
        BY <1>23 DEF TypeOK, GoalType, CancelAnswer
    <2>5. WakeType'
        BY <1>23 DEF TypeOK, WakeType, CancelAnswer
    <2>6. TaskType'
        <3>1. RewoundHistory \in Seq(Ids)
            BY SubSeqProperties DEF TypeOK, TaskType, RewoundHistory
        <3> QED BY <1>23, <3>1 DEF TypeOK, TaskType, CancelAnswer
    <2>7. LocalType'
        BY <1>23 DEF TypeOK, LocalType, CancelAnswer
    <2>8. OutType'
        <3>1. answered' \in [Ids -> Answers]
            BY <1>23 DEF TypeOK, OutType, CancelAnswer, Answers
        <3>2. terminals' \in [Ids -> Nat]
            BY <1>23 DEF TypeOK, OutType, CancelAnswer
        <3>3. UNCHANGED ran
            BY <1>23 DEF CancelAnswer
        <3> QED BY <3>1, <3>2, <3>3 DEF TypeOK, OutType
    <2>9. LoopType'
        BY <1>23 DEF TypeOK, LoopType, PCs, CancelAnswer
    <2> QED BY <2>1, <2>2, <2>3, <2>4, <2>5, <2>6, <2>7, <2>8, <2>9 DEF TypeOK
<1>24. ASSUME Completion PROVE TypeOK'
    <2>1. /\ QueueType' /\ NoteType' /\ WaitType' /\ GoalType' /\ WakeType' /\ OtherType'
          /\ OutType' /\ BoundType' /\ interjections' \in Seq(Steers)
          /\ sent' \in SUBSET Ids
        BY <1>24, TypeFrame DEF Completion
    <2>2. SlotType'
        BY <1>24 DEF TypeOK, SlotType, Completion
    <2>3. TaskType'
        BY <1>24 DEF TypeOK, TaskType, Completion
    <2>4. LocalType'
        <3>1. Head(completions) \in Ids
            BY <1>24 DEF TypeOK, TaskType, Completion
        <3> QED BY <1>24, <3>1 DEF TypeOK, LocalType, Completion
    <2>5. LoopType'
        BY <1>24 DEF TypeOK, LoopType, PCs, Completion
    <2> QED BY <2>1, <2>2, <2>3, <2>4, <2>5 DEF TypeOK
<1>25. ASSUME CompleteGate PROVE TypeOK'
    <2>1. /\ QueueType' /\ SlotType' /\ NoteType' /\ WaitType' /\ WakeType' /\ TaskType'
          /\ OtherType' /\ LocalType' /\ OutType' /\ BoundType'
          /\ interjections' \in Seq(Steers) /\ sent' \in SUBSET Ids
        BY <1>25, TypeFrame DEF CompleteGate
    <2>2. GoalType'
        BY <1>25 DEF TypeOK, GoalType, CompleteGate
    <2>3. LoopType'
        BY <1>25 DEF TypeOK, LoopType, PCs, CompleteGate
    <2> QED BY <2>1, <2>2, <2>3 DEF TypeOK
<1>26. ASSUME CompleteLock PROVE TypeOK'
    <2>1. /\ NoteType' /\ WaitType' /\ GoalType' /\ WakeType' /\ TaskType' /\ OtherType'
          /\ BoundType' /\ interjections' \in Seq(Steers) /\ sent' \in SUBSET Ids
        BY <1>26, TypeFrame DEF CompleteLock
    <2>2. QueueType'
        <3>1. pending' = pending \/ (pending # <<>> /\ pending' = Tail(pending))
            BY <1>26 DEF CompleteLock, Owns
        <3>2. pending \in Seq(Ids)
            BY DEF TypeOK, QueueType
        <3>3. <<>> \in Seq(Ids) /\ (pending # <<>> => Tail(pending) \in Seq(Ids))
            BY <3>2
        <3>4. pending' \in Seq(Ids)
            BY <3>1, <3>2, <3>3
        <3>5. UNCHANGED <<send_now, version>>
            BY <1>26 DEF CompleteLock
        <3> QED BY <3>4, <3>5 DEF TypeOK, QueueType
    <2>3. SlotType'
        BY <1>26 DEF TypeOK, SlotType, CompleteLock
    <2>4. LocalType'
        BY <1>26 DEF TypeOK, LocalType, CompleteLock, NoOpts, Owns
    <2>5. OutType'
        BY <1>26 DEF TypeOK, OutType, CompleteLock, Answers, Owns
    <2>6. LoopType'
        BY <1>26 DEF TypeOK, LoopType, PCs, CompleteLock
    <2> QED BY <2>1, <2>2, <2>3, <2>4, <2>5, <2>6 DEF TypeOK
<1>27. ASSUME CompleteEmit PROVE TypeOK'
    <2>1. /\ QueueType' /\ WaitType' /\ GoalType' /\ WakeType' /\ TaskType' /\ OtherType'
          /\ BoundType' /\ interjections' \in Seq(Steers) /\ sent' \in SUBSET Ids
        BY <1>27, TypeFrame DEF CompleteEmit
    <2>2. SlotType'
        BY <1>27 DEF TypeOK, SlotType, CompleteEmit
    <2>3. NoteType'
        BY <1>27 DEF TypeOK, NoteType, CompleteEmit
    <2>4. LocalType'
        BY <1>27 DEF TypeOK, LocalType, CompleteEmit, NoOpts
    <2>5. OutType'
        <3>1. terminals' \in [Ids -> Nat]
            BY <1>27 DEF TypeOK, OutType, CompleteEmit
        <3>2. UNCHANGED <<answered, ran>>
            BY <1>27 DEF CompleteEmit
        <3> QED BY <3>1, <3>2 DEF TypeOK, OutType
    <2>6. LoopType'
        BY <1>27 DEF TypeOK, LoopType, PCs, CompleteEmit
    <2> QED BY <2>1, <2>2, <2>3, <2>4, <2>5, <2>6 DEF TypeOK
<1>28. ASSUME TurnEnd PROVE TypeOK'
    <2>1. /\ SlotType' /\ NoteType' /\ WaitType' /\ WakeType' /\ TaskType' /\ OtherType'
          /\ LocalType' /\ OutType' /\ BoundType' /\ interjections' \in Seq(Steers)
        BY <1>28, TypeFrame DEF TurnEnd
    <2>2. QueueType'
        BY <1>28, IdsMembers DEF TypeOK, QueueType, TurnEnd, QueueContinuation
    <2>3. GoalType'
        BY <1>28 DEF TypeOK, GoalType, TurnEnd, QueueContinuation
    <2>4. LoopType'
        BY <1>28 DEF TypeOK, LoopType, PCs, TurnEnd
    <2>5. sent' \in SUBSET Ids
        BY <1>28, IdsMembers DEF TypeOK, TurnEnd, QueueContinuation
    <2> QED BY <2>1, <2>2, <2>3, <2>4, <2>5 DEF TypeOK
<1>29. ASSUME Flush PROVE TypeOK'
    <2>1. /\ SlotType' /\ NoteType' /\ WaitType' /\ GoalType' /\ WakeType' /\ TaskType'
          /\ OtherType' /\ LocalType' /\ OutType' /\ BoundType' /\ sent' \in SUBSET Ids
        BY <1>29, TypeFrame DEF Flush, FlushTo
    <2>2. QueueType'
        <3>1. pending \in Seq(Ids) /\ interjections \in Seq(Ids)
            BY IdsMembers, SeqMonotonic DEF TypeOK, QueueType
        <3>2. pending' \in Seq(Ids)
            BY <1>29, <3>1, SlotInQueue, InsertSeqType DEF Flush, FlushTo
        <3>3. Elems(interjections) \subseteq Ids
            BY <3>1 DEF Elems
        <3> QED BY <1>29, <3>2, <3>3 DEF TypeOK, QueueType, Flush, FlushTo
    <2>3. LoopType'
        BY <1>29 DEF TypeOK, LoopType, PCs, Flush, FlushTo
    <2>4. interjections' \in Seq(Steers)
        BY <1>29 DEF TypeOK, Flush, FlushTo
    <2> QED BY <2>1, <2>2, <2>3, <2>4 DEF TypeOK
<1>30. ASSUME Drain PROVE TypeOK'
    <2>1. /\ SlotType' /\ WaitType' /\ GoalType' /\ TaskType' /\ OtherType' /\ LocalType'
          /\ OutType' /\ BoundType' /\ interjections' \in Seq(Steers)
        BY <1>30, TypeFrame DEF Drain
    <2>2. QueueType'
        BY <1>30, IdsMembers DEF TypeOK, QueueType, Drain
    <2>3. NoteType'
        <3>1. /\ notifs' \in {<<>>, notifs, notifs \o buffer} /\ buffer' \in {<<>>, buffer}
              /\ UNCHANGED suppressed
            BY <1>30 DEF Drain
        <3>2. <<>> \in Seq(Tasks) /\ notifs \o buffer \in Seq(Tasks)
            BY DEF TypeOK, NoteType
        <3> QED BY <3>1, <3>2 DEF TypeOK, NoteType
    <2>4. WakeType'
        <3>1. notifs \o buffer \in Seq(Tasks)
            BY DEF TypeOK, NoteType
        <3>2. Elems(notifs \o buffer) \subseteq Tasks
            BY <3>1 DEF Elems
        <3>3. /\ reported' = reported \/ reported' = reported \cup Elems(notifs \o buffer)
              /\ UNCHANGED <<wake, delivered, seen>>
            BY <1>30 DEF Drain
        <3> QED BY <3>2, <3>3 DEF TypeOK, WakeType
    <2>5. LoopType'
        BY <1>30 DEF TypeOK, LoopType, PCs, Drain
    <2>6. sent' \in SUBSET Ids
        BY <1>30, IdsMembers DEF TypeOK, Drain
    <2> QED BY <2>1, <2>2, <2>3, <2>4, <2>5, <2>6 DEF TypeOK
<1>31. ASSUME McpRelease PROVE TypeOK'
    <2>1. /\ QueueType' /\ NoteType' /\ WaitType' /\ GoalType' /\ WakeType' /\ LocalType'
          /\ BoundType' /\ LoopType' /\ interjections' \in Seq(Steers)
          /\ sent' \in SUBSET Ids
        BY <1>31, TypeFrame DEF McpRelease
    <2>2. SlotType'
        BY <1>31, PromoteType DEF TypeOK, SlotType, McpRelease
    <2>3. TaskType'
        BY <1>31, PromoteType DEF TypeOK, TaskType, McpRelease
    <2>4. OtherType'
        BY <1>31 DEF TypeOK, OtherType, McpRelease
    <2>5. OutType'
        BY <1>31, PromoteType DEF TypeOK, OutType, McpRelease
    <2> QED BY <2>1, <2>2, <2>3, <2>4, <2>5 DEF TypeOK
<1>32. ASSUME NEW p \in Plans, PlanEnqueue(p) PROVE TypeOK'
    <2>1. /\ SlotType' /\ NoteType' /\ WaitType' /\ GoalType' /\ WakeType' /\ TaskType'
          /\ LocalType' /\ OutType' /\ BoundType' /\ LoopType'
          /\ interjections' \in Seq(Steers)
        BY <1>32, TypeFrame DEF PlanEnqueue
    <2>2. QueueType'
        BY <1>32, IdsMembers DEF TypeOK, QueueType, PlanEnqueue
    <2>3. OtherType'
        BY <1>32 DEF TypeOK, OtherType, PlanEnqueue
    <2>4. sent' \in SUBSET Ids
        BY <1>32, IdsMembers DEF TypeOK, PlanEnqueue
    <2> QED BY <2>1, <2>2, <2>3, <2>4 DEF TypeOK
<1>33. ASSUME NEW p \in Plans, PlanStart(p) PROVE TypeOK'
    <2>1. /\ QueueType' /\ NoteType' /\ WaitType' /\ GoalType' /\ WakeType' /\ LocalType'
          /\ BoundType' /\ LoopType' /\ interjections' \in Seq(Steers)
          /\ sent' \in SUBSET Ids
        BY <1>33, TypeFrame DEF PlanStart
    <2>2. SlotType'
        BY <1>33, PromoteType DEF TypeOK, SlotType, PlanStart
    <2>3. TaskType'
        BY <1>33, PromoteType DEF TypeOK, TaskType, PlanStart
    <2>4. OtherType'
        BY <1>33 DEF TypeOK, OtherType, PlanStart
    <2>5. OutType'
        BY <1>33, PromoteType DEF TypeOK, OutType, PlanStart
    <2> QED BY <2>1, <2>2, <2>3, <2>4, <2>5 DEF TypeOK
<1>34. ASSUME CloseRewindWindow PROVE TypeOK'
    <2>1. /\ QueueType' /\ NoteType' /\ WaitType' /\ GoalType' /\ WakeType' /\ TaskType'
          /\ OtherType' /\ LocalType' /\ OutType' /\ BoundType' /\ LoopType'
          /\ interjections' \in Seq(Steers) /\ sent' \in SUBSET Ids
        BY <1>34, TypeFrame DEF CloseRewindWindow
    <2>2. SlotType'
        BY <1>34 DEF TypeOK, SlotType, CloseRewindWindow
    <2> QED BY <2>1, <2>2 DEF TypeOK
<1>35. ASSUME NEW t \in Ids, TurnBegin(t) PROVE TypeOK'
    <2>1. /\ QueueType' /\ SlotType' /\ NoteType' /\ WaitType' /\ GoalType' /\ WakeType'
          /\ OtherType' /\ LocalType' /\ OutType' /\ BoundType' /\ LoopType'
          /\ interjections' \in Seq(Steers) /\ sent' \in SUBSET Ids
        BY <1>35, TypeFrame DEF TurnBegin
    <2>2. TaskType'
        BY <1>35 DEF TypeOK, TaskType, TurnBegin, TaskStates
    <2> QED BY <2>1, <2>2 DEF TypeOK
<1>36. ASSUME NEW t \in Ids, TurnIndex(t) PROVE TypeOK'
    <2>1. /\ QueueType' /\ SlotType' /\ NoteType' /\ WaitType' /\ GoalType' /\ WakeType'
          /\ OtherType' /\ LocalType' /\ OutType' /\ BoundType' /\ LoopType'
          /\ interjections' \in Seq(Steers) /\ sent' \in SUBSET Ids
        BY <1>36, TypeFrame DEF TurnIndex
    <2>2. TaskType'
        BY <1>36 DEF TypeOK, TaskType, TurnIndex, TaskStates
    <2> QED BY <2>1, <2>2 DEF TypeOK
<1>37. ASSUME NEW t \in Ids, TurnReady(t) PROVE TypeOK'
    <2>1. /\ QueueType' /\ SlotType' /\ NoteType' /\ WaitType' /\ GoalType' /\ OtherType'
          /\ LocalType' /\ OutType' /\ BoundType' /\ LoopType'
          /\ interjections' \in Seq(Steers) /\ sent' \in SUBSET Ids
        BY <1>37, TypeFrame DEF TurnReady
    <2>2. WakeType'
        BY <1>37 DEF TypeOK, WakeType, TurnReady, Unreported
    <2>3. TaskType'
        BY <1>37 DEF TypeOK, TaskType, TurnReady, TaskStates
    <2> QED BY <2>1, <2>2, <2>3 DEF TypeOK
<1>38. ASSUME NEW t \in Ids, TurnGoalRound(t) PROVE TypeOK'
    <2>1. /\ QueueType' /\ SlotType' /\ NoteType' /\ WaitType' /\ WakeType' /\ TaskType'
          /\ OtherType' /\ LocalType' /\ OutType' /\ BoundType' /\ LoopType'
          /\ interjections' \in Seq(Steers) /\ sent' \in SUBSET Ids
        BY <1>38, TypeFrame DEF TurnGoalRound
    <2>2. GoalType'
        BY <1>38 DEF TypeOK, GoalType, TurnGoalRound
    <2> QED BY <2>1, <2>2 DEF TypeOK
<1>39. ASSUME NEW t \in Ids, TurnSetGoal(t) PROVE TypeOK'
    <2>1. /\ QueueType' /\ SlotType' /\ NoteType' /\ WaitType' /\ WakeType' /\ TaskType'
          /\ OtherType' /\ LocalType' /\ OutType' /\ BoundType' /\ LoopType'
          /\ interjections' \in Seq(Steers) /\ sent' \in SUBSET Ids
        BY <1>39, TypeFrame DEF TurnSetGoal
    <2>2. GoalType'
        BY <1>39 DEF TypeOK, GoalType, TurnSetGoal
    <2> QED BY <2>1, <2>2 DEF TypeOK
<1>40. ASSUME NEW t \in Ids, TurnEnterWait(t) PROVE TypeOK'
    <2>1. /\ QueueType' /\ SlotType' /\ NoteType' /\ GoalType' /\ WakeType' /\ TaskType'
          /\ OtherType' /\ LocalType' /\ OutType' /\ BoundType' /\ LoopType'
          /\ interjections' \in Seq(Steers) /\ sent' \in SUBSET Ids
        BY <1>40, TypeFrame DEF TurnEnterWait
    <2>2. WaitType'
        BY <1>40 DEF TypeOK, WaitType, TurnEnterWait
    <2> QED BY <2>1, <2>2 DEF TypeOK
<1>41. ASSUME NEW t \in Ids, WaitGuardDrop(t) PROVE TypeOK'
    <2>1. /\ QueueType' /\ SlotType' /\ NoteType' /\ GoalType' /\ WakeType' /\ TaskType'
          /\ OtherType' /\ LocalType' /\ OutType' /\ BoundType' /\ LoopType'
          /\ interjections' \in Seq(Steers) /\ sent' \in SUBSET Ids
        BY <1>41, TypeFrame DEF WaitGuardDrop, LeaveWait
    <2>2. WaitType'
        BY <1>41 DEF TypeOK, WaitType, WaitGuardDrop, LeaveWait
    <2> QED BY <2>1, <2>2 DEF TypeOK
<1>42. ASSUME NEW t \in Ids, NEW C \in SUBSET Tasks, TurnToolResult(t, C) PROVE TypeOK'
    <2>1. /\ SlotType' /\ WaitType' /\ GoalType' /\ TaskType' /\ OtherType' /\ LocalType'
          /\ OutType' /\ BoundType' /\ LoopType' /\ interjections' \in Seq(Steers)
          /\ sent' \in SUBSET Ids
        BY <1>42, TypeFrame DEF TurnToolResult
    <2>2. QueueType'
        BY <1>42, SweepType, KeepByRank DEF TypeOK, QueueType, TurnToolResult, DropConsumed
    <2>3. NoteType'
        BY <1>42, KeepByRank DEF TypeOK, NoteType, TurnToolResult, DropConsumed
    <2>4. WakeType'
        BY <1>42 DEF TypeOK, WakeType, TurnToolResult, Unreported
    <2> QED BY <2>1, <2>2, <2>3, <2>4 DEF TypeOK
<1>43. ASSUME NEW t \in Ids, DrainInterjections(t) PROVE TypeOK'
    <2>1. /\ QueueType' /\ SlotType' /\ NoteType' /\ WaitType' /\ GoalType' /\ WakeType'
          /\ TaskType' /\ OtherType' /\ LocalType' /\ BoundType' /\ LoopType'
          /\ sent' \in SUBSET Ids
        BY <1>43, TypeFrame DEF DrainInterjections, Merge
    <2>2. OutType'
        BY <1>43 DEF TypeOK, OutType, DrainInterjections, Merge, Answers
    <2>3. interjections' \in Seq(Steers)
        BY <1>43 DEF TypeOK, DrainInterjections, Merge
    <2> QED BY <2>1, <2>2, <2>3 DEF TypeOK
<1>44. ASSUME NEW t \in Ids, InjectMonitorEvents(t) PROVE TypeOK'
    <2>1. /\ QueueType' /\ SlotType' /\ WaitType' /\ GoalType' /\ WakeType' /\ TaskType'
          /\ OtherType' /\ LocalType' /\ OutType' /\ BoundType' /\ LoopType'
          /\ interjections' \in Seq(Steers) /\ sent' \in SUBSET Ids
        BY <1>44, TypeFrame DEF InjectMonitorEvents
    <2>2. NoteType'
        BY <1>44 DEF TypeOK, NoteType, InjectMonitorEvents
    <2> QED BY <2>1, <2>2 DEF TypeOK
<1>45. ASSUME NEW t \in Ids, TurnUnpin(t) PROVE TypeOK'
    <2>1. /\ QueueType' /\ NoteType' /\ WaitType' /\ GoalType' /\ WakeType' /\ OtherType'
          /\ LocalType' /\ OutType' /\ BoundType' /\ LoopType'
          /\ interjections' \in Seq(Steers) /\ sent' \in SUBSET Ids
        BY <1>45, TypeFrame DEF TurnUnpin
    <2>2. SlotType'
        BY <1>45 DEF TypeOK, SlotType, TurnUnpin, Unpin
    <2>3. TaskType'
        BY <1>45 DEF TypeOK, TaskType, TurnUnpin, TaskStates
    <2> QED BY <2>1, <2>2, <2>3 DEF TypeOK
<1>46. ASSUME NEW t \in Ids, TurnFinish(t) \/ TurnPauseGoal(t) \/ TurnClearGoal(t)
      PROVE  TypeOK'
    <2>0. Finish(t) /\ goal' \in {goal, "paused", "none"}
        BY <1>46 DEF TurnFinish, TurnPauseGoal, TurnClearGoal
    <2>1. /\ QueueType' /\ SlotType' /\ NoteType' /\ WaitType' /\ WakeType'
          /\ OtherType' /\ LocalType' /\ OutType' /\ BoundType' /\ LoopType'
          /\ interjections' \in Seq(Steers) /\ sent' \in SUBSET Ids
        BY <2>0, TypeFrame DEF Finish
    <2>3. GoalType'
        BY <2>0 DEF TypeOK, GoalType, Finish
    <2>2. TaskType'
        <3>1. task' \in [Ids -> TaskStates]
            BY <2>0 DEF TypeOK, TaskType, TaskStates, Finish
        <3>2. completions' \in Seq(Ids)
            BY <2>0 DEF TypeOK, TaskType, Finish
        <3>3. turnActive' \in BOOLEAN /\ history' \in Seq(Ids)
            BY <2>0 DEF TypeOK, TaskType, Finish, taskVars
        <3> QED BY <3>1, <3>2, <3>3 DEF TaskType
    <2> QED BY <2>1, <2>2, <2>3 DEF TypeOK
<1>47. ASSUME NEW t \in Ids, TaskDropped(t) PROVE TypeOK'
    <2>1. /\ QueueType' /\ NoteType' /\ WaitType' /\ GoalType' /\ WakeType' /\ OtherType'
          /\ LocalType' /\ OutType' /\ BoundType' /\ LoopType'
          /\ interjections' \in Seq(Steers) /\ sent' \in SUBSET Ids
        BY <1>47, TypeFrame DEF TaskDropped
    <2>2. SlotType'
        BY <1>47 DEF TypeOK, SlotType, TaskDropped, Unpin
    <2>3. TaskType'
        BY <1>47 DEF TypeOK, TaskType, TaskDropped, TaskStates
    <2> QED BY <2>1, <2>2, <2>3 DEF TypeOK
<1>48. ASSUME UNCHANGED vars PROVE TypeOK'
    BY <1>48, TypeFrame DEF TypeOK, vars
<1>49. ASSUME Command PROVE TypeOK'
    BY <1>49, ReorderRequest, <1>2, <1>3, <1>5, <1>8, <1>9, <1>10, <1>11, <1>12, <1>13,
        <1>14, <1>15, <1>16
    DEF Command
<1>50. ASSUME LoopStep PROVE TypeOK'
    BY <1>50, <1>4, <1>6, <1>7, <1>18, <1>19, <1>20, <1>21, <1>22, <1>23, <1>24, <1>25,
        <1>26, <1>27, <1>28, <1>29, <1>30, <1>17
    DEF LoopStep
<1>51. ASSUME NEW t \in Ids, TurnProgress(t) \/ TurnWork(t) PROVE TypeOK'
    BY <1>51, <1>35, <1>36, <1>37, <1>45, <1>46, <1>38, <1>39, <1>40, <1>42, <1>43, <1>44
    DEF TurnProgress, TurnWork
<1> QED BY <1>41, <1>47, <1>1, <1>31, <1>34, <1>32, <1>33, <1>48, <1>49, <1>50, <1>51
       DEF Next

\* Keeping everything but prompts that do not run leaves the running turn in front.
LEMMA KeepFront ==
    ASSUME NEW q \in Seq(Ids), NEW S, q # <<>>, Head(q) = running, running \notin S
    PROVE  Keep(q, Ids \ S) # <<>> /\ Head(Keep(q, Ids \ S)) = running
<1>1. Head(q) \in Ids \ S
    OBVIOUS
<1> QED BY <1>1, KeepHead

\* So does a sweep, whatever it drops.
LEMMA SweepFront ==
    ASSUME NEW q \in Seq(Ids), NEW S, q # <<>>, Head(q) = running
    PROVE  Sweep(q, S) # <<>> /\ Head(Sweep(q, S)) = running
BY KeepFront DEF Sweep

\* So does an insertion at the slot for send-now items or behind it.
LEMMA InsertBehindFront ==
    ASSUME NEW q \in Seq(Ids), NEW s \in Seq(Ids), q # <<>>, Head(q) = running,
           NEW k \in FrontSlot(q)..(Len(q) + 1)
    PROVE  InsertSeq(q, k, s) # <<>> /\ Head(InsertSeq(q, k, s)) = running
<1>1. k \in 2..(Len(q) + 1)
    BY DEF FrontSlot
<1> QED BY <1>1, InsertSeqHead

\* The prompt in hand is a prompt at every await point that uses it.
LEMMA CurStep ==
    ASSUME TypeOK, CurKnown, [Next]_vars
    PROVE  CurKnown'
<1>1. ASSUME NEW t \in Tasks, NEW covered \in BOOLEAN, TaskCompleted(t, covered)
      PROVE  CurKnown'
    BY <1>1 DEF CurKnown, TaskCompleted, localVars
<1>2. ASSUME NEW t \in Tasks, DropMonitorNotifications(t) PROVE CurKnown'
    BY <1>2 DEF CurKnown, DropMonitorNotifications, localVars
<1>3. ASSUME NEW p \in Users \cup Tasks \cup Crons, NEW now \in BOOLEAN, Prompt(p, now)
      PROVE  CurKnown'
    BY <1>3, IdsMembers DEF CurKnown, Prompt
<1>4. ASSUME Enqueue PROVE CurKnown'
    BY <1>4 DEF CurKnown, Enqueue
<1>5. ASSUME NEW s \in Steers, Interject(s) PROVE CurKnown'
    BY <1>5 DEF CurKnown, Interject
<1>6. ASSUME Fallback PROVE CurKnown'
    BY <1>6 DEF CurKnown, Fallback
<1>7. ASSUME Start PROVE CurKnown'
    BY <1>7 DEF TypeOK, LoopType, CurKnown, Start, localVars
<1>8. ASSUME NEW g \in Goals, GoalSummaryTurn(g) PROVE CurKnown'
    BY <1>8 DEF CurKnown, GoalSummaryTurn, localVars
<1>9. ASSUME NEW u \in Users, RemoveQueuedPrompt(u) PROVE CurKnown'
    BY <1>9 DEF CurKnown, RemoveQueuedPrompt, localVars
<1>10. ASSUME NEW c \in Clients \cup {None}, ClearQueue(c) PROVE CurKnown'
    BY <1>10 DEF CurKnown, ClearQueue, localVars
<1>11. ASSUME NEW order \in Seq(Ids), ReorderQueue(order) PROVE CurKnown'
    BY <1>11 DEF CurKnown, ReorderQueue, localVars
<1>12. ASSUME NEW u \in Users, EditQueuedPrompt(u) PROVE CurKnown'
    BY <1>12 DEF CurKnown, EditQueuedPrompt, localVars
<1>13. ASSUME NEW u \in Users, NEW edit \in BOOLEAN, InterjectQueuedPrompt(u, edit)
      PROVE  CurKnown'
    BY <1>13 DEF CurKnown, InterjectQueuedPrompt
<1>14. ASSUME NEW rewind \in BOOLEAN, NEW kill \in BOOLEAN, Cancel(rewind, kill)
      PROVE  CurKnown'
    BY <1>14 DEF CurKnown, Cancel
<1>15. ASSUME NEW t \in Monitors, InjectNotification(t) PROVE CurKnown'
    BY <1>15 DEF CurKnown, InjectNotification, localVars
<1>16. ASSUME Shutdown PROVE CurKnown'
    BY <1>16 DEF CurKnown, Shutdown, localVars
<1>17. ASSUME ShutdownEnd PROVE CurKnown'
    BY <1>17 DEF CurKnown, ShutdownEnd, localVars
<1>18. ASSUME CancelBegin PROVE CurKnown'
    BY <1>18 DEF CurKnown, CancelBegin
<1>19. ASSUME CancelLock PROVE CurKnown'
    BY <1>19 DEF CurKnown, CancelLock
<1>20. ASSUME CancelGate PROVE CurKnown'
    BY <1>20 DEF CurKnown, CancelGate, localVars
<1>21. ASSUME CancelAbort PROVE CurKnown'
    BY <1>21 DEF CurKnown, CancelAbort, AbortVictim, localVars
<1>22. ASSUME CancelUnpin PROVE CurKnown'
    BY <1>22 DEF CurKnown, CancelUnpin, localVars
<1>23. ASSUME CancelAnswer PROVE CurKnown'
    BY <1>23 DEF CurKnown, CancelAnswer
<1>24. ASSUME Completion PROVE CurKnown'
    <2>1. Head(completions) \in Ids
        BY <1>24 DEF TypeOK, TaskType, Completion
    <2> QED BY <1>24, <2>1 DEF CurKnown, Completion
<1>25. ASSUME CompleteGate PROVE CurKnown'
    BY <1>25 DEF CurKnown, CompleteGate, localVars
<1>26. ASSUME CompleteLock PROVE CurKnown'
    BY <1>26 DEF CurKnown, CompleteLock
<1>27. ASSUME CompleteEmit PROVE CurKnown'
    BY <1>27 DEF CurKnown, CompleteEmit
<1>28. ASSUME TurnEnd PROVE CurKnown'
    BY <1>28 DEF CurKnown, TurnEnd, localVars
<1>29. ASSUME Flush PROVE CurKnown'
    BY <1>29 DEF CurKnown, Flush, FlushTo, localVars
<1>30. ASSUME Drain PROVE CurKnown'
    BY <1>30 DEF CurKnown, Drain, localVars
<1>31. ASSUME McpRelease PROVE CurKnown'
    BY <1>31 DEF CurKnown, McpRelease, localVars
<1>32. ASSUME NEW p \in Plans, PlanEnqueue(p) PROVE CurKnown'
    BY <1>32 DEF CurKnown, PlanEnqueue, localVars
<1>33. ASSUME NEW p \in Plans, PlanStart(p) PROVE CurKnown'
    BY <1>33 DEF CurKnown, PlanStart, localVars
<1>34. ASSUME CloseRewindWindow PROVE CurKnown'
    BY <1>34 DEF CurKnown, CloseRewindWindow, localVars
<1>35. ASSUME NEW t \in Ids, TurnBegin(t) PROVE CurKnown'
    BY <1>35 DEF CurKnown, TurnBegin, localVars
<1>36. ASSUME NEW t \in Ids, TurnIndex(t) PROVE CurKnown'
    BY <1>36 DEF CurKnown, TurnIndex, localVars
<1>37. ASSUME NEW t \in Ids, TurnReady(t) PROVE CurKnown'
    BY <1>37 DEF CurKnown, TurnReady, localVars
<1>38. ASSUME NEW t \in Ids, TurnGoalRound(t) PROVE CurKnown'
    BY <1>38 DEF CurKnown, TurnGoalRound, localVars
<1>39. ASSUME NEW t \in Ids, TurnSetGoal(t) PROVE CurKnown'
    BY <1>39 DEF CurKnown, TurnSetGoal, localVars
<1>40. ASSUME NEW t \in Ids, TurnEnterWait(t) PROVE CurKnown'
    BY <1>40 DEF CurKnown, TurnEnterWait, localVars
<1>41. ASSUME NEW t \in Ids, WaitGuardDrop(t) PROVE CurKnown'
    BY <1>41 DEF CurKnown, WaitGuardDrop, LeaveWait, localVars
<1>42. ASSUME NEW t \in Ids, NEW C \in SUBSET Tasks, TurnToolResult(t, C) PROVE CurKnown'
    BY <1>42 DEF CurKnown, TurnToolResult, localVars
<1>43. ASSUME NEW t \in Ids, DrainInterjections(t) PROVE CurKnown'
    BY <1>43 DEF CurKnown, DrainInterjections, Merge, localVars
<1>44. ASSUME NEW t \in Ids, InjectMonitorEvents(t) PROVE CurKnown'
    BY <1>44 DEF CurKnown, InjectMonitorEvents, localVars
<1>45. ASSUME NEW t \in Ids, TurnUnpin(t) PROVE CurKnown'
    BY <1>45 DEF CurKnown, TurnUnpin, localVars
<1>46. ASSUME NEW t \in Ids, TurnFinish(t) \/ TurnPauseGoal(t) \/ TurnClearGoal(t)
      PROVE  CurKnown'
    BY <1>46 DEF CurKnown, TurnFinish, TurnPauseGoal, TurnClearGoal, Finish, localVars
<1>47. ASSUME NEW t \in Ids, TaskDropped(t) PROVE CurKnown'
    BY <1>47 DEF CurKnown, TaskDropped, localVars
<1>48. ASSUME UNCHANGED vars PROVE CurKnown'
    BY <1>48 DEF CurKnown, vars, localVars, queueVars, slotVars
<1>49. ASSUME Command PROVE CurKnown'
    BY <1>49, ReorderRequest, <1>2, <1>3, <1>5, <1>8, <1>9, <1>10, <1>11, <1>12, <1>13,
        <1>14, <1>15, <1>16
    DEF Command
<1>50. ASSUME LoopStep PROVE CurKnown'
    BY <1>50, <1>4, <1>6, <1>7, <1>18, <1>19, <1>20, <1>21, <1>22, <1>23, <1>24, <1>25,
        <1>26, <1>27, <1>28, <1>29, <1>30, <1>17
    DEF LoopStep
<1>51. ASSUME NEW t \in Ids, TurnProgress(t) \/ TurnWork(t) PROVE CurKnown'
    BY <1>51, <1>35, <1>36, <1>37, <1>45, <1>46, <1>38, <1>39, <1>40, <1>42, <1>43, <1>44
    DEF TurnProgress, TurnWork
<1> QED BY <1>41, <1>47, <1>1, <1>31, <1>34, <1>32, <1>33, <1>48, <1>49, <1>50, <1>51
    DEF Next

\* Every step keeps the running turn at the front of the queue.
LEMMA FrontStep ==
    ASSUME TypeOK, CurKnown, FrontIsRunning, [Next]_vars
    PROVE  FrontIsRunning'
<1> USE DEF Stopping
<1> pending \in Seq(Ids)
    BY DEF TypeOK, QueueType
<1>1. ASSUME NEW t \in Tasks, NEW covered \in BOOLEAN, TaskCompleted(t, covered)
      PROVE  FrontIsRunning'
    BY <1>1 DEF FrontIsRunning, TaskCompleted, queueVars, slotVars
<1>2. ASSUME NEW t \in Tasks, DropMonitorNotifications(t) PROVE FrontIsRunning'
    BY <1>2 DEF FrontIsRunning, DropMonitorNotifications, Ready, queueVars, slotVars
<1>3. ASSUME NEW p \in Users \cup Tasks \cup Crons, NEW now \in BOOLEAN, Prompt(p, now)
      PROVE  FrontIsRunning'
    BY <1>3 DEF FrontIsRunning, Prompt, Ready, queueVars, slotVars
<1>4. ASSUME Enqueue PROVE FrontIsRunning'
    <2>1. PICK S : LET q == Sweep(pending, S) IN
              /\ q \in Seq(Ids) /\ <<cur>> \in Seq(Ids)
              /\ \E k \in FrontSlot(q)..(Len(q) + 1) :
                    k \in 1..(Len(q) + 1) /\ pending' = InsertSeq(q, k, <<cur>>)
        BY <1>4, Enqueued
    <2>2. pc = "enqueue" /\ running' = running
        BY <1>4 DEF Enqueue, slotVars
    <2>3. ASSUME running # None PROVE pending' # <<>> /\ Head(pending') = running
        <3> DEFINE q == Sweep(pending, S)
        <3>1. q # <<>> /\ Head(q) = running
            BY <2>2, <2>3, SweepFront DEF FrontIsRunning
        <3>2. q \in Seq(Ids) /\ <<cur>> \in Seq(Ids)
            BY <2>1
        <3>3. PICK k \in FrontSlot(q)..(Len(q) + 1) : pending' = InsertSeq(q, k, <<cur>>)
            BY <2>1
        <3> HIDE DEF q
        <3> QED BY <3>1, <3>2, <3>3, InsertBehindFront
    <2> QED BY <2>2, <2>3 DEF FrontIsRunning
<1>5. ASSUME NEW s \in Steers, Interject(s) PROVE FrontIsRunning'
    BY <1>5 DEF FrontIsRunning, Interject, Ready, queueVars, slotVars
<1>6. ASSUME Fallback PROVE FrontIsRunning'
    <2>1. pc = "fallback" /\ running' = running /\ <<cur>> \in Seq(Ids)
        BY <1>6, IdsMembers DEF Fallback, slotVars, CurKnown
    <2>2. pending' = InsertSeq(pending, FrontSlot(pending), <<cur>>)
        BY <1>6 DEF Fallback
    <2>3. FrontSlot(pending) \in FrontSlot(pending)..(Len(pending) + 1)
        BY SlotInQueue
    <2> QED BY <2>1, <2>2, <2>3, InsertBehindFront DEF FrontIsRunning
<1>7. ASSUME Start PROVE FrontIsRunning'
    <2>1. pending' = pending /\ Promote
        BY <1>7 DEF Start, queueVars
    <2>2. pc = "start"
        BY <1>7 DEF Start, TypeOK, LoopType, PCs
    <2> QED BY <2>1, <2>2 DEF FrontIsRunning, Promote, CanPromote, slotVars
<1>8. ASSUME NEW g \in Goals, GoalSummaryTurn(g) PROVE FrontIsRunning'
    BY <1>8 DEF FrontIsRunning, GoalSummaryTurn, Ready, slotVars
<1>9. ASSUME NEW u \in Users, RemoveQueuedPrompt(u) PROVE FrontIsRunning'
    <2>1. u # running /\ pc = "top" /\ running' = running /\ pending' = Keep(pending, Ids \ {u})
        BY <1>9 DEF RemoveQueuedPrompt, Editable, Ready, slotVars
    <2> QED BY <2>1, KeepFront DEF FrontIsRunning
<1>10. ASSUME NEW c \in Clients \cup {None}, ClearQueue(c) PROVE FrontIsRunning'
    <2>1. pc = "top" /\ running' = running /\ pending' = Keep(pending, Ids \ Cleared(c))
        BY <1>10 DEF ClearQueue, Ready, slotVars
    <2>2. running \notin Cleared(c)
        BY DEF Cleared, Editable
    <2> QED BY <2>1, <2>2, KeepFront DEF FrontIsRunning
<1>11. ASSUME NEW order \in Seq(Ids), ReorderQueue(order) PROVE FrontIsRunning'
    <2> DEFINE rows == {u \in Users : u \in Elems(pending) /\ u # running}
               old == Keep(pending, Ids \ rows)
               new == Keep(order, rows)
               rest == Keep(pending, rows \ Elems(order))
    <2>1. pc = "top" /\ running' = running /\ pending' = old \o new \o rest
        BY <1>11 DEF ReorderQueue, Reordered, Ready, slotVars
    <2>2. old \in Seq(Ids) /\ new \in Seq(Ids) /\ rest \in Seq(Ids)
        BY KeepByRank
    <2>3. running # None => old # <<>> /\ Head(old) = running
        <3>1. running \notin rows
            OBVIOUS
        <3> HIDE DEF rows
        <3> QED BY <2>1, <3>1, KeepFront DEF FrontIsRunning
    <2> HIDE DEF rows, old, new, rest
    <2>4. old # <<>> => old \o new \o rest # <<>> /\ Head(old \o new \o rest) = Head(old)
        BY <2>2
    <2> QED BY <2>1, <2>3, <2>4 DEF FrontIsRunning
<1>12. ASSUME NEW u \in Users, EditQueuedPrompt(u) PROVE FrontIsRunning'
    BY <1>12 DEF FrontIsRunning, EditQueuedPrompt, Ready, slotVars
<1>13. ASSUME NEW u \in Users, NEW edit \in BOOLEAN, InterjectQueuedPrompt(u, edit)
      PROVE  FrontIsRunning'
    <2> DEFINE q == Keep(pending, Ids \ {u})
    <2>1. q \in Seq(Ids) /\ <<u>> \in Seq(Ids)
        BY IdsMembers, KeepByRank
    <2>2. /\ u # running /\ pc = "top" /\ running' = running
          /\ pending' = InsertSeq(q, NowSlot(q), <<u>>)
        BY <1>13 DEF InterjectQueuedPrompt, Editable, Ready, slotVars
    <2>3. running # None => q # <<>> /\ Head(q) = running
        BY <2>2, KeepFront DEF FrontIsRunning
    <2> HIDE DEF q
    <2>4. NowSlot(q) \in FrontSlot(q)..(Len(q) + 1)
        BY <2>1, SlotInQueue
    <2> QED BY <2>1, <2>2, <2>3, <2>4, InsertBehindFront DEF FrontIsRunning
<1>14. ASSUME NEW rewind \in BOOLEAN, NEW kill \in BOOLEAN, Cancel(rewind, kill)
      PROVE  FrontIsRunning'
    BY <1>14 DEF FrontIsRunning, Cancel, Ready, queueVars, slotVars
<1>15. ASSUME NEW t \in Monitors, InjectNotification(t) PROVE FrontIsRunning'
    BY <1>15 DEF FrontIsRunning, InjectNotification, Ready, queueVars, slotVars
<1>16. ASSUME Shutdown PROVE FrontIsRunning'
    BY <1>16 DEF FrontIsRunning, Shutdown
<1>17. ASSUME ShutdownEnd PROVE FrontIsRunning'
    BY <1>17 DEF FrontIsRunning, ShutdownEnd, queueVars
<1>18. ASSUME CancelBegin PROVE FrontIsRunning'
    BY <1>18 DEF FrontIsRunning, CancelBegin, queueVars, slotVars
<1>19. ASSUME CancelLock PROVE FrontIsRunning'
    BY <1>19 DEF FrontIsRunning, CancelLock
<1>20. ASSUME CancelGate PROVE FrontIsRunning'
    BY <1>20 DEF FrontIsRunning, CancelGate, queueVars, slotVars
<1>21. ASSUME CancelAbort PROVE FrontIsRunning'
    BY <1>21 DEF FrontIsRunning, CancelAbort, AbortVictim, queueVars, slotVars
<1>22. ASSUME CancelUnpin PROVE FrontIsRunning'
    BY <1>22 DEF FrontIsRunning, CancelUnpin, queueVars
<1>23. ASSUME CancelAnswer PROVE FrontIsRunning'
    BY <1>23 DEF FrontIsRunning, CancelAnswer, queueVars
<1>24. ASSUME Completion PROVE FrontIsRunning'
    BY <1>24 DEF FrontIsRunning, Completion, queueVars
<1>25. ASSUME CompleteGate PROVE FrontIsRunning'
    BY <1>25 DEF FrontIsRunning, CompleteGate, queueVars, slotVars
<1>26. ASSUME CompleteLock PROVE FrontIsRunning'
    BY <1>26 DEF FrontIsRunning, CompleteLock, FreesSlot, Owns
<1>27. ASSUME CompleteEmit PROVE FrontIsRunning'
    BY <1>27 DEF FrontIsRunning, CompleteEmit, queueVars
<1>28. ASSUME TurnEnd PROVE FrontIsRunning'
    BY <1>28 DEF FrontIsRunning, TurnEnd, QueueContinuation, slotVars
<1>29. ASSUME Flush PROVE FrontIsRunning'
    <2>1. pc = "flush" /\ running' = running /\ interjections \in Seq(Ids)
        BY <1>29, IdsMembers, SeqMonotonic DEF Flush, FlushTo, slotVars, TypeOK
    <2>2. pending' = InsertSeq(pending, FrontSlot(pending), interjections)
        BY <1>29 DEF Flush, FlushTo
    <2>3. FrontSlot(pending) \in FrontSlot(pending)..(Len(pending) + 1)
        BY SlotInQueue
    <2> QED BY <2>1, <2>2, <2>3, InsertBehindFront DEF FrontIsRunning
<1>30. ASSUME Drain PROVE FrontIsRunning'
    BY <1>30 DEF FrontIsRunning, Drain, slotVars
<1>31. ASSUME McpRelease PROVE FrontIsRunning'
    <2>1. pending' = pending /\ Promote
        BY <1>31 DEF McpRelease, queueVars
    <2>2. pc' = pc
        BY <1>31 DEF McpRelease, TypeOK, LoopType, PCs
    <2> QED BY <2>1, <2>2 DEF FrontIsRunning, Promote, CanPromote, slotVars
<1>32. ASSUME NEW p \in Plans, PlanEnqueue(p) PROVE FrontIsRunning'
    BY <1>32, IdsMembers DEF FrontIsRunning, PlanEnqueue, slotVars
<1>33. ASSUME NEW p \in Plans, PlanStart(p) PROVE FrontIsRunning'
    <2>1. pending' = pending /\ Promote
        BY <1>33 DEF PlanStart, queueVars
    <2>2. pc' = pc
        BY <1>33 DEF PlanStart, TypeOK, LoopType, PCs
    <2> QED BY <2>1, <2>2 DEF FrontIsRunning, Promote, CanPromote, slotVars
<1>34. ASSUME CloseRewindWindow PROVE FrontIsRunning'
    BY <1>34 DEF FrontIsRunning, CloseRewindWindow, queueVars
<1>35. ASSUME NEW t \in Ids, TurnBegin(t) PROVE FrontIsRunning'
    BY <1>35 DEF FrontIsRunning, TurnBegin, queueVars, slotVars
<1>36. ASSUME NEW t \in Ids, TurnIndex(t) PROVE FrontIsRunning'
    BY <1>36 DEF FrontIsRunning, TurnIndex, queueVars, slotVars
<1>37. ASSUME NEW t \in Ids, TurnReady(t) PROVE FrontIsRunning'
    BY <1>37 DEF FrontIsRunning, TurnReady, Ready, queueVars, slotVars
<1>38. ASSUME NEW t \in Ids, TurnGoalRound(t) PROVE FrontIsRunning'
    BY <1>38 DEF FrontIsRunning, TurnGoalRound, queueVars, slotVars
<1>39. ASSUME NEW t \in Ids, TurnSetGoal(t) PROVE FrontIsRunning'
    BY <1>39 DEF FrontIsRunning, TurnSetGoal, queueVars, slotVars
<1>40. ASSUME NEW t \in Ids, TurnEnterWait(t) PROVE FrontIsRunning'
    BY <1>40 DEF FrontIsRunning, TurnEnterWait, queueVars, slotVars
<1>41. ASSUME NEW t \in Ids, WaitGuardDrop(t) PROVE FrontIsRunning'
    BY <1>41 DEF FrontIsRunning, WaitGuardDrop, LeaveWait, queueVars, slotVars
<1>42. ASSUME NEW t \in Ids, NEW C \in SUBSET Tasks, TurnToolResult(t, C)
      PROVE  FrontIsRunning'
    <2>1. pending' = Sweep(pending, C) /\ running' = running /\ pc' = pc
        BY <1>42 DEF TurnToolResult, DropConsumed, slotVars
    <2> QED BY <2>1, SweepFront DEF FrontIsRunning
<1>43. ASSUME NEW t \in Ids, DrainInterjections(t) PROVE FrontIsRunning'
    BY <1>43 DEF FrontIsRunning, DrainInterjections, Merge, queueVars, slotVars
<1>44. ASSUME NEW t \in Ids, InjectMonitorEvents(t) PROVE FrontIsRunning'
    BY <1>44 DEF FrontIsRunning, InjectMonitorEvents, queueVars, slotVars
<1>45. ASSUME NEW t \in Ids, TurnUnpin(t) PROVE FrontIsRunning'
    BY <1>45 DEF FrontIsRunning, TurnUnpin, queueVars
<1>46. ASSUME NEW t \in Ids, TurnFinish(t) \/ TurnPauseGoal(t) \/ TurnClearGoal(t)
      PROVE  FrontIsRunning'
    BY <1>46 DEF FrontIsRunning, TurnFinish, TurnPauseGoal, TurnClearGoal, Finish, queueVars, slotVars
<1>47. ASSUME NEW t \in Ids, TaskDropped(t) PROVE FrontIsRunning'
    BY <1>47 DEF FrontIsRunning, TaskDropped, queueVars
<1>48. ASSUME UNCHANGED vars PROVE FrontIsRunning'
    BY <1>48 DEF FrontIsRunning, vars, localVars, queueVars, slotVars
<1>49. ASSUME Command PROVE FrontIsRunning'
    BY <1>49, ReorderRequest, <1>2, <1>3, <1>5, <1>8, <1>9, <1>10, <1>11, <1>12, <1>13,
        <1>14, <1>15, <1>16
    DEF Command
<1>50. ASSUME LoopStep PROVE FrontIsRunning'
    BY <1>50, <1>4, <1>6, <1>7, <1>18, <1>19, <1>20, <1>21, <1>22, <1>23, <1>24, <1>25,
        <1>26, <1>27, <1>28, <1>29, <1>30, <1>17
    DEF LoopStep
<1>51. ASSUME NEW t \in Ids, TurnProgress(t) \/ TurnWork(t) PROVE FrontIsRunning'
    BY <1>51, <1>35, <1>36, <1>37, <1>45, <1>46, <1>38, <1>39, <1>40, <1>42, <1>43, <1>44
    DEF TurnProgress, TurnWork
<1> QED BY <1>41, <1>47, <1>1, <1>31, <1>34, <1>32, <1>33, <1>48, <1>49, <1>50, <1>51
    DEF Next

\* Initially nothing runs.
LEMMA InitInv == Init => TypeOK /\ CurKnown /\ FrontIsRunning
<1> SUFFICES ASSUME Init PROVE TypeOK /\ CurKnown /\ FrontIsRunning
    OBVIOUS
<1>1. QueueType
    BY BoundsAssumption DEF Init, QueueType
<1>2. SlotType
    BY DEF Init, SlotType
<1>2a. NoteType
    <2>1. notifs \in Seq(Tasks) /\ buffer \in Seq(Tasks)
        BY SMT DEF Init
    <2>2. suppressed \in BOOLEAN
        BY Zenon DEF Init
    <2> QED BY <2>1, <2>2 DEF NoteType
<1>3. WaitType /\ GoalType /\ OtherType
    BY BoundsAssumption DEF Init, WaitType, GoalType, OtherType
<1>4. WakeType
    BY DEF Init, WakeType
<1>5. TaskType
    <2>1. task \in [Ids -> TaskStates] /\ turnActive \in BOOLEAN
        BY DEF Init, TaskStates
    <2>2. completions \in Seq(Ids) /\ history \in Seq(Ids)
        BY SMT DEF Init
    <2> QED BY <2>1, <2>2 DEF TaskType
<1>6. LocalType /\ LoopType
    BY DEF Init, LocalType, NoOpts, LoopType, PCs
<1>7. OutType /\ BoundType
    BY BoundsAssumption DEF Init, OutType, Answers, BoundType
<1>8. interjections \in Seq(Steers) /\ sent \in SUBSET Ids
    BY DEF Init
<1>9. CurKnown /\ FrontIsRunning
    BY DEF Init, CurKnown, FrontIsRunning
<1> QED BY <1>1, <1>2, <1>2a, <1>3, <1>4, <1>5, <1>6, <1>7, <1>8, <1>9 DEF TypeOK

\* The session's state is well-typed at every step; in particular blocking_wait_depth never
\* wraps, however late the guards of a cancelled turn are dropped.
THEOREM TypeCorrect == Spec => []TypeOK
<1>1. TypeOK /\ CurKnown /\ [Next]_vars => TypeOK' /\ CurKnown'
    BY TypeStep, CurStep
<1> QED BY <1>1, InitInv, PTL DEF Spec

\* Until the session is shut down, the in-flight turn is the front of the queue, so the pops
\* of handle_completion and of cancel_running_task never take another prompt for it.
THEOREM FrontCorrect == Spec => []FrontIsRunning
<1>1. TypeOK /\ CurKnown /\ FrontIsRunning /\ [Next]_vars
          => TypeOK' /\ CurKnown' /\ FrontIsRunning'
    BY TypeStep, CurStep, FrontStep
<1> QED BY <1>1, InitInv, PTL DEF Spec
===============================================================================
