--------------------------- MODULE SessionTurnProofs ---------------------------
(***************************************************************************)
(* Theorems about what surrounds a turn of SessionActor: the text it runs, *)
(* the pin that names it, the terminal it publishes, the work that waits   *)
(* for it and the waits that let a prompt interrupt it.                    *)
(***************************************************************************)
EXTENDS SessionOnceProofs

-------------------------------------------------------------------------------
(* What a step does to the slot *)

\* A promotion takes a queued prompt without a turn, or does nothing.
PromotesTo(h) ==
    /\ running = None /\ pending # <<>> /\ h = Head(pending)
    /\ h \in Elems(pending) /\ Open(h) /\ task[h] = "none"
    /\ running' = h /\ pin' = h /\ task' = [task EXCEPT ![h] = "spawned"]
    /\ ran' = IF h \in Users THEN [ran EXCEPT ![h] = version[h]] ELSE ran
PromotesNone ==
    UNCHANGED <<slotVars, task, ran>> /\ (running # None \/ pending = <<>>)
LEMMA PromoteEither ==
    ASSUME SessionInv, Promote
    PROVE  PromotesNone \/ \E h \in Ids : PromotesTo(h)
<1>1. CASE ~CanPromote
    BY <1>1 DEF Promote, CanPromote, PromotesNone
<1>2. CASE CanPromote
    <2>0. pending \in Seq(Ids) /\ pending # <<>> /\ running = None /\ None \notin Ids
        BY <1>2, IdsAssumption DEF CanPromote, SessionInv, TypeOK, QueueType
    <2>1. PICK h \in Ids : h = Head(pending) /\ h \in Elems(pending)
        BY <2>0, TailSubset
    <2>2. Open(h) /\ task[h] = "none"
        BY <2>0, <2>1 DEF SessionInv, OnceInv, QueueOnce
    <2>3. PromotesTo(h)
        BY <1>2, <2>0, <2>1, <2>2 DEF Promote, PromotesTo
    <2> QED BY <2>3
<1> QED BY <1>1, <1>2

\* The steps that promote, besides which no turn begins and nothing enters the slot.
Promotes ==
    /\ Promote
    /\ Start \/ McpRelease \/ \E p \in Plans : PlanStart(p)
NoTurn ==
    /\ ran' = ran /\ running' \in {running, None}
    /\ \A p \in Ids : task'[p] = "none" <=> task[p] = "none"
LEMMA SlotStep ==
    ASSUME TypeOK, [Next]_vars
    PROVE  Promotes \/ NoTurn
<1>b. task \in [Ids -> TaskStates]
    BY DEF TypeOK, TaskType
<1>1. ASSUME Command PROVE NoTurn
    BY <1>1 DEF Command, Prompt, Interject, GoalSummaryTurn, RemoveQueuedPrompt, ClearQueue,
        ReorderQueue, EditQueuedPrompt, InterjectQueuedPrompt, Cancel, DropMonitorNotifications,
        InjectNotification, Shutdown, NoTurn, outVars, slotVars, taskVars
<1>2. ASSUME LoopStep PROVE Promotes \/ NoTurn
    <2>1. Start => Promotes
        BY DEF Start, Promotes
    <2>2. CancelLock \/ CancelAbort \/ ShutdownEnd => NoTurn
        BY <1>b DEF CancelLock, CancelAbort, AbortVictim, ShutdownEnd, Aborted, Live, NoTurn,
            outVars, slotVars
    <2>3. \/ Enqueue \/ Fallback \/ CancelBegin \/ CancelGate \/ CancelUnpin \/ CancelAnswer
          \/ Completion \/ CompleteGate \/ CompleteLock \/ CompleteEmit \/ TurnEnd \/ Flush \/ Drain
          => NoTurn
        BY DEF Enqueue, Fallback, CancelBegin, CancelGate, CancelUnpin, CancelAnswer, Completion,
            CompleteGate, CompleteLock, CompleteEmit, TurnEnd, Flush, FlushTo, Drain, NoTurn,
            outVars, slotVars, taskVars
    <2> QED BY <1>2, <2>1, <2>2, <2>3 DEF LoopStep
<1>3. ASSUME NEW t \in Ids, TurnProgress(t) \/ TurnWork(t) \/ WaitGuardDrop(t) \/ TaskDropped(t)
      PROVE  NoTurn
    <2>1. CASE TurnProgress(t) \/ TaskDropped(t)
        BY <1>b, <2>1 DEF TurnProgress, TurnBegin, TurnIndex, TurnReady, TurnUnpin, TurnFinish,
            TurnPauseGoal, TurnClearGoal, Finish, TaskDropped, NoTurn, outVars, slotVars
    <2>2. CASE TurnWork(t) \/ WaitGuardDrop(t)
        BY <2>2 DEF TurnWork, TurnGoalRound, TurnSetGoal, TurnEnterWait, TurnToolResult,
            DrainInterjections, Merge, InjectMonitorEvents, WaitGuardDrop, LeaveWait,
            NoTurn, outVars, slotVars, taskVars
    <2> QED BY <1>3, <2>1, <2>2
<1>4. ASSUME NEW p \in Plans, PlanEnqueue(p) \/ PlanStart(p) PROVE Promotes \/ NoTurn
    BY <1>4 DEF PlanEnqueue, PlanStart, Promotes, NoTurn, outVars, slotVars, taskVars
<1>5. ASSUME McpRelease \/ CloseRewindWindow PROVE Promotes \/ NoTurn
    BY <1>5 DEF McpRelease, CloseRewindWindow, Promotes, NoTurn, outVars, taskVars
<1>6. ASSUME NEW t \in Tasks, NEW covered \in BOOLEAN, TaskCompleted(t, covered) PROVE NoTurn
    BY <1>6 DEF TaskCompleted, NoTurn, outVars, slotVars, taskVars
<1>7. ASSUME UNCHANGED vars PROVE NoTurn
    BY <1>7 DEF vars, NoTurn, outVars, slotVars, taskVars
<1> QED BY <1>1, <1>2, <1>3, <1>4, <1>5, <1>6, <1>7 DEF Next

-------------------------------------------------------------------------------
(* The text a turn runs *)

\* A turn has its row's last text, because a row is edited only before it has a turn.
TextInv ==
    /\ running # None => task[running] # "none"
    /\ \A p \in Ids : answered[p] = "turn" => task[p] # "none"
    /\ \A u \in Users : task[u] # "none" => ran[u] = version[u]

\* An edit changes a queued row which is not the running one.
LEMMA VersionStep ==
    ASSUME TypeOK, [Next]_vars
    PROVE  \/ version' = version
           \/ /\ \E u \in Users : Editable(u) /\ \A v \in Users \ {u} : version'[v] = version[v]
              /\ UNCHANGED <<task, running, ran>>
<1>b. version \in [Users -> 0..MaxVersion]
    BY DEF TypeOK, QueueType
<1>1. ASSUME NEW u \in Users, NEW edit \in BOOLEAN,
             EditQueuedPrompt(u) \/ InterjectQueuedPrompt(u, edit)
      PROVE  /\ Editable(u) /\ \A v \in Users \ {u} : version'[v] = version[v]
             /\ UNCHANGED <<task, running, ran>>
    BY <1>1, <1>b DEF EditQueuedPrompt, InterjectQueuedPrompt, slotVars, taskVars, outVars
<1>2. ASSUME Command
      PROVE  \/ version' = version
             \/ \E u \in Users, edit \in BOOLEAN :
                   EditQueuedPrompt(u) \/ InterjectQueuedPrompt(u, edit)
    BY <1>2 DEF Command, Prompt, Interject, GoalSummaryTurn, RemoveQueuedPrompt, ClearQueue,
        ReorderQueue, Cancel, DropMonitorNotifications, InjectNotification, Shutdown, queueVars
<1>3. ASSUME LoopStep PROVE version' = version
    BY <1>3 DEF LoopStep, Enqueue, Fallback, Start, CancelBegin, CancelLock, CancelGate,
        CancelAbort, AbortVictim, CancelUnpin, CancelAnswer, Completion, CompleteGate,
        CompleteLock, CompleteEmit, TurnEnd, Flush, FlushTo, Drain, ShutdownEnd, queueVars
<1>4. ASSUME NEW t \in Ids, TurnProgress(t) \/ TurnWork(t) \/ WaitGuardDrop(t) \/ TaskDropped(t)
      PROVE  version' = version
    BY <1>4 DEF TurnProgress, TurnBegin, TurnIndex, TurnReady, TurnUnpin, TurnFinish,
        TurnPauseGoal, TurnClearGoal, Finish, TaskDropped, TurnWork, TurnGoalRound, TurnSetGoal,
        TurnEnterWait, TurnToolResult, DrainInterjections, Merge, InjectMonitorEvents,
        WaitGuardDrop, LeaveWait, queueVars
<1>5. ASSUME NEW p \in Plans, PlanEnqueue(p) \/ PlanStart(p) PROVE version' = version
    BY <1>5 DEF PlanEnqueue, PlanStart, queueVars
<1>6. ASSUME McpRelease \/ CloseRewindWindow PROVE version' = version
    BY <1>6 DEF McpRelease, CloseRewindWindow, queueVars
<1>7. ASSUME NEW t \in Tasks, NEW covered \in BOOLEAN, TaskCompleted(t, covered)
      PROVE  version' = version
    BY <1>7 DEF TaskCompleted, queueVars
<1>8. ASSUME UNCHANGED vars PROVE version' = version
    BY <1>8 DEF vars, queueVars
<1> QED BY <1>1, <1>2, <1>3, <1>4, <1>5, <1>6, <1>7, <1>8 DEF Next

\* Every step preserves it.
LEMMA TextStep ==
    ASSUME SessionInv, TextInv, [Next]_vars
    PROVE  TextInv'
<1>b. /\ TypeOK /\ task \in [Ids -> TaskStates] /\ running \in Ids \cup {None} /\ None \notin Ids
      /\ ran \in [Users -> 0..MaxVersion] /\ version \in [Users -> 0..MaxVersion]
      /\ Users \subseteq Ids /\ answered \in [Ids -> Answers]
    BY IdsMembers, IdsAssumption DEF SessionInv, TypeOK, TaskType, OutType, SlotType, QueueType
<1>1. ASSUME NEW p \in Ids, answered'[p] = "turn" PROVE task[p] # "none"
    <2>1. AnswerOnce
        BY AnswerStep
    <2> QED BY <1>b, <1>1, <2>1 DEF AnswerOnce, TextInv
<1>2. CASE Promotes
    <2>1. version' = version /\ answered' = answered
        BY <1>2 DEF Promotes, Start, McpRelease, PlanStart, queueVars
    <2>2. CASE PromotesNone
        BY <1>b, <2>1, <2>2 DEF PromotesNone, TextInv, slotVars
    <2>3. CASE \E h \in Ids : PromotesTo(h)
        BY <1>b, <2>1, <2>3 DEF PromotesTo, TextInv
    <2> QED BY <1>2, <2>2, <2>3, PromoteEither DEF Promotes
<1>3. CASE NoTurn
    <2>1. \/ version' = version
          \/ \E u \in Users : /\ task[u] = "none"
                              /\ \A v \in Users \ {u} : version'[v] = version[v]
        BY <1>b, VersionStep DEF SessionInv, OnceInv, QueueOnce, Editable
    <2>2. ASSUME NEW u \in Users, task'[u] # "none" PROVE ran'[u] = version'[u]
        BY <1>b, <1>3, <2>1, <2>2 DEF NoTurn, TextInv
    <2>3. running' # None => task'[running'] # "none"
        BY <1>b, <1>3 DEF NoTurn, TextInv
    <2> QED BY <1>1, <1>3, <2>2, <2>3 DEF NoTurn, TextInv
<1> QED BY <1>b, <1>2, <1>3, SlotStep

-------------------------------------------------------------------------------
(* The pin *)

\* A pin names the running turn, except from the lock of a cancel to its unpinning.  The
\* snapshot a cancel takes stays true until it has the lock, and while a completion waits for
\* the lock nobody pins the turn that has ended.
UnpinPCs == {"cancel_gate", "cancel_abort", "cancel_unpin"}
CompletePCs == {"complete_gate", "complete_lock"}
PinInv ==
    /\ pc \notin UnpinPCs /\ pin # None => pin = running
    /\ pc = "cancel_lock" /\ pinned # None => running = pinned
    /\ pc \in CompletePCs => pin # cur

\* The other steps leave the slot alone, and the pin or clear it.
PinKeep ==
    /\ pin' \in {pin, None} /\ running' = running
    /\ pc \in UnpinPCs => pc' \in UnpinPCs
    /\ pc' = "cancel_lock" => pc = "cancel_lock" /\ pinned' = pinned
    /\ pc' \in CompletePCs => pc \in CompletePCs /\ cur' = cur
LEMMA PinSteps ==
    ASSUME [Next]_vars, TypeOK
    PROVE  \/ Promotes \/ PinKeep
           \/ CancelBegin \/ CancelLock \/ CancelUnpin \/ Completion \/ CompleteLock
<1> USE DEF UnpinPCs, CompletePCs
<1>1. ASSUME Command PROVE PinKeep
    BY <1>1 DEF Command, Prompt, Interject, GoalSummaryTurn, RemoveQueuedPrompt, ClearQueue,
        ReorderQueue, EditQueuedPrompt, InterjectQueuedPrompt, Cancel, DropMonitorNotifications,
        InjectNotification, Shutdown, Ready, PinKeep, localVars, slotVars
<1>2. ASSUME LoopStep
      PROVE  \/ Promotes \/ PinKeep
             \/ CancelBegin \/ CancelLock \/ CancelUnpin \/ Completion \/ CompleteLock
    BY <1>2 DEF LoopStep, Enqueue, Fallback, Start, Promotes, CancelGate, CancelAbort,
        AbortVictim, CancelAnswer, CompleteGate, CompleteEmit, TurnEnd, Flush, FlushTo, Drain,
        ShutdownEnd, PinKeep, localVars, slotVars
<1>3. ASSUME NEW t \in Ids, TurnProgress(t) \/ TurnWork(t) \/ WaitGuardDrop(t) \/ TaskDropped(t)
      PROVE  PinKeep
    BY <1>3 DEF TurnProgress, TurnBegin, TurnIndex, TurnReady, TurnUnpin, TurnFinish,
        TurnPauseGoal, TurnClearGoal, Finish, TaskDropped, TurnWork, TurnGoalRound, TurnSetGoal,
        TurnEnterWait, TurnToolResult, DrainInterjections, Merge, InjectMonitorEvents,
        WaitGuardDrop, LeaveWait, Unpin, PinKeep, localVars, slotVars
<1>4. ASSUME NEW p \in Plans, PlanEnqueue(p) \/ PlanStart(p) PROVE Promotes \/ PinKeep
    BY <1>4 DEF PlanEnqueue, PlanStart, Promotes, PinKeep, localVars, slotVars
<1>5. ASSUME McpRelease \/ CloseRewindWindow PROVE Promotes \/ PinKeep
    BY <1>5 DEF McpRelease, CloseRewindWindow, Promotes, PinKeep, localVars, slotVars
<1>6. ASSUME NEW t \in Tasks, NEW covered \in BOOLEAN, TaskCompleted(t, covered) PROVE PinKeep
    BY <1>6 DEF TaskCompleted, PinKeep, localVars, slotVars
<1>7. ASSUME UNCHANGED vars PROVE PinKeep
    BY <1>7 DEF vars, PinKeep, localVars, slotVars
<1> QED BY <1>1, <1>2, <1>3, <1>4, <1>5, <1>6, <1>7 DEF Next

\* What a promoter leaves alone, and where it leaves the run loop.
LEMMA PromotesLocals ==
    ASSUME Promotes, TypeOK
    PROVE  /\ UNCHANGED <<queueVars, waitVars, localVars, interjections, sent, answered, terminals>>
           /\ pc' = pc \/ (pc = "start" /\ pc' \in {"top", "drain"})
BY DEF Promotes, Start, McpRelease, PlanStart, TypeOK, LoopType

\* Every step preserves it.
LEMMA PinStep ==
    ASSUME SessionInv, PinInv, [Next]_vars
    PROVE  PinInv'
<1>b. /\ TypeOK /\ running \in Ids \cup {None} /\ pin \in Ids \cup {None} /\ None \notin Ids
      /\ completions \in Seq(Ids)
    BY IdsAssumption DEF SessionInv, TypeOK, TaskType, SlotType
<1>1. CASE Promotes
    <2>1. /\ UNCHANGED <<pinned, cur>> /\ (pc' = pc \/ (pc = "start" /\ pc' \in {"top", "drain"}))
        BY <1>b, <1>1, PromotesLocals DEF localVars
    <2>2. CASE PromotesNone
        BY <2>1, <2>2 DEF PromotesNone, PinInv, UnpinPCs, CompletePCs, slotVars
    <2>3. ASSUME NEW h \in Ids, PromotesTo(h) PROVE PinInv'
        <3>1. pc \in CompletePCs => task[cur] = "ended"
            BY DEF SessionInv, TurnInv, EndedOnce, CompletePCs
        <3> QED BY <1>b, <2>1, <2>3, <3>1 DEF PromotesTo, PinInv, CompletePCs
    <2> QED BY <1>1, <2>2, <2>3, PromoteEither DEF Promotes
<1>2. CASE PinKeep
    <2>1. pc' \in CompletePCs => pin' # cur'
        <3>1. pc \in CompletePCs => cur \in Ids
            BY DEF SessionInv, CurKnown, CompletePCs
        <3> QED BY <1>b, <1>2, <3>1 DEF PinKeep, PinInv
    <2> QED BY <1>2, <2>1 DEF PinKeep, PinInv
<1>3. CASE CancelBegin
    BY <1>3 DEF CancelBegin, PinInv, UnpinPCs, CompletePCs, slotVars
<1>4. CASE CancelLock
    BY <1>4 DEF CancelLock, PinInv, UnpinPCs, CompletePCs
<1>5. CASE CancelUnpin
    BY <1>5 DEF CancelUnpin, PinInv, UnpinPCs, CompletePCs
<1>6. CASE Completion
    <2>1. Head(completions) \in Ids
        BY <1>b, <1>6 DEF Completion
    <2> QED BY <1>b, <1>6, <2>1 DEF Completion, PinInv, UnpinPCs, CompletePCs
<1>7. CASE CompleteLock
    <2>1. /\ pc = "complete_lock" /\ pc' = "complete_emit" /\ pin' = pin
          /\ running' = IF FreesSlot(cur) THEN None ELSE running
        BY <1>7 DEF CompleteLock
    <2>2. running # None => pending # <<>> /\ Head(pending) = running
        BY <2>1 DEF SessionInv, FrontIsRunning, Stopping
    <2>3. pin # None => pin = running /\ pin # cur
        BY <2>1 DEF PinInv, UnpinPCs, CompletePCs
    <2>4. pin # None => running' = running
        BY <2>1, <2>2, <2>3 DEF FreesSlot, Owns
    <2> QED BY <2>1, <2>3, <2>4 DEF PinInv, UnpinPCs, CompletePCs
<1> QED BY <1>b, <1>1, <1>2, <1>3, <1>4, <1>5, <1>6, <1>7, PinSteps

-------------------------------------------------------------------------------
(* The waits of a turn *)

\* A positive depth is the wait of the running turn, which still executes; between the lock of
\* a cancel and its abort the waits of two turns may be counted.
WaitPCs == {"cancel_gate", "cancel_abort"}
WaitInv ==
    pc \notin WaitPCs /\ depth > 0
        => depth = 1 /\ running \in waiting /\ task[running] = "live"

\* The other steps leave the waits alone, and the state of a turn that waits.
WaitKeep ==
    /\ UNCHANGED <<depth, waiting, running>>
    /\ pc \in WaitPCs => pc' \in WaitPCs
    /\ running \in waiting /\ task[running] = "live" => task'[running] = "live"
LEMMA WaitSteps ==
    ASSUME [Next]_vars, TypeOK
    PROVE  \/ Promotes \/ WaitKeep \/ CancelLock \/ CancelAbort \/ CompleteLock \/ ShutdownEnd
           \/ \E t \in Ids : TurnEnterWait(t) \/ WaitGuardDrop(t)
<1> USE DEF WaitPCs
<1>b. task \in [Ids -> TaskStates] /\ waiting \subseteq Ids
    BY DEF TypeOK, TaskType, WaitType
<1>1. ASSUME Command PROVE WaitKeep
    BY <1>1 DEF Command, Prompt, Interject, GoalSummaryTurn, RemoveQueuedPrompt, ClearQueue,
        ReorderQueue, EditQueuedPrompt, InterjectQueuedPrompt, Cancel, DropMonitorNotifications,
        InjectNotification, Shutdown, Ready, WaitKeep, slotVars, waitVars, taskVars
<1>2. ASSUME LoopStep
      PROVE  Promotes \/ WaitKeep \/ CancelLock \/ CancelAbort \/ CompleteLock \/ ShutdownEnd
    BY <1>2 DEF LoopStep, Enqueue, Fallback, Start, Promotes, CancelBegin, CancelGate,
        CancelUnpin, CancelAnswer, Completion, CompleteGate, CompleteEmit, TurnEnd, Flush,
        FlushTo, Drain, WaitKeep, slotVars, waitVars, taskVars
<1>3. ASSUME NEW t \in Ids, TurnProgress(t) \/ TaskDropped(t) PROVE WaitKeep
    BY <1>b, <1>3 DEF TurnProgress, TurnBegin, TurnIndex, TurnReady, TurnUnpin, TurnFinish,
        TurnPauseGoal, TurnClearGoal, Finish, TaskDropped, WaitKeep, slotVars, waitVars
<1>8. ASSUME NEW t \in Ids, TurnWork(t) PROVE WaitKeep \/ TurnEnterWait(t)
    BY <1>8 DEF TurnWork, TurnGoalRound, TurnSetGoal, TurnToolResult, DrainInterjections,
        Merge, InjectMonitorEvents, WaitKeep, slotVars, waitVars, taskVars
<1>4. ASSUME NEW p \in Plans, PlanEnqueue(p) \/ PlanStart(p) PROVE Promotes \/ WaitKeep
    BY <1>4 DEF PlanEnqueue, PlanStart, Promotes, WaitKeep, slotVars, waitVars, taskVars
<1>5. ASSUME McpRelease \/ CloseRewindWindow PROVE Promotes \/ WaitKeep
    BY <1>5 DEF McpRelease, CloseRewindWindow, Promotes, WaitKeep, waitVars, taskVars
<1>6. ASSUME NEW t \in Tasks, NEW covered \in BOOLEAN, TaskCompleted(t, covered) PROVE WaitKeep
    BY <1>6 DEF TaskCompleted, WaitKeep, slotVars, waitVars, taskVars
<1>7. ASSUME UNCHANGED vars PROVE WaitKeep
    BY <1>7 DEF vars, WaitKeep, slotVars, waitVars, taskVars
<1> QED BY <1>1, <1>2, <1>3, <1>4, <1>5, <1>6, <1>7, <1>8 DEF Next

\* Every step preserves it.
LEMMA WaitStep ==
    ASSUME SessionInv, WaitInv, [Next]_vars
    PROVE  WaitInv'
<1>b. /\ TypeOK /\ None \notin Ids /\ depth \in Nat /\ waiting \subseteq Ids
      /\ task \in [Ids -> TaskStates] /\ LiveTurns /\ running \in Ids \cup {None}
    BY IdsAssumption DEF SessionInv, TypeOK, TaskType, SlotType, WaitType, TurnInv
<1>1. CASE Promotes
    <2>1. UNCHANGED <<depth, waiting>> /\ (pc' = pc \/ (pc = "start" /\ pc' \in {"top", "drain"}))
        BY <1>b, <1>1, PromotesLocals DEF waitVars
    <2>2. CASE PromotesNone
        BY <2>1, <2>2 DEF PromotesNone, WaitInv, WaitPCs, slotVars
    <2>3. ASSUME NEW h \in Ids, PromotesTo(h) PROVE WaitInv'
        <3>1. running \notin waiting
            BY <1>b, <2>3 DEF PromotesTo
        <3> QED BY <2>1, <3>1 DEF WaitInv, WaitPCs
    <2> QED BY <1>1, <2>2, <2>3, PromoteEither DEF Promotes
<1>2. CASE WaitKeep
    BY <1>2 DEF WaitKeep, WaitInv
<1>3. CASE CancelLock
    BY <1>3 DEF CancelLock, WaitInv, WaitPCs
<1>4. CASE CancelAbort \/ ShutdownEnd
    BY <1>4 DEF CancelAbort, ShutdownEnd, WaitInv
<1>5. CASE CompleteLock
    <2>1. /\ pc = "complete_lock" /\ UNCHANGED <<depth, waiting, task>>
          /\ running' = IF FreesSlot(cur) THEN None ELSE running
        BY <1>5 DEF CompleteLock, waitVars, taskVars
    <2>2. running # None => pending # <<>> /\ Head(pending) = running
        BY <2>1 DEF SessionInv, FrontIsRunning, Stopping
    <2>3. task[cur] = "ended"
        BY <2>1 DEF SessionInv, TurnInv, EndedOnce
    <2>4. running' = running \/ running \in {cur, None}
        BY <2>1, <2>2 DEF FreesSlot, Owns
    <2> QED BY <1>b, <2>1, <2>3, <2>4 DEF WaitInv, WaitPCs
<1>6. ASSUME NEW t \in Ids, TurnEnterWait(t) PROVE WaitInv'
    <2>1. /\ task[t] = "live" /\ t \notin waiting /\ waiting' = waiting \cup {t}
          /\ depth' = depth + 1 /\ UNCHANGED <<running, task, pc>>
        BY <1>6 DEF TurnEnterWait, slotVars, taskVars
    <2>2. pc \notin WaitPCs => t = running
        BY <2>1, <1>b DEF LiveTurns, Live, WaitPCs
    <2> QED BY <1>b, <2>1, <2>2 DEF WaitInv
<1>7. ASSUME NEW t \in Ids, WaitGuardDrop(t) PROVE WaitInv'
    <2>1. /\ depth' = (IF depth = 0 THEN 0 ELSE depth - 1) /\ UNCHANGED <<running, task, pc>>
        BY <1>7 DEF WaitGuardDrop, LeaveWait, slotVars, taskVars
    <2> QED BY <1>b, <2>1 DEF WaitInv
<1> QED BY <1>b, <1>1, <1>2, <1>3, <1>4, <1>5, <1>6, <1>7, WaitSteps

-------------------------------------------------------------------------------
(* The terminal of a turn *)

\* The run loop has answered p and is about to publish its terminal.
Owed(p) == pc = "complete_emit" /\ opts.owned /\ cur = p
Over(p) == answered[p] \in {"turn", "cancelled"}

\* A turn has a terminal when its prompt was answered by it or cancelled, and only then.  For
\* the prompts a cancel has set aside: the one with a turn is the victim, and a cancel without
\* a victim has no pin to name instead.
TermInv ==
    /\ \A p \in Ids : terminals[p] \in {0, 1} /\ (~Over(p) => terminals[p] = 0)
    /\ \A p \in Ids : Over(p) /\ task[p] # "none" => terminals[p] = 1 \/ Owed(p)
    /\ \A p \in Ids : Owed(p) => answered[p] = "turn" /\ terminals[p] = 0
    /\ pc \in CancelPCs /\ rewound = None =>
          IF victim = None THEN pinned = None ELSE victim \in Elems(doomed)
    /\ pc \in CancelPCs => \A p \in Elems(doomed) : task[p] # "none" => p = victim

\* No step begins the turn of a prompt that is answered or set aside.
LEMMA NoLateTurn ==
    ASSUME SessionInv, [Next]_vars, NEW p \in Ids, answered[p] # "open" \/ p \in Condemned
    PROVE  task'[p] = "none" <=> task[p] = "none"
<1>b. TypeOK /\ task \in [Ids -> TaskStates] /\ OnceInv
    BY DEF SessionInv, TypeOK, TaskType
<1>1. CASE Promotes
    <2>1. CASE PromotesNone
        BY <2>1 DEF PromotesNone
    <2>2. ASSUME NEW h \in Ids, PromotesTo(h) PROVE task'[p] = "none" <=> task[p] = "none"
        <3>1. h # p
            BY <1>b, <2>2 DEF PromotesTo, Open, OnceInv, DoomedOnce
        <3> QED BY <1>b, <2>2, <3>1 DEF PromotesTo
    <2> QED BY <1>1, <2>1, <2>2, PromoteEither DEF Promotes
<1>2. CASE NoTurn
    BY <1>2 DEF NoTurn
<1> QED BY <1>b, <1>1, <1>2, SlotStep

\* The other steps publish no terminal, end no turn's prompt and leave the locals of a cancel
\* or a completion alone.
TermKeep ==
    /\ terminals' = terminals
    /\ \A p \in Ids : answered'[p] # answered[p] => answered'[p] \in {"removed", "cleared", "merged"}
    /\ pc = "complete_emit" <=> pc' = "complete_emit"
    /\ pc = "complete_emit" => opts' = opts /\ cur' = cur
    /\ pc' \in CancelPCs => pc \in CancelPCs /\ UNCHANGED <<rewound, victim, pinned, doomed>>
LEMMA TermSteps ==
    ASSUME [Next]_vars, TypeOK
    PROVE  TermKeep \/ CancelLock \/ CancelAnswer \/ CompleteLock \/ CompleteEmit
<1> USE DEF CancelPCs
<1>b. answered \in [Ids -> Answers] /\ Users \subseteq Ids /\ after \in {"top", "drain"}
    BY IdsMembers DEF TypeOK, OutType, LoopType
<1>1. ASSUME Command PROVE TermKeep
    <2>1. \/ answered' = answered
          \/ \E u \in Users : RemoveQueuedPrompt(u)
          \/ \E c \in Clients \cup {None} : ClearQueue(c)
        BY <1>1 DEF Command, Prompt, Interject, GoalSummaryTurn, ReorderQueue, EditQueuedPrompt,
            InterjectQueuedPrompt, Cancel, DropMonitorNotifications, InjectNotification,
            Shutdown, outVars
    <2>2. \A p \in Ids : answered'[p] # answered[p] => answered'[p] \in {"removed", "cleared", "merged"}
        BY <1>b, <2>1 DEF RemoveQueuedPrompt, ClearQueue
    <2>3. /\ terminals' = terminals /\ pc = "top"
          /\ pc' \in {"top", "enqueue", "fallback", "start", "cancel", "drain", "shutdown"}
        BY <1>1 DEF Command, Prompt, Interject, GoalSummaryTurn, RemoveQueuedPrompt, ClearQueue,
            ReorderQueue, EditQueuedPrompt, InterjectQueuedPrompt, Cancel,
            DropMonitorNotifications, InjectNotification, Shutdown, Ready, outVars
    <2> QED BY <2>2, <2>3 DEF TermKeep
<1>2. ASSUME LoopStep
      PROVE  TermKeep \/ CancelLock \/ CancelAnswer \/ CompleteLock \/ CompleteEmit
    <2>1. ASSUME CancelBegin PROVE TermKeep
        BY <1>b, <2>1 DEF CancelBegin, TermKeep
    <2>2. ASSUME CancelGate \/ CancelAbort \/ CancelUnpin PROVE TermKeep
        BY <2>2 DEF CancelGate, CancelAbort, AbortVictim, CancelUnpin, TermKeep, outVars, localVars
    <2>3. ASSUME \/ Enqueue \/ Fallback \/ Start \/ Completion \/ CompleteGate \/ TurnEnd
                 \/ Flush \/ Drain \/ ShutdownEnd
          PROVE  TermKeep
        BY <1>b, <2>3 DEF Enqueue, Fallback, Start, Completion, CompleteGate, TurnEnd, Flush,
            FlushTo, Drain, ShutdownEnd, TermKeep, outVars, localVars
    <2> QED BY <1>2, <2>1, <2>2, <2>3 DEF LoopStep
<1>3. ASSUME NEW t \in Ids, TurnProgress(t) \/ TurnWork(t) \/ WaitGuardDrop(t) \/ TaskDropped(t)
      PROVE  TermKeep
    <2>1. ASSUME DrainInterjections(t) PROVE TermKeep
        BY <1>b, <2>1 DEF DrainInterjections, Merge, TermKeep, localVars
    <2>2. DrainInterjections(t) \/ UNCHANGED <<terminals, answered, pc, localVars>>
        BY <1>3 DEF TurnProgress, TurnBegin, TurnIndex, TurnReady, TurnUnpin, TurnFinish,
            TurnPauseGoal, TurnClearGoal, Finish, TaskDropped, TurnWork, TurnGoalRound, TurnSetGoal,
            TurnEnterWait, TurnToolResult, InjectMonitorEvents, WaitGuardDrop, LeaveWait, outVars
    <2> QED BY <2>1, <2>2 DEF TermKeep, localVars
<1>4. ASSUME NEW p \in Plans, PlanEnqueue(p) \/ PlanStart(p) PROVE TermKeep
    BY <1>4 DEF PlanEnqueue, PlanStart, TermKeep, localVars, outVars
<1>5. ASSUME McpRelease \/ CloseRewindWindow PROVE TermKeep
    BY <1>5 DEF McpRelease, CloseRewindWindow, TermKeep, localVars, outVars
<1>6. ASSUME NEW t \in Tasks, NEW covered \in BOOLEAN, TaskCompleted(t, covered) PROVE TermKeep
    BY <1>6 DEF TaskCompleted, TermKeep, localVars, outVars
<1>7. ASSUME UNCHANGED vars PROVE TermKeep
    BY <1>7 DEF vars, TermKeep, localVars, outVars
<1> QED BY <1>1, <1>2, <1>3, <1>4, <1>5, <1>6, <1>7 DEF Next

\* Every step preserves it.
LEMMA TermStep ==
    ASSUME SessionInv, PinInv, TermInv, [Next]_vars
    PROVE  TermInv'
<1>b. /\ TypeOK /\ OnceInv /\ None \notin Ids /\ pending \in Seq(Ids) /\ Elems(pending) \subseteq Ids
      /\ answered \in [Ids -> Answers] /\ terminals \in [Ids -> Nat]
      /\ task \in [Ids -> TaskStates] /\ running \in Ids \cup {None}
      /\ Elems(doomed) \subseteq Ids /\ Condemned \subseteq Ids /\ Elems(doomed) \subseteq Condemned
      /\ doomed \in Seq(Ids)
    BY IdsAssumption, PlaceTypes
    DEF SessionInv, TypeOK, TaskType, SlotType, OutType, QueueType, LocalType, Condemned
<1>c. \A p \in Ids : answered[p] # "open" \/ p \in Condemned => (task'[p] = "none" <=> task[p] = "none")
    BY NoLateTurn
<1>1. CASE TermKeep
    <2>1. \A p \in Ids : answered'[p] # answered[p] => answered[p] = "open" /\ ~Over(p)'
        <3>1. AnswerOnce
            BY AnswerStep
        <3> QED BY <1>1, <3>1 DEF TermKeep, AnswerOnce, Over
    <2>2. \A p \in Ids : Over(p)' <=> Over(p)
        BY <2>1 DEF Over
    <2>3. \A p \in Ids : Owed(p)' <=> Owed(p)
        BY <1>1 DEF TermKeep, Owed
    <2>4. \A p \in Ids : terminals'[p] \in {0, 1} /\ (~Over(p)' => terminals'[p] = 0)
        BY <1>1, <2>2 DEF TermKeep, TermInv
    <2>5. \A p \in Ids : Over(p)' /\ task'[p] # "none" => terminals'[p] = 1 \/ Owed(p)'
        BY <1>1, <1>c, <2>2, <2>3 DEF TermKeep, TermInv, Over
    <2>6. \A p \in Ids : Owed(p)' => answered'[p] = "turn" /\ terminals'[p] = 0
        BY <1>1, <2>1, <2>3 DEF TermKeep, TermInv
    <2>7. pc' \in CancelPCs =>
            /\ rewound' = None =>
                  IF victim' = None THEN pinned' = None ELSE victim' \in Elems(doomed')
            /\ \A p \in Elems(doomed') : task'[p] # "none" => p = victim'
        BY <1>b, <1>1, <1>c DEF TermKeep, TermInv
    <2> QED BY <2>4, <2>5, <2>6, <2>7 DEF TermInv
<1>2. CASE CancelLock
    <2>1. /\ pc = "cancel_lock" /\ pc' = "cancel_gate" /\ UNCHANGED <<answered, terminals, pinned>>
        BY <1>2 DEF CancelLock, outVars
    <2>2. running # None => pending # <<>> /\ Head(pending) = running
        BY <2>1 DEF SessionInv, FrontIsRunning, Stopping
    <2>3. \A p \in Ids : task'[p] = "none" <=> task[p] = "none"
        BY <1>2, <1>b DEF CancelLock, Aborted, Live
    <2>4. /\ \A p \in Ids : terminals'[p] \in {0, 1} /\ (~Over(p)' => terminals'[p] = 0)
          /\ \A p \in Ids : Over(p)' /\ task'[p] # "none" => terminals'[p] = 1 \/ Owed(p)'
          /\ \A p \in Ids : ~Owed(p)'
        BY <2>1, <2>3 DEF TermInv, Owed, Over
    <2>5. pinned # None => running = pinned
        BY <2>1 DEF PinInv
    <2>6. \A p \in Elems(pending) : task[p] # "none" => p = running
        BY <1>b DEF OnceInv, QueueOnce
    <2>7. CASE Rewinds /\ pending # <<>>
        <3>1. rewound' = Head(pending) /\ doomed' = <<>> /\ Head(pending) \in Ids
            BY <1>2, <1>b, <2>7 DEF CancelLock
        <3> QED BY <1>b, <2>4, <3>1, EmptyQueue DEF TermInv
    <2>8. CASE Rewinds /\ pending = <<>>
        <3>1. doomed' = <<>> /\ victim' = None /\ running = None
            BY <1>2, <2>2, <2>8 DEF CancelLock
        <3> QED BY <2>1, <2>4, <2>5, <3>1, EmptyQueue DEF TermInv
    <2>9. CASE ~Rewinds
        <3>1. /\ victim' = running
              /\ doomed' = IF opts.kill \/ pending = <<>> THEN pending ELSE <<Head(pending)>>
            BY <1>2, <2>9 DEF CancelLock
        <3>2. /\ Elems(doomed') \subseteq Elems(pending)
              /\ pending # <<>> => Head(pending) \in Elems(doomed')
            <4>1. pending # <<>> => Head(pending) \in Elems(pending)
                BY <1>b, TailSubset
            <4>2. Elems(<<Head(pending)>>) = {Head(pending)}
                BY DEF Elems
            <4> QED BY <3>1, <4>1, <4>2
        <3>3. \A p \in Elems(doomed') : task'[p] # "none" => p = victim'
            BY <1>b, <2>3, <2>6, <3>1, <3>2
        <3> QED BY <2>1, <2>2, <2>4, <2>5, <3>1, <3>2, <3>3 DEF TermInv
    <2> QED BY <2>7, <2>8, <2>9
<1>3. CASE CancelAnswer
    <2>1. pc = "cancel_answer" /\ pc' = "start" /\ task' = task
        BY <1>3 DEF CancelAnswer
    <2>2. \A p \in Condemned : answered[p] = "open"
        BY <1>b DEF OnceInv, DoomedOnce, Open
    <2>3. \A p \in Ids : ~Owed(p) /\ ~Owed(p)'
        BY <2>1 DEF Owed
    <2>4. CASE rewound # None
        <3>1. answered' = [answered EXCEPT ![rewound] = "rewound"] /\ terminals' = terminals
            BY <1>3, <2>4 DEF CancelAnswer
        <3>2. rewound \in Condemned
            BY <2>4 DEF Condemned
        <3>3. \A p \in Ids : Over(p)' <=> Over(p)
            BY <1>b, <2>2, <3>1, <3>2 DEF Over
        <3> QED BY <2>1, <2>3, <3>1, <3>3 DEF TermInv, CancelPCs
    <2>5. CASE rewound = None
        <3>1. answered' = [p \in Ids |-> IF p \in Elems(doomed) THEN "cancelled" ELSE answered[p]]
            BY <1>3, <2>5 DEF CancelAnswer
        <3>2. IF victim = None THEN pinned = None ELSE victim \in Elems(doomed)
            BY <2>1, <2>5 DEF TermInv, CancelPCs
        <3>3. terminals' = IF victim # None THEN [terminals EXCEPT ![victim] = @ + 1] ELSE terminals
            BY <1>3, <2>5, <3>2 DEF CancelAnswer, CancelledId
        <3>4. \A p \in Elems(doomed) : terminals[p] = 0 /\ (task[p] # "none" => p = victim)
            BY <1>b, <2>1, <2>2 DEF TermInv, CancelPCs, Over
        <3>5. \A p \in Ids : Over(p)' <=> Over(p) \/ p \in Elems(doomed)
            BY <1>b, <3>1 DEF Over
        <3>6. \A p \in Ids : terminals'[p] = IF p = victim THEN 1 ELSE terminals[p]
            BY <1>b, <3>2, <3>3, <3>4
        <3>7. \A p \in Ids : terminals'[p] \in {0, 1} /\ (~Over(p)' => terminals'[p] = 0)
            BY <1>b, <3>2, <3>5, <3>6 DEF TermInv
        <3>8. \A p \in Ids : Over(p)' /\ task'[p] # "none" => terminals'[p] = 1
            BY <2>1, <2>3, <3>4, <3>5, <3>6 DEF TermInv
        <3> QED BY <2>1, <2>3, <3>7, <3>8 DEF TermInv, CancelPCs
    <2> QED BY <2>4, <2>5
<1>4. CASE CompleteLock
    <2>1. /\ pc = "complete_lock" /\ pc' = "complete_emit" /\ UNCHANGED <<task, cur, terminals>>
          /\ opts' = [NoOpts EXCEPT !.owned = Owns(cur)] /\ cur \in Ids
        BY <1>4 DEF CompleteLock, taskVars, SessionInv, CurKnown
    <2>2. \A p \in Ids : ~Owed(p)
        BY <2>1 DEF Owed
    <2>3. opts'.owned = Owns(cur)
        BY <2>1 DEF NoOpts
    <2>4. CASE ~Owns(cur)
        <3>1. answered' = answered /\ \A p \in Ids : ~Owed(p)'
            BY <1>4, <2>3, <2>4 DEF CompleteLock, Owed
        <3> QED BY <2>1, <2>2, <3>1 DEF TermInv, Over, CancelPCs
    <2>5. CASE Owns(cur)
        <3>1. answered' = [answered EXCEPT ![cur] = "turn"] /\ cur \in Elems(pending)
            BY <1>4, <1>b, <2>5, TailSubset DEF CompleteLock, Owns
        <3>2. answered[cur] = "open" /\ terminals[cur] = 0
            BY <1>b, <3>1 DEF OnceInv, QueueOnce, Open, TermInv, Over
        <3>3. \A p \in Ids : Owed(p)' <=> p = cur
            BY <2>1, <2>3, <2>5 DEF Owed
        <3>4. \A p \in Ids : Over(p)' <=> Over(p) \/ p = cur
            BY <1>b, <3>1 DEF Over
        <3> QED BY <1>b, <2>1, <2>2, <3>1, <3>2, <3>3, <3>4 DEF TermInv, CancelPCs
    <2> QED BY <2>4, <2>5
<1>5. CASE CompleteEmit
    <2>1. /\ pc = "complete_emit" /\ pc' = "turn_end" /\ UNCHANGED <<task, answered>> /\ cur \in Ids
        BY <1>5 DEF CompleteEmit, taskVars, SessionInv, CurKnown
    <2>2. \A p \in Ids : ~Owed(p)' /\ (Over(p)' <=> Over(p))
        BY <2>1 DEF Owed, Over
    <2>3. CASE opts.owned
        <3>1. terminals' = [terminals EXCEPT ![cur] = @ + 1] /\ Owed(cur)
            BY <1>5, <2>1, <2>3 DEF CompleteEmit, Emits, Owed
        <3>2. answered[cur] = "turn" /\ terminals[cur] = 0
            BY <2>1, <3>1 DEF TermInv
        <3>3. \A p \in Ids : Owed(p) => p = cur
            BY DEF Owed
        <3>4. \A p \in Ids : terminals'[p] = IF p = cur THEN 1 ELSE terminals[p]
            BY <1>b, <3>1, <3>2
        <3> QED BY <2>1, <2>2, <3>2, <3>3, <3>4 DEF TermInv, CancelPCs, Over
    <2>4. CASE ~opts.owned
        <3>1. terminals' = terminals /\ \A p \in Ids : ~Owed(p)
            BY <1>5, <2>4 DEF CompleteEmit, Emits, Owed
        <3> QED BY <2>1, <2>2, <3>1 DEF TermInv, CancelPCs
    <2> QED BY <2>3, <2>4
<1> QED BY <1>b, <1>1, <1>2, <1>3, <1>4, <1>5, TermSteps

-------------------------------------------------------------------------------
(* The work that waits for a turn *)

\* Where the run loop is not on its way to a promotion, and where it is between the end of a
\* turn and the flush of the interjections it left.
RestPCs == {"top", "enqueue", "fallback", "drain"}
EndPCs == {"complete_emit", "turn_end", "flush"}
Promised == running # None \/ \E p \in Plans : plan[p] = "queued"

\* Queued prompts have a turn ahead of them or someone about to promote, interjections a turn,
\* and a cancel has discarded those before it takes the turn.
StrandInv ==
    /\ pc \in RestPCs /\ pending # <<>> => Promised
    /\ pc \notin EndPCs /\ interjections # <<>> => running # None
    /\ pc = "cancel_lock" => interjections = <<>>

\* A queue is empty when nothing is in it.
LEMMA NothingIn ==
    ASSUME NEW T, NEW q \in Seq(T)
    PROVE  q = <<>> <=> Elems(q) = {}
<1>1. q # <<>> => Head(q) \in Elems(q)
    BY TailSubset
<1> QED BY <1>1, EmptyQueue

\* A reordering queues nothing.
LEMMA ReorderNothing ==
    ASSUME NEW q \in Seq(Ids), NEW order \in Seq(Ids), q = <<>>
    PROVE  Reordered(q, order) = <<>>
<1> DEFINE rows == {u \in Users : u \in Elems(q) /\ u # running}
           a == Keep(q, Ids \ rows)
           b == Keep(order, rows)
           c == Keep(q, rows \ Elems(order))
<1>1. rows = {} /\ Elems(q) = {}
    BY EmptyQueue
<1>2. a \in Seq(Ids) /\ b \in Seq(Ids) /\ c \in Seq(Ids)
    BY KeepByRank
<1>3. Elems(a) = {} /\ Elems(b) = {} /\ Elems(c) = {}
    BY <1>1, KeepElems
<1>4. a = <<>> /\ b = <<>> /\ c = <<>>
    BY <1>2, <1>3, NothingIn
<1> QED BY <1>4 DEF Reordered

\* The steps that neither promote nor free the slot: they queue a prompt only on the way to a
\* promotion, and take no interjection.
StrandKeep ==
    /\ running' = running
    /\ \A p \in Plans : plan[p] = "queued" => plan'[p] = "queued"
    /\ pc' \in RestPCs => pc \in RestPCs /\ (pending = <<>> => pending' = <<>>)
    /\ interjections' \in {interjections, <<>>}
    /\ pc' \notin EndPCs => pc \notin EndPCs \/ interjections' = <<>>
    /\ pc' = "cancel_lock" => interjections' = <<>>
LEMMA StrandSteps ==
    ASSUME [Next]_vars, SessionInv, StrandInv
    PROVE  \/ Promotes \/ StrandKeep \/ CancelLock \/ CompleteLock \/ ShutdownEnd
           \/ \E s \in Steers : Interject(s)
           \/ \E p \in Plans : PlanEnqueue(p)
<1> USE DEF RestPCs, EndPCs
<1>b. TypeOK /\ pending \in Seq(Ids) /\ plan \in [Plans -> {"idle", "queued", "done"}]
    BY DEF SessionInv, TypeOK, QueueType, OtherType
<1>c. \A S : pending = <<>> => Keep(pending, S) = <<>>
    <2> SUFFICES ASSUME NEW S, pending = <<>> PROVE Keep(pending, S) = <<>>
        OBVIOUS
    <2>1. Keep(pending, S) \in Seq(Ids) /\ Elems(Keep(pending, S)) = {}
        BY <1>b, KeepByRank, KeepElems, EmptyQueue
    <2> QED BY <2>1, NothingIn
<1>1. ASSUME NEW u \in Users, NEW v \in Users,
             ReorderQueue(IF u = v THEN <<u>> ELSE <<u, v>>)
      PROVE  StrandKeep
    <2>1. pending = <<>> => pending' = <<>>
        BY <1>1, <1>b, ReorderRequest, ReorderNothing DEF ReorderQueue
    <2> QED BY <1>1, <2>1 DEF ReorderQueue, Ready, StrandKeep, slotVars, otherVars
<1>2. ASSUME Command PROVE StrandKeep \/ \E s \in Steers : Interject(s)
    <2>1. ASSUME \/ \E p \in Users \cup Tasks \cup Crons, now \in BOOLEAN : Prompt(p, now)
                 \/ \E g \in Goals : GoalSummaryTurn(g)
                 \/ \E u \in Users : EditQueuedPrompt(u)
                 \/ \E u \in Users, edit \in BOOLEAN : InterjectQueuedPrompt(u, edit)
                 \/ \E rewind, kill \in BOOLEAN : Cancel(rewind, kill)
                 \/ \E t \in Tasks : DropMonitorNotifications(t)
                 \/ \E t \in Monitors : InjectNotification(t)
                 \/ Shutdown
          PROVE  StrandKeep
        BY <2>1 DEF Prompt, GoalSummaryTurn, EditQueuedPrompt, InterjectQueuedPrompt, Cancel,
            DropMonitorNotifications, InjectNotification, Shutdown, Ready, StrandKeep,
            queueVars, slotVars, otherVars
    <2>2. ASSUME \/ \E u \in Users : RemoveQueuedPrompt(u)
                 \/ \E c \in Clients \cup {None} : ClearQueue(c)
          PROVE  StrandKeep
        BY <1>c, <2>2 DEF RemoveQueuedPrompt, ClearQueue, Ready, StrandKeep, slotVars, otherVars
    <2> QED BY <1>1, <1>2, <2>1, <2>2 DEF Command
<1>3. ASSUME LoopStep
      PROVE  Promotes \/ StrandKeep \/ CancelLock \/ CompleteLock \/ ShutdownEnd
    <2>1. ASSUME Drain PROVE StrandKeep
        BY <2>1 DEF Drain, StrandKeep, slotVars, otherVars
    <2>2. ASSUME \/ Enqueue \/ Fallback \/ CancelBegin \/ CancelGate \/ CancelAbort \/ CancelUnpin
                 \/ CancelAnswer \/ Completion \/ CompleteGate \/ CompleteEmit \/ TurnEnd \/ Flush
          PROVE  StrandKeep
        BY <2>2 DEF Enqueue, Fallback, CancelBegin, CancelGate, CancelAbort, AbortVictim,
            CancelUnpin, CancelAnswer, Completion, CompleteGate, CompleteEmit, TurnEnd, Flush,
            FlushTo, StrandKeep, queueVars, slotVars, otherVars
    <2>3. Start => Promotes
        BY DEF Start, Promotes
    <2> QED BY <1>3, <2>1, <2>2, <2>3 DEF LoopStep
<1>4. ASSUME NEW t \in Ids, TurnProgress(t) \/ TurnWork(t) \/ WaitGuardDrop(t) \/ TaskDropped(t)
      PROVE  StrandKeep
    <2>1. /\ UNCHANGED <<pc, running, plan>> /\ interjections' \in {interjections, <<>>}
          /\ pending' = pending \/ \E C : pending' = Sweep(pending, C)
        BY <1>4 DEF TurnProgress, TurnBegin, TurnIndex, TurnReady, TurnUnpin, TurnFinish,
            TurnPauseGoal, TurnClearGoal, Finish, TaskDropped, TurnWork, TurnGoalRound, TurnSetGoal,
            TurnEnterWait, TurnToolResult, DropConsumed, DrainInterjections, Merge,
            InjectMonitorEvents, WaitGuardDrop, LeaveWait, queueVars, slotVars, otherVars
    <2>2. pending = <<>> => pending' = <<>>
        BY <1>c, <2>1 DEF Sweep
    <2> QED BY <2>1, <2>2 DEF StrandKeep, StrandInv
<1>5. ASSUME NEW p \in Plans, PlanStart(p) PROVE Promotes
    BY <1>5 DEF PlanStart, Promotes
<1>6. ASSUME McpRelease \/ CloseRewindWindow PROVE Promotes \/ StrandKeep
    BY <1>6 DEF McpRelease, CloseRewindWindow, Promotes, StrandKeep, StrandInv, queueVars, otherVars
<1>7. ASSUME NEW t \in Tasks, NEW covered \in BOOLEAN, TaskCompleted(t, covered) PROVE StrandKeep
    BY <1>7 DEF TaskCompleted, StrandKeep, StrandInv, queueVars, slotVars, otherVars
<1>8. ASSUME UNCHANGED vars PROVE StrandKeep
    BY <1>8 DEF vars, StrandKeep, StrandInv, queueVars, slotVars, otherVars
<1> QED BY <1>2, <1>3, <1>4, <1>5, <1>6, <1>7, <1>8 DEF Next

\* Every step preserves it.
LEMMA StrandStep ==
    ASSUME SessionInv, PinInv, StrandInv, [Next]_vars
    PROVE  StrandInv'
<1> USE DEF RestPCs, EndPCs
<1>b. TypeOK /\ None \notin Ids /\ plan \in [Plans -> {"idle", "queued", "done"}]
    BY IdsAssumption DEF SessionInv, TypeOK, OtherType
<1>1. CASE Promotes
    <2>1. /\ UNCHANGED <<pending, interjections>>
          /\ pc' = pc \/ (pc = "start" /\ pc' \in {"top", "drain"})
        BY <1>b, <1>1, PromotesLocals DEF queueVars
    <2>2. CASE PromotesNone
        BY <2>1, <2>2 DEF PromotesNone, StrandInv, Promised, slotVars
    <2>3. ASSUME NEW h \in Ids, PromotesTo(h) PROVE StrandInv'
        BY <1>b, <2>1, <2>3 DEF PromotesTo, StrandInv, Promised
    <2> QED BY <1>1, <2>2, <2>3, PromoteEither DEF Promotes
<1>2. CASE StrandKeep
    <2>1. Promised => Promised'
        BY <1>2 DEF StrandKeep, Promised
    <2> QED BY <1>2, <2>1 DEF StrandKeep, StrandInv
<1>3. CASE CancelLock
    BY <1>3 DEF CancelLock, StrandInv
<1>4. CASE CompleteLock
    BY <1>4 DEF CompleteLock, StrandInv
<1>5. CASE ShutdownEnd
    BY <1>5 DEF ShutdownEnd, StrandInv
<1>6. ASSUME NEW s \in Steers, Interject(s) PROVE StrandInv'
    <2>1. /\ pc = "top" /\ pc' \in {"top", "fallback"}
          /\ UNCHANGED <<running, pending, plan>>
          /\ pin # None \/ interjections' = interjections
        BY <1>6 DEF Interject, Ready, queueVars, slotVars, otherVars
    <2>2. pin # None => running # None
        BY <2>1 DEF PinInv, UnpinPCs
    <2> QED BY <2>1, <2>2 DEF StrandInv, Promised
<1>7. ASSUME NEW p \in Plans, PlanEnqueue(p) PROVE StrandInv'
    <2>1. UNCHANGED <<pc, running, interjections>> /\ plan'[p] = "queued"
        BY <1>7, <1>b DEF PlanEnqueue, slotVars
    <2> QED BY <2>1 DEF StrandInv, Promised
<1> QED BY <1>1, <1>2, <1>3, <1>4, <1>5, <1>6, <1>7, StrandSteps

-------------------------------------------------------------------------------
(* The order of send-now prompts *)

\* An id inserted at position k is behind what was ahead of k.
LEMMA InsertBehind ==
    ASSUME NEW T, NEW q \in Seq(T), NEW x \in T, NoRepeats(q), x \notin Elems(q),
           NEW k \in 1..(Len(q) + 1), NEW n \in 1..Len(q), n < k
    PROVE  LET r == InsertSeq(q, k, <<x>>) IN
              \A i, j \in DOMAIN r : r[i] = q[n] /\ r[j] = x => i < j
<1> DEFINE r == InsertSeq(q, k, <<x>>)
<1>1. <<x>> \in Seq(T) /\ Elems(<<x>>) = {x} /\ NoRepeats(<<x>>) /\ Len(<<x>>) = 1
    BY SingleQueue
<1>2. r \in Seq(T) /\ Len(r) = Len(q) + 1 /\ DOMAIN r = 1..(Len(q) + 1)
    <2>1. r \in Seq(T) /\ Len(r) = Len(q) + Len(<<x>>)
        BY <1>1, InsertSeqType
    <2> QED BY <1>1, <2>1
<1>3. NoRepeats(r)
    <2>1. Elems(q) \cap Elems(<<x>>) = {}
        BY <1>1
    <2> QED BY <1>1, <2>1, InsertSeqNoRepeats
<1>4. r[n] = q[n] /\ r[k] = x
    BY DEF InsertSeq
<1>5. n \in DOMAIN r /\ k \in DOMAIN r
    BY <1>2
<1> HIDE DEF r
<1>6. \A i, j \in DOMAIN r : r[i] = q[n] /\ r[j] = x => i < j
    BY <1>3, <1>4, <1>5 DEF NoRepeats
<1> QED BY <1>6 DEF r

\* What queue_input and handle_interject_queued_prompt do with the queue: keep S, with the
\* running turn in it, and insert x behind the send-now prompts.
LEMMA BehindStacked ==
    ASSUME SessionInv, ~Stopping, NEW S, running # None => running \in S,
           NEW x \in Ids, x \notin Elems(Keep(pending, S)),
           pending' = InsertSeq(Keep(pending, S), NowSlot(Keep(pending, S)), <<x>>),
           NEW y \in Stacked, y # x
    PROVE  \A i, j \in DOMAIN pending' : pending'[i] = y /\ pending'[j] = x => i < j
<1> DEFINE q == Keep(pending, S)
           k == NowSlot(q)
<1>1. pending \in Seq(Ids) /\ NoRepeats(pending) /\ running \in Ids \cup {None} /\ None \notin Ids
    BY IdsAssumption DEF SessionInv, TypeOK, QueueType, SlotType, OnceInv, QueueOnce
<1>2. q \in Seq(Ids) /\ NoRepeats(q) /\ Elems(q) = Elems(pending) \cap S
    BY <1>1, KeepByRank, KeepNoRepeats, KeepElems
<1>3. running # None => q # <<>> /\ Head(q) = running
    <2> SUFFICES ASSUME running # None PROVE q # <<>> /\ Head(q) = running
        OBVIOUS
    <2>1. pending # <<>> /\ Head(pending) = running
        BY DEF SessionInv, FrontIsRunning
    <2> QED BY <1>1, <2>1, KeepHead
<1>4. PICK i0 \in 1..Len(pending) :
          pending[i0] = y /\ \A j \in 1..i0 : pending[j] \in send_now \cup {running}
    BY <1>1 DEF Stacked
<1>5. CASE y \notin S
    <2>1. y \notin Elems(q)
        BY <1>2, <1>5
    <2> HIDE DEF q
    <2>2. k \in 1..(Len(q) + 1) /\ <<x>> \in Seq(Ids) /\ Elems(<<x>>) = {x}
        BY <1>2, SlotInQueue, SingleQueue
    <2> HIDE DEF k
    <2>3. Elems(InsertSeq(q, k, <<x>>)) = Elems(q) \cup Elems(<<x>>)
        BY <1>2, <2>2, InsertSeqElems
    <2>4. y \notin Elems(pending')
        BY <2>1, <2>2, <2>3 DEF q, k
    <2> QED BY <2>4 DEF Elems
<1>6. CASE y \in S
    <2>1. PICK n \in 1..Len(q) : q[n] = y /\ \A m \in 1..n : q[m] \in send_now \cup {running}
        <3>1. i0 \in KeptAt(pending, S)
            BY <1>4, <1>6 DEF KeptAt
        <3>2. PICK n \in 1..Len(q) :
                 q[n] = pending[i0] /\ \A m \in 1..n : \E j \in 1..i0 : q[m] = pending[j]
            BY <1>1, <3>1, KeepPrefix
        <3> HIDE DEF q
        <3> QED BY <1>4, <3>2
    <2>a. /\ x \notin Elems(q) /\ pending' = InsertSeq(q, k, <<x>>)
        OBVIOUS
    <2> HIDE DEF q
    <2>2. /\ FrontSlot(q) \in 1..(Len(q) + 1) /\ k \in FrontSlot(q)..(Len(q) + 1)
          /\ k \in 1..(Len(q) + 1) /\ Len(q) \in Nat
        BY <1>2, SlotInQueue
    <2>3. k <= Len(q) => q[k] \notin send_now
        BY <1>2, <2>2, SkipFromType DEF NowSlot
    <2> HIDE DEF k
    <2>4. ASSUME NEW m \in FrontSlot(q)..n PROVE q[m] \in send_now
        <3>1. m \in 1..n /\ m \in 1..Len(q) /\ 1 \in 1..Len(q)
            BY <2>1, <2>2
        <3>2. q[m] \in Ids
            BY <1>2, <3>1
        <3>3. CASE q[m] = running
            <4>1. q # <<>> /\ Head(q) = running /\ Head(q) = q[1]
                BY <1>1, <1>3, <3>2, <3>3
            <4>2. FrontSlot(q) = 2
                BY <4>1 DEF FrontSlot
            <4>3. m = 1
                BY <1>2, <3>1, <3>3, <4>1 DEF NoRepeats
            <4> QED BY <4>2, <4>3
        <3> QED BY <2>1, <3>1, <3>3
    <2>5. n < k
        BY <2>1, <2>2, <2>3, <2>4
    <2>6. LET r == InsertSeq(q, k, <<x>>) IN
              \A i, j \in DOMAIN r : r[i] = q[n] /\ r[j] = x => i < j
        BY <1>2, <2>1, <2>2, <2>5, <2>a, InsertBehind
    <2> QED BY <2>1, <2>6, <2>a
<1> QED BY <1>5, <1>6

\* What a step may do to the stack.
FifoStep ==
    \A p \in Users \cap (send_now' \ send_now), y \in Stacked :
        \A i, j \in DOMAIN pending' : pending'[i] = y /\ pending'[j] = p => i < j

\* Only two operations add a user's prompt to it, and both insert it behind the others.
LEMMA StackStep ==
    ASSUME SessionInv, [Next]_vars
    PROVE  FifoStep
<1>a. Users \cap (send_now' \ send_now) = {} => FifoStep
    BY DEF FifoStep
<1>b. /\ pending \in Seq(Ids) /\ Users \subseteq Ids /\ Users \cap Steers = {} /\ CurKnown
      /\ Elems(interjections) \subseteq Steers /\ running \in Ids \cup {None}
    BY IdsMembers, IdsAssumption, PlaceTypes DEF SessionInv, TypeOK, QueueType, SlotType
<1>c. Stacked \subseteq send_now
    BY DEF Stacked
<1>1. ASSUME Enqueue PROVE FifoStep
    <2> SUFFICES ASSUME NEW p \in Users \cap (send_now' \ send_now), NEW y \in Stacked
                 PROVE  \A i, j \in DOMAIN pending' : pending'[i] = y /\ pending'[j] = p => i < j
        BY DEF FifoStep
    <2> DEFINE gone == IF cur \in Users THEN Preempted(pending) ELSE {}
               S == Ids \ (gone \ {running})
               q == Keep(pending, S)
    <2>1. /\ pc = "enqueue" /\ p = cur /\ pending' = InsertSeq(q, NowSlot(q), <<cur>>)
        BY <1>1 DEF Enqueue, Sweep
    <2>2. cur \in Ids /\ cur \notin Elems(pending)
        BY <1>b, <2>1 DEF SessionInv, OnceInv, CurOnce, Placing
    <2>3. Elems(q) \subseteq Elems(pending)
        BY <1>b, KeepElems
    <2>4. /\ running # None => running \in S
          /\ y # cur /\ ~Stopping
        BY <1>b, <1>c, <2>1 DEF Stopping
    <2> HIDE DEF S
    <2> QED BY <2>1, <2>2, <2>3, <2>4, BehindStacked
<1>2. ASSUME NEW u \in Users, NEW edit \in BOOLEAN, InterjectQueuedPrompt(u, edit) PROVE FifoStep
    <2> SUFFICES ASSUME NEW p \in Users \cap (send_now' \ send_now), NEW y \in Stacked
                 PROVE  \A i, j \in DOMAIN pending' : pending'[i] = y /\ pending'[j] = p => i < j
        BY DEF FifoStep
    <2> DEFINE S == Ids \ {u}
               q == Keep(pending, S)
    <2>1. /\ pc = "top" /\ p = u /\ pending' = InsertSeq(q, NowSlot(q), <<u>>) /\ u # running
        BY <1>2 DEF InterjectQueuedPrompt, Ready, Editable
    <2>2. u \in Ids /\ u \notin Elems(q)
        BY <1>b, KeepElems
    <2>3. /\ running # None => running \in S
          /\ y # u /\ ~Stopping
        BY <1>b, <1>c, <2>1 DEF Stopping
    <2> HIDE DEF S
    <2> QED BY <2>1, <2>2, <2>3, BehindStacked
<1>3. ASSUME Fallback \/ Flush PROVE FifoStep
    BY <1>3, <1>a, <1>b DEF Fallback, Flush, FlushTo, CurKnown
<1>4. ASSUME Command PROVE FifoStep
    <2>1. \/ send_now' = send_now
          \/ \E u \in Users, edit \in BOOLEAN : InterjectQueuedPrompt(u, edit)
        BY <1>4 DEF Command, Prompt, Interject, GoalSummaryTurn, RemoveQueuedPrompt, ClearQueue,
            ReorderQueue, EditQueuedPrompt, Cancel, DropMonitorNotifications,
            InjectNotification, Shutdown, queueVars
    <2> QED BY <1>2, <1>a, <2>1
<1>5. ASSUME LoopStep PROVE FifoStep
    <2>1. send_now' = send_now \/ Enqueue \/ Fallback \/ Flush
        BY <1>5 DEF LoopStep, Start, CancelBegin, CancelLock, CancelGate, CancelAbort,
            AbortVictim, CancelUnpin, CancelAnswer, Completion, CompleteGate, CompleteLock,
            CompleteEmit, TurnEnd, Drain, ShutdownEnd, queueVars
    <2> QED BY <1>1, <1>3, <1>a, <2>1
<1>6. ASSUME NEW t \in Ids, TurnProgress(t) \/ TurnWork(t) \/ WaitGuardDrop(t) \/ TaskDropped(t)
      PROVE  send_now' = send_now
    BY <1>6 DEF TurnProgress, TurnBegin, TurnIndex, TurnReady, TurnUnpin, TurnFinish,
        TurnPauseGoal, TurnClearGoal, Finish, TaskDropped, TurnWork, TurnGoalRound, TurnSetGoal,
        TurnEnterWait, TurnToolResult, DrainInterjections, Merge, InjectMonitorEvents,
        WaitGuardDrop, LeaveWait, queueVars
<1>7. ASSUME NEW p \in Plans, PlanEnqueue(p) \/ PlanStart(p) PROVE send_now' = send_now
    BY <1>7 DEF PlanEnqueue, PlanStart, queueVars
<1>8. ASSUME McpRelease \/ CloseRewindWindow PROVE send_now' = send_now
    BY <1>8 DEF McpRelease, CloseRewindWindow, queueVars
<1>9. ASSUME NEW t \in Tasks, NEW covered \in BOOLEAN, TaskCompleted(t, covered)
      PROVE  send_now' = send_now
    BY <1>9 DEF TaskCompleted, queueVars
<1>10. ASSUME UNCHANGED vars PROVE send_now' = send_now
    BY <1>10 DEF vars, queueVars
<1> QED BY <1>4, <1>5, <1>6, <1>7, <1>8, <1>9, <1>10, <1>a DEF Next

-------------------------------------------------------------------------------
(* The theorems *)

\* The invariant of the proofs, on top of SessionInv.
AroundInv == TextInv /\ PinInv /\ TermInv /\ StrandInv /\ WaitInv

\* Initially nothing is pinned, owed, queued or waited for.
LEMMA AroundInit == Init => AroundInv
<1> SUFFICES ASSUME Init PROVE AroundInv
    OBVIOUS
<1>1. TextInv /\ PinInv
    BY DEF Init, TextInv, PinInv, CompletePCs
<1>2. TermInv
    BY DEF Init, TermInv, Over, Owed, CancelPCs
<1>3. StrandInv /\ WaitInv
    BY DEF Init, StrandInv, WaitInv
<1> QED BY <1>1, <1>2, <1>3 DEF AroundInv

\* Every step preserves all of it.
LEMMA AroundStep == SessionInv /\ AroundInv /\ [Next]_vars => AroundInv'
BY TextStep, PinStep, TermStep, StrandStep, WaitStep DEF AroundInv

\* The two invariants hold in every state the session reaches.
LEMMA AroundAlways == Spec => [](SessionInv /\ AroundInv)
BY SessionInit, SessionStep, AroundInit, AroundStep, PTL DEF Spec

\* The turn of a row runs the text of its last edit: handle_edit_queued_prompt and
\* handle_interject_queued_prompt never acknowledge an edit of a row whose turn has its copy.
THEOREM LatestTextCorrect == Spec => []RunsLatestText
<1>1. SessionInv /\ AroundInv => RunsLatestText
    <2> SUFFICES ASSUME SessionInv, AroundInv, NEW u \in Users, u = running \/ answered[u] = "turn"
                 PROVE  ran[u] = version[u]
        BY DEF RunsLatestText
    <2>1. u \in Ids /\ None \notin Ids
        BY IdsMembers, IdsAssumption
    <2> QED BY <2>1 DEF AroundInv, TextInv
<1> QED BY <1>1, AroundAlways, PTL

\* Between commands a pin names the running turn, and the pin a cancel has snapshot names the
\* task that it takes, whoever promoted or ended a turn at the awaits in between.
THEOREM PinAgreementCorrect == Spec => []PinAgreement
<1>1. AroundInv => PinAgreement
    BY DEF AroundInv, PinInv, PinAgreement, UnpinPCs
<1> QED BY <1>1, AroundAlways, PTL

\* Every turn that was started and not rewound publishes exactly one TurnCompleted, from
\* handle_completion or from cancel_running_task, and never from both.
THEOREM TerminalOnceCorrect == Spec => []TerminalOnce
<1>1. SessionInv /\ AroundInv => TerminalOnce
    <2> SUFFICES ASSUME SessionInv, AroundInv, NEW p \in Ids
                 PROVE  /\ terminals[p] <= IF answered[p] = "rewound" THEN 0 ELSE 1
                        /\ pc = "top" /\ answered[p] \in {"turn", "cancelled"} /\ task[p] # "none"
                           => terminals[p] = 1
        BY DEF TerminalOnce
    <2>1. terminals[p] \in {0, 1} /\ (~Over(p) => terminals[p] = 0)
        BY DEF AroundInv, TermInv
    <2>2. pc = "top" /\ Over(p) /\ task[p] # "none" => terminals[p] = 1
        BY DEF AroundInv, TermInv, Owed
    <2> QED BY <2>1, <2>2 DEF Over
<1> QED BY <1>1, AroundAlways, PTL

\* When the run loop waits for a command no prompt is queued without a turn ahead of it or a
\* plan's resumption about to promote, and no interjection is left without a turn to merge it.
THEOREM NothingStrandedCorrect == Spec => []NothingStranded
<1>1. AroundInv => NothingStranded
    BY DEF AroundInv, StrandInv, Promised, NothingStranded, RestPCs, EndPCs
<1> QED BY <1>1, AroundAlways, PTL

\* A plain prompt cancels the running turn only while that turn is blocked in a wait: the depth
\* left behind by turns that were cancelled never makes queue_input interrupt another one.
THEOREM NoSurpriseCancelCorrect == Spec => NoSurpriseCancel
<1> DEFINE A == pc = "enqueue" /\ pc' = "cancel" /\ ~opts.now => running \in waiting
<1>1. ASSUME SessionInv, AroundInv, [Next]_vars, pc = "enqueue", pc' = "cancel", ~opts.now
      PROVE  running \in waiting
    <2>1. ASSUME Enqueue PROVE running \in waiting
        <3>1. depth > 0
            BY <1>1, <2>1 DEF Enqueue, JumpsQueue
        <3> QED BY <1>1, <3>1 DEF AroundInv, WaitInv, WaitPCs
    <2>2. ~Command
        BY <1>1 DEF Command, Prompt, Interject, GoalSummaryTurn, RemoveQueuedPrompt, ClearQueue,
            ReorderQueue, EditQueuedPrompt, InterjectQueuedPrompt, Cancel,
            DropMonitorNotifications, InjectNotification, Shutdown, Ready
    <2>3. LoopStep => Enqueue
        BY <1>1 DEF LoopStep, Fallback, Start, CancelBegin, CancelLock, CancelGate,
            CancelAbort, AbortVictim, CancelUnpin, CancelAnswer, Completion, CompleteGate,
            CompleteLock, CompleteEmit, TurnEnd, Flush, FlushTo, Drain, ShutdownEnd
    <2>4. ASSUME NEW t \in Ids
          PROVE  ~(TurnProgress(t) \/ TurnWork(t) \/ WaitGuardDrop(t) \/ TaskDropped(t))
        BY <1>1 DEF TurnProgress, TurnBegin, TurnIndex, TurnReady, TurnUnpin, TurnFinish,
            TurnPauseGoal, TurnClearGoal, Finish, TaskDropped, TurnWork, TurnGoalRound, TurnSetGoal,
            TurnEnterWait, TurnToolResult, DrainInterjections, Merge, InjectMonitorEvents,
            WaitGuardDrop, LeaveWait
    <2>5. pc' = pc \/ Command \/ LoopStep
              \/ \E t \in Ids : TurnProgress(t) \/ TurnWork(t) \/ WaitGuardDrop(t) \/ TaskDropped(t)
        BY <1>1 DEF Next, vars, McpRelease, CloseRewindWindow, TaskCompleted, PlanEnqueue, PlanStart
    <2> QED BY <1>1, <2>1, <2>2, <2>3, <2>4, <2>5
<1>2. SessionInv /\ AroundInv /\ [Next]_vars => [A]_vars
    BY <1>1
<1>3. Spec => [][A]_vars
    BY <1>2, AroundAlways, PTL DEF Spec
<1> QED BY <1>3 DEF NoSurpriseCancel

\* Stacked send-now prompts of clients run in the order they were sent: queue_input and
\* handle_interject_queued_prompt insert the next one behind those already there, whatever else
\* is in the queue.
THEOREM SendNowFifoCorrect == Spec => SendNowFifo
<1>1. SessionInv /\ [Next]_vars => [FifoStep]_vars
    BY StackStep
<1>2. Spec => [][FifoStep]_vars
    BY <1>1, SessionInit, SessionStep, PTL DEF Spec
<1> QED BY <1>2 DEF SendNowFifo, FifoStep
================================================================================
