------------------------- MODULE SessionServiceProofs -------------------------
(***************************************************************************)
(* The session actor implements PromptService, for any number of clients,  *)
(* prompts and background tasks: what a client sees of its prompts is what *)
(* the abstract service allows, whatever the run loop, the turns and the   *)
(* promoters do.                                                           *)
(***************************************************************************)
EXTENDS SessionService, SessionOnceProofs

\* The stage of a prompt of a client, by the place it is in.
LEMMA StageIs ==
    ASSUME NEW p \in Held
    PROVE  /\ p \notin sent => Stage(p) = "new"
           /\ p \in sent /\ answered[p] # "open" => Stage(p) = "answered"
           /\ Open(p) /\ p \in Condemned => Stage(p) = "ending"
           /\ Open(p) /\ p \notin Condemned /\ running = p => Stage(p) = "running"
           /\ Open(p) /\ p \notin Condemned /\ running # p => Stage(p) = "waiting"
<1>1. p # None
    BY IdsMembers, IdsAssumption DEF Held
<1>2. p \in Condemned <=> p \in Elems(doomed) \/ rewound = p
    BY <1>1 DEF Condemned
<1> QED BY <1>2 DEF Stage, Open

\* A prompt of which nothing changed keeps its stage.
LEMMA StageKept ==
    ASSUME NEW p \in Held,
           p \in sent' <=> p \in sent, answered'[p] = answered[p],
           p \in Condemned' <=> p \in Condemned, running' = p <=> running = p
    PROVE  Stage(p)' = Stage(p)
<1>1. p # None
    BY IdsMembers, IdsAssumption DEF Held
<1>2. /\ p \in Condemned <=> p \in Elems(doomed) \/ rewound = p
      /\ p \in Condemned' <=> p \in Elems(doomed') \/ rewound' = p
    BY <1>1 DEF Condemned
<1> QED BY <1>2 DEF Stage

\* A step that moves the prompts of S, and no other, is a move of the service.
LEMMA ServiceMove ==
    ASSUME NEW S \in SUBSET Held, NEW From, NEW to,
           \A p \in S : Stage(p) \in From /\ Stage(p)' = to,
           \A p \in Held \ S : Stage(p)' = Stage(p)
    PROVE  Service!Move(S, From, to)
BY DEF Service!Move, Held

\* A step that moves none is no step of the service.
ServiceStill == \A p \in Held : Stage(p)' = Stage(p)
ServiceStep == ServiceStill \/ Service!Next

\* So is one that touches nothing that the clients see.
Unseen == UNCHANGED <<answered, doomed, rewound, running>> /\ sent' \cap Held = sent \cap Held
LEMMA ServiceUnseen ==
    ASSUME Unseen
    PROVE  ServiceStep
<1>1. Condemned' = Condemned
    BY DEF Unseen, Condemned
<1> QED BY <1>1, StageKept DEF Unseen, ServiceStep, ServiceStill

\* What the invariant says of the prompts that clients see.
LEMMA ServiceFacts ==
    ASSUME SessionInv
    PROVE  /\ TypeOK /\ pending \in Seq(Ids) /\ Held \subseteq Ids /\ None \notin Ids
           /\ answered \in [Ids -> Answers]
           /\ \A p \in Elems(pending) \cup Elems(interjections) \cup Condemned : Open(p)
           /\ Condemned \cap Elems(pending) = {}
           /\ pc \notin CancelPCs => Condemned = {}
           /\ ~Stopping /\ running # None => running \in Elems(pending) /\ running = Head(pending)
           /\ pending # <<>> => Head(pending) \in Elems(pending)
<1>1. /\ TypeOK /\ pending \in Seq(Ids) /\ None \notin Ids /\ Held \subseteq Ids
      /\ answered \in [Ids -> Answers] /\ OnceInv /\ FrontIsRunning
    BY IdsMembers, IdsAssumption DEF SessionInv, TypeOK, QueueType, OutType, Held
<1>2. pending # <<>> => Head(pending) \in Elems(pending)
    BY <1>1, TailSubset
<1>3. /\ \A p \in Elems(pending) \cup Elems(interjections) \cup Condemned : Open(p)
      /\ Condemned \cap Elems(pending) = {}
      /\ pc \notin CancelPCs => Condemned = {}
    BY <1>1 DEF OnceInv, QueueOnce, SteerOnce, DoomedOnce, Fresh
<1> QED BY <1>1, <1>2, <1>3 DEF FrontIsRunning

\* A prompt that is sent was new.
LEMMA ServiceSubmit ==
    ASSUME SessionInv, ~Stopping, NEW p \in Held, p \notin sent, sent' = sent \cup {p},
           UNCHANGED <<answered, doomed, rewound, running>>
    PROVE  ServiceStep
<1>1. Condemned' = Condemned
    BY DEF Condemned
<1>2. p \in Ids /\ answered[p] = "open" /\ p \notin Condemned /\ running # p
    BY ServiceFacts DEF Open, SessionInv, OnceInv, SentOnce
<1>3. Stage(p) = "new"
    BY ServiceFacts, StageIs
<1>4. Stage(p)' = "waiting"
    <2>1. p \notin Elems(doomed) /\ rewound # p
        BY <1>2, ServiceFacts DEF Condemned
    <2> QED BY <1>2, <2>1 DEF Stage
<1>5. \A q \in Held \ {p} : Stage(q)' = Stage(q)
    BY <1>1, StageKept
<1>6. Service!Move({p}, {"new"}, "waiting")
    BY <1>3, <1>4, <1>5, ServiceMove
<1> QED BY <1>6 DEF ServiceStep, Service!Next, Service!Submit, Held

\* A promotion runs a waiting prompt while none runs.
LEMMA ServiceRun ==
    ASSUME SessionInv, Promote, UNCHANGED <<sent, answered, doomed, rewound>>
    PROVE  ServiceStep
<1>1. CASE ~CanPromote \/ Head(pending) \notin Held
    <2>1. ASSUME NEW p \in Held PROVE running' = p <=> running = p
        BY <1>1, ServiceFacts DEF Promote, slotVars, CanPromote
    <2>2. Condemned' = Condemned
        BY DEF Condemned
    <2> QED BY <2>1, <2>2, StageKept DEF ServiceStep, ServiceStill
<1>2. CASE CanPromote /\ Head(pending) \in Held
    <2>0. PICK h \in Held : h = Head(pending)
        BY <1>2
    <2>1. /\ running = None /\ running' = h /\ h \in Elems(pending) /\ Condemned' = Condemned
        BY <1>2, <2>0, ServiceFacts DEF Promote, CanPromote, Condemned
    <2>2. Open(h) /\ h \notin Condemned /\ h # None /\ None \notin Held
        BY <2>1, ServiceFacts
    <2>3. Stage(h) = "waiting"
        BY <2>1, <2>2, ServiceFacts, StageIs
    <2>4. Stage(h)' = "running"
        <3>1. h \notin Elems(doomed) /\ rewound # h
            BY <2>2 DEF Condemned
        <3> QED BY <2>1, <2>2, <3>1 DEF Stage, Open
    <2>5. \A q \in Held \ {h} : Stage(q)' = Stage(q)
        BY <2>1, <2>2, StageKept
    <2>6. \A q \in Held : Stage(q) # "running"
        BY <2>1, <2>2 DEF Stage
    <2>7. Service!Move({h}, {"waiting"}, "running")
        BY <2>3, <2>4, <2>5, ServiceMove
    <2>8. \A q \in Users \cup Steers : [p \in Users \cup Steers |-> Stage(p)][q] # "running"
        BY <2>6 DEF Held
    <2>9. Service!Run(h)
        BY <2>7, <2>8 DEF Service!Run
    <2> QED BY <2>1, <2>9 DEF ServiceStep, Service!Next, Held
<1> QED BY <1>1, <1>2

\* A step that answers open prompts of clients; the running slot loses at most one of those.
LEMMA ServiceAnswer ==
    ASSUME SessionInv, NEW S \in SUBSET Ids,
           \A p \in S : Open(p) /\ answered'[p] # "open",
           \A p \in Ids \ S : answered'[p] = answered[p],
           sent' = sent,
           \A p \in Held \ S : p \in Condemned' <=> p \in Condemned,
           \A p \in Held \ S : running' = p <=> running = p
    PROVE  ServiceStep
<1> DEFINE T == S \cap Held
<1>1. \A p \in T : Stage(p) \in {"waiting", "running", "ending"}
    BY ServiceFacts, StageIs
<1>2. \A p \in T : Stage(p)' = "answered"
    BY DEF Stage, Open
<1>3. \A p \in Held \ T : Stage(p)' = Stage(p)
    <2>1. Held \subseteq Ids
        BY ServiceFacts
    <2> QED BY <2>1, StageKept
<1>4. Service!Move(T, {"waiting", "running", "ending"}, "answered")
    BY <1>1, <1>2, <1>3, ServiceMove
<1>5. T \in SUBSET (Users \cup Steers)
    BY DEF Held
<1> HIDE DEF T
<1> QED BY <1>4, <1>5 DEF ServiceStep, Service!Next, Service!Answer

\* The State mutex of a cancel sets aside the running prompt, and with it all or none of the
\* others.
LEMMA ServiceCancel ==
    ASSUME SessionInv, CancelLock
    PROVE  ServiceStep
<1>1. /\ pc = "cancel_lock" /\ running' = None /\ UNCHANGED <<sent, answered>>
      /\ Condemned = {}
    BY ServiceFacts DEF CancelLock, outVars, CancelPCs
<1>2. /\ Condemned' \subseteq Elems(pending)
      /\ pending # <<>> => Head(pending) \in Condemned'
    <2>1. CASE Rewinds /\ pending # <<>>
        <3>1. rewound' = Head(pending) /\ doomed' = <<>>
            BY <2>1 DEF CancelLock
        <3>2. Head(pending) \in Elems(pending) /\ Elems(pending) \subseteq Ids /\ None \notin Ids
            BY <2>1, ServiceFacts, PlaceTypes
        <3> QED BY <3>1, <3>2, EmptyQueue DEF Condemned
    <2>2. CASE ~(Rewinds /\ pending # <<>>)
        <3>1. /\ rewound' = None
              /\ doomed' = IF opts.kill \/ pending = <<>> THEN pending ELSE <<Head(pending)>>
            BY <2>2 DEF CancelLock
        <3>2. CASE opts.kill \/ pending = <<>>
            BY <3>1, <3>2, ServiceFacts DEF Condemned
        <3>3. CASE ~(opts.kill \/ pending = <<>>)
            <4>1. Head(pending) \in Elems(pending) /\ Elems(<<Head(pending)>>) = {Head(pending)}
                BY <3>3, ServiceFacts DEF Elems
            <4> QED BY <3>1, <3>3, <4>1 DEF Condemned
        <3> QED BY <3>2, <3>3
    <2> QED BY <2>1, <2>2
<1>3. ~Stopping
    BY <1>1 DEF Stopping
<1>4. running # None => running \in Condemned'
    BY <1>2, <1>3, ServiceFacts, EmptyQueue
<1> DEFINE S == Held \cap Condemned'
<1>5. ASSUME NEW p \in S PROVE Stage(p) \in {"waiting", "running"} /\ Stage(p)' = "ending"
    <2>1. Open(p) /\ p \notin Condemned /\ p \in Held /\ p # None
        BY <1>1, <1>2, ServiceFacts
    <2>2. Stage(p) \in {"waiting", "running"}
        BY <2>1, ServiceFacts, StageIs
    <2>3. Stage(p)' = "ending"
        BY <1>1, <2>1 DEF Stage, Open, Condemned
    <2> QED BY <2>2, <2>3
<1>6. \A p \in Held \ S : Stage(p)' = Stage(p)
    <2>1. None \notin Held
        BY ServiceFacts
    <2> QED BY <1>1, <1>4, <2>1, StageKept
<1>7. Service!Move(S, {"waiting", "running"}, "ending")
    BY <1>5, <1>6, ServiceMove
<1>8. S \in SUBSET (Users \cup Steers)
    BY DEF Held
<1> HIDE DEF S
<1> QED BY <1>7, <1>8 DEF ServiceStep, Service!Next, Service!Cancel

\* Every step of the session is a step of the service, or none.
LEMMA ServiceNext ==
    ASSUME SessionInv, [Next]_vars
    PROVE  ServiceStep
<1>b. /\ TypeOK /\ pending \in Seq(Ids) /\ answered \in [Ids -> Answers] /\ OnceInv
      /\ None \notin Ids /\ Held \subseteq Ids
      /\ Elems(pending) \subseteq Ids /\ Elems(interjections) \subseteq Ids /\ Condemned \subseteq Ids
      /\ Users \subseteq Ids /\ Users \subseteq Held /\ Steers \subseteq Held
      /\ Tasks \cap Held = {} /\ Goals \cap Held = {} /\ Batches \cap Held = {}
      /\ Plans \cap Held = {} /\ Crons \cap Held = {}
    BY ServiceFacts, PlaceTypes, IdsMembers, IdsAssumption DEF SessionInv, Held, Synthetic
<1>1. ASSUME NEW p \in Users \cup Tasks \cup Crons, NEW now \in BOOLEAN, Prompt(p, now)
      PROVE  ServiceStep
    <2>1. /\ pc = "top" /\ p \notin sent /\ sent' = sent \cup {p}
          /\ UNCHANGED <<answered, doomed, rewound, running>>
        BY <1>1 DEF Prompt, Ready, slotVars, outVars
    <2>2. CASE p \in Users
        BY <1>b, <2>1, <2>2, ServiceSubmit DEF Stopping
    <2>3. CASE p \notin Users
        <3>1. p \notin Held
            BY <1>b, <2>3
        <3> QED BY <2>1, <3>1, ServiceUnseen DEF Unseen
    <2> QED BY <2>2, <2>3
<1>2. ASSUME NEW s \in Steers, Interject(s) PROVE ServiceStep
    <2>1. /\ pc = "top" /\ s \notin sent /\ sent' = sent \cup {s}
          /\ UNCHANGED <<answered, doomed, rewound, running>>
        BY <1>2 DEF Interject, Ready, slotVars, outVars
    <2> QED BY <1>b, <2>1, ServiceSubmit DEF Stopping
<1>3. ASSUME NEW u \in Users, RemoveQueuedPrompt(u) PROVE ServiceStep
    <2>0. PICK S \in SUBSET Ids : S = {u}
        BY <1>b
    <2>1. /\ answered' = [answered EXCEPT ![u] = "removed"] /\ u \in Elems(pending)
          /\ UNCHANGED <<sent, doomed, rewound, running>>
        BY <1>3 DEF RemoveQueuedPrompt, Editable, slotVars, localVars
    <2>2. /\ \A p \in S : Open(p) /\ answered'[p] # "open"
          /\ \A p \in Ids \ S : answered'[p] = answered[p]
        BY <1>b, <2>0, <2>1, ServiceFacts
    <2>3. Condemned' = Condemned
        BY <2>1 DEF Condemned
    <2> QED BY <2>1, <2>2, <2>3, ServiceAnswer
<1>4. ASSUME NEW c \in Clients \cup {None}, ClearQueue(c) PROVE ServiceStep
    <2>0. PICK S \in SUBSET Ids : S = Cleared(c)
        BY <1>b DEF Cleared
    <2>1. /\ answered' = [p \in Ids |-> IF p \in S THEN "removed" ELSE answered[p]]
          /\ S \subseteq Elems(pending)
          /\ UNCHANGED <<sent, doomed, rewound, running>>
        BY <1>4, <2>0 DEF ClearQueue, Cleared, Editable, slotVars, localVars
    <2>2. /\ \A p \in S : Open(p) /\ answered'[p] # "open"
          /\ \A p \in Ids \ S : answered'[p] = answered[p]
        BY <1>b, <2>1, ServiceFacts
    <2>3. Condemned' = Condemned
        BY <2>1 DEF Condemned
    <2> QED BY <2>1, <2>2, <2>3, ServiceAnswer
<1>5. ASSUME CancelBegin \/ \E t \in Ids : DrainInterjections(t) PROVE ServiceStep
    <2>0. PICK S \in SUBSET Ids : S = Elems(interjections)
        BY <1>b
    <2>1. /\ \E a \in {"cleared", "merged"} :
                answered' = [p \in Ids |-> IF p \in S THEN a ELSE answered[p]]
          /\ UNCHANGED <<sent, doomed, rewound, running>>
        BY <1>5, <2>0 DEF CancelBegin, DrainInterjections, Merge, slotVars, localVars
    <2>2. /\ \A p \in S : Open(p) /\ answered'[p] # "open"
          /\ \A p \in Ids \ S : answered'[p] = answered[p]
        BY <1>b, <2>0, <2>1, ServiceFacts
    <2>3. Condemned' = Condemned
        BY <2>1 DEF Condemned
    <2> QED BY <2>1, <2>2, <2>3, ServiceAnswer
<1>6. ASSUME CancelAnswer PROVE ServiceStep
    <2>0. PICK S \in SUBSET Ids : S = Condemned
        BY <1>b
    <2>1. /\ UNCHANGED <<sent, running>> /\ rewound' = None /\ doomed' = <<>>
        BY <1>6 DEF CancelAnswer
    <2>2. Condemned' = {}
        BY <2>1, EmptyQueue DEF Condemned
    <2>3. /\ \A p \in S : answered'[p] # "open"
          /\ \A p \in Ids \ S : answered'[p] = answered[p]
        <3>1. CASE rewound # None
            <4>1. answered' = [answered EXCEPT ![rewound] = "rewound"] /\ doomed = <<>>
                BY <1>6, <3>1 DEF CancelAnswer, SessionInv, PlaceInv
            <4>2. S = {rewound}
                BY <2>0, <3>1, <4>1, EmptyQueue DEF Condemned
            <4> QED BY <1>b, <4>1, <4>2
        <3>2. CASE rewound = None
            <4>1. answered' = [p \in Ids |-> IF p \in Elems(doomed) THEN "cancelled" ELSE answered[p]]
                BY <1>6, <3>2 DEF CancelAnswer
            <4>2. S = Elems(doomed)
                BY <2>0, <3>2 DEF Condemned
            <4> QED BY <1>b, <4>1, <4>2
        <3> QED BY <3>1, <3>2
    <2>4. \A p \in S : Open(p)
        BY <2>0, ServiceFacts
    <2> QED BY <2>0, <2>1, <2>2, <2>3, <2>4, ServiceAnswer
<1>7. ASSUME CompleteLock PROVE ServiceStep
    <2>1. /\ pc = "complete_lock" /\ ~Stopping /\ UNCHANGED <<sent, doomed, rewound>>
          /\ running' = IF FreesSlot(cur) THEN None ELSE running
          /\ Condemned' = Condemned
        BY <1>7 DEF CompleteLock, Stopping, Condemned
    <2>2. running # None => pending # <<>> /\ Head(pending) = running
        BY <2>1 DEF SessionInv, FrontIsRunning
    <2>3. CASE ~Owns(cur)
        <3>1. answered' = answered /\ (running' = running \/ running = None)
            BY <1>7, <2>1, <2>2, <2>3 DEF CompleteLock, Owns, FreesSlot
        <3>2. running' = running
            BY <2>1, <3>1
        <3> QED BY <2>1, <3>1, <3>2, ServiceUnseen DEF Unseen
    <2>4. CASE Owns(cur)
        <3>0. PICK h \in Ids : h = Head(pending) /\ h \in Elems(pending) /\ h = cur
            BY <1>b, <2>4, ServiceFacts DEF Owns
        <3>s. PICK S \in SUBSET Ids : S = {h}
            OBVIOUS
        <3>1. answered' = [answered EXCEPT ![h] = "turn"] /\ running' = None
            BY <1>7, <2>1, <2>4, <3>0 DEF CompleteLock, FreesSlot
        <3>2. /\ \A p \in S : Open(p) /\ answered'[p] # "open"
              /\ \A p \in Ids \ S : answered'[p] = answered[p]
            BY <1>b, <3>0, <3>s, <3>1, ServiceFacts
        <3>3. \A p \in Held \ S : running' = p <=> running = p
            BY <1>b, <2>2, <3>0, <3>s, <3>1
        <3> QED BY <2>1, <3>2, <3>3, ServiceAnswer
    <2> QED BY <2>3, <2>4
<1>8. ASSUME Start \/ McpRelease \/ \E p \in Plans : PlanStart(p) PROVE ServiceStep
    BY <1>8, ServiceRun DEF Start, McpRelease, PlanStart, localVars
<1>9. ASSUME Command PROVE ServiceStep
    <2>1. \/ \E p \in Users \cup Tasks \cup Crons, now \in BOOLEAN : Prompt(p, now)
          \/ \E s \in Steers : Interject(s)
          \/ \E u \in Users : RemoveQueuedPrompt(u)
          \/ \E c \in Clients \cup {None} : ClearQueue(c)
          \/ /\ UNCHANGED <<answered, doomed, rewound, running>>
             /\ sent' = sent \/ \E g \in Goals : sent' = sent \cup {g}
        BY <1>9 DEF Command, GoalSummaryTurn, ReorderQueue, EditQueuedPrompt,
            InterjectQueuedPrompt, Cancel, DropMonitorNotifications, InjectNotification,
            Shutdown, outVars, localVars, slotVars
    <2>2. ASSUME /\ UNCHANGED <<answered, doomed, rewound, running>>
                 /\ sent' = sent \/ \E g \in Goals : sent' = sent \cup {g}
          PROVE  Unseen
        BY <1>b, <2>2 DEF Unseen
    <2> QED BY <1>1, <1>2, <1>3, <1>4, <2>1, <2>2, ServiceUnseen
<1>10. ASSUME LoopStep PROVE ServiceStep
    <2>1. \/ CancelBegin \/ CancelLock \/ CancelAnswer \/ CompleteLock \/ Start
          \/ /\ UNCHANGED <<answered, doomed, rewound, running>>
             /\ sent' = sent \/ \E g \in Goals \cup Batches : sent' = sent \cup {g}
        BY <1>10 DEF LoopStep, Enqueue, Fallback, CancelGate, CancelAbort, AbortVictim, CancelUnpin,
            Completion, CompleteGate, CompleteEmit, TurnEnd, QueueContinuation, Flush, FlushTo,
            Drain, ShutdownEnd, outVars, localVars, slotVars
    <2>2. ASSUME /\ UNCHANGED <<answered, doomed, rewound, running>>
                 /\ sent' = sent \/ \E g \in Goals \cup Batches : sent' = sent \cup {g}
          PROVE  Unseen
        BY <1>b, <2>2 DEF Unseen
    <2> QED BY <1>5, <1>6, <1>7, <1>8, <2>1, <2>2, ServiceUnseen, ServiceCancel
<1>11. ASSUME NEW t \in Ids, TurnProgress(t) \/ TurnWork(t) \/ WaitGuardDrop(t) \/ TaskDropped(t)
      PROVE  ServiceStep
    <2>1. DrainInterjections(t) \/ Unseen
        BY <1>11 DEF TurnProgress, TurnBegin, TurnIndex, TurnReady, TurnUnpin, TurnFinish,
            TurnPauseGoal, TurnClearGoal, Finish, TurnWork, TurnGoalRound, TurnSetGoal,
            TurnEnterWait, TurnToolResult, InjectMonitorEvents, WaitGuardDrop, LeaveWait,
            TaskDropped, Unseen, outVars, localVars, slotVars
    <2> QED BY <1>5, <2>1, ServiceUnseen
<1>12. ASSUME NEW p \in Plans, PlanEnqueue(p) PROVE ServiceStep
    <2>1. UNCHANGED <<answered, doomed, rewound, running>> /\ sent' = sent \cup {p}
        BY <1>12 DEF PlanEnqueue, outVars, localVars, slotVars
    <2> QED BY <1>b, <2>1, ServiceUnseen DEF Unseen
<1>13. ASSUME CloseRewindWindow \/ \E t \in Tasks, covered \in BOOLEAN : TaskCompleted(t, covered)
      PROVE  ServiceStep
    BY <1>13, ServiceUnseen DEF CloseRewindWindow, TaskCompleted, Unseen, outVars, localVars, slotVars
<1>14. ASSUME UNCHANGED vars PROVE ServiceStep
    BY <1>14, ServiceUnseen DEF vars, Unseen, outVars, localVars, slotVars
<1> QED BY <1>8, <1>9, <1>10, <1>11, <1>12, <1>13, <1>14 DEF Next

\* What the clients of a session see is a behaviour of PromptService: one prompt of a client
\* runs at a time, none twice and none after its answer, a prompt set aside by a cancel never
\* runs, and an answer is final.
THEOREM ServiceCorrect == Spec => ImplementsService
<1>1. Init => Service!Init
    <2> SUFFICES ASSUME Init PROVE \A p \in Held : Stage(p) = "new"
        BY DEF Service!Init, Held
    <2> QED BY DEF Init, Stage
<1>2. SessionInv /\ [Next]_vars => [Service!Next]_([p \in Users \cup Steers |-> Stage(p)])
    BY ServiceNext DEF ServiceStep, ServiceStill, Held
<1> QED BY <1>1, <1>2, SessionInit, SessionStep, PTL DEF Spec, ImplementsService, Service!Spec
================================================================================
