----------------------------- MODULE SessionActor -----------------------------
(***************************************************************************)
(* The session actor of xai-grok-shell: one conversation's prompt queue,   *)
(* the turn it is running, and everything that starts, cancels, rewinds or *)
(* feeds that turn (session/acp_session.rs, session/acp_session_impl/).    *)
(*                                                                         *)
(* All tasks of a session run on one LocalSet thread, so they interleave   *)
(* at await points only.  The tasks are                                    *)
(*   - the run loop, which handles one completion or command at a time; pc *)
(*     names the await at which it stands ("top" is the select itself);    *)
(*   - one task per turn (task[p]), spawned by whoever promotes p;         *)
(*   - the MCP-initialisation task, which promotes once when it is done;   *)
(*   - plan-approval resumptions, which queue a prompt and then promote.   *)
(* A hold of the State mutex without an inner await is one step.           *)
(***************************************************************************)
EXTENDS Integers, Sequences, FiniteSets, QueueOps

CONSTANTS
    Users,      \* prompts submitted by clients; each has a row in the shared queue
    Steers,     \* interjections; a stranded one becomes a prompt of the same name
    Tasks,      \* background tasks and subagents; task t is also the id of its wake prompt
    Plans,      \* plan-resume prompts
    Goals,      \* goal-continuation prompts
    Batches,    \* notification-drain prompts
    Crons,      \* prompts fired by the scheduler
    Clients,    \* clients attached to the session
    Owner,      \* the client that submitted a user prompt
    Monitors,   \* the tasks whose notifications are monitor events
    GoalEnabled,\* goal_harness_enabled()
    DebugAssertions, \* whether the build evaluates debug_assert!
    McpPending, \* whether behaviours begin before the MCP release; else an idle session had it
    None,
    MaxVersion, MaxCancels, MaxInjects,   \* bounds on edits, cancels, notifications
    NotificationCap                       \* MAX_PENDING_NOTIFICATIONS, MAX_BUFFER_EVENTS

Synthetic == Tasks \cup Plans \cup Goals \cup Batches \cup Crons
Ids == Users \cup Steers \cup Synthetic

ASSUME IdsAssumption ==
    /\ None \notin Ids
    /\ Users \cap (Steers \cup Synthetic) = {}
    /\ Steers \cap Synthetic = {}
    /\ Tasks \cap (Plans \cup Goals \cup Batches \cup Crons) = {}
    /\ Plans \cap (Goals \cup Batches \cup Crons) = {}
    /\ Goals \cap (Batches \cup Crons) = {}
    /\ Batches \cap Crons = {}
ASSUME BoundsAssumption ==
    /\ MaxVersion \in Nat /\ MaxCancels \in Nat /\ MaxInjects \in Nat
    /\ NotificationCap \in Nat \ {0}
    /\ GoalEnabled \in BOOLEAN /\ DebugAssertions \in BOOLEAN /\ McpPending \in BOOLEAN
    /\ Monitors \subseteq Tasks
    /\ None \notin Clients
    /\ Owner \in [Users -> Clients \cup {None}]
    /\ IsFiniteSet(Batches) => Cardinality(Batches) >= MaxInjects

VARIABLES
    \* State, guarded by one mutex
    pending,        \* pending_inputs: prompt ids, the running turn in front
    running,        \* running_task's prompt id, or None
    notifs,         \* pending_notifications: the task each is about
    suppressed,     \* notifications_suppressed
    rewindable,
    send_now,       \* the queued items inserted as send-now
    version,        \* queue_meta.version of each row
    \* outside that mutex
    pin,            \* current_prompt_id
    interjections,  \* pending_interjections
    buffer,         \* monitor_event_buffer
    turnActive,     \* is_turn_active
    depth,          \* blocking_wait_depth
    waiting,        \* turns whose tools hold a BlockingWaitGuard
    goal,           \* goal_tracker status
    goalGate,       \* goal_loop_active_gate
    delivered,      \* AutoWakeDeliveredIds
    reported,       \* ReportedTaskCompletions
    history,        \* the prompts counted by prompt_index, in order
    \* the tasks
    task,           \* life cycle of each prompt's turn task
    completions,    \* the completion channel
    mcp,            \* the MCP-initialisation task has yet to promote
    plan,           \* progress of each plan resumption
    wake,           \* progress of each background task towards its wake prompt
    \* the run loop: its await point and the locals that live across awaits
    pc, after, cur, opts, pinned, victim, rewound, doomed,
    \* what the outside has seen
    sent,           \* ids handed to the session
    answered,       \* how each prompt's respond_to was resolved
    terminals,      \* TurnCompleted notifications emitted per prompt
    ran,            \* the version of a row's text its turn was started with
    seen,           \* task completions the model has been shown
    nCancels, nInjects

queueVars == <<pending, send_now, version>>
slotVars == <<running, pin, rewindable>>
noteVars == <<notifs, buffer, suppressed>>
waitVars == <<depth, waiting>>
goalVars == <<goal, goalGate>>
wakeVars == <<wake, delivered, reported, seen>>
taskVars == <<task, turnActive, completions, history>>
otherVars == <<mcp, plan>>
localVars == <<cur, opts, pinned, victim, rewound, doomed>>
outVars == <<answered, terminals, ran>>
boundVars == <<nCancels, nInjects>>
vars == <<queueVars, slotVars, noteVars, waitVars, goalVars, wakeVars, taskVars,
          otherVars, localVars, pc, after, interjections, sent, outVars, boundVars>>

\* early: TurnActiveGuard held; indexed: counted by prompt_index; live: the scope guard
\* holds the pin; closing: it has dropped it.
TaskStates == {"none", "spawned", "early", "indexed", "live", "closing", "ended",
               "aborted", "aborted_live", "dropped"}
Answers == {"open", "turn", "cancelled", "rewound", "removed", "merged", "cleared"}
PCs == {"top", "enqueue", "fallback", "cancel", "cancel_lock", "cancel_gate",
        "cancel_abort", "cancel_unpin", "cancel_answer", "start", "complete_gate",
        "complete_lock", "complete_emit", "turn_end", "flush", "drain", "shutdown", "stopped"}
NoOpts == [now |-> FALSE, rewind |-> FALSE, kill |-> FALSE, owned |-> FALSE]

\* Turn tasks that can still execute code.
Live == {p \in Ids : task[p] \in {"spawned", "early", "indexed", "live", "closing"}}

\* The types of the variables, one part per group of variables.
QueueType ==
    /\ pending \in Seq(Ids)
    /\ send_now \in SUBSET Ids
    /\ version \in [Users -> 0..MaxVersion]
SlotType ==
    /\ running \in Ids \cup {None} /\ pin \in Ids \cup {None}
    /\ rewindable \in BOOLEAN
NoteType == notifs \in Seq(Tasks) /\ buffer \in Seq(Tasks) /\ suppressed \in BOOLEAN
WaitType == depth \in Nat /\ waiting \in SUBSET Ids
GoalType == goal \in {"none", "active", "paused", "complete"} /\ goalGate \in BOOLEAN
WakeType ==
    /\ wake \in [Tasks -> {"idle", "quiet", "draining", "woken"}]
    /\ delivered \in SUBSET Tasks /\ reported \in SUBSET Tasks /\ seen \in SUBSET Tasks
TaskType ==
    /\ task \in [Ids -> TaskStates]
    /\ turnActive \in BOOLEAN
    /\ completions \in Seq(Ids)
    /\ history \in Seq(Ids)
OtherType == mcp \in BOOLEAN /\ plan \in [Plans -> {"idle", "queued", "done"}]
LocalType ==
    /\ cur \in Ids \cup {None}
    /\ opts \in [now : BOOLEAN, rewind : BOOLEAN, kill : BOOLEAN, owned : BOOLEAN]
    /\ pinned \in Ids \cup {None} /\ victim \in Ids \cup {None}
    /\ rewound \in Ids \cup {None} /\ doomed \in Seq(Ids)
LoopType == pc \in PCs /\ after \in {"top", "drain"}
OutType ==
    /\ answered \in [Ids -> Answers]
    /\ terminals \in [Ids -> Nat]
    /\ ran \in [Users -> 0..MaxVersion]
BoundType == nCancels \in 0..MaxCancels /\ nInjects \in 0..MaxInjects

\* blocking_wait_depth never wraps around: a guard that is dropped after a cancel has zeroed
\* the counter saturates.  Every other conjunct is a type.
TypeOK ==
    /\ QueueType /\ SlotType /\ NoteType /\ WaitType /\ GoalType /\ WakeType /\ TaskType
    /\ OtherType /\ LocalType /\ LoopType /\ OutType /\ BoundType
    /\ interjections \in Seq(Steers) /\ sent \in SUBSET Ids

Init ==
    /\ pending = <<>> /\ running = None /\ notifs = <<>>
    /\ suppressed = FALSE /\ rewindable = FALSE
    /\ send_now = {} /\ version = [u \in Users |-> 0]
    /\ pin = None /\ interjections = <<>> /\ buffer = <<>>
    /\ turnActive = FALSE /\ depth = 0 /\ waiting = {}
    /\ goal = "none" /\ goalGate = FALSE
    /\ delivered = {} /\ reported = {} /\ seen = {}
    /\ history = <<>>
    /\ task = [p \in Ids |-> "none"] /\ completions = <<>>
    /\ mcp = McpPending
    /\ plan = [p \in Plans |-> "idle"] /\ wake = [t \in Tasks |-> "idle"]
    /\ pc = "top" /\ after = "top" /\ cur = None /\ opts = NoOpts
    /\ pinned = None /\ victim = None /\ rewound = None /\ doomed = <<>>
    /\ sent = {} /\ answered = [p \in Ids |-> "open"]
    /\ terminals = [p \in Ids |-> 0] /\ ran = [u \in Users |-> 0]
    /\ nCancels = 0 /\ nInjects = 0
-------------------------------------------------------------------------------
(* The queue. *)

\* The position a send-now item or a fallback prompt may be inserted at: behind
\* the running front, which handle_completion will pop, else at the head.
FrontSlotUnguarded(q) == 1
FrontSlot(q) == IF q # <<>> /\ Head(q) = running THEN 2 ELSE 1

\* ... and behind the send-now items already there.
NowSlotFirst(q) == FrontSlot(q)
NowSlot(q) == SkipFrom(q, FrontSlot(q), send_now)

\* sweep_pending_inputs: drop the items in S, except the running turn's slot.
SweepUnguarded(q, S) == Keep(q, Ids \ S)
Sweep(q, S) == Keep(q, Ids \ (S \ {running}))

\* A user prompt preempts queued synthetic prompts when one of them is a wake.
Preempted(q) ==
    IF \E t \in Tasks : t \in Elems(q) /\ t # running
    THEN (Elems(q) \cap Synthetic) \ {running} ELSE {}

\* Row u is queued and is not the running turn (is_running_prompt).
EditablePinned(u) == u \in Elems(pending) /\ u # pin
Editable(u) == u \in Elems(pending) /\ u # running

\* maybe_start_running_task: while no turn runs, the front of the queue becomes the
\* running turn.  It stays in the queue; handle_completion or a cancel pops it.
CanPromote == running = None /\ pending # <<>>
Promote ==
    IF CanPromote
    THEN LET p == Head(pending) IN
         /\ pin' = p /\ running' = p
         /\ rewindable' = TRUE
         /\ task' = [task EXCEPT ![p] = "spawned"]
         /\ ran' = IF p \in Users THEN [ran EXCEPT ![p] = version[p]] ELSE ran
    ELSE UNCHANGED <<slotVars, task, ran>>

\* A notification queue that drops its oldest entries beyond the cap.
Capped(q) ==
    IF Len(q) > NotificationCap THEN SubSeq(q, Len(q) - NotificationCap + 1, Len(q)) ELSE q

\* The run loop takes a command only when no completion waits: its select is biased.
Ready == pc = "top" /\ completions = <<>>

\* maybe_start_running_task, called by the run loop.
Start ==
    /\ pc = "start" /\ pc' = after
    /\ Promote
    /\ UNCHANGED <<queueVars, noteVars, waitVars, goalVars, wakeVars, turnActive,
                   completions, history, otherVars, localVars, after, interjections,
                   sent, answered, terminals, boundVars>>
-------------------------------------------------------------------------------
(* Commands that queue a prompt. *)

\* A background task ends; the notification bridge marks it as delivered and sends its wake
\* prompt, unless a tool covered it (it was waited for, or killed) or the goal loop is active.
TaskCompleted(t, covered) ==
    /\ wake[t] = "idle"
    /\ LET quiet == covered \/ goalGate IN
       /\ wake' = [wake EXCEPT ![t] = IF quiet THEN "quiet"
                                      ELSE IF t \in Monitors THEN "draining" ELSE "woken"]
       /\ delivered' = IF quiet THEN delivered ELSE delivered \cup {t}
    /\ UNCHANGED <<queueVars, slotVars, noteVars, waitVars, goalVars, reported, seen,
                   taskVars, otherVars, localVars, pc, after, interjections, sent,
                   outVars, boundVars>>

\* DropMonitorNotifications, which the bridge sends ahead of a monitor's wake.
DropMonitorNotifications(t) ==
    /\ Ready /\ wake[t] = "draining"
    /\ wake' = [wake EXCEPT ![t] = "woken"]
    /\ notifs' = Keep(notifs, Tasks \ {t})
    /\ buffer' = Keep(buffer, Tasks \ {t})
    /\ UNCHANGED <<queueVars, slotVars, suppressed, waitVars, goalVars, delivered,
                   reported, seen, taskVars, otherVars, localVars, pc, after,
                   interjections, sent, outVars, boundVars>>

\* SessionCommand::Prompt, up to queue_input's wait for the State mutex.
Prompt(p, now) ==
    /\ Ready /\ p \notin sent
    /\ p \in Tasks => wake[p] = "woken"
    /\ p \in Synthetic => ~now
    /\ sent' = sent \cup {p}
    /\ cur' = p /\ opts' = [NoOpts EXCEPT !.now = now]
    /\ suppressed' = (suppressed /\ p \notin Users)
    /\ reported' = reported \cup ({p} \cap Tasks)
    /\ pc' = "enqueue"
    /\ UNCHANGED <<queueVars, slotVars, notifs, buffer, waitVars, goalVars, wake,
                   delivered, seen, taskVars, otherVars, pinned, victim, rewound,
                   doomed, after, interjections, outVars, boundVars>>

\* Whether user prompt p jumps the queue: asked for, or the running turn only waits
\* for tools and no other user prompt is held back.
JumpsQueue(p, q) ==
    /\ p \in Users
    /\ \/ opts.now
       \/ /\ running # None /\ depth > 0
          /\ ~ \E x \in Elems(q) : x \notin Synthetic /\ x # running

\* The locked part of queue_input.
Enqueue ==
    /\ pc = "enqueue"
    /\ LET gone == IF cur \in Users THEN Preempted(pending) ELSE {}
           q == Sweep(pending, gone)
           now == JumpsQueue(cur, q)
       IN /\ pending' = InsertSeq(q, IF now THEN NowSlot(q) ELSE Len(q) + 1, <<cur>>)
          /\ send_now' = IF now THEN send_now \cup {cur} ELSE send_now
          /\ delivered' = delivered \ gone
          /\ opts' = [NoOpts EXCEPT !.now = now]
          /\ pc' = IF now /\ running # None /\ ~goalGate THEN "cancel" ELSE "start"
    /\ after' = "top" /\ cur' = None
    /\ UNCHANGED <<version, slotVars, noteVars, waitVars, goalVars, wake, reported, seen,
                   taskVars, otherVars, pinned, victim, rewound, doomed, interjections,
                   sent, outVars, boundVars>>

\* SessionCommand::Interject: steer the running turn if the pin names one.
Interject(s) ==
    /\ Ready /\ s \notin sent
    /\ sent' = sent \cup {s}
    /\ IF pin # None
       THEN /\ interjections' = Append(interjections, s)
            /\ UNCHANGED <<pc, cur>>
       ELSE /\ pc' = "fallback" /\ cur' = s
            /\ UNCHANGED interjections
    /\ UNCHANGED <<queueVars, slotVars, noteVars, waitVars, goalVars, wakeVars, taskVars,
                   otherVars, opts, pinned, victim, rewound, doomed, after, outVars,
                   boundVars>>

\* queue_interjection_fallback_prompt under the State mutex.
Fallback ==
    /\ pc = "fallback"
    /\ pending' = InsertSeq(pending, FrontSlot(pending), <<cur>>)
    /\ send_now' = send_now \cup {cur}
    /\ pc' = "start" /\ after' = "top" /\ cur' = None
    /\ UNCHANGED <<version, slotVars, noteVars, waitVars, goalVars, wakeVars, taskVars,
                   otherVars, opts, pinned, victim, rewound, doomed, interjections, sent,
                   outVars, boundVars>>

\* SessionCommand::GoalSummaryTurn.
GoalSummaryTurn(g) ==
    /\ Ready /\ g \notin sent
    /\ sent' = sent \cup {g}
    /\ pending' = Append(pending, g)
    /\ pc' = "start" /\ after' = "top"
    /\ UNCHANGED <<send_now, version, slotVars, noteVars, waitVars, goalVars, wakeVars,
                   taskVars, otherVars, localVars, interjections, outVars, boundVars>>
-------------------------------------------------------------------------------
(* Edits of the shared queue; each is one hold of the State mutex. *)

\* handle_remove_queued_prompt for a row whose version and owner match.
RemoveQueuedPrompt(u) ==
    /\ Ready /\ Editable(u)
    /\ pending' = Keep(pending, Ids \ {u})
    /\ answered' = [answered EXCEPT ![u] = "removed"]
    /\ UNCHANGED <<send_now, version, slotVars, noteVars, waitVars, goalVars, wakeVars,
                   taskVars, otherVars, localVars, pc, after, interjections, sent,
                   terminals, ran, boundVars>>

\* handle_clear_queue: the rows of one client, or of all (None).
Cleared(c) ==
    {u \in Users : Editable(u) /\ (c = None \/ Owner[u] = c)}
ClearQueue(c) ==
    /\ Ready /\ Cleared(c) # {}
    /\ pending' = Keep(pending, Ids \ Cleared(c))
    /\ answered' = [p \in Ids |-> IF p \in Cleared(c) THEN "removed" ELSE answered[p]]
    /\ UNCHANGED <<send_now, version, slotVars, noteVars, waitVars, goalVars, wakeVars,
                   taskVars, otherVars, localVars, pc, after, interjections, sent,
                   terminals, ran, boundVars>>

\* handle_reorder_queue: the running turn and items without a row stay in front, the
\* rows named in the request follow in its order, the other rows follow as they were.
ReorderedUnnamedLost(q, order) ==
    LET rows == {u \in Users : u \in Elems(q) /\ u # running}
    IN Keep(q, Ids \ rows) \o Keep(order, rows)
Reordered(q, order) ==
    LET rows == {u \in Users : u \in Elems(q) /\ u # running}
    IN Keep(q, Ids \ rows) \o Keep(order, rows) \o Keep(q, rows \ Elems(order))
ReorderQueue(order) ==
    /\ Ready /\ Reordered(pending, order) # pending
    /\ pending' = Reordered(pending, order)
    /\ UNCHANGED <<send_now, version, slotVars, noteVars, waitVars, goalVars, wakeVars,
                   taskVars, otherVars, localVars, pc, after, interjections, sent,
                   outVars, boundVars>>

\* handle_edit_queued_prompt with apply_queued_prompt_edit.
EditQueuedPrompt(u) ==
    /\ Ready /\ Editable(u) /\ version[u] < MaxVersion
    /\ version' = [version EXCEPT ![u] = @ + 1]
    /\ UNCHANGED <<pending, send_now, slotVars, noteVars, waitVars, goalVars, wakeVars,
                   taskVars, otherVars, localVars, pc, after, interjections, sent,
                   outVars, boundVars>>

\* handle_interject_queued_prompt for a matching row: edit it if asked, make it the
\* next turn, and cancel the running one unless the goal loop drives it.
InterjectQueuedPrompt(u, edit) ==
    /\ Ready /\ Editable(u)
    /\ edit => version[u] < MaxVersion
    /\ version' = IF edit THEN [version EXCEPT ![u] = @ + 1] ELSE version
    /\ LET q == Keep(pending, Ids \ {u})
       IN pending' = InsertSeq(q, NowSlot(q), <<u>>)
    /\ send_now' = send_now \cup {u}
    /\ opts' = [NoOpts EXCEPT !.now = TRUE]
    /\ pc' = IF running # None /\ ~goalGate THEN "cancel" ELSE "start"
    /\ after' = "top"
    /\ UNCHANGED <<slotVars, noteVars, waitVars, goalVars, wakeVars, taskVars, otherVars,
                   cur, pinned, victim, rewound, doomed, interjections, sent, outVars,
                   boundVars>>
-------------------------------------------------------------------------------
(* Cancelling the running turn: cancel_running_task, one action per await. *)

\* SessionCommand::Cancel.  kill is the subagent teardown; a client's cancel may ask
\* for a rewind if the turn has produced no output yet.
Cancel(rewind, kill) ==
    /\ Ready /\ nCancels < MaxCancels
    /\ nCancels' = nCancels + 1
    /\ opts' = [NoOpts EXCEPT !.rewind = rewind, !.kill = kill]
    /\ pc' = "cancel"
    /\ UNCHANGED <<queueVars, slotVars, noteVars, waitVars, goalVars, wakeVars, taskVars,
                   otherVars, cur, pinned, victim, rewound, doomed, after, interjections,
                   sent, outVars, nInjects>>

\* Discard the interjections and take a snapshot of the pin.
CancelBegin ==
    /\ pc = "cancel" /\ pc' = "cancel_lock"
    /\ interjections' = <<>>
    /\ answered' = [p \in Ids |-> IF p \in Elems(interjections) THEN "cleared" ELSE answered[p]]
    /\ pinned' = pin
    /\ UNCHANGED <<queueVars, slotVars, noteVars, waitVars, goalVars, wakeVars, taskVars,
                   otherVars, cur, opts, victim, rewound, doomed, after, sent, terminals,
                   ran, boundVars>>

\* A task that is aborted runs no more code, but the guards it holds are dropped later;
\* one that has ended is not affected.
AbortedNot(p) == task
Aborted(p) ==
    IF p \in Live
    THEN [task EXCEPT ![p] = IF @ = "spawned" THEN "dropped"
                             ELSE IF @ = "live" THEN "aborted_live" ELSE "aborted"]
    ELSE task

\* A rewind takes back a turn that is still pristine.
Rewinds == opts.rewind /\ rewindable

\* The State mutex: sweep the monitor buffer, then either rewind the front or take the
\* running task, and set aside the inputs to answer.
CancelLock ==
    /\ pc = "cancel_lock" /\ pc' = "cancel_gate"
    /\ notifs' = IF opts.kill THEN <<>> ELSE notifs \o buffer
    /\ buffer' = <<>>
    /\ running' = None
    /\ IF Rewinds
       THEN /\ task' = Aborted(running)
            /\ rewindable' = FALSE
            /\ victim' = None
       ELSE /\ victim' = running
            /\ UNCHANGED <<task, rewindable>>
    /\ IF Rewinds /\ pending # <<>>
       THEN /\ rewound' = Head(pending) /\ pending' = Tail(pending)
            /\ doomed' = <<>> /\ suppressed' = FALSE
       ELSE /\ rewound' = None /\ suppressed' = TRUE
            /\ doomed' = IF opts.kill \/ pending = <<>> THEN pending ELSE <<Head(pending)>>
            /\ pending' = IF opts.kill \/ pending = <<>> THEN <<>> ELSE Tail(pending)
    /\ UNCHANGED <<send_now, version, pin, waitVars, goalVars, wakeVars, turnActive,
                   completions, history, otherVars, cur, opts, pinned, after,
                   interjections, sent, outVars, boundVars>>

\* set_goal_loop_active_resource(false), while the taken task still runs.
CancelGate ==
    /\ pc = "cancel_gate" /\ pc' = "cancel_abort"
    /\ goalGate' = FALSE
    /\ UNCHANGED <<queueVars, slotVars, noteVars, waitVars, goal, wakeVars, taskVars,
                   otherVars, localVars, after, interjections, sent, outVars, boundVars>>

\* Abort the taken task and void the waits of its tools.
AbortVictim ==
    /\ pc = "cancel_abort" /\ pc' = "cancel_unpin"
    /\ task' = Aborted(victim)
    /\ UNCHANGED <<queueVars, slotVars, noteVars, waiting, goalVars, wakeVars, turnActive,
                   completions, history, otherVars, localVars, after, interjections, sent,
                   outVars, boundVars>>
CancelAbortKeepDepth == AbortVictim /\ UNCHANGED depth
CancelAbort == AbortVictim /\ depth' = 0

\* The pin is cleared whatever it names.
CancelUnpinKeep ==
    /\ pc = "cancel_unpin" /\ pc' = "cancel_answer"
    /\ UNCHANGED <<queueVars, slotVars, noteVars, waitVars, goalVars, wakeVars, taskVars,
                   otherVars, localVars, after, interjections, sent, outVars, boundVars>>
CancelUnpin ==
    /\ pc = "cancel_unpin" /\ pc' = "cancel_answer"
    /\ pin' = None
    /\ UNCHANGED <<queueVars, running, rewindable, noteVars, waitVars, goalVars, wakeVars,
                   taskVars, otherVars, localVars, after, interjections, sent, outVars,
                   boundVars>>

\* The prompt a cancel reports as terminated.
CancelledId == IF victim # None THEN victim ELSE pinned

\* The snapshot a rewind restores: prompt_index - 1, saturating.
RewoundHistory == IF history = <<>> THEN <<>> ELSE SubSeq(history, 1, Len(history) - 1)

\* Emit the terminal, un-mark the wakes, answer; then Cancel's auto_pause_goal_if_active,
\* or the re-enabled notifications of a send-now.
CancelAnswer ==
    /\ pc = "cancel_answer" /\ pc' = "start" /\ after' = "top"
    /\ IF rewound # None
       THEN /\ history' = RewoundHistory
            /\ answered' = [answered EXCEPT ![rewound] = "rewound"]
            /\ UNCHANGED <<terminals, rewindable, delivered>>
       ELSE /\ answered' = [p \in Ids |-> IF p \in Elems(doomed) THEN "cancelled" ELSE answered[p]]
            /\ delivered' = delivered \ Elems(doomed)
            /\ IF CancelledId # None
               THEN /\ terminals' = [terminals EXCEPT ![CancelledId] = @ + 1]
                    /\ rewindable' = FALSE
               ELSE UNCHANGED <<terminals, rewindable>>
            /\ UNCHANGED history
    /\ suppressed' = (suppressed /\ ~opts.now)
    /\ goal' = IF ~opts.now /\ goal = "active" THEN "paused" ELSE goal
    /\ victim' = None /\ rewound' = None /\ doomed' = <<>> /\ pinned' = None
    /\ UNCHANGED <<queueVars, running, pin, notifs, buffer, waitVars, goalGate, wake,
                   reported, seen, task, turnActive, completions, otherVars, cur, opts,
                   interjections, sent, ran, boundVars>>
-------------------------------------------------------------------------------
(* The end of a turn: handle_completion and the rest of the completion arm. *)

\* The pin is cleared before the State mutex is taken.
Completion ==
    /\ pc = "top" /\ completions # <<>>
    /\ cur' = Head(completions) /\ completions' = Tail(completions)
    /\ pin' = IF pin = Head(completions) THEN None ELSE pin
    /\ pc' = IF pin' = None THEN "complete_gate" ELSE "complete_lock"
    /\ UNCHANGED <<queueVars, running, rewindable, noteVars, waitVars, goalVars, wakeVars, task,
                   turnActive, history, otherVars, opts, pinned, victim, rewound, doomed,
                   after, interjections, sent, outVars, boundVars>>

\* With no pinned turn left, the goal gate is closed before the State mutex is taken.
CompleteGate ==
    /\ pc = "complete_gate" /\ pc' = "complete_lock"
    /\ goalGate' = FALSE
    /\ UNCHANGED <<queueVars, slotVars, noteVars, waitVars, goal, wakeVars, taskVars,
                   otherVars, localVars, after, interjections, sent, outVars, boundVars>>

\* The completion is owned when its prompt is still at the front.
OwnsAlways(p) == pending # <<>>
Owns(p) == pending # <<>> /\ Head(pending) = p

\* Whether the completion of p empties the running slot.
FreesSlotAlways(p) == TRUE
FreesSlot(p) == running = p \/ Owns(p)

CompleteLock ==
    /\ pc = "complete_lock" /\ pc' = "complete_emit"
    /\ opts' = [NoOpts EXCEPT !.owned = Owns(cur)]
    /\ IF Owns(cur)
       THEN /\ pending' = Tail(pending)
            /\ answered' = [answered EXCEPT ![Head(pending)] = "turn"]
       ELSE UNCHANGED <<pending, answered>>
    /\ running' = IF FreesSlot(cur) THEN None ELSE running
    /\ UNCHANGED <<send_now, version, pin, rewindable, noteVars, waitVars, goalVars, wakeVars,
                   taskVars, otherVars, cur, pinned, victim, rewound, doomed, after,
                   interjections, sent, terminals, ran, boundVars>>

\* The terminal of an owned completion, then drain_monitor_buffer_to_pending.
EmitsAlways == TRUE
Emits == opts.owned
CompleteEmit ==
    /\ pc = "complete_emit" /\ pc' = "turn_end"
    /\ IF Emits
       THEN /\ terminals' = [terminals EXCEPT ![cur] = @ + 1]
            /\ rewindable' = FALSE
       ELSE UNCHANGED <<terminals, rewindable>>
    /\ notifs' = notifs \o buffer /\ buffer' = <<>>
    /\ opts' = NoOpts /\ cur' = None
    /\ UNCHANGED <<queueVars, running, pin, suppressed, waitVars, goalVars, wakeVars, taskVars,
                   otherVars, pinned, victim, rewound, doomed, after, interjections, sent,
                   answered, ran, boundVars>>

\* maybe_queue_goal_continuation: one continuation of an active goal is queued.
QueueContinuation ==
    /\ goal = "active"
    /\ Elems(pending) \cap Goals = {}
    /\ \E g \in Goals \ sent : pending' = Append(pending, g) /\ sent' = sent \cup {g}
    /\ UNCHANGED goal

\* handle_turn_end.  Instead of being continued, an active goal may prove complete, out of
\* budget, or be paused by a failing turn.
TurnEnd ==
    /\ pc = "turn_end" /\ pc' = "flush"
    /\ \/ QueueContinuation
       \/ /\ goal' \in IF goal = "active" THEN {"active", "paused", "complete"} ELSE {goal}
          /\ UNCHANGED <<pending, sent>>
    /\ UNCHANGED <<send_now, version, slotVars, noteVars, waitVars, goalGate, wakeVars,
                   taskVars, otherVars, localVars, after, interjections, outVars, boundVars>>

\* flush_stranded_interjections: those that missed the turn's last drain run next, in order.
FlushTo(next, stranded) ==
    /\ pc = "flush" /\ pc' = "start" /\ after' = next
    /\ pending' = InsertSeq(pending, FrontSlot(pending), stranded)
    /\ send_now' = send_now \cup Elems(stranded)
    /\ UNCHANGED <<version, slotVars, noteVars, waitVars, goalVars, wakeVars, taskVars,
                   otherVars, localVars, sent, outVars, boundVars>>
FlushNothing == FlushTo("drain", <<>>) /\ UNCHANGED interjections
FlushDrops == FlushTo("drain", <<>>) /\ interjections' = <<>>
FlushNoDrain == FlushTo("top", interjections) /\ interjections' = <<>>
Flush == FlushTo("drain", interjections) /\ interjections' = <<>>

\* split_goal_suppressed: the tasks whose notifications are dropped.  That is all while the goal
\* is active and after it is complete, else those in goal_turn_task_ids, which are not tracked.
GoalSuppressed ==
    IF ~GoalEnabled THEN {{}}
    ELSE IF goal \in {"active", "complete"} THEN {Tasks} ELSE SUBSET Tasks

\* maybe_drain_notifications: when idle and not suppressed, the notifications that the goal
\* does not drop become one batched turn; all are marked as reported.
Drain ==
    /\ pc = "drain"
    /\ LET all == notifs \o buffer
           idle == running = None /\ pending = <<>> /\ ~suppressed
       IN IF ~idle \/ all = <<>>
          THEN /\ pc' = "top"
               /\ notifs' = IF idle THEN all ELSE notifs
               /\ buffer' = IF idle THEN <<>> ELSE buffer
               /\ UNCHANGED <<pending, reported, sent>>
          ELSE /\ notifs' = <<>> /\ buffer' = <<>>
               /\ reported' = reported \cup Elems(all)
               /\ \E dropped \in GoalSuppressed :
                     IF Elems(all) \subseteq dropped
                     THEN pc' = "top" /\ UNCHANGED <<pending, sent>>
                     ELSE /\ \E b \in Batches \ sent : /\ pending' = Append(pending, b)
                                                      /\ sent' = sent \cup {b}
                          /\ pc' = "start"
    /\ after' = "top"
    /\ UNCHANGED <<send_now, version, slotVars, suppressed, waitVars, goalVars, wake,
                   delivered, seen, taskVars, otherVars, localVars, interjections, outVars,
                   boundVars>>

\* SessionCommand::InjectNotification with an event of monitor t, which the bridge sends
\* while the monitor is not marked as delivered.  During a turn it goes to its buffer.
InjectNotification(t) ==
    /\ Ready /\ nInjects < MaxInjects
    /\ t \notin delivered \/ wake[t] = "draining"
    /\ nInjects' = nInjects + 1
    /\ IF turnActive
       THEN /\ buffer' = Capped(Append(buffer, t))
            /\ UNCHANGED <<notifs, pc>>
       ELSE /\ notifs' = Capped(Append(notifs, t))
            /\ pc' = "drain"
            /\ UNCHANGED buffer
    /\ UNCHANGED <<queueVars, slotVars, suppressed, waitVars, goalVars, wakeVars, taskVars,
                   otherVars, localVars, after, interjections, sent, outVars, nCancels>>

\* SessionCommand::Shutdown: drop synthetic work, then await hooks and flushes while the
\* other tasks go on ...
Shutdown ==
    /\ Ready /\ pc' = "shutdown"
    /\ pending' = Keep(pending, Ids \ Synthetic)
    /\ notifs' = <<>>
    /\ UNCHANGED <<send_now, version, slotVars, buffer, suppressed, waitVars, goalVars, wakeVars,
                   taskVars, otherVars, localVars, after, interjections, sent, outVars, boundVars>>

\* ... and leave the loop: run_session returns, and its thread drops the LocalSet with every
\* task on it.
ShutdownEnd ==
    /\ pc = "shutdown" /\ pc' = "stopped"
    /\ task' = [p \in Ids |-> IF task[p] \in {"none", "ended"} THEN task[p] ELSE "dropped"]
    /\ pin' = IF pin # None /\ task[pin] = "live" THEN None ELSE pin
    /\ turnActive' = FALSE /\ waiting' = {} /\ depth' = 0
    /\ mcp' = FALSE /\ plan' = [p \in Plans |-> "done"]
    /\ UNCHANGED <<queueVars, running, rewindable, noteVars, goalVars, wakeVars, completions,
                   history, localVars, after, interjections, sent, outVars, boundVars>>

\* The session takes no more commands.
Stopping == pc \in {"shutdown", "stopped"}
-------------------------------------------------------------------------------
(* Promotions by tasks other than the run loop. *)

\* The MCP-initialisation task promotes once when its servers are ready.
McpRelease ==
    /\ mcp /\ mcp' = FALSE
    /\ Promote
    /\ UNCHANGED <<queueVars, noteVars, waitVars, goalVars, wakeVars, turnActive,
                   completions, history, plan, localVars, pc, after, interjections, sent,
                   answered, terminals, boundVars>>

\* A resumed plan approval: start_resume_turn queues a synthetic prompt ...
PlanEnqueue(p) ==
    /\ plan[p] = "idle" /\ plan' = [plan EXCEPT ![p] = "queued"]
    /\ pending' = Append(pending, p)
    /\ sent' = sent \cup {p}
    /\ UNCHANGED <<send_now, version, slotVars, noteVars, waitVars, goalVars, wakeVars,
                   taskVars, mcp, localVars, pc, after, interjections, outVars, boundVars>>

\* ... and promotes.
PlanStart(p) ==
    /\ plan[p] = "queued" /\ plan' = [plan EXCEPT ![p] = "done"]
    /\ Promote
    /\ UNCHANGED <<queueVars, noteVars, waitVars, goalVars, wakeVars, turnActive,
                   completions, history, mcp, localVars, pc, after, interjections, sent,
                   answered, terminals, boundVars>>

\* close_rewind_window: any update sent to the client.
CloseRewindWindow ==
    /\ pc # "stopped"
    /\ rewindable /\ rewindable' = FALSE
    /\ UNCHANGED <<queueVars, running, pin, noteVars, waitVars, goalVars, wakeVars, taskVars,
                   otherVars, localVars, pc, after, interjections, sent, outVars, boundVars>>
-------------------------------------------------------------------------------
(* The turn task of prompt t: handle_prompt. *)

\* Its first poll sets is_turn_active.
TurnBegin(t) ==
    /\ task[t] = "spawned" /\ task' = [task EXCEPT ![t] = "early"]
    /\ turnActive' = TRUE
    /\ UNCHANGED <<queueVars, slotVars, noteVars, waitVars, goalVars, wakeVars, completions,
                   history, otherVars, localVars, pc, after, interjections, sent, outVars,
                   boundVars>>

\* increment_prompt_index.
TurnIndex(t) ==
    /\ task[t] = "early" /\ task' = [task EXCEPT ![t] = "indexed"]
    /\ history' = Append(history, t)
    /\ UNCHANGED <<queueVars, slotVars, noteVars, waitVars, goalVars, wakeVars, turnActive,
                   completions, otherVars, localVars, pc, after, interjections, sent,
                   outVars, boundVars>>

\* The background tasks whose end no reminder has covered.
Unreported == {c \in Tasks : wake[c] # "idle"} \ reported

\* drain_between_turn_completions, then the prompt itself joins the conversation and the
\* scope guard takes over the pin.
TurnReady(t) ==
    /\ task[t] = "indexed" /\ task' = [task EXCEPT ![t] = "live"]
    /\ LET ended == Unreported \ Monitors IN
       /\ reported' = reported \cup ended
       /\ seen' = seen \cup (IF goal = "active" THEN {} ELSE ended) \cup ({t} \cap Tasks)
    /\ UNCHANGED <<queueVars, slotVars, noteVars, waitVars, goalVars, wake, delivered,
                   turnActive, completions, history, otherVars, localVars, pc, after,
                   interjections, sent, outVars, boundVars>>

\* The head of a goal round: the gate follows the goal's status.
TurnGoalRound(t) ==
    /\ GoalEnabled /\ task[t] = "live"
    /\ goalGate' = (goal = "active") /\ goalGate' # goalGate
    /\ UNCHANGED <<queueVars, slotVars, noteVars, waitVars, goal, wakeVars, taskVars, otherVars,
                   localVars, pc, after, interjections, sent, outVars, boundVars>>

\* /goal sets or resumes a goal, update_goal completes or blocks it.
TurnSetGoal(t) ==
    /\ GoalEnabled
    /\ \/ task[t] = "early" /\ t \notin Synthetic /\ goal # "active" /\ goal' = "active"
       \/ task[t] = "live" /\ goal = "active" /\ goal' \in {"complete", "paused"}
    /\ UNCHANGED <<queueVars, slotVars, noteVars, waitVars, goalGate, wakeVars, taskVars,
                   otherVars, localVars, pc, after, interjections, sent, outVars, boundVars>>

\* A tool blocks in an interruptible wait: BlockingWaitGuard::enter ...
TurnEnterWait(t) ==
    /\ task[t] = "live" /\ t \notin waiting
    /\ waiting' = waiting \cup {t} /\ depth' = depth + 1
    /\ UNCHANGED <<queueVars, slotVars, noteVars, goalVars, wakeVars, taskVars, otherVars,
                   localVars, pc, after, interjections, sent, outVars, boundVars>>

\* ... and its Drop, when the wait ends or some time after the turn was aborted.
LeaveWait(t, left) ==
    /\ t \in waiting /\ waiting' = waiting \ {t} /\ depth' = left
    /\ UNCHANGED <<queueVars, slotVars, noteVars, goalVars, wakeVars, taskVars, otherVars,
                   localVars, pc, after, interjections, sent, outVars, boundVars>>
WaitGuardDropUnsaturated(t) == LeaveWait(t, depth - 1)
WaitGuardDrop(t) == LeaveWait(t, IF depth = 0 THEN 0 ELSE depth - 1)

\* drop_pending_items_for_consumed_completions: the wakes and the notifications of the
\* completions C lose their place.
DropConsumed(C) ==
    /\ pending' = Sweep(pending, C)
    /\ notifs' = Keep(notifs, Tasks \ C)

\* A tool result: the completion reminder covers every ended task and shows those not covered
\* before; the completions C are those that the result itself conveys.
TurnToolResult(t, C) ==
    /\ task[t] = "live"
    /\ \A c \in C : wake[c] # "idle"
    /\ delivered' = {}
    /\ reported' = reported \cup delivered \cup C \cup Unreported
    /\ seen' = seen \cup C \cup (IF goalGate THEN {} ELSE Unreported \ delivered)
    /\ DropConsumed(C)
    /\ UNCHANGED <<send_now, version, slotVars, buffer, suppressed, waitVars, goalVars, wake,
                   taskVars, otherVars, localVars, pc, after, interjections, sent, outVars,
                   boundVars>>

\* The head of the sampling loop, and its end: the turn merges the interjections.
Merge(t) ==
    /\ task[t] = "live" /\ interjections # <<>>
    /\ answered' = [p \in Ids |-> IF p \in Elems(interjections) THEN "merged" ELSE answered[p]]
    /\ UNCHANGED <<queueVars, slotVars, noteVars, waitVars, goalVars, wakeVars, taskVars,
                   otherVars, localVars, pc, after, sent, terminals, ran, boundVars>>
DrainInterjectionsKeep(t) == Merge(t) /\ UNCHANGED interjections
DrainInterjections(t) == Merge(t) /\ interjections' = <<>>

\* inject_pending_monitor_events.
InjectMonitorEvents(t) ==
    /\ task[t] = "live" /\ buffer # <<>>
    /\ buffer' = <<>>
    /\ UNCHANGED <<queueVars, slotVars, notifs, suppressed, waitVars, goalVars, wakeVars,
                   taskVars, otherVars, localVars, pc, after, interjections, sent, outVars,
                   boundVars>>

\* The scope guard of turn t is dropped: it clears the pin if it still names t.
Unpin(t) == pin' = IF pin = t THEN None ELSE pin

\* The turn is over; usage is frozen and the pin given up before the last awaits.
TurnUnpin(t) ==
    /\ task[t] = "live" /\ t \notin waiting /\ task' = [task EXCEPT ![t] = "closing"]
    /\ Unpin(t)
    /\ UNCHANGED <<queueVars, running, rewindable, noteVars, waitVars, goalVars, wakeVars,
                   turnActive, completions, history, otherVars, localVars, pc, after,
                   interjections, sent, outVars, boundVars>>

\* handle_prompt returns: its guards are dropped and run_task sends the completion.
Finish(t) ==
    /\ task' = [task EXCEPT ![t] = "ended"]
    /\ turnActive' = FALSE
    /\ completions' = Append(completions, t)
    /\ UNCHANGED <<queueVars, slotVars, noteVars, waitVars, goalGate, wakeVars, history,
                   otherVars, localVars, pc, after, interjections, sent, outVars, boundVars>>

\* The turn ends.  That of a client's prompt may also end before there is a scope guard: a
\* slash command, a prompt that cannot be parsed.
TurnFinish(t) ==
    /\ task[t] = "closing" \/ (task[t] \in {"early", "indexed"} /\ t \notin Synthetic)
    /\ Finish(t) /\ UNCHANGED goal

\* /goal pause for an active goal: the call that pauses it is the argument of a debug_assert!,
\* so that only a build with debug assertions makes it.
TurnPauseGoal(t) ==
    /\ GoalEnabled /\ task[t] = "early" /\ t \notin Synthetic
    /\ goal = "active"
    /\ goal' = IF DebugAssertions THEN "paused" ELSE goal
    /\ Finish(t)

\* /goal clear.
TurnClearGoal(t) ==
    /\ GoalEnabled /\ task[t] = "early" /\ t \notin Synthetic
    /\ goal # "none" /\ goal' = "none"
    /\ Finish(t)

\* The runtime drops the future of an aborted turn, and with it the turn's guards.
TaskDropped(t) ==
    /\ task[t] \in {"aborted", "aborted_live"} /\ task' = [task EXCEPT ![t] = "dropped"]
    /\ turnActive' = FALSE
    /\ IF task[t] = "aborted_live" THEN Unpin(t) ELSE UNCHANGED pin
    /\ UNCHANGED <<queueVars, running, rewindable, noteVars, waitVars, goalVars, wakeVars,
                   completions, history, otherVars, localVars, pc, after, interjections,
                   sent, outVars, boundVars>>
-------------------------------------------------------------------------------
\* What clients, the bridge and the scheduler may ask of the run loop.
Command ==
    \/ \E p \in Users \cup Tasks \cup Crons, now \in BOOLEAN : Prompt(p, now)
    \/ \E s \in Steers : Interject(s)
    \/ \E g \in Goals : GoalSummaryTurn(g)
    \/ \E u \in Users : RemoveQueuedPrompt(u)
    \/ \E c \in Clients \cup {None} : ClearQueue(c)
    \/ \E u, v \in Users : ReorderQueue(IF u = v THEN <<u>> ELSE <<u, v>>)
    \/ \E u \in Users : EditQueuedPrompt(u)
    \/ \E u \in Users, edit \in BOOLEAN : InterjectQueuedPrompt(u, edit)
    \/ \E rewind \in BOOLEAN : Cancel(rewind, FALSE)
    \/ Cancel(FALSE, TRUE)
    \/ \E t \in Tasks : DropMonitorNotifications(t)
    \/ \E t \in Monitors : InjectNotification(t)
    \/ Shutdown

\* The run loop finishes what it has begun.
LoopStep ==
    \/ Enqueue \/ Fallback \/ Start
    \/ CancelBegin \/ CancelLock \/ CancelGate \/ CancelAbort \/ CancelUnpin \/ CancelAnswer
    \/ Completion \/ CompleteGate \/ CompleteLock \/ CompleteEmit
    \/ TurnEnd \/ Flush \/ Drain \/ ShutdownEnd

\* A turn task comes closer to its end.
TurnProgress(t) ==
    \/ TurnBegin(t) \/ TurnIndex(t) \/ TurnReady(t) \/ TurnUnpin(t) \/ TurnFinish(t)
    \/ TurnPauseGoal(t) \/ TurnClearGoal(t)

\* What a turn does on the way.
TurnWork(t) ==
    \/ TurnGoalRound(t) \/ TurnSetGoal(t) \/ TurnEnterWait(t)
    \/ \E C \in SUBSET Tasks : TurnToolResult(t, C)
    \/ DrainInterjections(t) \/ InjectMonitorEvents(t)

Next ==
    \/ Command \/ LoopStep
    \/ \E t \in Ids : TurnProgress(t) \/ TurnWork(t) \/ WaitGuardDrop(t) \/ TaskDropped(t)
    \/ \E t \in Tasks, covered \in BOOLEAN : TaskCompleted(t, covered)
    \/ McpRelease \/ CloseRewindWindow
    \/ \E p \in Plans : PlanEnqueue(p) \/ PlanStart(p)

Spec == Init /\ [][Next]_vars

\* Every task of the LocalSet is polled again, and every turn ends once its tools return:
\* the sampling loop is bounded by retries and turn limits.  No command is ever due.
Fairness ==
    /\ WF_vars(LoopStep)
    /\ \A t \in Ids : SF_vars(TurnProgress(t))
    /\ \A t \in Ids : WF_vars(WaitGuardDrop(t) \/ TaskDropped(t))
    /\ \A p \in Plans : WF_vars(PlanStart(p))
FairSpec == Spec /\ Fairness
-------------------------------------------------------------------------------
(* Properties. *)

\* The in-flight turn is the front of the queue until handle_completion or a cancel pops
\* it; both pop the front without looking for it (acp_session.rs, sweep_pending_inputs).
FrontIsRunning ==
    ~Stopping /\ running # None => pending # <<>> /\ Head(pending) = running

\* No prompt is queued twice, and a queued prompt that already has a turn task is the
\* running one: maybe_start_running_task never spawns a second turn for a prompt.
SpawnedOnce ==
    /\ NoRepeats(pending)
    /\ \A p \in Elems(pending) : task[p] # "none" => p = running

\* Between commands a pin names the running turn, so an interjection that is steered into
\* "the running turn" reaches one; and the pin a cancel has snapshot does not disagree
\* with the task it takes (the debug_assert of cancel_running_task).
PinAgreement ==
    /\ pc = "top" /\ pin # None => pin = running
    /\ pc = "cancel_lock" /\ pinned # None => running \in {None, pinned}

\* Where a client's prompt or interjection can be while it is not answered.
Places(p) ==
    <<cur = p /\ pc \in {"enqueue", "fallback"}, p \in Elems(pending),
      p \in Elems(interjections), p \in Elems(doomed) \/ rewound = p, answered[p] # "open">>

\* No prompt or interjection a client has sent is lost or duplicated: it is in exactly one
\* place until its respond_to is resolved, and in none afterwards.
Accounted ==
    ~Stopping =>
        \A p \in sent \cap (Users \cup Steers) :
            Cardinality({i \in 1..5 : Places(p)[i]}) = 1

\* A respond_to is resolved at most once.
OneAnswer ==
    [][\A p \in Ids : answered[p] # "open" => answered'[p] = answered[p]]_vars

\* A prompt is answered with a turn's result only by its own turn, after that has ended: a
\* stale completion never resolves the prompt that took its place at the front.
AnsweredByOwnTurn ==
    [][\A p \in Ids : answered[p] = "open" /\ answered'[p] = "turn" => task[p] = "ended"]_vars

\* Every turn that was started and not rewound publishes exactly one TurnCompleted, whether
\* it completes, is cancelled, or completes while it is being cancelled.
TerminalOnce ==
    \A p \in Ids :
        /\ terminals[p] <= IF answered[p] = "rewound" THEN 0 ELSE 1
        /\ pc = "top" /\ answered[p] \in {"turn", "cancelled"} /\ task[p] # "none"
           => terminals[p] = 1

\* At most one turn executes besides the one a cancel is about to abort.
LiveTurns ==
    \A p \in Live : p = running \/ (p = victim /\ pc \in {"cancel_gate", "cancel_abort"})

\* When the run loop waits for its next command, a queued prompt has a turn in front of
\* it or a plan resumption about to promote, and an interjection has a turn to merge it.
NothingStranded ==
    pc = "top" =>
        /\ pending # <<>> => running # None \/ \E p \in Plans : plan[p] = "queued"
        /\ interjections # <<>> => running # None

\* The turn of a row runs the text of its last edit: no edit is acknowledged after the
\* turn took its copy.
RunsLatestText ==
    \A u \in Users : u = running \/ answered[u] = "turn" => ran[u] = version[u]

\* A plain prompt cancels the running turn only if that turn is blocked in a wait; the waits
\* of turns cancelled earlier do not count.
NoSurpriseCancel ==
    [][pc = "enqueue" /\ pc' = "cancel" /\ ~opts.now => running \in waiting]_vars

\* The queued send-now prompts that no reorder has put behind another item.
Stacked ==
    {y \in send_now \ {running} :
        \E i \in DOMAIN pending : /\ pending[i] = y
                                 /\ \A j \in 1..i : pending[j] \in send_now \cup {running}}

\* Stacked send-now prompts of clients run in the order they were sent: the next one is queued
\* behind those already there.  The comment on InputItem.send_now has no exception for a
\* reorder, nor for interjection fallbacks, which queue_interjection_fallback_prompt inserts
\* ahead of them.
SendNowFifo ==
    [][\A p \in Users \cap (send_now' \ send_now), y \in Stacked :
          \A i, j \in DOMAIN pending' : pending'[i] = y /\ pending'[j] = p => i < j]_vars

\* A notification that reaches the queue is drained, into a turn or because the goal drops it,
\* unless a cancel suppresses it: a drain follows every turn's end.  A cancel that rewinds is
\* the exception, it leaves an unsuppressed session idle without a drain.
NotificationsDrained ==
    notifs # <<>> ~> \/ notifs = <<>> \/ suppressed \/ Stopping
                     \/ \E p \in Ids : answered[p] = "rewound"

\* Every prompt and every interjection is answered, unless the session is shut down.
EveryPromptAnswered ==
    \A p \in Users \cup Steers : p \in sent ~> answered[p] # "open" \/ Stopping
-------------------------------------------------------------------------------
(* What comments of the code say and the code does not do: TLC refutes each of these.      *)

\* "Un-mark preempted IDs so TaskCompletionReminder can report them on the next pass instead
\* of permanently suppressing them": a completion whose wake prompt was dropped has been
\* shown to the model or can still be reported.
WakeReportable ==
    \A c \in Tasks :
        ~Stopping /\ wake[c] = "woken" /\ c \in sent =>
            \/ c \in seen \/ c \notin reported
            \/ c \in Elems(pending) \cup Elems(doomed) \/ c \in {cur, rewound, running}

\* "Cut at the rewound turn's user item": a rewind takes the rewound prompt, and no other, out
\* of the conversation.
RewindOwnPrompt ==
    [][rewound # None /\ rewound' = None
          => Elems(history) \ Elems(history') \subseteq {rewound}]_vars

\* "Current running prompt/turn id": a turn that executes behind its scope guard is named by
\* the pin.
PinNamesRunning == pc = "top" /\ running # None /\ task[running] = "live" => pin = running

\* "Cancellation aborts the in-turn goal loop before its post-loop cleanup runs, so clear the
\* goal-loop flag here too": an idle session has a closed goal gate.
GateClosedWhenIdle == pc = "top" /\ running = None => ~goalGate

\* "Goal paused. Use /goal resume to continue.": the turn of /goal pause leaves no active goal,
\* which would queue a continuation as soon as that turn is completed.
PauseStops == [][\A t \in Ids : TurnPauseGoal(t) => goal' = "paused"]_vars
===============================================================================
