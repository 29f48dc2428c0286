# Logan's concurrent core in TLA+

Logan (a fork of Grok Build) is a coding agent for the terminal: about 1.4 million lines of
Rust in some seventy crates. This directory models the parts where its concurrency is decided:

- the *session actor* of `xai-grok-shell`, which owns one conversation, its queue of prompts and
  the turn that is running (`SessionActor`);
- the *election* of the one leader process of a machine by a lock file and a socket
  (`LeaderElection`);
- the *attachment* of clients to a session at work: persistence, replay and the leader's routing
  (`SessionLoad`);
- the lock-free *circuit breaker* that the crates share (`CircuitBreaker`).

The modules are checked with TLC on small instances. Every safety property of the passing runs,
the refinement included, is also proved with TLAPS for every value of the constants; liveness is
model-checked.

Paths below are relative to `src/crates/codegen/xai-grok-shell/src/session/` (`impl/` stands
for `acp_session_impl/`) unless they name another crate or begin with `../`.

## 1. Inventory

| Component | State | Operations | Interacts with | Hard behaviour, and what makes it correct |
| --- | --- | --- | --- | --- |
| Prompt queue (`acp_session.rs`, `impl/prompt_queue.rs`) | `pending_inputs`, rows' versions and owners, `send_now` marks | queue, send now, preempt, remove, clear, reorder, edit, interject a row | run loop, turn life cycle, clients (broadcasts) | The running turn stays *in* the queue, in front, and is popped unseen: every operation must keep it there. No prompt is lost, duplicated or started twice. |
| Turn life cycle (`impl/notification_drain.rs`, `tasks_cancel.rs`, `turn_end.rs`, `turn.rs`) | `running_task`, `current_prompt_id` (the pin), `rewindable`, `is_turn_active`, the prompt index | promote, begin, index, open, end, complete, cancel, rewind | every other component | Three identities of "the running turn" (front, slot, pin) are updated at different awaits; completions can be stale; aborts are asynchronous. One turn at a time, one answer and one terminal per prompt. |
| Run loop (`impl/run_loop.rs`, `impl/spawn.rs`) | its await point | a biased select over completions and about seventy commands | all | Everything that starts a prompt is a call at the end of some handler. Nothing may be stranded. |
| Interjections (`impl/interjection.rs`, crate `xai-interjection-core`) | `pending_interjections` | push, merge, clear, flush, fallback | turn, queue | An interjection can miss the turn's last drain. It is merged, discarded or converted, exactly once. |
| Notifications (`impl/notification_drain.rs`, `tools/notification_bridge.rs`) | `pending_notifications`, `monitor_event_buffer`, `notifications_suppressed` | inject, drain when idle, sweep, cap, drop | turn, goal, wakes | Idle-gating can park them: they are drained unless suppressed. |
| Completions of background tasks (`tools/notification_bridge.rs`; crate `xai-grok-tools`: `reminders/task_completion.rs`, `bridge.rs`) | `AutoWakeDeliveredIds`, `ReportedTaskCompletions` | wake, preempt, between-turn drain, per-tool reminder, consume | queue, turn, goal | Two sets, five writers. A completion is shown once. |
| Blocking waits (`tools/tool_context.rs`, `impl/tool_calls.rs`) | `blocking_wait_depth` | enter, drop, void | queue (auto send-now), cancel | Guards outlive their turn. A stale count must not cancel the next turn. |
| Goal loop (`impl/goal.rs`, `goal_support.rs`, `goal_tracker.rs`, `impl/slash_exec.rs`) | status, `goal_loop_active_gate` | set, resume, pause, clear, round, continue | wakes, send-now, notifications | The gate is a cached copy of the status. |
| Plan mode (`plan_mode.rs`, `impl/tool_calls.rs`) | plan-mode state, parked approval | enter, request, approve, resume | promotes from a task of its own | see promotions. |
| `SessionCommand::Rewind` (`impl/rewind.rs`) | conversation, file snapshots | rewind to a prompt | chat state, turn | runs beside the run loop. |
| Chat state (crate `xai-chat-state`) | conversation, prompt index | actor messages | turn, rewind, compaction | ordering of messages and snapshots. |
| Persistence (`persistence.rs`, `../agent/mvp_agent/acp_agent.rs`) | `updates.jsonl`, the pending merge, the gate `gateway_enabled` | merge, flush, replay, replay a delta, close and open the gate | session, agent, leader | Three threads; a replay meets live events. A loaded client has everything up to the second flush, in order, and every load is answered. |
| Leader routing (`../leader/server.rs`) | subscribers, driver, loads, live buffers, cached interactions | subscribe, hold back, unicast a replay, broadcast, release a buffer, disconnect | agent, clients | A client may leave at any moment. The tables name connected clients, one-shots and open interactions reach everyone. |
| Leader election (`../leader/lock.rs`, `../leader/mod.rs`, `../agent/app.rs`) | lock file and pid, socket file, listener | acquire, spawn, hand over, adopt, evict, shut down | all client processes | Locks belong to inodes, files to paths; processes are killed. One leader per lock file, no lock kept for ever. |
| Circuit breaker (crate `xai-circuit-breaker`) | state, time stamps, probe counter, sliding window | check, record, trip, close, error rate | sampler, uploads, any caller | Separate atomics without a lock. The count is exact, evicted samples are old, the breaker recovers. |
| MCP, sampler, auth, tools, worktrees, memory, hooks, uploads, UI, update | their own | | | I/O, external services or rendering; listed in `PROJECT.json`, not modelled. |

`PROJECT.json` lists the hazards of this code, each at its line, with the properties that
would catch it.

## 2. Plan

Done, in this order:

1. `SessionActor`: queue, turn, run loop, interjections, notifications, wakes, waits, goal gate,
   plan resumptions; `PromptService` and the refinement.
2. `CircuitBreaker`: one step per atomic operation, the sliding window against its reference
   count, recovery under fairness.
3. `LeaderElection`: inodes and paths, handoff, eviction, kills and timeouts.
4. `SessionLoad`: persistence, replay, gate and the leader's routing, composed.
5. Proofs: types, the slot, and the places, turns and answers of the session's prompts; then their
   texts, terminals and order, the pin, the waits and what may be stranded; the refinement of
   `PromptService`; the locks of the election; the window of the breaker; the routing tables of the
   leader, and what a loading client gets: everything, in order, once, with the open interactions.

Left:

1. Extend the session: `handle_rewind` as a task; completions with auto-wake disabled;
   subagent completions; the plan-mode state machine; half steps of `Promote`.
2. `SessionLoad` with a session that is not resident (cold load), with cursors (`noReplay`), and
   with a crash between two lines of the file.
3. Proofs for these extensions, on top of `SessionInv`, `AroundInv` and the invariants of the load.

## 3. Modules

| Module | Contents |
| --- | --- |
| `QueueOps` | operations of `VecDeque` the queue uses: retain (`Keep`), insert (`InsertSeq`), the scan over send-now items (`SkipFrom`); written with indices, without recursion |
| `SessionActor` | the session: state, actions, fairness, properties |
| `PromptService` | what a session promises its clients |
| `SessionService` | the refinement mapping, `ImplementsService` |
| `CircuitBreaker` | the breaker, its callers and the clock |
| `LeaderElection` | clients and leaders, the lock file and the socket |
| `SessionLoad` | session, persistence actor, agent, leader and clients during `session/load` |
| `MCSession`, `MCBreaker`, `MCElection`, `MCLoad` | the modules TLC runs; one `.cfg` per run |
| `QueueOpsProofs` | lemmas about `QueueOps` |
| `SessionActorProofs`, `SessionOnceProofs`, `SessionTurnProofs`, `SessionServiceProofs` | the theorems about the session, each module on top of the one before |
| `CircuitBreakerProofs`, `LeaderElectionProofs`, `SessionLoadProofs` | the theorems about the others |

### How `SessionActor` corresponds to the code

A session lives on a thread of its own with one `LocalSet` (`impl/spawn.rs`), so its tasks
interleave at awaits only. The model has one action per stretch between awaits that matters:
a hold of the State mutex is one step; where the code awaits between two changes of shared
state, the run loop's `pc` names that await and every other task may act there.

- *State.* The variables carry the names of the fields of `State`, `SessionActor` and
  `ToolContext`. `pending` holds prompt ids; `running` is `running_task`'s id; `pin` is
  `current_prompt_id`. `task[p]` is the life cycle of the turn spawned for `p`: `early` holds the
  `TurnActiveGuard`, `indexed` is counted by `prompt_index`, `live` holds the scope guard of the
  pin, `closing` has dropped it. An aborted task (`aborted`, `aborted_live`) runs no more
  code but holds its guards until `TaskDropped`.
- *Commands* (`Prompt`, `Interject`, `Cancel`, the queue edits, `InjectNotification`, ...)
  require `Ready`: the loop is at its select and, the select being biased, no completion
  waits.
- *Cancel* is `CancelBegin`, `CancelLock`, `CancelGate`, `CancelAbort`, `CancelUnpin`,
  `CancelAnswer`, in the order of `cancel_running_task`; a send-now is the same path with
  `opts.now`.
- *Completion* is `Completion`, `CompleteGate`, `CompleteLock`, `CompleteEmit`, `TurnEnd`,
  `Flush`, `Start`, `Drain`, in the order of the completion arm.
- *Promotions* by other tasks: `McpRelease`, `PlanEnqueue` and `PlanStart`.
- *The turn*: `TurnBegin` ... `TurnFinish`, and what it does to shared state on the way.
- *Outcomes* for the properties: `answered` (how `respond_to` was resolved), `terminals`
  (`TurnCompleted` per prompt), `ran` (the version of the text a turn started with), `seen`
  (completions shown to the model).

What is abstracted: prompts, texts and payloads are identities; a row's version and owner guard
its edits; broadcasts, telemetry, usage and traces are left out. `Promote` is one step although
`maybe_start_running_task` awaits a resource update under the State mutex; only readers of the
pin could tell. `TurnToolResult` joins the reminder and the sweep of one tool result. A turn
holds at most one wait guard. A turn's end before its scope guard is limited to clients' prompts
(slash commands and parse errors do not occur for synthetic ones). `TurnSetGoal`, `TurnEnd` and
`Drain` choose freely where a classifier, a budget or the origin of a task (`goal_turn_task_ids`)
decides.
Tasks stand for bash background tasks; a task in `Monitors` is a monitor.

### How `CircuitBreaker` corresponds to the code

`CircuitBreakerInner` has no lock: every load, store, `fetch_add`, `fetch_sub` and
`compare_exchange` of `check`, `check_open`, `try_half_open_probe`, `record`, `trip` and `close` is
an action, named for what it does, and a thread's `pc` says which comes next. What happens under the
mutex of the `SlidingWindow` is one step (`RecordSample`, `CloseClear`, `ErrorRate`). All stores are
Release and all loads Acquire, so interleaving the operations loses no behaviour. Instants are ages
that `Tick` increases; they saturate where nothing tells them apart any more. `probes` is a `usize`
and wraps: `ProbeSub` after a reset to 0 gives the largest value, which the model keeps
(`UsizeRange`).

The races it shows are benign only because of the lease, and `Recovers` is the property that says
so: a thread between `fetch_add` and the stamp of its claim lets a second probe through an expired
claim; `trip` publishes `Open` before `opened_at` and the probe counter, so a late check can use the
old stamp; `is_open_fast` can stay behind the state; an abandoned or wrapped probe counter blocks
every slot until the lease of the last claim runs out. Observers and metrics are left out.

### How `LeaderElection` corresponds to the code

A client's `pc` walks through `connect_or_spawn` (`Call` ... `WaitTimeout`), a leader's through
`run_leader` (`LeaderOpen` ... `DropSockPath`). A lock file is an inode with a holder and a pid; the
path names at most one of them, and `LeaderLock::drop` removes whatever is at the path. The socket
path names the leader that bound it. `Die` is the end of a process: listener and locks go, files
stay. `Evict`, `EvictWait` and `LeaveOutdated` are `evict_leader` and `request_leader_vacate`: ask by
`RelaunchForUpdate`, or signal the pid in the lock file. A timeout that fires although the awaited
process would get there is a fault, like a kill; a timeout on something that will never happen is
not. Process ids are not reused. `no_exit_on_disconnect` is assumed, so a leader does not stop when
its last client leaves (`Shutdown` stands for every other reason). The number of lock files is bounded
by `MaxInodes`; past it `open` fails, an error the code handles.

### How `SessionLoad` corresponds to the code

Five parties: the session actor stamps events (`SendUpdate`, `SendXai`), persists them and sends them
live (`EmitBuffered`, `EmitLive`); the persistence actor merges and writes (`PersistUpdate`,
`PersistFlush`); the agent runs `load_session` (`CloseGate`, flush, `ReplayUpdates`, flush,
`ReplayDelta`, `OpenGate`, `Respond`); the leader subscribes, holds back, unicasts and broadcasts
(`Request`, `Deliver`, `Answered`, `Disconnect`); a client applies what it is sent (`Receive`, the
rule of the pager's highwater mark). The session's select is biased and takes an event before a
command, so `FlushComplete` needs an empty `eventQ`. The buffer in which the session coalesces chunks
is folded into `eventQ`. Both channels out of the agent are FIFO with one reader, so delivery and
application are one step. When a load is answered, the leader's loop over the client's live buffer is
`Released`, a recursive function over the buffer, and its test against the cutoff is `Kept`. The session is resident and each client loads once; a client that
reconnects is another client. An event that is emitted after the second flush and before the gate
opens is lost for the loading client; a load that fails leaves the gate closed. `LoadComplete` and
`GateReopens` say what remains true.

## 4. Runs

Passing runs, with the number of distinct states:

| Run | Instance | Checks | States |
| --- | --- | --- | --- |
| `queue` | two prompts of two clients, one edit, one cancel | types, `FrontIsRunning`, `SpawnedOnce`, `Accounted`, `TerminalOnce`, `RunsLatestText`, `AnsweredByOwnTurn`, `ImplementsService` | 0.4 M |
| `steer` | one prompt, one interjection, a plan resumption, one cancel | `FrontIsRunning`, `PinAgreement`, `Accounted`, `NothingStranded`, `LiveTurns`, `TerminalOnce`, `OneAnswer`, `NoSurpriseCancel` | 1.4 M |
| `wake` | one prompt, a task's wake, a scheduled prompt, a goal's continuation | `SpawnedOnce`, `LiveTurns` | 1.4 M |
| `stack` | two prompts, one interjection, a goal | `FrontIsRunning`, `SendNowFifo` | 2.7 M |
| `answered` | one prompt, one interjection, one cancel, with fairness | `EveryPromptAnswered` | 0.1 M |
| `notes` | a monitor, two events, one cancel, with fairness | `NotificationsDrained` | 0.3 M |
| `breaker` | two threads, one probe slot, a window of two samples, stalls of one tick, with fairness | types, `WindowCount`, `SampleOrder`, `EvictionLag`, `Recovers` | 0.4 M |
| `election` | two clients, two leaders (one outdated), two lock files, one fault, with fairness | types, `PidHolds`, `ServingLocked`, `OneLeaderPerFile`, `LetsGo` | 0.55 M |
| `load` | one attached and one loading client, two events, a live buffer of one, two timeouts, two faults, with fairness | types, `RoutesLive`, `LoadComplete`, `StreamOrder`, `OneShotsReach`, `ModalAgreement`, `LoadAnswered`, `GateReopens` | 0.4 M |

*Bounds of the session runs.* `MaxVersion`, `MaxCancels`, `MaxInjects` bound edits, cancels and events; sets of ids
bound prompts, since an id is submitted once. One client's cancel (a send-now may
add others) suffices for the races the code guards against: each involves one cancelled turn, its late effects, and the turn after it. Two
prompts (or a prompt and a wake, a fallback, a resumption) give a queue with a running front
and an item behind it, so that every insertion, pop and sweep can go wrong. `NotificationCap` is 1,
so that the second notification meets the cap. The MCP release is a promoter
that can strike at any await; in `steer` and `wake` (`McpPending = FALSE`) it struck the idle session
before the first command, which leaves the plan resumption as the concurrent promoter of `steer`. No symmetry is used: the clients' prompts differ by
owner. Deadlock is not checked, as an idle session waits for commands.

*Bounds of the others.* `breaker`: one slot and two threads make every contended path happen (the
loser of each `compare_exchange`, the full counter, the takeover of a lease); two entries make the
window meet its cap; `WindowDuration` 0 lets samples expire at once; four values of a `usize` let the
counter wrap. Its deadlock check is on: threads can always call. `election`: two of each are enough
for the handoff to be intercepted, for a file to be removed and created again and for an eviction;
leader 2 is outdated and relaunchable, and the same instance with `Relaunchable = {}`, in which it is
signalled instead, passes too. `load`: one event before and one during the load, a buffer that
overflows at the second message, a timeout for each flush. Two loads that overlap
(`Residents = {}`, 2.3 M states) pass as well.

*Fairness of the session* (`FairSpec`). The run loop finishes what it has begun (`WF` of `LoopStep`): its
awaits are on the session's own mutex, channels and actors. Every turn ends (`SF` of
`TurnProgress`): sampling is bounded by retries and turn limits and a wait ends or is
interrupted; strong, because a turn may enter waits again and again in between. Guards and aborted
futures are dropped (`WF`), and a queued plan resumption goes on (`WF`): the `LocalSet` polls
every woken task. No command is ever assumed to be sent.

*Fairness of the others.* `breaker`: the clock runs, a call once begun ends and callers keep calling
(`WF`), and not every request of a thread is cancelled or failing (`SF` of a successful `Finish`): a
breaker nobody calls never closes. `election`: processes run and timers fire (`WF` of `LeaderStep` and
`ClientStep`); nobody has to call, and no fault has to happen. `load`: the agent's tasks, their timers
included, and the gateway run (`WF`); nothing is assumed of the session's thread, the disk or the
clients, so `LoadAnswered` rests on the flush timeouts alone.

*Exceptions, where a property says less than a comment.* `NotificationsDrained` excludes a session
in which a turn was rewound: that cancel leaves the session unsuppressed and idle with
notifications that wait for the next event or turn. `SendNowFifo` is about clients' prompts, and
about the send-now prompts that no reorder has displaced: an interjection fallback is inserted
ahead of earlier send-now prompts, and a reorder puts rows behind items that have none, where the
scan of the next insertion does not look. No property bounds `pending_notifications`: sweeping the
buffer into it applies no cap.

### Disagreements between comments and code

Each of these runs checks one sentence of a comment and TLC refutes it:

| Run | Property | What TLC shows |
| --- | --- | --- |
| `x_rewind` | `RewindOwnPrompt` | a rewind before the turn is counted cuts the previous prompt |
| `x_election` | `ServingReachable` | a spawner lets go of the lock before its leader has it; a client in the gap removes the live leader's socket and spawns another |
| `x_load` | `NoBlackout` | the gate is the session's, not the client's: while one client loads, updates are kept from a client that is attached |

The modules state some more sentences of comments that the code does not keep. Put into the
configuration named here, each is refuted:

| Property | Configuration | What TLC shows |
| --- | --- | --- |
| `WakeReportable` | `wake` | a preempted or cancelled wake stays marked as reported, so its completion is never shown |
| `PinNamesRunning` | `queue` | a cancel clears the pin of a turn promoted meanwhile |
| `PauseStops` | `stack` | `/goal pause` pauses only in a build with debug assertions |
| `GateClosedWhenIdle` | `stack`, with one cancel | a goal round reopens the gate before the abort |
| `SingleLeader` | `election` | two leaders serve once the lock file has been removed and created again |
| `DropsOnlyReplayed` | `load` | the leader's cutoff is one number for two streams: a replayed one-shot takes along a buffered update that was not replayed |

Each property of a passing run has a mutant in `PROJECT.json`: a plausible bug, defined beside the
operator it would replace (for example `FrontSlotUnguarded`), under which TLC finds the property violated.

## 5. Proofs

### The session

`SessionActorProofs` proves, for any sets of prompts, tasks, plans, clients and any bounds:

- `TypeCorrect == Spec => []TypeOK`. `TypeOK` contains `depth \in Nat`, which is the statement that
  `blocking_wait_depth` never wraps although a cancel zeroes it while guards are alive.
- `FrontCorrect == Spec => []FrontIsRunning`: until shutdown, the running turn is the head of the
  queue. This is what lets `handle_completion` and `cancel_running_task` pop the front.

The inductive invariant is `TypeOK /\ CurKnown /\ FrontIsRunning`. `CurKnown` says that the loop's
local `cur` is a prompt while an `Enqueue` or a completion is pending: without it the inserted
element and the prompt whose terminal is counted are unknown. One step per action: most leave the
queue and the slot alone; the others rest on lemmas about the queue operations:
`KeepHead` (retain keeps the head if it is kept), `InsertSeqHead` (an insertion behind the head
keeps it), `SweepFront`, `InsertBehindFront` (the slot computed by `FrontSlot` or `NowSlot` lies
behind a running front).

`SessionOnceProofs` builds on it, for the same generality:

- `SpawnedOnceCorrect == Spec => []SpawnedOnce` and `LiveTurnsCorrect == Spec => []LiveTurns`: one
  turn for a prompt, and one turn at a time besides the one a cancel is about to abort.
- `AccountedCorrect == Spec => []Accounted`: until shutdown, what a client has sent is in exactly one
  place or answered.
- `OneAnswerCorrect == Spec => OneAnswer`, `OwnTurnCorrect == Spec => AnsweredByOwnTurn`: answers are
  final, and the result of a turn goes to the prompt of that turn.

None of these is inductive. `SpawnedOnce` needs to know that what enters the queue was never there, so
`OnceInv` says of every place (queue, interjections, the loop's hand, the prompts a cancel has set
aside) that its prompts are open and in no other place, and of prompts not sent that they have
neither turn nor answer. `TurnInv` joins `LiveTurns` with `EndedOnce`: a completion, in the channel or in
hand, is that of an ended turn; with `FrontIsRunning` this is why the front that `CompleteLock` pops is
the right one, and with `SpawnedOnce` why no new turn starts under an old completion. `PlaceInv` adds
that no prompt is in no place. Most actions fall under a lemma about a kind of step: one that moves no
prompt (`OnceKept`), that only takes prompts out (`OnceLess`), that queues a new one (`OnceMore`), that
moves one into the queue (`OncePlaced`), that promotes (`OncePromote`, `TurnPromote`).

`SessionTurnProofs` proves what surrounds a turn, from `AroundInv` on top of the invariants above
(`SessionInv`). Each part of `AroundInv` is an induction of its own:

- `LatestTextCorrect == Spec => []RunsLatestText`, from `TextInv`: a row is edited only before it has a
  turn, so from then on the version that ran is the version of the row.
- `PinAgreementCorrect == Spec => []PinAgreement`, from `PinInv`: the pin names the running turn, except
  from the moment a cancel has emptied the slot until it has cleared the pin; what a cancel read of the
  pin before its lock is still true when it has the lock; nobody pins an ended turn while its completion
  waits for the lock.
- `TerminalOnceCorrect == Spec => []TerminalOnce`, from `TermInv`: a prompt that is neither
  answered by its turn nor cancelled has no terminal, and one that is and had a turn has one, unless the
  loop is about to publish it (`Owed`); of the prompts a cancel has set aside, the one with a turn is its
  victim.
- `NothingStrandedCorrect == Spec => []NothingStranded`, from `StrandInv`: while the loop is not
  on its way to a promotion, queued prompts are `Promised` one by a running turn or a queued resumption;
  interjections have a running turn, except between its end and the flush, and a cancel has discarded
  them before its lock.
- `NoSurpriseCancelCorrect == Spec => NoSurpriseCancel`, from `WaitInv`: a positive `blocking_wait_depth` is
  the one wait of the running, live turn, except while a cancel closes the gate and aborts.
- `SendNowFifoCorrect == Spec => SendNowFifo`: the scan of an insertion ends behind the send-now prompts
  that no reorder has displaced (`BehindStacked`), what is in front of the insertion stays
  (`InsertBehind`), and a sweep keeps the order of what it leaves (`KeepPrefix`).

`SlotStep` says once which actions change the slot: only `Start`, `McpRelease` and `PlanStart` promote.

`SessionServiceProofs` proves `ServiceCorrect == Spec => ImplementsService`: the session implements
`PromptService`. The mapping gives each prompt the stage it is in (`Stage`). Initial states map to initial
states. A step leaves every stage as it is (`ServiceUnseen`), or moves exactly one set of prompts, and
is then a `Submit`, `Run`, `Cancel` or `Answer` of the service (`ServiceSubmit`, `ServiceRun`,
`ServiceCancel`, `ServiceAnswer`). `SessionInv` supplies the guards: what is promoted is waiting, what is
popped by a completion has run.

`QueueOpsProofs` shows what `Keep` returns. Induction over data being out of reach, it uses the
least-element principle: the rank of a kept position is its number among the kept ones
(`RankStrict`, `RankStep`, `RankUnique`), every rank up to their count is taken (`RankTaken`,
by the least position with a rank at least as large), hence `KeepByRank`, `KeepElems`,
`KeepNoRepeats`.

### The circuit breaker

`CircuitBreakerProofs`, for any number of threads and any configuration:

- `TypeCorrect`: the types, and with them the bound of the window, `MAX_WINDOW_ENTRIES`.
- `CountCorrect == Spec => []WindowCount`: the incremental count of failing samples is exact.
- `OrderCorrect == Spec => []SampleOrder` and `EvictionCorrect == Spec => EvictionLag`: samples are
  out of order by at most a stall, and therefore `evict`, which stops at the first young sample, leaves
  none that is older than the window by more than that.

The invariant is `FieldType /\ WindowInv`: every clock value a thread holds is at most `MaxStall` old,
used or not, and the window is `Good` (typed, counted, ordered) and within its cap. The window
operations are proved on values, apart from any step: `PoppedGood` (popping k entries takes the
failing ones among them off the count; the rest are mapped by a shift, a bijection), `AppendGood`,
`PushGood`, `EvictStops` (the `CHOOSE` of `EvictCount` has a value: the least stopping point),
`EvictGood`.

### The election

`LeaderElectionProofs`, for any number of clients, leaders, lock files and faults, and any sets of
outdated and relaunchable leaders: `TypeCorrect`, `PidCorrect` (`PidHolds`), `ServingCorrect`
(`ServingLocked`) and `OneLeaderCorrect` (`OneLeaderPerFile`). None of these is inductive: they follow
from what each label says about its process (`LeaderAt`, `ClientAt`): whether it has a file open,
whether it holds that file's lock, whether its pid is in it, and that a leader that has not written its
pid is named by no file. `LockInv` joins these with "who holds a lock has that file open". The steps
fall into seven kinds, one lemma each (`Goes`, `Opens`, `Takes`, `Closes`, `Writes`, `Moves`, and
`RestStep` for what the locks do not depend on), and every action is one of them.

### Loading a session

`SessionLoadProofs`, for any number of clients and events and any bounds of the buffers, the timeouts
and the faults:

- `RoutesCorrect == Spec => []RoutesLive`, from the types of the routing tables, with one lemma for
  each step that changes them.
- `TypeCorrect == Spec => []TypeOK`. It needs `PhaseInv`: a replay is on the wire only while its load is
  unanswered, so no cutoff is entered after its load was removed.
- `ModalAgreementCorrect == Spec => []ModalAgreement`, from `FreshInv` (a client that has not
  connected shows nothing), `AskInv` (request and resolution of the interaction are on the wire at most
  once and in this order, and the leader has the request cached between the two) and `ModalInv` (an
  attached client shows the interaction iff it is cached; a loading one does not show it, and if it is
  over, its live buffer says so too).
- `OneShotsReachCorrect == Spec => []OneShotsReach`, from `StampInv` (events are stamped and emitted
  in the order of their stream), `WireInv` (live messages are in this order on the wire and in every
  buffer) and `SeenInv` (a client's highwater mark is below whatever is still to come).
- `LoadCompleteCorrect == Spec => []LoadComplete`, from `FlushInv` (the token of a load's second flush
  is in at most one place, and there only while the load waits for it or has given up) and `CompleteInv`: what the load owes its client is ahead of that token in the
  persistence queue, then in the file, then replayed or on the wire to it.
- `StreamOrderCorrect == Spec => []StreamOrder`, from `DiskInv` (the persistence queue, the pending
  merge and the file are each in stream order, one after the other), `ReplayInv` (replays on the wire are in order
  and before the live messages after them; the first replay comes from the file up to the offset)
  and `OrderInv`: what a client shows is past, sorted, and before what is live on the wire; a client that
  loads shows at first nothing, then part of the file up to the cutoff, and before what is still to be
  replayed. This is the property in which the leader's deduplication and the client's highwater mark
  have to agree.

`Released` is a loop, and what it computes is not open to the prover's induction. `Rounds` takes the
screens after each round of it (`RoundsExist`, by the least round that would have none), and
`ReleasedInv` turns an invariant of one round into one of the whole loop, again by the least round that
would break it.

### Assumptions and limits

`IdsAssumption` (the kinds of ids are disjoint), `BoundsAssumption`, `BreakerAssumption`,
`ElectionAssumption` and `LoadAssumption` (the bounds are naturals; processes, leaders and "nobody"
are told apart; ages saturate late enough), evaluated by TLC in every run.

Only model-checked: liveness, which is outside what the prover does. That is `EveryPromptAnswered` and
`NotificationsDrained` of the session, `Recovers` of the breaker, `LetsGo` of the election,
`LoadAnswered` and `GateReopens` of the load.

## 6. Not modelled

- The session: `SessionCommand::Rewind`; compaction and the chat-state actor beyond the prompt index;
  subagents' usage accounting; plan mode beyond a resumption's turn; what tools and the sampler do.
- The leader: the relay to a remote leader, child sessions, control commands, the exit after the
  last disconnect and the eviction of idle sessions.
- Loading: sessions that are not resident, cursors and `noReplay`, the chat history beside
  `updates.jsonl`, and recovery of a file cut off by a crash.
- The rest of the repository, by far its largest part, is I/O, rendering, text processing,
  configuration and calls to external services: it has little shared state to interleave. Every such
  component is listed as `not_modelled` in `PROJECT.json`, with its reason.
