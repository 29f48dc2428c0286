--------------------------- MODULE CircuitBreaker ---------------------------
(***************************************************************************)
(* The circuit breaker of crates/common/xai-circuit-breaker: one shared    *)
(* CircuitBreakerInner and the threads that call check() before a request  *)
(* and record() after it.  There is no lock around the breaker's state:    *)
(* each field is an atomic of its own, so every load, store, fetch_add,    *)
(* fetch_sub and compare_exchange is a step here.  Only the sliding window *)
(* has a mutex, and what happens under it is one step.                     *)
(*                                                                         *)
(* All stores are Release and all loads Acquire, so a thread that sees a   *)
(* store sees those before it: interleaving the operations loses nothing.  *)
(*                                                                         *)
(* Time.  A stored instant is represented by its age, the clock ticks      *)
(* since; ages saturate at AgeCap, past which nothing tells them apart.    *)
(* MaxStall bounds how many ticks a thread may sleep between reading the   *)
(* clock and using what it read.                                           *)
(***************************************************************************)
EXTENDS Naturals, Sequences, FiniteSets

CONSTANTS
    Threads,            \* callers sharing the breaker
    OpenDuration,       \* config.open_duration, in ticks: cool-down and lease
    WindowDuration,     \* config.window_duration, in ticks
    MinSamples,         \* config.min_samples
    RateNum, RateDen,   \* config.error_rate_threshold = RateNum / RateDen
    HalfOpenMaxProbes,  \* config.half_open_max_probes, after max(1)
    MaxWindowEntries,   \* MAX_WINDOW_ENTRIES
    UsizeRange,         \* number of values of a usize
    MaxStall,           \* bound: ticks between a clock read and its use
    AgeCap              \* bound: ages saturate here

ASSUME BreakerAssumption ==
    /\ {OpenDuration, WindowDuration, MaxStall} \subseteq Nat
    /\ {MinSamples, RateNum, RateDen, HalfOpenMaxProbes, MaxWindowEntries}
           \subseteq Nat \ {0}
    /\ UsizeRange \in Nat /\ UsizeRange > HalfOpenMaxProbes
    /\ AgeCap \in Nat
    /\ AgeCap >= OpenDuration + MaxStall
    /\ AgeCap > 2 * MaxStall

VARIABLES
    state,      \* "Closed", "Open" or "HalfOpen"
    openedAt,   \* age of opened_at_millis
    probes,     \* half_open_probes, a usize
    claimedAt,  \* age of probe_claimed_at_millis
    openFast,   \* is_open_fast
    window,     \* entries of the SlidingWindow: [at: age, failure: BOOLEAN]
    failures,   \* its incremental count of failing entries
    pc,         \* the next operation of each thread
    now,        \* age of the clock value a thread holds
    seen,       \* age of the instant a thread has loaded (opened, claimed)
    failed      \* the outcome a thread is recording is a failure

shared == <<state, openedAt, probes, claimedAt, openFast>>
samples == <<window, failures>>
locals == <<now, seen, failed>>
vars == <<state, openedAt, probes, claimedAt, openFast, window, failures,
          pc, now, seen, failed>>

Ages == 0 .. AgeCap
\* Past SampleCap a sample is expired for every thread.
SampleCap == WindowDuration + MaxStall + 1
Sample == [at : 0 .. SampleCap, failure : BOOLEAN]

Labels == {"idle", "check_open", "open_cas", "mirror", "lost", "probe",
           "add", "claim", "sub", "load", "take", "flight", "record", "push",
           "note", "trip", "stamp", "zero", "shut", "close", "clear",
           "release", "unshut"}

\* Labels at which a thread holds a clock value it has yet to use.
Timed == {"add", "claim", "sub", "load", "take", "record", "push", "note",
          "stamp"}

-----------------------------------------------------------------------------
(* The sliding window                                                      *)

FailingIn(w) == {i \in DOMAIN w : w[i].failure}

\* What the incremental counter becomes when the first k entries are popped.
PoppedFailures(w, k) == Cardinality({i \in FailingIn(w) : i =< k})

Popped(win, k) ==
    [entries  |-> SubSeq(win.entries, k + 1, Len(win.entries)),
     failures |-> win.failures - PoppedFailures(win.entries, k)]

Counted(isFailure) == IF isFailure THEN 1 ELSE 0

\* Mutants of PushSample: no cap; a pop that forgets the counter; push_front.
PushSampleUncapped(win, isFailure, at) ==
    [entries  |-> Append(win.entries, [at |-> at, failure |-> isFailure]),
     failures |-> win.failures + Counted(isFailure)]

PushSampleUncounted(win, isFailure, at) ==
    LET room == IF Len(win.entries) >= MaxWindowEntries
                THEN Tail(win.entries) ELSE win.entries
    IN  [entries  |-> Append(room, [at |-> at, failure |-> isFailure]),
         failures |-> win.failures + Counted(isFailure)]

PushSampleFront(win, isFailure, at) ==
    LET room == IF Len(win.entries) >= MaxWindowEntries
                THEN Popped(win, 1) ELSE win
    IN  [entries  |-> <<[at |-> at, failure |-> isFailure]>> \o room.entries,
         failures |-> room.failures + Counted(isFailure)]

\* SlidingWindow::push: at the cap the oldest entry makes room.
PushSample(win, isFailure, at) ==
    LET room == IF Len(win.entries) >= MaxWindowEntries
                THEN Popped(win, 1) ELSE win
    IN  [entries  |-> Append(room.entries, [at |-> at, failure |-> isFailure]),
         failures |-> room.failures + Counted(isFailure)]

\* SlidingWindow::evict pops from the front while the front is older than the
\* cutoff, and stops at the first that is not, whatever is behind it.
Expired(sample, at) == sample.at > WindowDuration + at

\* Mutant: `if let` for `while let`.
EvictCountOne(w, at) == IF w # <<>> /\ Expired(w[1], at) THEN 1 ELSE 0

EvictCount(w, at) ==
    CHOOSE k \in 0 .. Len(w) :
        /\ \A i \in 1 .. k : Expired(w[i], at)
        /\ k < Len(w) => ~Expired(w[k + 1], at)

EvictSamples(win, at) == Popped(win, EvictCount(win.entries, at))

\* sample_count() >= min_samples && error_rate() >= error_rate_threshold
ShouldTrip(win) ==
    /\ Len(win.entries) >= MinSamples
    /\ win.entries # <<>>
    /\ win.failures * RateDen >= RateNum * Len(win.entries)

Window == [entries |-> window, failures |-> failures]
SetWindow(win) == window' = win.entries /\ failures' = win.failures

-----------------------------------------------------------------------------
Init ==
    /\ state = "Closed"
    /\ openedAt = 0
    /\ probes = 0
    /\ claimedAt = 0
    /\ openFast = FALSE
    /\ window = <<>>
    /\ failures = 0
    /\ pc = [t \in Threads |-> "idle"]
    /\ now = [t \in Threads |-> 0]
    /\ seen = [t \in Threads |-> 0]
    /\ failed = [t \in Threads |-> FALSE]

Goto(t, label) == pc' = [pc EXCEPT ![t] = label]

\* Reading the clock, and giving up the value read.
ReadClock(t) == now' = [now EXCEPT ![t] = 0]

\* The caller of check() is let through, or turned away.
Admit(t) == Goto(t, "flight")
Reject(t) == Goto(t, "idle")

-----------------------------------------------------------------------------
(* check()                                                                 *)

\* The match on state() in check().
Check(t) ==
    /\ pc[t] = "idle"
    /\ \/ state = "Closed" /\ Admit(t)
       \/ state = "Open" /\ Goto(t, "check_open")
       \/ state = "HalfOpen" /\ Goto(t, "probe")
    /\ UNCHANGED <<shared, samples, locals>>

\* check_open: the load of opened_at_millis.
LoadOpened(t) ==
    /\ pc[t] = "check_open"
    /\ seen' = [seen EXCEPT ![t] = openedAt]
    /\ Goto(t, "open_cas")
    /\ UNCHANGED <<shared, samples, now, failed>>

\* check_open: the cool-down is compared with the clock, and if it is over one
\* caller's compare_exchange publishes HalfOpen.
OpenElapsed(t) ==
    /\ pc[t] = "open_cas"
    /\ \/ seen[t] < OpenDuration /\ Reject(t) /\ UNCHANGED state
       \/ /\ seen[t] >= OpenDuration
          /\ state = "Open"
          /\ state' = "HalfOpen"
          /\ Goto(t, "mirror")
       \/ /\ seen[t] >= OpenDuration
          /\ state # "Open"
          /\ Goto(t, "lost")
          /\ UNCHANGED state
    /\ seen' = [seen EXCEPT ![t] = 0]
    /\ UNCHANGED <<openedAt, probes, claimedAt, openFast, samples, now, failed>>

\* The winner clears the mirror and goes on to claim a probe like any other.
ClearMirror(t) ==
    /\ pc[t] = "mirror"
    /\ openFast' = FALSE
    /\ Goto(t, "probe")
    /\ UNCHANGED <<state, openedAt, probes, claimedAt, samples, locals>>

\* The loser of the compare_exchange looks at the state again.
LostRace(t) ==
    /\ pc[t] = "lost"
    /\ \/ state = "Closed" /\ Admit(t)
       \/ state = "HalfOpen" /\ Goto(t, "probe")
       \/ state = "Open" /\ Reject(t)
    /\ UNCHANGED <<shared, samples, locals>>

-----------------------------------------------------------------------------
(* try_half_open_probe()                                                   *)

ProbeClock(t) ==
    /\ pc[t] = "probe"
    /\ ReadClock(t)
    /\ Goto(t, "add")
    /\ UNCHANGED <<shared, samples, seen, failed>>

\* half_open_probes.fetch_add(1)
ProbeAdd(t) ==
    /\ pc[t] = "add"
    /\ probes' = (probes + 1) % UsizeRange
    /\ Goto(t, IF probes < HalfOpenMaxProbes THEN "claim" ELSE "sub")
    /\ UNCHANGED <<state, openedAt, claimedAt, openFast, samples, locals>>

\* A slot was free: its claim is stamped with the clock read earlier.
ProbeClaim(t) ==
    /\ pc[t] = "claim"
    /\ claimedAt' = now[t]
    /\ Admit(t)
    /\ ReadClock(t)
    /\ UNCHANGED <<state, openedAt, probes, openFast, samples, seen, failed>>

\* half_open_probes.fetch_sub(1), which wraps below zero.
ProbeSub(t) ==
    /\ pc[t] = "sub"
    /\ probes' = (probes + UsizeRange - 1) % UsizeRange
    /\ Goto(t, "load")
    /\ UNCHANGED <<state, openedAt, claimedAt, openFast, samples, locals>>

LeaseExpired(t) == claimedAt >= OpenDuration + now[t]

\* Mutant: a claim is released by record() only.
ProbeLeaseForever(t) ==
    /\ pc[t] = "load"
    /\ Reject(t)
    /\ ReadClock(t)
    /\ UNCHANGED <<shared, samples, seen, failed>>

\* The load of probe_claimed_at_millis: a live lease turns the caller away.
ProbeLease(t) ==
    /\ pc[t] = "load"
    /\ \/ /\ LeaseExpired(t)
          /\ seen' = [seen EXCEPT ![t] = claimedAt]
          /\ Goto(t, "take")
          /\ UNCHANGED now
       \/ /\ ~LeaseExpired(t)
          /\ Reject(t)
          /\ ReadClock(t)
          /\ UNCHANGED seen
    /\ UNCHANGED <<shared, samples, failed>>

\* compare_exchange(claimed, now): one caller takes the expired claim over.
ProbeTake(t) ==
    /\ pc[t] = "take"
    /\ \/ /\ claimedAt = seen[t]
          /\ claimedAt' = now[t]
          /\ Admit(t)
       \/ claimedAt # seen[t] /\ Reject(t) /\ UNCHANGED claimedAt
    /\ ReadClock(t)
    /\ seen' = [seen EXCEPT ![t] = 0]
    /\ UNCHANGED <<state, openedAt, probes, openFast, samples, failed>>

-----------------------------------------------------------------------------
(* record()                                                                *)

\* The request ends and record(outcome) reads the clock.
Finish(t, isFailure) ==
    /\ pc[t] = "flight"
    /\ failed' = [failed EXCEPT ![t] = isFailure]
    /\ ReadClock(t)
    /\ Goto(t, "record")
    /\ UNCHANGED <<shared, samples, seen>>

\* The caller's future is dropped, or the response is one it does not record.
Abandon(t) ==
    /\ pc[t] = "flight"
    /\ Goto(t, "idle")
    /\ UNCHANGED <<shared, samples, locals>>

\* The match on state() in record().
RecordState(t) ==
    /\ pc[t] = "record"
    /\ Goto(t, CASE state = "Closed" -> "push"
                 [] state = "Open" -> "note"
                 [] OTHER -> IF failed[t] THEN "trip" ELSE "close")
    /\ IF state = "HalfOpen"
       THEN ReadClock(t) /\ failed' = [failed EXCEPT ![t] = FALSE]
       ELSE UNCHANGED <<now, failed>>
    /\ UNCHANGED <<shared, samples, seen>>

\* The window is updated under its mutex; seen Closed, it decides on a trip.
RecordSample(t) ==
    /\ pc[t] \in {"push", "note"}
    /\ LET win == EvictSamples(PushSample(Window, failed[t], now[t]), now[t])
       IN  /\ SetWindow(win)
           /\ Goto(t, IF pc[t] = "push" /\ ShouldTrip(win)
                      THEN "trip" ELSE "idle")
    /\ failed' = [failed EXCEPT ![t] = FALSE]
    /\ ReadClock(t)
    /\ UNCHANGED <<shared, seen>>

\* trip(): four stores, the state first.
TripState(t) ==
    /\ pc[t] = "trip"
    /\ state' = "Open"
    /\ Goto(t, "stamp")
    /\ UNCHANGED <<openedAt, probes, claimedAt, openFast, samples, locals>>

\* The clock is read at some moment since the store of the state.
TripStamp(t) ==
    /\ pc[t] = "stamp"
    /\ openedAt' \in 0 .. now[t]
    /\ ReadClock(t)
    /\ Goto(t, "zero")
    /\ UNCHANGED <<state, probes, claimedAt, openFast, samples, seen, failed>>

TripZero(t) ==
    /\ pc[t] = "zero"
    /\ probes' = 0
    /\ Goto(t, "shut")
    /\ UNCHANGED <<state, openedAt, claimedAt, openFast, samples, locals>>

TripMirror(t) ==
    /\ pc[t] = "shut"
    /\ openFast' = TRUE
    /\ Goto(t, "idle")
    /\ UNCHANGED <<state, openedAt, probes, claimedAt, samples, locals>>

\* close(): the state, the window, the counter, the mirror.
CloseState(t) ==
    /\ pc[t] = "close"
    /\ state' = "Closed"
    /\ Goto(t, "clear")
    /\ UNCHANGED <<openedAt, probes, claimedAt, openFast, samples, locals>>

CloseClear(t) ==
    /\ pc[t] = "clear"
    /\ SetWindow([entries |-> <<>>, failures |-> 0])
    /\ Goto(t, "release")
    /\ UNCHANGED <<shared, locals>>

CloseZero(t) ==
    /\ pc[t] = "release"
    /\ probes' = 0
    /\ Goto(t, "unshut")
    /\ UNCHANGED <<state, openedAt, claimedAt, openFast, samples, locals>>

CloseMirror(t) ==
    /\ pc[t] = "unshut"
    /\ openFast' = FALSE
    /\ Goto(t, "idle")
    /\ UNCHANGED <<state, openedAt, probes, claimedAt, samples, locals>>

\* error_rate(): a reader evicts too, with a clock value read at ticks ago.
ErrorRate(at) ==
    /\ window # <<>>
    /\ SetWindow(EvictSamples(Window, at))
    /\ UNCHANGED <<shared, pc, locals>>

-----------------------------------------------------------------------------
Older(a, cap) == IF a < cap THEN a + 1 ELSE a

\* One tick of the clock ages every instant there is.
Tick ==
    /\ \A t \in Threads : pc[t] \in Timed => now[t] < MaxStall
    /\ openedAt' = Older(openedAt, OpenDuration)
    /\ claimedAt' = Older(claimedAt, AgeCap)
    /\ window' = [i \in DOMAIN window |->
                     [window[i] EXCEPT !.at = Older(@, SampleCap)]]
    /\ now' = [t \in Threads |->
                  IF pc[t] \in Timed THEN now[t] + 1 ELSE now[t]]
    /\ seen' = [t \in Threads |->
                   CASE pc[t] = "open_cas" -> Older(seen[t], OpenDuration)
                     [] pc[t] = "take" -> Older(seen[t], AgeCap)
                     [] OTHER -> seen[t]]
    /\ UNCHANGED <<state, probes, openFast, failures, pc, failed>>

\* A step of check() or record() that the thread has begun.
Step(t) ==
    \/ LoadOpened(t) \/ OpenElapsed(t) \/ ClearMirror(t) \/ LostRace(t)
    \/ ProbeClock(t) \/ ProbeAdd(t) \/ ProbeClaim(t) \/ ProbeSub(t)
    \/ ProbeLease(t) \/ ProbeTake(t)
    \/ RecordState(t) \/ RecordSample(t)
    \/ TripState(t) \/ TripStamp(t) \/ TripZero(t) \/ TripMirror(t)
    \/ CloseState(t) \/ CloseClear(t) \/ CloseZero(t) \/ CloseMirror(t)

Next ==
    \/ \E t \in Threads :
          \/ Check(t)
          \/ Step(t)
          \/ \E isFailure \in BOOLEAN : Finish(t, isFailure)
          \/ Abandon(t)
    \/ \E at \in 0 .. MaxStall : ErrorRate(at)
    \/ Tick

\* The clock runs, started calls run to their end, there is traffic, and the
\* requests of a thread are neither all cancelled nor all failing.
Fairness ==
    /\ WF_vars(Tick)
    /\ \A t \in Threads :
          /\ WF_vars(Step(t))
          /\ WF_vars(Check(t))
          /\ SF_vars(Finish(t, FALSE))

Spec == Init /\ [][Next]_vars /\ Fairness
-----------------------------------------------------------------------------
(* Properties                                                              *)

\* The fields keep their types through every race of check() and record(): in
\* particular the window never outgrows MAX_WINDOW_ENTRIES, and no thread acts on a
\* clock value older than MaxStall.
TypeOK ==
    /\ state \in {"Closed", "Open", "HalfOpen"}
    /\ openedAt \in Ages /\ claimedAt \in Ages
    /\ probes \in 0 .. UsizeRange - 1
    /\ openFast \in BOOLEAN
    /\ window \in Seq(Sample) /\ Len(window) =< MaxWindowEntries
    /\ failures \in Nat
    /\ pc \in [Threads -> Labels]
    /\ now \in [Threads -> Ages]
    /\ seen \in [Threads -> Ages]
    /\ failed \in [Threads -> BOOLEAN]
    /\ \A t \in Threads : pc[t] \in Timed => now[t] =< MaxStall

\* `failures`, maintained by push, evict and clear so that error_rate() need not
\* scan, is the number of failing entries, whatever order the threads record in.
WindowCount == failures = Cardinality(FailingIn(window))

\* record() reads the clock before it takes the window's mutex, so samples can be
\* pushed out of order, but never by more than a thread stalls in between.  evict()
\* relies on it: it stops at the first sample that is young enough.
SampleOrder ==
    \A i, j \in DOMAIN window : i < j => window[j].at =< window[i].at + MaxStall

\* No sample in w is older than the window was at a clock value read at ticks ago,
\* but for the disorder of SampleOrder.
NoneOlder(w, at) ==
    \A i \in DOMAIN w : w[i].at =< WindowDuration + at + MaxStall

\* After an eviction, by record() or error_rate(), no sample that is left is older
\* than window_duration by more than the stalls explain, although evict() looks only
\* at the front: the rate that trips the breaker is one of recent samples.
EvictionLag ==
    [][ /\ \A t \in Threads : RecordSample(t) => NoneOlder(window', now[t])
        /\ \A at \in 0 .. MaxStall : ErrorRate(at) => NoneOlder(window', at) ]_vars

\* From some point on no request fails.
Healthy == <>[][\A t \in Threads : ~Finish(t, TRUE)]_vars
\* Once the upstream is healthy the breaker closes for good: whatever the races of
\* trip(), close() and the probes left behind (an abandoned claim, a counter that
\* wrapped, a stale time stamp), the lease of try_half_open_probe gets it out of
\* HalfOpen, and the samples of the outage cannot trip it for ever.
Recovers == Healthy => <>[](state = "Closed")
=============================================================================
