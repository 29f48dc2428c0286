------------------------ MODULE CircuitBreakerProofs ------------------------
(***************************************************************************)
(* Theorems about CircuitBreaker, for any number of threads and any        *)
(* configuration: what SlidingWindow counts, and how far out of order its  *)
(* samples can be.                                                         *)
(***************************************************************************)
EXTENDS CircuitBreaker, Integers, Functions, FiniteSetTheorems,
        WellFoundedInduction, TLAPS

\* What every operation on the window keeps.
Ordered(w) ==
    \A i, j \in DOMAIN w : i < j => w[j].at =< w[i].at + MaxStall

Good(win) ==
    /\ win.entries \in Seq(Sample)
    /\ win.failures = Cardinality(FailingIn(win.entries))
    /\ Ordered(win.entries)

\* The fields that are not the window.
FieldType ==
    /\ state \in {"Closed", "Open", "HalfOpen"}
    /\ openedAt \in Ages /\ claimedAt \in Ages
    /\ probes \in 0 .. UsizeRange - 1
    /\ openFast \in BOOLEAN
    /\ pc \in [Threads -> Labels]
    /\ now \in [Threads -> 0 .. MaxStall]
    /\ seen \in [Threads -> Ages]
    /\ failed \in [Threads -> BOOLEAN]

WindowInv == Good(Window) /\ Len(window) =< MaxWindowEntries

IInv == FieldType /\ WindowInv

-----------------------------------------------------------------------------
LEMMA Constants ==
    /\ OpenDuration \in Nat /\ WindowDuration \in Nat /\ MaxStall \in Nat
    /\ MaxWindowEntries \in Nat \ {0}
    /\ UsizeRange \in Nat /\ UsizeRange > 0
    /\ AgeCap \in Nat /\ AgeCap >= OpenDuration /\ AgeCap >= MaxStall
    /\ SampleCap \in Nat /\ SampleCap > MaxStall
BY BreakerAssumption DEF SampleCap

\* Every non-empty set of naturals has a least element.
LEMMA LeastOf ==
    ASSUME NEW N, N \subseteq Nat, N # {}
    PROVE  \E i \in N : \A k \in N : i =< k
<1>1. PICK i \in N : \A k \in N : ~(<<k, i>> \in OpToRel(<, Nat))
    BY NatLessThanWellFounded, WFMin
<1>2. ASSUME NEW k \in N PROVE ~(k < i)
    BY <1>1 DEF OpToRel
<1> QED BY <1>2

\* Finitely many entries are failing ones.
LEMMA FailingFinite ==
    ASSUME NEW w \in Seq(Sample)
    PROVE  /\ FailingIn(w) \subseteq 1 .. Len(w)
           /\ IsFiniteSet(FailingIn(w))
           /\ Cardinality(FailingIn(w)) \in Nat
<1>1. FailingIn(w) \subseteq 1 .. Len(w)
    BY DEF FailingIn
<1>2. IsFiniteSet(1 .. Len(w))
    BY FS_Interval
<1>3. IsFiniteSet(FailingIn(w))
    BY <1>1, <1>2, FS_Subset
<1> QED BY <1>1, <1>3, FS_CardinalityType

\* Popping k entries from the front keeps the window good: the counter loses the
\* failing ones among them, the others move up by k.
LEMMA PoppedGood ==
    ASSUME NEW win, Good(win), NEW k \in 0 .. Len(win.entries)
    PROVE  /\ Good(Popped(win, k))
           /\ Len(Popped(win, k).entries) = Len(win.entries) - k
           /\ \A i \in 1 .. Len(win.entries) - k :
                 Popped(win, k).entries[i] = win.entries[i + k]
<1> DEFINE w == win.entries
           v == SubSeq(w, k + 1, Len(w))
           low == {i \in FailingIn(w) : i =< k}
           high == FailingIn(w) \ low
<1>1. w \in Seq(Sample) /\ Len(w) \in Nat
    BY DEF Good
<1>2. /\ v \in Seq(Sample) /\ Len(v) = Len(w) - k
      /\ DOMAIN v = 1 .. Len(w) - k
      /\ \A i \in 1 .. Len(w) - k : v[i] = w[i + k]
    BY <1>1
<1>3. Ordered(v)
    <2> HIDE DEF v
    <2> SUFFICES ASSUME NEW i \in 1 .. Len(w) - k, NEW j \in 1 .. Len(w) - k, i < j
                 PROVE  v[j].at =< v[i].at + MaxStall
        BY <1>2 DEF Ordered
    <2>1. i + k \in DOMAIN w /\ j + k \in DOMAIN w /\ i + k < j + k
        BY <1>1, <1>2
    <2>2. w[j + k].at =< w[i + k].at + MaxStall
        BY <2>1 DEF Good, Ordered
    <2>3. v[i] = w[i + k] /\ v[j] = w[j + k]
        BY <1>2
    <2> QED BY <2>2, <2>3
<1>4. /\ IsFiniteSet(FailingIn(w)) /\ IsFiniteSet(high)
      /\ Cardinality(high) = Cardinality(FailingIn(w)) - Cardinality(low)
    <2>1. IsFiniteSet(FailingIn(w))
        BY <1>1, FailingFinite
    <2>2. FailingIn(w) \intersect low = low
        OBVIOUS
    <2>3. /\ IsFiniteSet(FailingIn(w) \ low)
          /\ Cardinality(FailingIn(w) \ low) =
                Cardinality(FailingIn(w)) - Cardinality(FailingIn(w) \intersect low)
        BY <2>1, FS_Difference
    <2> QED BY <2>1, <2>2, <2>3
<1>5. Cardinality(FailingIn(v)) = Cardinality(high)
    <2> DEFINE back == [i \in high |-> i - k]
    <2>1. \A i \in high : i \in k + 1 .. Len(w) /\ w[i].failure
        BY <1>1, FailingFinite DEF FailingIn
    <2>2. \A i \in high : i - k \in FailingIn(v)
        <3> SUFFICES ASSUME NEW i \in high PROVE i - k \in FailingIn(v)
            OBVIOUS
        <3>1. i - k \in DOMAIN v /\ v[i - k] = w[(i - k) + k] /\ (i - k) + k = i
            BY <1>1, <1>2, <2>1
        <3> HIDE DEF v
        <3> QED BY <1>2, <2>1, <3>1 DEF FailingIn
    <2>3. \A n \in FailingIn(v) : n + k \in high /\ back[n + k] = n
        <3> SUFFICES ASSUME NEW n \in FailingIn(v)
                     PROVE  n + k \in high /\ back[n + k] = n
            OBVIOUS
        <3>1. n \in 1 .. Len(w) - k /\ v[n].failure
            BY <1>2 DEF FailingIn
        <3>2. n + k \in DOMAIN w /\ w[n + k].failure /\ ~(n + k =< k)
            BY <1>1, <1>2, <3>1
        <3>3. n + k \in high
            BY <3>2 DEF FailingIn
        <3> QED BY <3>1, <3>3
    <2>4. back \in Surjection(high, FailingIn(v))
        BY <2>2, <2>3 DEF Surjection
    <2>5. back \in Injection(high, FailingIn(v))
        BY <2>1, <2>2 DEF Injection, IsInjective
    <2>6. ExistsBijection(high, FailingIn(v))
        BY <2>4, <2>5 DEF ExistsBijection, Bijection
    <2> QED BY <1>4, <2>6, FS_Bijection
<1>6. Popped(win, k).entries = v
    BY DEF Popped
<1>7. Popped(win, k).failures = Cardinality(FailingIn(v))
    BY <1>4, <1>5 DEF Popped, PoppedFailures, Good
<1> QED BY <1>2, <1>3, <1>6, <1>7 DEF Good

\* A sample whose clock value is at most MaxStall old can be appended.
LEMMA AppendGood ==
    ASSUME NEW win, Good(win), NEW isFailure \in BOOLEAN, NEW at \in 0 .. MaxStall
    PROVE  /\ Good([entries  |-> Append(win.entries,
                                        [at |-> at, failure |-> isFailure]),
                    failures |-> win.failures + Counted(isFailure)])
<1> DEFINE w == win.entries
           s == [at |-> at, failure |-> isFailure]
           v == Append(w, s)
           n == Len(w) + 1
<1>1. w \in Seq(Sample) /\ Len(w) \in Nat
    BY DEF Good
<1>2. s \in Sample
    BY Constants DEF Sample
<1>3. /\ v \in Seq(Sample) /\ Len(v) = n /\ v[n] = s
      /\ \A i \in 1 .. Len(w) : v[i] = w[i]
    BY <1>1, <1>2
<1>4. Ordered(v)
    <2> SUFFICES ASSUME NEW i \in 1 .. n, NEW j \in 1 .. n, i < j
                 PROVE  v[j].at =< v[i].at + MaxStall
        BY <1>3 DEF Ordered
    <2>1. i \in 1 .. Len(w) /\ v[i] = w[i] /\ w[i] \in Sample
        BY <1>1, <1>3
    <2>2. CASE j = n
        <3>1. w[i].at \in Nat
            BY <2>1, Constants DEF Sample
        <3> QED BY <1>3, <2>1, <2>2, <3>1, Constants
    <2>3. CASE j # n
        <3>1. j \in 1 .. Len(w) /\ v[j] = w[j]
            BY <1>1, <1>3, <2>3
        <3> QED BY <1>1, <2>1, <3>1 DEF Good, Ordered
    <2> QED BY <2>2, <2>3
<1>5. /\ IsFiniteSet(FailingIn(w)) /\ Cardinality(FailingIn(w)) \in Nat
      /\ n \notin FailingIn(w)
    BY <1>1, FailingFinite
<1>6. win.failures + Counted(isFailure) = Cardinality(FailingIn(v))
    <2>1. CASE isFailure
        <3>1. FailingIn(v) = FailingIn(w) \union {n}
            BY <1>1, <1>3, <2>1 DEF FailingIn
        <3> QED BY <1>5, <2>1, <3>1, FS_AddElement DEF Counted, Good
    <2>2. CASE ~isFailure
        <3>1. FailingIn(v) = FailingIn(w)
            BY <1>1, <1>3, <2>2 DEF FailingIn
        <3> QED BY <1>5, <2>2, <3>1 DEF Counted, Good
    <2> QED BY <2>1, <2>2
<1> QED BY <1>3, <1>4, <1>6 DEF Good

\* SlidingWindow::push keeps the window good and within its bound.
LEMMA PushGood ==
    ASSUME NEW win, Good(win), Len(win.entries) =< MaxWindowEntries,
           NEW isFailure \in BOOLEAN, NEW at \in 0 .. MaxStall
    PROVE  /\ Good(PushSample(win, isFailure, at))
           /\ Len(PushSample(win, isFailure, at).entries) =< MaxWindowEntries
<1> DEFINE room == IF Len(win.entries) >= MaxWindowEntries
                   THEN Popped(win, 1) ELSE win
<1>1. Len(win.entries) \in Nat
    BY DEF Good
<1>2. Good(room) /\ Len(room.entries) < MaxWindowEntries
    <2>1. CASE Len(win.entries) >= MaxWindowEntries
        <3>1. 1 \in 0 .. Len(win.entries)
            BY <1>1, <2>1, Constants
        <3> QED BY <1>1, <2>1, <3>1, PoppedGood, Constants
    <2>2. CASE ~(Len(win.entries) >= MaxWindowEntries)
        BY <1>1, <2>2, Constants
    <2> QED BY <2>1, <2>2
<1> DEFINE pushed == [entries  |-> Append(room.entries,
                                          [at |-> at, failure |-> isFailure]),
                      failures |-> room.failures + Counted(isFailure)]
<1>3. PushSample(win, isFailure, at) = pushed
    BY DEF PushSample
<1> HIDE DEF room
<1>4. Good(pushed)
    BY <1>2, AppendGood
<1>5. Len(pushed.entries) = Len(room.entries) + 1 /\ Len(room.entries) \in Nat
    BY <1>2 DEF Good
<1> QED BY <1>2, <1>3, <1>4, <1>5, Constants

\* evict() stops somewhere: at the first entry that is not expired, or at the end.
LEMMA EvictStops ==
    ASSUME NEW w \in Seq(Sample), NEW at
    PROVE  /\ EvictCount(w, at) \in 0 .. Len(w)
           /\ EvictCount(w, at) < Len(w) => ~Expired(w[EvictCount(w, at) + 1], at)
<1> DEFINE Stop(k) == /\ \A i \in 1 .. k : Expired(w[i], at)
                      /\ k < Len(w) => ~Expired(w[k + 1], at)
           N == {k \in 0 .. Len(w) : k < Len(w) => ~Expired(w[k + 1], at)}
<1>1. Len(w) \in Nat
    OBVIOUS
<1>2. N \subseteq Nat /\ N # {}
    <2>1. Len(w) \in N
        BY <1>1
    <2> QED BY <1>1, <2>1
<1>3. PICK k \in N : \A m \in N : k =< m
    BY <1>2, LeastOf
<1>4. \A i \in 1 .. k : Expired(w[i], at)
    <2> SUFFICES ASSUME NEW i \in 1 .. k PROVE Expired(w[i], at)
        OBVIOUS
    <2>1. i - 1 \in 0 .. Len(w) /\ i - 1 < Len(w) /\ i - 1 < k /\ (i - 1) + 1 = i
        BY <1>1
    <2>2. i - 1 \notin N
        BY <1>1, <1>3, <2>1
    <2> QED BY <2>1, <2>2
<1>5. k \in 0 .. Len(w) /\ Stop(k)
    BY <1>4
<1>6. EvictCount(w, at) = CHOOSE m \in 0 .. Len(w) : Stop(m)
    BY DEF EvictCount
<1> HIDE DEF Stop
<1>7. EvictCount(w, at) \in 0 .. Len(w) /\ Stop(EvictCount(w, at))
    BY <1>5, <1>6
<1> QED BY <1>7 DEF Stop

\* SlidingWindow::evict keeps the window good and leaves nothing behind that is older
\* than the disorder of the samples explains.
LEMMA EvictGood ==
    ASSUME NEW win, Good(win), Len(win.entries) =< MaxWindowEntries,
           NEW at \in 0 .. MaxStall
    PROVE  /\ Good(EvictSamples(win, at))
           /\ Len(EvictSamples(win, at).entries) =< MaxWindowEntries
           /\ NoneOlder(EvictSamples(win, at).entries, at)
<1> DEFINE w == win.entries
           k == EvictCount(w, at)
           v == EvictSamples(win, at).entries
<1>1. w \in Seq(Sample) /\ Len(w) \in Nat
    BY DEF Good
<1>2. k \in 0 .. Len(w) /\ (k < Len(w) => ~Expired(w[k + 1], at))
    BY <1>1, EvictStops
<1>3. EvictSamples(win, at) = Popped(win, k)
    BY DEF EvictSamples
<1> HIDE DEF k
<1>4. /\ Good(EvictSamples(win, at)) /\ Len(v) = Len(w) - k
      /\ \A i \in 1 .. Len(w) - k : v[i] = w[i + k]
    BY <1>2, <1>3, PoppedGood
<1>5. NoneOlder(v, at)
    <2> SUFFICES ASSUME NEW i \in 1 .. Len(w) - k
                 PROVE  v[i].at =< WindowDuration + at + MaxStall
        <3>1. DOMAIN v = 1 .. Len(w) - k
            BY <1>4 DEF Good
        <3> QED BY <3>1 DEF NoneOlder
    <2>1. k < Len(w) /\ k + 1 \in 1 .. Len(w) /\ i + k \in 1 .. Len(w) /\ k + 1 =< i + k
        BY <1>1, <1>2
    <2>2. w[k + 1].at \in Nat /\ w[i + k].at \in Nat
        <3>1. w[k + 1] \in Sample /\ w[i + k] \in Sample
            BY <1>1, <2>1
        <3> QED BY <3>1, Constants DEF Sample
    <2>3. w[k + 1].at =< WindowDuration + at
        BY <1>2, <2>1, <2>2, Constants DEF Expired
    <2>4. w[i + k].at =< w[k + 1].at + MaxStall
        <3>1. CASE k + 1 = i + k
            BY <2>2, <3>1, Constants
        <3>2. CASE k + 1 < i + k
            BY <1>1, <2>1, <3>2 DEF Good, Ordered
        <3> QED BY <1>2, <2>1, <3>1, <3>2
    <2>5. v[i] = w[i + k]
        BY <1>4
    <2> HIDE DEF v, w
    <2> QED BY <2>2, <2>3, <2>4, <2>5, Constants
<1>6. Len(v) =< MaxWindowEntries
    BY <1>1, <1>2, <1>4, Constants
<1> QED BY <1>4, <1>5, <1>6

-----------------------------------------------------------------------------
\* Window is put together from the two variables.
LEMMA SetWindowGood ==
    ASSUME NEW win, SetWindow(win), Good(win), Len(win.entries) =< MaxWindowEntries
    PROVE  WindowInv'
BY DEF SetWindow, WindowInv, Window, Good

\* record() under the mutex of the window.
LEMMA RecordWindow ==
    ASSUME IInv, NEW t \in Threads, RecordSample(t)
    PROVE  WindowInv' /\ NoneOlder(window', now[t])
<1> DEFINE pushed == PushSample(Window, failed[t], now[t])
           win == EvictSamples(pushed, now[t])
<1>1. /\ Good(Window) /\ Len(Window.entries) =< MaxWindowEntries
      /\ failed[t] \in BOOLEAN /\ now[t] \in 0 .. MaxStall
    BY DEF IInv, WindowInv, FieldType, Window
<1>2. Good(pushed) /\ Len(pushed.entries) =< MaxWindowEntries
    BY <1>1, PushGood
<1> HIDE DEF pushed
<1>3. /\ Good(win) /\ Len(win.entries) =< MaxWindowEntries
      /\ NoneOlder(win.entries, now[t])
    BY <1>1, <1>2, EvictGood
<1>4. SetWindow(win)
    BY DEF RecordSample, pushed
<1> HIDE DEF win
<1>5. window' = win.entries
    BY <1>4 DEF SetWindow
<1> QED BY <1>3, <1>4, <1>5, SetWindowGood

\* error_rate() under it.
LEMMA ErrorRateWindow ==
    ASSUME IInv, NEW at \in 0 .. MaxStall, ErrorRate(at)
    PROVE  WindowInv' /\ NoneOlder(window', at)
<1> DEFINE win == EvictSamples(Window, at)
<1>1. Good(Window) /\ Len(Window.entries) =< MaxWindowEntries
    BY DEF IInv, WindowInv, Window
<1>2. /\ Good(win) /\ Len(win.entries) =< MaxWindowEntries
      /\ NoneOlder(win.entries, at)
    BY <1>1, EvictGood
<1>3. SetWindow(win)
    BY DEF ErrorRate
<1> HIDE DEF win
<1>4. window' = win.entries
    BY <1>3 DEF SetWindow
<1> QED BY <1>2, <1>3, <1>4, SetWindowGood

\* The empty window is good.
LEMMA EmptyGood == Good([entries |-> <<>>, failures |-> 0])
<1>1. FailingIn(<<>>) = {}
    BY DEF FailingIn
<1>2. Cardinality(FailingIn(<<>>)) = 0
    BY <1>1, FS_EmptySet
<1>3. Ordered(<<>>)
    BY DEF Ordered
<1> QED BY <1>2, <1>3 DEF Good

\* A tick ages the samples, and keeps them as far out of order as they were.
LEMMA TickWindow ==
    ASSUME IInv, Tick
    PROVE  WindowInv'
<1>1. window \in Seq(Sample) /\ failures = Cardinality(FailingIn(window)) /\ Ordered(window)
    BY DEF IInv, WindowInv, Window, Good
<1>2. \A i \in DOMAIN window : window[i].at \in 0 .. SampleCap /\ window[i].failure \in BOOLEAN
    <2>1. \A i \in DOMAIN window : window[i] \in Sample
        BY <1>1
    <2> QED BY <2>1 DEF Sample
<1>3. /\ DOMAIN window' = DOMAIN window
      /\ \A i \in DOMAIN window :
            /\ window'[i] = [at |-> Older(window[i].at, SampleCap),
                             failure |-> window[i].failure]
            /\ window'[i].at = Older(window[i].at, SampleCap)
            /\ window'[i].failure = window[i].failure
    <2>1. window' = [i \in DOMAIN window |->
                        [window[i] EXCEPT !.at = Older(@, SampleCap)]]
        BY DEF Tick
    <2>2. ASSUME NEW i \in DOMAIN window
          PROVE  [window[i] EXCEPT !.at = Older(@, SampleCap)]
                    = [at |-> Older(window[i].at, SampleCap),
                       failure |-> window[i].failure]
        <3>1. window[i] \in Sample
            BY <1>1
        <3> QED BY <3>1 DEF Sample
    <2> QED BY <2>1, <2>2
<1>4. \A i \in DOMAIN window : Older(window[i].at, SampleCap) \in 0 .. SampleCap
    BY <1>2, Constants DEF Older
<1>5. window' \in Seq(Sample) /\ Len(window') = Len(window)
    <2>1. \A i \in DOMAIN window : window'[i] \in Sample
        BY <1>2, <1>3, <1>4 DEF Sample
    <2>2. DOMAIN window = 1 .. Len(window) /\ Len(window) \in Nat
        BY <1>1
    <2>3. window' = [i \in 1 .. Len(window) |-> window'[i]]
        BY <1>3, <2>2 DEF Tick
    <2> QED BY <1>3, <2>1, <2>2, <2>3
<1>6. FailingIn(window') = FailingIn(window)
    BY <1>3 DEF FailingIn
<1>7. Ordered(window')
    <2> SUFFICES ASSUME NEW i \in DOMAIN window, NEW j \in DOMAIN window, i < j
                 PROVE  window'[j].at =< window'[i].at + MaxStall
        BY <1>3 DEF Ordered
    <2>1. window[j].at =< window[i].at + MaxStall
        BY <1>1 DEF Ordered
    <2>2. window[i].at \in 0 .. SampleCap /\ window[j].at \in 0 .. SampleCap
        BY <1>2
    <2> QED BY <1>3, <2>1, <2>2, Constants DEF Older
<1>8. failures' = failures
    BY DEF Tick
<1> QED BY <1>1, <1>5, <1>6, <1>7, <1>8 DEF IInv, WindowInv, Window, Good

LEMMA WindowStep ==
    ASSUME IInv, [Next]_vars
    PROVE  WindowInv'
<1>1. CASE UNCHANGED <<window, failures>>
    BY <1>1 DEF IInv, WindowInv, Window, Good, Ordered, FailingIn
<1>2. ASSUME NEW t \in Threads, CloseClear(t) PROVE WindowInv'
    <2>1. SetWindow([entries |-> <<>>, failures |-> 0])
        BY <1>2 DEF CloseClear
    <2> QED BY <2>1, EmptyGood, SetWindowGood, Constants
<1>3. ASSUME NEW t \in Threads, Step(t) PROVE WindowInv'
    BY <1>1, <1>2, <1>3, RecordWindow
       DEF Step, LoadOpened, OpenElapsed, ClearMirror, LostRace, ProbeClock, ProbeAdd,
           ProbeClaim, ProbeSub, ProbeLease, ProbeTake, RecordState, TripState,
           TripStamp, TripZero, TripMirror, CloseState, CloseZero, CloseMirror,
           samples
<1>4. ASSUME NEW t \in Threads,
             Check(t) \/ (\E b \in BOOLEAN : Finish(t, b)) \/ Abandon(t)
      PROVE  WindowInv'
    BY <1>1, <1>4 DEF Check, Finish, Abandon, samples
<1>5. CASE UNCHANGED vars
    BY <1>1, <1>5 DEF vars
<1> QED BY <1>3, <1>4, <1>5, ErrorRateWindow, TickWindow DEF Next

-----------------------------------------------------------------------------
\* The other fields keep their types.
LEMMA CheckField ==
    ASSUME IInv, NEW t \in Threads,
           \/ Check(t) \/ LoadOpened(t) \/ OpenElapsed(t) \/ ClearMirror(t)
           \/ LostRace(t) \/ ProbeClock(t) \/ ProbeAdd(t) \/ ProbeClaim(t)
           \/ ProbeSub(t) \/ ProbeLease(t) \/ ProbeTake(t)
    PROVE  FieldType'
<1> USE Constants DEF IInv, FieldType, Goto, ReadClock, Admit, Reject, shared, locals,
                      Labels, Ages
<1>1. CASE Check(t)
    BY <1>1 DEF Check
<1>2. CASE LoadOpened(t)
    BY <1>2 DEF LoadOpened
<1>3. CASE OpenElapsed(t)
    BY <1>3 DEF OpenElapsed
<1>4. CASE ClearMirror(t) \/ LostRace(t)
    BY <1>4 DEF ClearMirror, LostRace
<1>5. CASE ProbeClock(t)
    BY <1>5 DEF ProbeClock
<1>6. CASE ProbeAdd(t)
    BY <1>6 DEF ProbeAdd
<1>7. CASE ProbeClaim(t)
    BY <1>7 DEF ProbeClaim
<1>8. CASE ProbeSub(t)
    BY <1>8 DEF ProbeSub
<1>9. CASE ProbeLease(t)
    BY <1>9 DEF ProbeLease
<1>10. CASE ProbeTake(t)
    BY <1>10 DEF ProbeTake
<1> QED BY <1>1, <1>2, <1>3, <1>4, <1>5, <1>6, <1>7, <1>8, <1>9, <1>10

LEMMA RecordField ==
    ASSUME IInv, NEW t \in Threads,
           \/ (\E b \in BOOLEAN : Finish(t, b)) \/ Abandon(t)
           \/ RecordState(t) \/ RecordSample(t)
           \/ TripState(t) \/ TripStamp(t) \/ TripZero(t) \/ TripMirror(t)
           \/ CloseState(t) \/ CloseClear(t) \/ CloseZero(t) \/ CloseMirror(t)
    PROVE  FieldType'
<1> USE Constants DEF IInv, FieldType, Goto, ReadClock, shared, locals, Labels, Ages
<1>1. CASE \E b \in BOOLEAN : Finish(t, b)
    BY <1>1 DEF Finish
<1>2. CASE Abandon(t)
    BY <1>2 DEF Abandon
<1>3. CASE RecordState(t)
    <2>1. CASE state = "HalfOpen"
        <3>1. /\ now' = [now EXCEPT ![t] = 0] /\ failed' = [failed EXCEPT ![t] = FALSE]
              /\ UNCHANGED <<shared, seen>>
            BY <1>3, <2>1 DEF RecordState
        <3>2. pc' \in [Threads -> Labels]
            <4>1. CASE failed[t]
                BY <1>3, <2>1, <4>1 DEF RecordState
            <4>2. CASE ~failed[t]
                BY <1>3, <2>1, <4>2 DEF RecordState
            <4> QED BY <4>1, <4>2
        <3>3. now' \in [Threads -> 0 .. MaxStall]
            BY <3>1
        <3>4. failed' \in [Threads -> BOOLEAN]
            BY <3>1
        <3>5. UNCHANGED <<state, openedAt, probes, claimedAt, openFast, seen>>
            BY <3>1
        <3> QED BY <3>2, <3>3, <3>4, <3>5
    <2>2. CASE state # "HalfOpen"
        BY <1>3, <2>2 DEF RecordState
    <2> QED BY <2>1, <2>2
<1>4. CASE RecordSample(t)
    BY <1>4 DEF RecordSample
<1>5. CASE TripState(t)
    BY <1>5 DEF TripState
<1>6. CASE TripStamp(t)
    BY <1>6 DEF TripStamp
<1>7. CASE TripZero(t)
    BY <1>7 DEF TripZero
<1>8. CASE TripMirror(t)
    BY <1>8 DEF TripMirror
<1>9. CASE CloseState(t)
    BY <1>9 DEF CloseState
<1>10. CASE CloseClear(t)
    BY <1>10 DEF CloseClear
<1>11. CASE CloseZero(t)
    BY <1>11 DEF CloseZero
<1>12. CASE CloseMirror(t)
    BY <1>12 DEF CloseMirror
<1> QED BY <1>1, <1>2, <1>3, <1>4, <1>5, <1>6, <1>7, <1>8, <1>9, <1>10, <1>11, <1>12

LEMMA TickField ==
    ASSUME IInv, Tick
    PROVE  FieldType'
<1> USE Constants DEF IInv, FieldType, Ages
<1>1. openedAt' \in Ages /\ claimedAt' \in Ages
    BY DEF Tick, Older
<1>2. now' \in [Threads -> 0 .. MaxStall]
    BY DEF Tick
<1>3. seen' \in [Threads -> Ages]
    BY DEF Tick, Older
<1> QED BY <1>1, <1>2, <1>3 DEF Tick

LEMMA FieldStep ==
    ASSUME IInv, [Next]_vars
    PROVE  FieldType'
<1>1. ASSUME NEW at \in 0 .. MaxStall, ErrorRate(at) PROVE FieldType'
    BY <1>1 DEF ErrorRate, shared, locals, IInv, FieldType
<1>2. CASE UNCHANGED vars
    BY <1>2 DEF vars, IInv, FieldType
<1> QED BY <1>1, <1>2, CheckField, RecordField, TickField DEF Next, Step

LEMMA InitInv == Init => IInv
<1> SUFFICES ASSUME Init PROVE IInv
    OBVIOUS
<1>1. FieldType
    <2>1. probes \in 0 .. UsizeRange - 1 /\ openedAt \in Ages /\ claimedAt \in Ages
        BY Constants DEF Init, Ages
    <2>2. now \in [Threads -> 0 .. MaxStall] /\ seen \in [Threads -> Ages]
        BY Constants DEF Init, Ages
    <2>3. /\ state \in {"Closed", "Open", "HalfOpen"} /\ openFast \in BOOLEAN
          /\ pc \in [Threads -> Labels] /\ failed \in [Threads -> BOOLEAN]
        BY DEF Init, Labels
    <2> QED BY <2>1, <2>2, <2>3 DEF FieldType
<1>2. Window = [entries |-> <<>>, failures |-> 0]
    BY DEF Init, Window
<1>3. WindowInv
    BY <1>2, EmptyGood, Constants DEF WindowInv, Init
<1> QED BY <1>1, <1>3 DEF IInv

LEMMA InvAlways == Spec => []IInv
<1>1. IInv /\ [Next]_vars => IInv'
    BY WindowStep, FieldStep DEF IInv
<1> QED BY <1>1, InitInv, PTL DEF Spec

-----------------------------------------------------------------------------
\* The fields of the breaker keep their types through every interleaving of check() and
\* record(), and the window stays within MAX_WINDOW_ENTRIES.
THEOREM TypeCorrect == Spec => []TypeOK
<1>1. IInv => TypeOK
    <2> SUFFICES ASSUME IInv PROVE TypeOK
        OBVIOUS
    <2>1. window \in Seq(Sample) /\ failures \in Nat /\ Len(window) =< MaxWindowEntries
        BY FailingFinite DEF IInv, WindowInv, Window, Good
    <2>2. now \in [Threads -> Ages] /\ \A t \in Threads : now[t] =< MaxStall
        BY Constants DEF IInv, FieldType, Ages
    <2> QED BY <2>1, <2>2 DEF IInv, FieldType, TypeOK
<1> QED BY <1>1, InvAlways, PTL

\* The counter of failing entries is exact, whatever is pushed, evicted and cleared.
THEOREM CountCorrect == Spec => []WindowCount
<1>1. IInv => WindowCount
    BY DEF IInv, WindowInv, Window, Good, WindowCount
<1> QED BY <1>1, InvAlways, PTL

\* The samples are never further out of order than a thread of record() stalls between
\* its clock and the mutex.
THEOREM OrderCorrect == Spec => []SampleOrder
<1>1. IInv => SampleOrder
    BY DEF IInv, WindowInv, Window, Good, Ordered, SampleOrder
<1> QED BY <1>1, InvAlways, PTL

\* evict() may look at the front of the window only: what it leaves is older than the
\* window by no more than the stalls.
THEOREM EvictionCorrect == Spec => EvictionLag
<1> DEFINE A == /\ \A t \in Threads : RecordSample(t) => NoneOlder(window', now[t])
                /\ \A at \in 0 .. MaxStall : ErrorRate(at) => NoneOlder(window', at)
<1>1. IInv /\ [Next]_vars => [A]_vars
    BY RecordWindow, ErrorRateWindow
<1> QED BY <1>1, InvAlways, PTL DEF Spec, EvictionLag
=============================================================================
