---------------------------- MODULE QueueOpsProofs ----------------------------
(***************************************************************************)
(* What the queue operations return and preserve, for every queue.  The    *)
(* proofs count: KeptUpTo(q, S, i) is the rank of position i among the     *)
(* positions that are kept, it grows at kept positions only, and so every  *)
(* rank from 1 to the number of kept positions is taken exactly once.      *)
(***************************************************************************)
EXTENDS QueueOps, Integers, FiniteSetTheorems, WellFoundedInduction, TLAPS

\* Every non-empty set of naturals has a least element.
LEMMA LeastNat ==
    ASSUME NEW N, N \subseteq Nat, N # {}
    PROVE  \E i \in N : \A k \in N : i <= k
<1>1. PICK i \in N : \A k \in N : ~(<<k, i>> \in OpToRel(<, Nat))
    BY NatLessThanWellFounded, WFMin
<1>2. ASSUME NEW k \in N PROVE ~(k < i)
    BY <1>1 DEF OpToRel
<1> QED BY <1>2

\* Finitely many positions are kept.
LEMMA KeptCount ==
    ASSUME NEW T, NEW q \in Seq(T), NEW S
    PROVE  /\ KeptAt(q, S) \subseteq 1..Len(q)
           /\ IsFiniteSet(KeptAt(q, S))
           /\ Cardinality(KeptAt(q, S)) \in Nat
<1>1. KeptAt(q, S) \subseteq 1..Len(q)
    BY DEF KeptAt
<1>2. IsFiniteSet(1..Len(q))
    BY FS_Interval
<1>3. IsFiniteSet(KeptAt(q, S))
    BY <1>1, <1>2, FS_Subset
<1> QED BY <1>1, <1>3, FS_CardinalityType

\* So KeptUpTo is a number.
LEMMA KeptFinite ==
    ASSUME NEW T, NEW q \in Seq(T), NEW S, NEW i \in Int
    PROVE  /\ IsFiniteSet({j \in KeptAt(q, S) : j <= i})
           /\ KeptUpTo(q, S, i) \in Nat
           /\ KeptUpTo(q, S, i) <= Cardinality(KeptAt(q, S))
<1> DEFINE A == {j \in KeptAt(q, S) : j <= i}
<1>1. A \subseteq KeptAt(q, S) /\ IsFiniteSet(KeptAt(q, S))
    BY KeptCount
<1>2. IsFiniteSet(A) /\ Cardinality(A) <= Cardinality(KeptAt(q, S))
    <2> HIDE DEF A
    <2> QED BY <1>1, FS_Subset
<1>3. Cardinality(A) \in Nat
    BY <1>2, FS_CardinalityType
<1> QED BY <1>2, <1>3 DEF KeptUpTo

\* Ranks grow at every kept position: no two kept positions have the same rank.
LEMMA RankStrict ==
    ASSUME NEW T, NEW q \in Seq(T), NEW S, NEW i \in Int, NEW j \in KeptAt(q, S), i < j
    PROVE  KeptUpTo(q, S, i) < KeptUpTo(q, S, j)
<1> DEFINE A == {k \in KeptAt(q, S) : k <= i}
           B == {k \in KeptAt(q, S) : k <= j}
<1>0. KeptAt(q, S) \subseteq Int
    BY DEF KeptAt
<1>1. IsFiniteSet(A) /\ IsFiniteSet(B) /\ Cardinality(A) \in Nat /\ Cardinality(B) \in Nat
    BY <1>0, KeptFinite DEF KeptUpTo
<1>2. A \subseteq B /\ j \in B /\ j \notin A
    BY <1>0
<1>3. Cardinality(A) <= Cardinality(B) /\ Cardinality(A) # Cardinality(B)
    <2> HIDE DEF A, B
    <2>1. A # B
        BY <1>2
    <2> QED BY <1>1, <1>2, <2>1, FS_Subset
<1> QED BY <1>1, <1>3 DEF KeptUpTo

\* A position that is not kept does not count, one that is kept counts once.
LEMMA RankStep ==
    ASSUME NEW T, NEW q \in Seq(T), NEW S, NEW i \in Int
    PROVE  KeptUpTo(q, S, i) = KeptUpTo(q, S, i - 1) + (IF i \in KeptAt(q, S) THEN 1 ELSE 0)
<1> DEFINE A == {k \in KeptAt(q, S) : k <= i - 1}
           B == {k \in KeptAt(q, S) : k <= i}
<1>0. KeptAt(q, S) \subseteq Int
    BY DEF KeptAt
<1>1. KeptUpTo(q, S, i - 1) = Cardinality(A) /\ KeptUpTo(q, S, i) = Cardinality(B)
    BY DEF KeptUpTo
<1>2. IsFiniteSet(A) /\ Cardinality(A) \in Nat
    <2>1. i - 1 \in Int
        OBVIOUS
    <2> QED BY <2>1, <1>1, KeptFinite
<1>3. CASE i \in KeptAt(q, S)
    <2>1. B = A \cup {i} /\ i \notin A
        BY <1>0, <1>3
    <2>2. Cardinality(A \cup {i}) = Cardinality(A) + 1
        <3> HIDE DEF A
        <3> QED BY <1>2, <2>1, FS_AddElement
    <2> HIDE DEF A, B
    <2> QED BY <1>1, <1>3, <2>1, <2>2
<1>4. CASE i \notin KeptAt(q, S)
    <2>1. B = A
        BY <1>0, <1>4
    <2> HIDE DEF A, B
    <2> QED BY <1>1, <1>2, <1>4, <2>1
<1> QED BY <1>3, <1>4

\* So a rank names one kept position.
LEMMA RankUnique ==
    ASSUME NEW T, NEW q \in Seq(T), NEW S, NEW i \in KeptAt(q, S), NEW j \in KeptAt(q, S),
           KeptUpTo(q, S, i) = KeptUpTo(q, S, j)
    PROVE  i = j
<1>1. i \in Int /\ j \in Int
    BY DEF KeptAt
<1>2. KeptUpTo(q, S, i) \in Nat
    BY <1>1, KeptFinite
<1>3. ~(i < j)
    BY <1>1, <1>2, RankStrict
<1>4. ~(j < i)
    BY <1>1, <1>2, RankStrict
<1> QED BY <1>1, <1>3, <1>4

\* Every rank is taken: the n-th kept position exists.
LEMMA RankTaken ==
    ASSUME NEW T, NEW q \in Seq(T), NEW S, NEW n \in 1..Cardinality(KeptAt(q, S))
    PROVE  \E i \in KeptAt(q, S) : KeptUpTo(q, S, i) = n
<1> DEFINE R == {i \in Nat : n <= KeptUpTo(q, S, i)}
<1>1. Len(q) \in R
    <2>1. {j \in KeptAt(q, S) : j <= Len(q)} = KeptAt(q, S)
        BY DEF KeptAt
    <2>2. KeptUpTo(q, S, Len(q)) = Cardinality(KeptAt(q, S))
        BY <2>1 DEF KeptUpTo
    <2>3. Len(q) \in Nat
        OBVIOUS
    <2>4. Cardinality(KeptAt(q, S)) \in Nat
        BY KeptCount
    <2> QED BY <2>2, <2>3, <2>4
<1>2. PICK i \in R : \A k \in R : i <= k
    <2>1. R \subseteq Nat /\ R # {}
        BY <1>1
    <2> HIDE DEF R
    <2> QED BY <2>1, LeastNat
<1>3. KeptUpTo(q, S, 0) = 0
    <2>1. {j \in KeptAt(q, S) : j <= 0} = {}
        BY DEF KeptAt
    <2> QED BY <2>1, FS_EmptySet DEF KeptUpTo
<1>4. i \in Nat \ {0} /\ n <= KeptUpTo(q, S, i)
    BY <1>3
<1>5. KeptUpTo(q, S, i - 1) \in Nat /\ KeptUpTo(q, S, i) \in Nat
    <2>1. i \in Int /\ i - 1 \in Int
        BY <1>4
    <2> QED BY <2>1, KeptFinite
<1>6. KeptUpTo(q, S, i - 1) < n
    BY <1>2, <1>4, <1>5
<1>7. KeptUpTo(q, S, i) = KeptUpTo(q, S, i - 1) + (IF i \in KeptAt(q, S) THEN 1 ELSE 0)
    BY RankStep
<1> QED BY <1>4, <1>5, <1>6, <1>7

\* Keep(q, S) lists the kept positions by rank.
LEMMA KeepByRank ==
    ASSUME NEW T, NEW q \in Seq(T), NEW S
    PROVE  /\ Keep(q, S) \in Seq(T)
           /\ Len(Keep(q, S)) = Cardinality(KeptAt(q, S))
           /\ \A n \in 1..Len(Keep(q, S)) : \E i \in KeptAt(q, S) :
                 KeptUpTo(q, S, i) = n /\ Keep(q, S)[n] = q[i]
<1> DEFINE c == Cardinality(KeptAt(q, S))
           At(n) == CHOOSE i \in KeptAt(q, S) : KeptUpTo(q, S, i) = n
<1>1. c \in Nat /\ KeptAt(q, S) \subseteq 1..Len(q)
    BY KeptCount
<1>2. ASSUME NEW n \in 1..c
      PROVE  At(n) \in KeptAt(q, S) /\ KeptUpTo(q, S, At(n)) = n
    BY RankTaken
<1>3. Keep(q, S) = [n \in 1..c |-> q[At(n)]]
    BY DEF Keep
<1>4. \A n \in 1..c : q[At(n)] \in T
    <2> TAKE n \in 1..c
    <2>1. At(n) \in 1..Len(q)
        BY <1>1, <1>2
    <2> HIDE DEF At
    <2> QED BY <2>1
<1> HIDE DEF c, At
<1>5. Keep(q, S) \in Seq(T) /\ Len(Keep(q, S)) = c
    BY <1>1, <1>3, <1>4
<1> QED BY <1>2, <1>3, <1>5 DEF c

\* A kept element is in the result, and nothing else is.
LEMMA KeepElems ==
    ASSUME NEW T, NEW q \in Seq(T), NEW S
    PROVE  Elems(Keep(q, S)) = Elems(q) \cap S
<1>1. ASSUME NEW x \in Elems(Keep(q, S)) PROVE x \in Elems(q) \cap S
    <2>1. PICK n \in 1..Len(Keep(q, S)) : x = Keep(q, S)[n]
        BY KeepByRank DEF Elems
    <2>2. PICK i \in KeptAt(q, S) : Keep(q, S)[n] = q[i]
        BY <2>1, KeepByRank
    <2> QED BY <2>1, <2>2 DEF KeptAt, Elems
<1>2. ASSUME NEW x \in Elems(q) \cap S PROVE x \in Elems(Keep(q, S))
    <2>1. PICK i \in KeptAt(q, S) : x = q[i]
        BY DEF Elems, KeptAt
    <2>2. i \in Int /\ i - 1 \in Int /\ i - 1 < i
        BY <2>1 DEF KeptAt
    <2>3. /\ KeptUpTo(q, S, i) \in Nat /\ KeptUpTo(q, S, i - 1) \in Nat
          /\ KeptUpTo(q, S, i) <= Cardinality(KeptAt(q, S))
        BY <2>2, KeptFinite
    <2>4. KeptUpTo(q, S, i - 1) < KeptUpTo(q, S, i)
        BY <2>2, RankStrict
    <2>5. KeptUpTo(q, S, i) \in 1..Len(Keep(q, S))
        BY <2>3, <2>4, KeepByRank, KeptCount
    <2>6. PICK k \in KeptAt(q, S) :
              KeptUpTo(q, S, k) = KeptUpTo(q, S, i) /\ Keep(q, S)[KeptUpTo(q, S, i)] = q[k]
        BY <2>5, KeepByRank
    <2>7. k = i
        BY <2>6, RankUnique
    <2>8. Keep(q, S) \in Seq(T)
        BY KeepByRank
    <2> QED BY <2>1, <2>5, <2>6, <2>7, <2>8 DEF Elems
<1> QED BY <1>1, <1>2

\* The order and the number of occurrences are kept: no repetition appears.
LEMMA KeepNoRepeats ==
    ASSUME NEW T, NEW q \in Seq(T), NEW S, NoRepeats(q)
    PROVE  NoRepeats(Keep(q, S))
<1> SUFFICES ASSUME NEW m \in DOMAIN Keep(q, S), NEW n \in DOMAIN Keep(q, S),
                    Keep(q, S)[m] = Keep(q, S)[n]
             PROVE  m = n
    BY DEF NoRepeats
<1>1. m \in 1..Len(Keep(q, S)) /\ n \in 1..Len(Keep(q, S))
    BY KeepByRank
<1>2. PICK i \in KeptAt(q, S) : KeptUpTo(q, S, i) = m /\ Keep(q, S)[m] = q[i]
    BY <1>1, KeepByRank
<1>3. PICK j \in KeptAt(q, S) : KeptUpTo(q, S, j) = n /\ Keep(q, S)[n] = q[j]
    BY <1>1, KeepByRank
<1>4. q[i] = q[j]
    BY <1>2, <1>3
<1>5. i \in DOMAIN q /\ j \in DOMAIN q
    BY DEF KeptAt
<1>6. i = j
    BY <1>4, <1>5 DEF NoRepeats
<1> QED BY <1>2, <1>3, <1>6

\* A prefix of q stays a prefix: up to a kept element, Keep has only what q had before it.
LEMMA KeepPrefix ==
    ASSUME NEW T, NEW q \in Seq(T), NEW S, NEW i \in KeptAt(q, S)
    PROVE  \E n \in 1..Len(Keep(q, S)) :
              /\ Keep(q, S)[n] = q[i]
              /\ \A m \in 1..n : \E j \in 1..i : Keep(q, S)[m] = q[j]
<1>1. i \in 1..Len(q) /\ i \in Int /\ i - 1 \in Int /\ i - 1 < i
    BY DEF KeptAt
<1> DEFINE n == KeptUpTo(q, S, i)
<1>2. /\ n \in Nat /\ n <= Cardinality(KeptAt(q, S)) /\ KeptUpTo(q, S, i - 1) \in Nat
      /\ KeptUpTo(q, S, i - 1) < n
    BY <1>1, KeptFinite, RankStrict
<1>3. n \in 1..Len(Keep(q, S))
    BY <1>2, KeepByRank, KeptCount
<1>4. Keep(q, S)[n] = q[i]
    <2>1. PICK k \in KeptAt(q, S) : KeptUpTo(q, S, k) = n /\ Keep(q, S)[n] = q[k]
        BY <1>3, KeepByRank
    <2> QED BY <1>1, <2>1, RankUnique
<1>5. ASSUME NEW m \in 1..n PROVE \E j \in 1..i : Keep(q, S)[m] = q[j]
    <2>0. m \in 1..Len(Keep(q, S)) /\ m <= n
        BY <1>3
    <2>1. PICK j \in KeptAt(q, S) : KeptUpTo(q, S, j) = m /\ Keep(q, S)[m] = q[j]
        BY <2>0, KeepByRank
    <2>2. j \in 1..Len(q)
        BY <2>1 DEF KeptAt
    <2>3. ~(i < j)
        <3>1. i < j => KeptUpTo(q, S, i) < KeptUpTo(q, S, j)
            BY <1>1, RankStrict
        <3> QED BY <1>2, <2>0, <2>1, <3>1
    <2> QED BY <1>1, <2>1, <2>2, <2>3
<1> HIDE DEF n
<1> QED BY <1>3, <1>4, <1>5

\* A front that is kept stays in front.
LEMMA KeepHead ==
    ASSUME NEW T, NEW q \in Seq(T), NEW S, q # <<>>, Head(q) \in S
    PROVE  Keep(q, S) # <<>> /\ Head(Keep(q, S)) = Head(q)
<1>1. 1 \in KeptAt(q, S)
    BY DEF KeptAt
<1>2. Head(q) \in Elems(Keep(q, S))
    BY KeepElems DEF Elems
<1>3. Keep(q, S) # <<>> /\ 1 \in 1..Len(Keep(q, S))
    BY <1>2, KeepByRank DEF Elems
<1>4. PICK i \in KeptAt(q, S) : KeptUpTo(q, S, i) = 1 /\ Keep(q, S)[1] = q[i]
    BY <1>3, KeepByRank
<1>5. i = 1
    <2>1. i \in Int /\ 1 <= i
        BY DEF KeptAt
    <2>2. KeptUpTo(q, S, 0) \in Nat /\ KeptUpTo(q, S, 1) \in Nat
        <3>1. 0 \in Int /\ 1 \in Int
            OBVIOUS
        <3> QED BY <3>1, KeptFinite
    <2>3. KeptUpTo(q, S, 0) < KeptUpTo(q, S, 1)
        BY <1>1, RankStrict
    <2>4. 1 < i => KeptUpTo(q, S, 1) < KeptUpTo(q, S, i)
        BY RankStrict
    <2> QED BY <1>4, <2>1, <2>2, <2>3, <2>4
<1> QED BY <1>3, <1>4, <1>5, KeepByRank

\* VecDeque::insert at any position up to the end.
LEMMA InsertSeqType ==
    ASSUME NEW T, NEW q \in Seq(T), NEW s \in Seq(T), NEW p \in 1..(Len(q) + 1)
    PROVE  /\ InsertSeq(q, p, s) \in Seq(T)
           /\ Len(InsertSeq(q, p, s)) = Len(q) + Len(s)
<1> DEFINE n == Len(q) + Len(s)
           At(i) == IF i < p THEN q[i] ELSE IF i < p + Len(s) THEN s[i - p + 1] ELSE q[i - Len(s)]
<1>1. n \in Nat /\ Len(q) \in Nat /\ Len(s) \in Nat
    OBVIOUS
<1>2. ASSUME NEW i \in 1..n PROVE At(i) \in T
    <2>1. i < p => i \in 1..Len(q)
        BY <1>1
    <2>2. ~(i < p) /\ i < p + Len(s) => i - p + 1 \in 1..Len(s)
        BY <1>1
    <2>3. ~(i < p + Len(s)) => i - Len(s) \in 1..Len(q)
        BY <1>1
    <2> QED BY <2>1, <2>2, <2>3
<1>3. InsertSeq(q, p, s) = [i \in 1..n |-> At(i)]
    BY DEF InsertSeq
<1> HIDE DEF n, At
<1>4. InsertSeq(q, p, s) \in Seq(T) /\ Len(InsertSeq(q, p, s)) = n
    BY <1>1, <1>2, <1>3
<1> QED BY <1>4 DEF n

\* Inserting behind the front leaves it there.
LEMMA InsertSeqHead ==
    ASSUME NEW T, NEW q \in Seq(T), NEW s \in Seq(T), NEW p \in 2..(Len(q) + 1)
    PROVE  q # <<>> /\ InsertSeq(q, p, s) # <<>> /\ Head(InsertSeq(q, p, s)) = Head(q)
<1>1. p \in 1..(Len(q) + 1) /\ Len(q) >= 1
    OBVIOUS
<1>2. InsertSeq(q, p, s) \in Seq(T) /\ Len(InsertSeq(q, p, s)) = Len(q) + Len(s)
    BY <1>1, InsertSeqType
<1>3. InsertSeq(q, p, s)[1] = q[1]
    BY <1>1 DEF InsertSeq
<1> QED BY <1>1, <1>2, <1>3

\* Nothing is lost or invented.
LEMMA InsertSeqElems ==
    ASSUME NEW T, NEW q \in Seq(T), NEW s \in Seq(T), NEW p \in 1..(Len(q) + 1)
    PROVE  Elems(InsertSeq(q, p, s)) = Elems(q) \cup Elems(s)
<1> DEFINE r == InsertSeq(q, p, s)
<1>1. DOMAIN r = 1..(Len(q) + Len(s)) /\ DOMAIN q = 1..Len(q) /\ DOMAIN s = 1..Len(s)
    BY DEF InsertSeq
<1>2. Len(q) \in Nat /\ Len(s) \in Nat
    OBVIOUS
<1>3. ASSUME NEW i \in DOMAIN r PROVE r[i] \in Elems(q) \cup Elems(s)
    <2>1. CASE i < p
        <3>1. i \in DOMAIN q /\ r[i] = q[i]
            BY <1>1, <1>2, <2>1 DEF InsertSeq
        <3> QED BY <3>1 DEF Elems
    <2>2. CASE ~(i < p) /\ i < p + Len(s)
        <3>1. i - p + 1 \in DOMAIN s /\ r[i] = s[i - p + 1]
            BY <1>1, <1>2, <2>2 DEF InsertSeq
        <3> QED BY <3>1 DEF Elems
    <2>3. CASE ~(i < p + Len(s))
        <3>1. i - Len(s) \in DOMAIN q /\ r[i] = q[i - Len(s)]
            BY <1>1, <1>2, <2>3 DEF InsertSeq
        <3> QED BY <3>1 DEF Elems
    <2> QED BY <2>1, <2>2, <2>3
<1>4. ASSUME NEW i \in DOMAIN q PROVE q[i] \in Elems(r)
    <2>1. CASE i < p
        <3>1. i \in DOMAIN r /\ r[i] = q[i]
            BY <1>1, <1>2, <2>1 DEF InsertSeq
        <3> QED BY <3>1 DEF Elems
    <2>2. CASE ~(i < p)
        <3>1. i + Len(s) \in DOMAIN r /\ r[i + Len(s)] = q[i]
            BY <1>1, <1>2, <2>2 DEF InsertSeq
        <3> QED BY <3>1 DEF Elems
    <2> QED BY <2>1, <2>2
<1>5. ASSUME NEW i \in DOMAIN s PROVE s[i] \in Elems(r)
    <2>1. i + p - 1 \in DOMAIN r /\ r[i + p - 1] = s[i]
        BY <1>1, <1>2 DEF InsertSeq
    <2> QED BY <2>1 DEF Elems
<1> QED BY <1>3, <1>4, <1>5 DEF Elems

\* An id that is not queued is inserted without a repetition.
LEMMA InsertSeqNoRepeats ==
    ASSUME NEW T, NEW q \in Seq(T), NEW s \in Seq(T), NEW p \in 1..(Len(q) + 1),
           NoRepeats(q), NoRepeats(s), Elems(q) \cap Elems(s) = {}
    PROVE  NoRepeats(InsertSeq(q, p, s))
<1> DEFINE r == InsertSeq(q, p, s)
           InS(i) == p <= i /\ i < p + Len(s)
           Old(i) == IF i < p THEN i ELSE i - Len(s)
<1>1. DOMAIN r = 1..(Len(q) + Len(s)) /\ DOMAIN q = 1..Len(q) /\ DOMAIN s = 1..Len(s)
    BY DEF InsertSeq
<1>2. Len(q) \in Nat /\ Len(s) \in Nat
    OBVIOUS
<1>3. ASSUME NEW i \in DOMAIN r, InS(i)
      PROVE  i - p + 1 \in DOMAIN s /\ r[i] = s[i - p + 1]
    BY <1>1, <1>2, <1>3 DEF InsertSeq
<1>4. ASSUME NEW i \in DOMAIN r, ~InS(i)
      PROVE  Old(i) \in DOMAIN q /\ r[i] = q[Old(i)]
    BY <1>1, <1>2, <1>4 DEF InsertSeq
<1>5. ASSUME NEW i \in DOMAIN r, NEW j \in DOMAIN r, r[i] = r[j]
      PROVE  i = j
    <2>1. CASE InS(i) /\ InS(j)
        <3>1. i - p + 1 = j - p + 1
            BY <1>3, <1>5, <2>1 DEF NoRepeats
        <3> QED BY <1>1, <1>2, <3>1
    <2>2. CASE ~InS(i) /\ ~InS(j)
        <3>1. Old(i) = Old(j)
            BY <1>4, <1>5, <2>2 DEF NoRepeats
        <3> QED BY <1>1, <1>2, <2>2, <3>1
    <2>3. CASE InS(i) # InS(j)
        <3>1. r[i] \in Elems(q) \cap Elems(s)
            BY <1>3, <1>4, <1>5, <2>3 DEF Elems
        <3> QED BY <3>1
    <2> QED BY <2>1, <2>2, <2>3
<1> QED BY <1>5 DEF NoRepeats

\* The scan over send-now items ends at a position where VecDeque::insert is defined.
LEMMA SkipFromType ==
    ASSUME NEW T, NEW q \in Seq(T), NEW S, NEW p \in 1..(Len(q) + 1)
    PROVE  /\ SkipFrom(q, p, S) \in p..(Len(q) + 1)
           /\ SkipFrom(q, p, S) <= Len(q) => q[SkipFrom(q, p, S)] \notin S
<1> DEFINE N == {k \in p..(Len(q) + 1) : k <= Len(q) => q[k] \notin S}
<1>1. Len(q) + 1 \in N /\ N \subseteq Nat
    OBVIOUS
<1>2. PICK k \in N : \A j \in N : k <= j
    <2> HIDE DEF N
    <2> QED BY <1>1, LeastNat
<1>3. k \in p..(Len(q) + 1) /\ (k <= Len(q) => q[k] \notin S)
    OBVIOUS
<1>4. \A j \in p..(k - 1) : q[j] \in S
    BY <1>2, <1>3
<1> QED BY <1>3, <1>4 DEF SkipFrom
===============================================================================
