------------------------------- MODULE QueueOps -------------------------------
(***************************************************************************)
(* Operations on the prompt queue, a sequence of prompt ids without        *)
(* repetitions.  They are written with indices instead of recursion so     *)
(* that TLAPS can reason about them (module QueueOpsProofs).               *)
(***************************************************************************)
EXTENDS Naturals, Sequences, FiniteSets

\* The ids that occur in queue q.
Elems(q) == {q[i] : i \in DOMAIN q}

\* No id is queued twice.
NoRepeats(q) == \A i, j \in DOMAIN q : q[i] = q[j] => i = j

\* The positions of q that hold an element of S, and how many of them are <= i.
KeptAt(q, S) == {i \in 1..Len(q) : q[i] \in S}
KeptUpTo(q, S, i) == Cardinality({j \in KeptAt(q, S) : j <= i})

\* The subsequence of q that holds its elements in S: VecDeque::retain.
Keep(q, S) ==
    [n \in 1..Cardinality(KeptAt(q, S)) |->
        q[CHOOSE i \in KeptAt(q, S) : KeptUpTo(q, S, i) = n]]

\* q with the ids of s inserted before its position p: VecDeque::insert.
InsertSeq(q, p, s) ==
    [i \in 1..(Len(q) + Len(s)) |->
        IF i < p THEN q[i]
        ELSE IF i < p + Len(s) THEN s[i - p + 1]
        ELSE q[i - Len(s)]]

\* The first position of q at or after p whose id is not in S: a scan that
\* steps over the ids in S, Len(q) + 1 when it runs off the end.
SkipFrom(q, p, S) ==
    CHOOSE k \in p..(Len(q) + 1) :
        /\ k <= Len(q) => q[k] \notin S
        /\ \A j \in p..(k - 1) : q[j] \in S
===============================================================================
