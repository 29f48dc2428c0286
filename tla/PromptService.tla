---------------------------- MODULE PromptService ----------------------------
(***************************************************************************)
(* What a session promises the clients that submit prompts to it: a prompt *)
(* waits until it is run, withdrawn or cancelled; one prompt runs at a     *)
(* time; none runs twice or after its answer; an answer is final.          *)
(***************************************************************************)
CONSTANT Prompts
VARIABLE stage

Stages == {"new", "waiting", "running", "ending", "answered"}

TypeOK == stage \in [Prompts -> Stages]

Init == stage = [p \in Prompts |-> "new"]

\* The prompts of S, all in one of the stages From, move on to stage to.
Move(S, From, to) ==
    /\ \A p \in S : stage[p] \in From
    /\ stage' = [p \in Prompts |-> IF p \in S THEN to ELSE stage[p]]

Submit(p) == Move({p}, {"new"}, "waiting")

Run(p) ==
    /\ \A q \in Prompts : stage[q] # "running"
    /\ Move({p}, {"waiting"}, "running")

\* A cancel sets prompts aside, the running one or the whole queue.
Cancel(S) == Move(S, {"waiting", "running"}, "ending")

\* A finished turn answers its prompt; so do a cancel and a withdrawal.
Answer(S) == Move(S, {"waiting", "running", "ending"}, "answered")

Next ==
    \/ \E p \in Prompts : Submit(p) \/ Run(p)
    \/ \E S \in SUBSET Prompts : Cancel(S) \/ Answer(S)

Spec == Init /\ [][Next]_stage
==============================================================================
