---------------------------- MODULE SessionService ----------------------------
(***************************************************************************)
(* The session actor implements PromptService for the prompts and the      *)
(* interjections that clients send.                                        *)
(***************************************************************************)
EXTENDS SessionActor

\* How far prompt p has come, as its client sees it.
Stage(p) ==
    IF p \notin sent THEN "new"
    ELSE IF answered[p] # "open" THEN "answered"
    ELSE IF p \in Elems(doomed) \/ rewound = p THEN "ending"
    ELSE IF running = p THEN "running" ELSE "waiting"

Service == INSTANCE PromptService
    WITH Prompts <- Users \cup Steers, stage <- [p \in Users \cup Steers |-> Stage(p)]

\* The session runs one client prompt at a time, none twice and none after its answer, and
\* every answer is final, through every interleaving of completions, cancels, rewinds,
\* queue edits and promotions.
ImplementsService == Service!Spec
===============================================================================
