------------------------------ MODULE MCSession ------------------------------
(***************************************************************************)
(* Instances of SessionActor for TLC.  The configurations differ in which  *)
(* kinds of prompts exist, and so in which commands can occur.             *)
(***************************************************************************)
EXTENDS SessionService

CONSTANTS c1, c2

\* Every second user prompt belongs to another client.
MCOwner == [u \in Users |-> IF u = CHOOSE v \in Users : TRUE THEN c1 ELSE c2]

==============================================================================
