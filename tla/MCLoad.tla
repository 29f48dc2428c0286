------------------------------- MODULE MCLoad -------------------------------
(* Loading a session for TLC; the instances are in the .cfg files.         *)
EXTENDS SessionLoad
=============================================================================
