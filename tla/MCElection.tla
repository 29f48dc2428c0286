----------------------------- MODULE MCElection -----------------------------
(* Leader election for TLC; the instances are in the .cfg files.           *)
EXTENDS LeaderElection
=============================================================================
