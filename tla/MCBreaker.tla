----------------------------- MODULE MCBreaker -----------------------------
(* The circuit breaker for TLC; the instance is in the .cfg.               *)
EXTENDS CircuitBreaker
=============================================================================
