---------------------------- MODULE MCWeakCache -----------------------------
(* An instance of WeakCache for TLC: three objects are enough for two to live. *)
EXTENDS WeakCache
=============================================================================
