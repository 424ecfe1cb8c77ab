----------------------------- MODULE MCSqlStore -----------------------------
(* Instances of SqlStore for TLC: the bound on Futures is all there is to choose. *)
EXTENDS SqlStore
=============================================================================
