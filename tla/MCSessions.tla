----------------------------- MODULE MCSessions -----------------------------
(* Instances of Sessions for TLC: the names are strings, as in the code. *)
EXTENDS Sessions
=============================================================================
