---------------------------- MODULE MCSqlObjects ----------------------------
(* Instances of SqlObjects for TLC: the bounds are all there is to choose. *)
EXTENDS SqlObjects
=============================================================================
