---------------------------- MODULE MCThenables ----------------------------
(* Instances of Thenables for TLC. *)
EXTENDS Thenables

OneHandler == {<<"method", "none">>}
=============================================================================
