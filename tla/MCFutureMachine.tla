-------------------------- MODULE MCFutureMachine --------------------------
(* Instances of FutureMachine for TLC. *)
EXTENDS FutureMachine

\* next() with no Methods, and with one Method that this session did not register.
SomeHandlers == {<<"none", "none">>, <<"method", "missing">>}
=============================================================================
