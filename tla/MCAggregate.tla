---------------------------- MODULE MCAggregate ----------------------------
(* Instance of Aggregate for TLC: every iterable of up to three values over two inputs. *)
EXTENDS Aggregate
=============================================================================
