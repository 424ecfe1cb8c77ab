-------------------------- MODULE MCSystemGaps --------------------------
(***************************************************************************)
(* Two programs that no suite has: a Future of an earlier session that is  *)
(* resolved by its id with a promise that settles later, and an iterable   *)
(* that throws after it yielded a Pending Future.                          *)
(***************************************************************************)
EXTENDS System

Promised ==
  "a promise by id" :>
    <<Session(Records("method"),
              <<WithResolvers("future"), ThenDo("future", "next", "method")>>),
      Session(Records("method"),
              <<NewPromise("promise"), ById("Fulfilled", "future", "promise"), Flushed,
                SettlePromise("promise", "Fulfilled", "result"), Called("method", <<"result">>)>>)>>

Uncounted ==
  "all of an iterable that throws" :>
    <<Session(NoMethods,
              <<WithResolvers("future"), CombineThrows("all", "all", <<"future">>, "reason"),
                Flushed, Outcome("all", "Rejected", "reason")>>)>>

MCTests == Promised @@ Uncounted
=============================================================================
