------------------------- MODULE MCConformance -------------------------
(***************************************************************************)
(* The conformance suites and the tests of the SQLite store, as programs   *)
(* for the whole system, and programs of three sessions, that no suite has.*)
(***************************************************************************)
EXTENDS System, FutureTests, MachineTests, MethodTests, ExceptionTests,
        ContainerTests, PrimitiveTests, StoreTests

FirstAndSecond == <<WithResolvers("first"), WithResolvers("second")>>

ThreeSessions ==
  "three sessions: a settled Future is rejected by its id" :>
    <<Session(Records("method"),
              FirstAndSecond \o <<Bind("method", "bound", <<"first">>), ThenDo("second", "next", "bound")>>),
      Session(NoMethods, <<ById("Fulfilled", "first", "value"), Flushed>>),
      Session(Records("method"),
              <<ById("Rejected", "first", "reason"), ById("Fulfilled", "second", "result"),
                Called("method", <<"first", "result">>), Outcome("first", "Fulfilled", "value")>>)>>
  @@ "three sessions: a locked Future is rejected by its id" :>
    <<Session(Records("method"),
              FirstAndSecond \o <<ThenDo("first", "next", "method"), CallResolve("first", "second")>>),
      Session(NoMethods, <<ById("Rejected", "first", "reason"), Flushed>>),
      Session(Records("method"),
              <<ById("Fulfilled", "second", "result"), Called("method", <<"result">>)>>)>>
  @@ "three sessions: all" :>
    <<Session(Records("method"),
              FirstAndSecond \o <<Combine("all", "all", <<"first", "second">>), ThenDo("all", "next", "method")>>),
      Session(NoMethods, <<ById("Fulfilled", "second", "b"), Flushed>>),
      Session(Records("method"),
              <<ById("Fulfilled", "first", "a"), Called("method", <<"all.list">>),
                Holds("all.list", <<"a", "b">>)>>)>>
  @@ "three sessions: allSettled" :>
    <<Session(Records("method"),
              FirstAndSecond \o <<Combine("allSettled", "all", <<"first", "second">>),
                        ThenDo("all", "next", "method")>>),
      Session(NoMethods, <<ById("Rejected", "first", "a"), Flushed>>),
      Session(Records("method"),
              <<ById("Fulfilled", "second", "b"), Called("method", <<"all.list">>),
                Holds("all.list", <<"all.next1.entry", "all.next2.entry">>),
                Holds("all.next1.entry", [status |-> "rejected", reason |-> "a"]),
                Holds("all.next2.entry", [status |-> "fulfilled", value |-> "b"])>>)>>
  @@ "three sessions: any" :>
    <<Session(Records("method"),
              FirstAndSecond \o <<Combine("any", "any", <<"first", "second">>), Catch("any", "next", "method")>>),
      Session(NoMethods, <<ById("Rejected", "first", "a"), Flushed>>),
      Session(Records("method"),
              <<ById("Rejected", "second", "b"), Called("method", <<"any.exception">>),
                Holds("any.list", <<"a", "b">>)>>)>>

MCTests ==
  FutureSuite @@ MachineSuite @@ MethodSuite @@ ExceptionSuite @@ ContainerSuite @@ PrimitiveSuite
    @@ StoreSuite @@ ThreeSessions
=============================================================================
