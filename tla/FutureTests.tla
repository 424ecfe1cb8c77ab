---------------------------- MODULE FutureTests ----------------------------
(***************************************************************************)
(* The suite future.ts: how Futures settle, in one session and across      *)
(* sessions.  A test is named after the line it begins at.  Left out: the  *)
(* tests of the identity of promises, and what a test says of stacks.      *)
(***************************************************************************)
EXTENDS Programs

----------------------------------------------------------------------------
(* describe resolve. *)

TwoMethods == Records("method1") @@ Records("method2")

ResolveRuns ==
  "future:27" :>
      Once("method1" :> Returns("1") @@ Records("method2"),
           <<WithResolvers("f"), ThenDo("f", "g1", "method1"), ThenDo("g1", "g2", "method2"),
             CallResolve("f", "Hello"), Called("method1", <<"Hello">>),
             Called("method2", <<"1">>)>>)
    @@ "future:59" :>
           Once(Records("method"),
                <<WithResolvers("f"), Catch("f", "g", "method"), CallResolve("f", "f"),
                  Called("method", <<"f.exception">>),
                  Holds("f.exception", [name |-> "TypeException"])>>)
    @@ "future:80" :>
           Once(Records("method"),
                <<WithResolvers("f"), ThenDo("f", "g", "method"), CallResolve("f", "1"),
                  CallResolve("f", "2"), Called("method", <<"1">>)>>)
    @@ "future:102" :>
           Once(Records("method"),
                <<WithResolvers("f"), Catch("f", "g1", "method"), ThenDo("f", "g2", "method"),
                  CallReject("f", "1"), CallResolve("f", "2"), Called("method", <<"1">>)>>)
    @@ "future:128" :>
           <<Session(Records("method"), <<WithResolvers("f"), ThenDo("f", "g", "method")>>),
             Session(Records("method"),
                     <<ById("Fulfilled", "f", "hello"), Called("method", <<"hello">>), IsEmpty>>)>>

NextUnwraps ==
  "future:172" :>
      Once(Records("method"),
           <<WithResolvers("f1"), ThenDo("f1", "g", "method"), WithResolvers("f2"),
             CallResolve("f1", "f2"), CallResolve("f2", "2222"), Called("method", <<"2222">>)>>)
    @@ "future:200" :>
           Once("futureReturningMethod" :> Runs(<<WithResolvers("inner")>>, "inner")
                  @@ Records("method"),
                <<WithResolvers("f1"), Bind("futureReturningMethod", "bound", <<"futures">>),
                  ThenDo("f1", "g1", "bound"), ThenDo("g1", "g2", "method"),
                  CallResolve("f1", Undefined),
                  Called("futureReturningMethod", <<"futures", Undefined>>),
                  CallResolve("inner", "2222"), Called("method", <<"2222">>)>>)
    @@ "future:238" :>
           Once(Records("method"),
                <<WithResolvers("f"), CallResolve("f", "2222"), ThenDo("f", "g", "method"),
                  Called("method", <<"2222">>)>>)
    @@ "future:262" :>
           Once(TwoMethods,
                <<WithResolvers("f"), WithResolvers("other1"), WithResolvers("other2"),
                  CallResolve("f", "2222"), CallResolve("other1", "f"),
                  CallResolve("other2", "f"), ThenDo("other1", "g1", "method1"),
                  ThenDo("other2", "g2", "method2"), Called("method1", <<"2222">>),
                  Called("method2", <<"2222">>)>>)

ResolveWithFuture ==
  "future:300" :>
      Once(Records("method"),
           <<WithResolvers("f1"), WithResolvers("f2"), CallResolve("f2", "f1"),
             ThenDo("f2", "g", "method"), CallResolve("f1", "2222"),
             Called("method", <<"2222">>)>>)
    @@ "future:329" :>
           Once(Records("method"),
                <<WithResolvers("f1"), WithResolvers("f2"), CallResolve("f1", "2222"),
                  CallResolve("f2", "f1"), ThenDo("f2", "g", "method"),
                  Called("method", <<"2222">>)>>)
    @@ "future:358" :>
           Once(TwoMethods,
                <<WithResolvers("f1"), ThenDo("f1", "g1", "method1"), WithResolvers("f2"),
                  ThenDo("f2", "g2", "method2"), CallResolve("f2", "f1"),
                  CallResolve("f1", "2222"), Called("method1", <<"2222">>),
                  Called("method2", <<"2222">>)>>)
    @@ "future:393" :>
           Once("method1" :> Returns("1") @@ Records("method2"),
                <<WithResolvers("f"), ThenDo("f", "f2", "method1"), CallResolve("f", "Hello"),
                  Flushed, ThenDo("f2", "g", "method2"), Called("method1", <<"Hello">>),
                  Called("method2", <<"1">>)>>)

MakeException == Make("entity", "exception", [name |-> "Exception"])

OnFulfilledThrows ==
  "future:430" :>
      Once(Records("method"),
           <<WithResolvers("f"), CallResolve("f", Undefined), ThenDo("f", "g", "method"),
             Called("method", <<Undefined>>)>>)
    @@ "future:455" :>
           Once("throw" :> Throws("$1") @@ Records("catch"),
                <<MakeException, WithResolvers("f"), Bind("throw", "bound", <<"exception">>),
                  ThenDo("f", "g1", "bound"), Catch("g1", "g2", "catch"), CallResolve("f", "3"),
                  Called("catch", <<"exception">>)>>)
    @@ "future:491" :>
           Once("throw" :> Throws("$1") @@ Records("catch"),
                <<MakeException, WithResolvers("f"), CallResolve("f", "3"),
                  Bind("throw", "bound", <<"exception">>), ThenDo("f", "g1", "bound"),
                  Catch("g1", "g2", "catch"), Called("catch", <<"exception">>)>>)
    @@ "future:527" :>
           Once(Records("method"),
                <<WithResolvers("f"), Pass("f", "g1"), ThenDo("g1", "g2", "method"),
                  CallResolve("f", "Hello"), Called("method", <<"Hello">>)>>)
    @@ "future:552" :>
           Once(Records("method"),
                <<WithResolvers("f"), CallResolve("f", "Hello"), Pass("f", "g1"),
                  ThenDo("g1", "g2", "method"), Called("method", <<"Hello">>)>>)

\* futures.resolve of a Future is that Future.
NextOfResolve ==
  "future:577" :>
      Once(Records("method"),
           <<WithResolvers("f1"), WithResolvers("f2"), CallResolve("f1", "Hello"),
             CallResolve("f2", "f1"), ThenDo("f2", "g", "method"), Called("method", <<"Hello">>)>>)
    @@ "future:606" :>
           Once(Records("method"),
                <<Settled("f", "Fulfilled", "2222"), ThenDo("f", "g", "method"),
                  Called("method", <<"2222">>)>>)
    @@ "future:626" :>
           Once(NoMethods,
                <<Settled("f", "Fulfilled", Undefined), Outcome("f", "Fulfilled", Undefined)>>)
    @@ "future:643" :>
           Once(Records("method"),
                <<WithResolvers("f"), ThenDo("f", "g", "method"), CallResolve("f", "2222"),
                  Called("method", <<"2222">>)>>)
    @@ "future:666" :>
           Once(Records("method"),
                <<NewPromise("p"), Settled("f", "Fulfilled", "p"), ThenDo("f", "g", "method"),
                  SettlePromise("p", "Fulfilled", "2222"), Called("method", <<"2222">>)>>)

TryAndCatch ==
  "future:689" :>
      Once("tryMethod" :> Returns("$1") @@ Records("result"),
           <<Try("tryMethod", "f", <<"2222">>), ThenDo("f", "g", "result"),
             Called("result", <<"2222">>)>>)
    @@ "future:713" :>
           Once("tryMethod" :> Runs(<<MakeList("both", <<"$1", "$2">>)>>, "both")
                  @@ Records("result"),
                <<Try("tryMethod", "f", <<"2222", "Hello">>), ThenDo("f", "g", "result"),
                  Called("result", <<"both">>), Holds("both", <<"2222", "Hello">>)>>)
    @@ "future:741" :>
           Once("method" :> Runs(<<Push("results", <<"$1", "$2">>)>>, "$2") @@ Records("result"),
                <<MakeList("results", <<>>), WithResolvers("f1"),
                  Bind("method", "f1.next", <<"f1.next">>), ThenDo("f1", "g1", "f1.next"),
                  Bind("method", "f1.catch", <<"f1.catch">>), Catch("f1", "f2", "f1.catch"),
                  Bind("method", "f2.next", <<"f2.next">>),
                  Bind("method", "f2.catch", <<"f2.catch">>),
                  Then("f2", "g2", "f2.next", "f2.catch"), ThenDo("g2", "g3", "result"),
                  CallResolve("f1", "Hello"), Called("result", <<"Hello">>),
                  Holds("results", <<"f1.next", "Hello", "f2.next", "Hello">>)>>)
    @@ "future:780" :>
           Once("futureReturningMethod" :> Returns("p") @@ Records("method"),
                <<NewPromise("p"), WithResolvers("f1"),
                  ThenDo("f1", "g1", "futureReturningMethod"), ThenDo("g1", "g2", "method"),
                  CallResolve("f1", Undefined), Called("futureReturningMethod", <<Undefined>>),
                  SettlePromise("p", "Fulfilled", "2222"), Called("method", <<"2222">>)>>)

NextUnwrapsPromise ==
  "future:821" :>
      Once("futureReturningMethod" :> Runs(<<NewPromise("p")>>, "p") @@ Records("method"),
           <<WithResolvers("f1"), WithResolvers("f2"),
             ThenDo("f1", "g1", "futureReturningMethod"), ThenDo("g1", "g2", "method"),
             CallResolve("f1", Undefined), Called("futureReturningMethod", <<Undefined>>),
             SettlePromise("p", "Fulfilled", "f2"), CallResolve("f2", "2222"),
             Called("method", <<"2222">>)>>)
    @@ "future:866" :>
           Once(Records("afterFinally") @@ Records("onFinally"),
                <<WithResolvers("f"), Finally("f", "g1", "onFinally"),
                  ThenDo("g1", "g2", "afterFinally"), CallResolve("f", "2222"),
                  Called("onFinally", <<>>), Called("afterFinally", <<"2222">>)>>)
    @@ "future:900" :> 
    LET methods == Records("method") @@ Records("onFinally")
         IN <<Session(methods, <<WithResolvers("f"), Finally("f", "g1", "onFinally"), ThenDo("g1", "g2", "method")>>),
              Session(methods, <<ById("Fulfilled", "f", "2222"), Called("onFinally", <<>>),
                                 Called("method", <<"2222">>), IsEmpty>>)>>

FinallyWaits ==
  "future:959" :>
      Once("onFinally" :> Runs(<<Push("results", <<"onFinally">>), WithResolvers("inner")>>,
                               "inner")
             @@ "afterFinally" :> Runs(<<Push("results", <<"afterFinally", "$1">>)>>, Undefined),
           <<MakeList("results", <<>>), WithResolvers("f"),
             Bind("onFinally", "bound", <<"futures">>), Finally("f", "g1", "bound"),
             ThenDo("g1", "g2", "afterFinally"), CallResolve("f", "2222"),
             Called("onFinally", <<"futures">>), CallResolve("inner", "Hello world."),
             Holds("results", <<"onFinally">>), Called("afterFinally", <<"2222">>),
             Holds("results", <<"onFinally", "afterFinally", "2222">>)>>)
    @@ "future:1007" :>
           Once("onFinally" :> Runs(<<Push("$1", <<"onFinally">>), NewPromise("inner")>>, "inner")
                  @@ "afterFinally" :> Runs(<<Push("$1", <<"afterFinally", "$2">>)>>, Undefined),
                <<MakeList("results", <<>>), WithResolvers("f"),
                  Bind("onFinally", "bound1", <<"results">>), Finally("f", "g1", "bound1"),
                  Bind("afterFinally", "bound2", <<"results">>), ThenDo("g1", "g2", "bound2"),
                  CallResolve("f", "2222"), Called("onFinally", <<"results">>),
                  SettlePromise("inner", "Fulfilled", "Hello world."),
                  Holds("results", <<"onFinally">>),
                  Called("afterFinally", <<"results", "2222">>),
                  Holds("results", <<"onFinally", "afterFinally", "2222">>)>>)
    @@ "future:1065" :>
           Once(Records("afterFinally"),
                <<WithResolvers("f"), Pass("f", "g1"), ThenDo("g1", "g2", "afterFinally"),
                  CallResolve("f", "2222"), Called("afterFinally", <<"2222">>)>>)

GetPromise ==
  "future:1089" :>
      Once(NoMethods,
           <<WithResolvers("f"), CallResolve("f", "Hello"), Outcome("f", "Fulfilled", "Hello")>>)
    @@ "future:1112" :>
           Once(NoMethods,
                <<WithResolvers("f"), CallResolve("f", "Hello"),
                  Outcome("f", "Fulfilled", "Hello")>>)

\* The holders of the Future "held", and the n-th of them called.
Holder(id, bound, next) ==
  <<WithResolvers(id), Bind("method", bound, <<"exception", "held">>), ThenDo(id, next, bound)>>
HolderCalled(id, n) == <<ById("Fulfilled", id, Undefined), CalledTimes("method", n)>>
AnyFutureObject ==
  "future:1135" :> 
    LET seen == <<Outcome("held", "Fulfilled", "Hello")>>
    IN <<Session(Records("method"),
                 <<MakeException, WithResolvers("held")>>
                   \o Holder("f1", "bound1", "g1") \o Holder("f2", "bound2", "g2")
                   \o Holder("f3", "bound3", "g3") \o Holder("f4", "bound4", "g4")),
         Session(Records("method"),
                 HolderCalled("f1", 1) \o HolderCalled("f2", 2)
                   \o <<ById("Fulfilled", "held", "Hello")>> \o seen
                   \o HolderCalled("f3", 3) \o seen \o HolderCalled("f4", 4) \o seen)>>

\* Whatever comes second has no effect, in this session and in the next.
SecondIgnored(first, second, type) ==
  Once(NoMethods, <<WithResolvers("f"), first, second, Outcome("f", type, "4312")>>)
SecondIgnoredAcross(first, second, next) ==
  <<Session(Records("method"), <<WithResolvers("f"), next>>),
    Session(Records("method"), <<first, second, Called("method", <<"4312">>), IsEmpty>>)>>

\* Nor what comes while the Future waits for the one it was resolved with.
LockedIgnores(second) ==
  Once(NoMethods, <<WithResolvers("f1"), WithResolvers("f2"), CallResolve("f1", "f2"), second,
                    CallResolve("f2", "4312"), Outcome("f1", "Fulfilled", "4312")>>)
LockedIgnoresAcross(second) ==
  <<Session(Records("method"), <<WithResolvers("f1"), WithResolvers("f2"), ThenDo("f1", "g", "method"),
                                 CallResolve("f1", "f2")>>),
    Session(Records("method"), <<second>>),
    Session(Records("method"), <<ById("Fulfilled", "f2", "4312"), Called("method", <<"4312">>), IsEmpty>>)>>
LockedByPromiseIgnores(second) ==
  Once(NoMethods, <<NewPromise("p"), WithResolvers("f"), CallResolve("f", "p"), second,
                    SettlePromise("p", "Fulfilled", "4312"), Outcome("f", "Fulfilled", "4312")>>)

SettledOnce ==
  "future:1272" :> SecondIgnored(CallResolve("f", "4312"), CallResolve("f", "123"), "Fulfilled")
    @@ "future:1292" :>
           SecondIgnoredAcross(ById("Fulfilled", "f", "4312"), ById("Fulfilled", "f", "123"),
                               ThenDo("f", "g", "method"))
    @@ "future:1332" :>
           SecondIgnored(CallResolve("f", "4312"), CallReject("f", "123"), "Fulfilled")
    @@ "future:1352" :>
           SecondIgnoredAcross(ById("Fulfilled", "f", "4312"), ById("Rejected", "f", "123"),
                               ThenDo("f", "g", "method"))

LockedOnce ==
  "future:1392" :> LockedIgnores(CallResolve("f1", "123"))
    @@ "future:1415" :> LockedIgnoresAcross(ById("Fulfilled", "f1", "123"))
    @@ "future:1471" :> LockedByPromiseIgnores(CallResolve("f", "123"))
    @@ "future:1494" :> LockedIgnores(CallReject("f1", "123"))

LockedNotRejected ==
  "future:1521" :> LockedIgnoresAcross(ById("Rejected", "f1", "123"))
    @@ "future:1577" :> LockedByPromiseIgnores(CallReject("f", "123"))
    @@ "future:1604" :>
           Once(NoMethods,
                <<WithResolvers("f1"), WithResolvers("f2"), ThenDo("f1", "g", "f2.resolve"),
                  CallResolve("f1", "Hello"), Outcome("f2", "Fulfilled", "Hello")>>)
    @@ "future:1626" :>
           Once(NoMethods,
                <<WithResolvers("f1"), WithResolvers("f2"), Catch("f1", "g", "f2.resolve"),
                  CallReject("f1", "Hello"), Outcome("f2", "Fulfilled", "Hello")>>)

ResolveAcross ==
  "future:1649" :>
      Once(NoMethods,
           <<WithResolvers("f1")>> \o Create("f2", <<CallResolve("f2", "f1")>>, "error")
             \o <<CallResolve("f1", "1234"), Outcome("f2", "Fulfilled", "1234")>>)
    @@ "future:1673" :>
           Once(NoMethods,
                <<WithResolvers("f1"), WithResolvers("f2"), CallResolve("f1", "f2"),
                  CallResolve("f1", "f1"), CallResolve("f2", "1234"),
                  Outcome("f1", "Fulfilled", "1234")>>)
    @@ "future:1695" :>
           <<Session(Records("method"),
                     <<WithResolvers("f1"), WithResolvers("f2"), ThenDo("f2", "g", "method"),
                       CallResolve("f2", "f1")>>),
             Session(Records("method"),
                     <<ById("Fulfilled", "f1", "4312"), Called("method", <<"4312">>), IsEmpty>>)>>

ResolverAcross ==
  "future:1736" :> 
    LET methods == Records("method") @@ Records("holder")
        held == "held.resolve"
    IN <<Session(methods, <<WithResolvers("held"), WithResolvers("holding1"), ThenDo("held", "g1", "method"),
                            Bind("holder", "bound1", <<held>>), ThenDo("holding1", "g2", "bound1")>>),
         Session(methods, <<WithResolvers("result"), WithResolvers("holding2"),
                            ById("Fulfilled", "holding1", Undefined), Called("holder", <<held, Undefined>>),
                            CallResolve("held", "result"), Bind("holder", "bound2", <<held>>),
                            ThenDo("holding2", "g3", "bound2")>>),
         Session(methods, <<ById("Fulfilled", "holding2", Undefined), Called("holder", <<held, Undefined>>),
                            CallResolve("held", "9898"), ById("Fulfilled", "result", "4312"),
                            Called("method", <<"4312">>), IsEmpty>>)>>

\* The Future that `steps` make comes back.
SameFuture(steps) ==
  <<Session(Records("holder"),
            <<WithResolvers("holding")>> \o steps
              \o <<Bind("holder", "bound", <<"f">>), ThenDo("holding", "next", "bound"),
                   ById("Fulfilled", "holding", Undefined), Called("holder", <<"f", Undefined>>),
                   Is("future", "f")>>)>>
SameFutures ==
  "future:1824" :> SameFuture(Create("f", <<>>, None))
    @@ "future:1852" :> SameFuture(<<WithResolvers("f")>>)
    @@ "future:1880" :> SameFuture(<<WithResolvers("first"), Pass("first", "f")>>)
    @@ "future:1909" :> SameFuture(<<Settled("f", "Fulfilled", "1")>>)

----------------------------------------------------------------------------
(* describe reject. *)

RejectRuns ==
  "future:1939" :>
      Once("method1" :> Returns("1") @@ Records("method2"),
           <<WithResolvers("f"), Catch("f", "g1", "method1"), ThenDo("g1", "g2", "method2"),
             CallReject("f", "Hello"), Called("method1", <<"Hello">>),
             Called("method2", <<"1">>)>>)
    @@ "future:1971" :>
           Once(Records("method"),
                <<WithResolvers("f"), Catch("f", "g", "method"), CallReject("f", "1"),
                  CallReject("f", "2"), Called("method", <<"1">>)>>)
    @@ "future:1993" :>
           Once(Records("method"),
                <<WithResolvers("f"), Catch("f", "g1", "method"), ThenDo("f", "g2", "method"),
                  CallResolve("f", "1"), CallReject("f", "2"), Called("method", <<"1">>)>>)
    @@ "future:2116" :>
           <<Session(Records("method"), <<WithResolvers("f"), Catch("f", "g", "method")>>),
             Session(Records("method"),
                     <<ById("Rejected", "f", "hello"), Called("method", <<"hello">>), IsEmpty>>)>>

\* The Future "f" ends rejected with an Exception of the library.
RejectedForeign(methods, steps) ==
  Once(methods, steps \o <<Outcome("f", "Rejected", "f.exception"),
                           Holds("f.exception", [name |-> "SerializableException"])>>)
ForeignThrown ==
  RejectedForeign("thrower" :> Throws(Foreign),
                  <<WithResolvers("g"), ThenDo("g", "f", "thrower"), CallResolve("g", Undefined)>>)

ThrowsForeign ==
  "future:2019" :> ForeignThrown
    @@ "future:2054" :> ForeignThrown
    @@ "future:2085" :> ForeignThrown

CatchWorks ==
  "future:2161" :>
      Once(Records("method"),
           <<WithResolvers("f"), CallReject("f", "2222"), Catch("f", "g", "method"),
             Called("method", <<"2222">>)>>)
    @@ "future:2185" :>
           Once(Records("method"),
                <<MakeException>> \o Create("f", <<>>, "exception")
                  \o <<Catch("f", "g", "method"), Called("method", <<"exception">>)>>)
    @@ "future:2209" :> RejectedForeign(NoMethods, Create("f", <<>>, Foreign))
    @@ "future:2231" :>
           <<Session(NoMethods,
                     Create("outer", Create("f", <<>>, Foreign), None)
                       \o <<Outcome("f", "Rejected", "f.exception")>>)>>
    @@ "future:2256" :>
           Once(TwoMethods,
                <<WithResolvers("f1"), ThenDo("f1", "f2", "method1"), CallReject("f1", "Hello"),
                  Flushed, Catch("f2", "g", "method2"), Called("method2", <<"Hello">>)>>)

CatchForwards ==
  "future:2287" :>
      Once(Records("method"),
           <<WithResolvers("f"), Pass("f", "g1"), Catch("g1", "g2", "method"),
             CallReject("f", "Hello"), Called("method", <<"Hello">>)>>)
    @@ "future:2312" :>
           Once(Records("method"),
                <<WithResolvers("f"), CallReject("f", "Hello"), Pass("f", "g1"),
                  Catch("g1", "g2", "method"), Called("method", <<"Hello">>)>>)
    @@ "future:2337" :>
           Once(Records("method"),
                <<WithResolvers("f1"), WithResolvers("f2"), CallReject("f1", "Hello"),
                  CallResolve("f2", "f1"), Catch("f2", "g", "method"),
                  Called("method", <<"Hello">>)>>)
    @@ "future:2366" :>
           Once(Records("method"),
                <<WithResolvers("f"), Then("f", "g", None, "method"), CallReject("f", "Hello"),
                  Called("method", <<"Hello">>)>>)

OnRejectedThrows ==
  "future:2391" :>
      Once("throw" :> Throws("$1") @@ Records("catch"),
           <<MakeException, WithResolvers("f"), Bind("throw", "bound", <<"exception">>),
             Catch("f", "g1", "bound"), Catch("g1", "g2", "catch"), CallReject("f", "3"),
             Called("catch", <<"exception">>)>>)
    @@ "future:2427" :>
           Once("throw" :> Throws("$1") @@ Records("catch"),
                <<MakeException, WithResolvers("f"), CallReject("f", "3"),
                  Bind("throw", "bound", <<"exception">>), Catch("f", "g1", "bound"),
                  Catch("g1", "g2", "catch"), Called("catch", <<"exception">>)>>)
    @@ "future:2463" :>
           Once(Records("method"),
                <<Settled("f", "Rejected", "2222"), Catch("f", "g", "method"),
                  Called("method", <<"2222">>)>>)
    @@ "future:2483" :>
           <<Session(Records("method"),
                     <<Settled("f", "Fulfilled", "true"), Finally("f", "g", "method")>>)>>
    @@ "future:2495" :>
           Once(NoMethods,
                <<Settled("f", "Rejected", Undefined), Outcome("f", "Rejected", Undefined)>>)

TryThrows ==
  "future:2512" :>
      Once("futureReturningMethod" :> Runs(<<WithResolvers("inner")>>, "inner")
             @@ Records("method"),
           <<WithResolvers("f1"), Bind("futureReturningMethod", "bound", <<"futures">>),
             Catch("f1", "g1", "bound"), ThenDo("g1", "g2", "method"),
             CallReject("f1", Undefined),
             Called("futureReturningMethod", <<"futures", Undefined>>),
             CallResolve("inner", "2222"), Called("method", <<"2222">>)>>)
    @@ "future:2550" :>
           Once("tryMethod" :> Throws("$1") @@ Records("result"),
                <<Try("tryMethod", "f", <<"2222">>), Catch("f", "g", "result"),
                  Called("result", <<"2222">>)>>)
    @@ "future:2577" :>
           RejectedForeign("tryMethod" :> Throws(Foreign), <<Try("tryMethod", "f", <<>>)>>)
    @@ "future:2606" :>
           RejectedForeign("throwMethod" :> Throws(Foreign)
                             @@ "tryMethod" :> Runs(<<Try("throwMethod", "f", <<>>)>>, Undefined),
                           <<Try("tryMethod", "outer", <<>>)>>)
    @@ "future:2635" :>
           Once("tryMethod" :> Throws("$1") @@ Records("result"),
                <<Try("tryMethod", "f", <<"2222", "Hello">>), Catch("f", "g", "result"),
                  Called("result", <<"2222">>)>>)

\* A step `of` the chain that says that it was called.
Says(of) == Bind("method", of, <<"results", of>>)

RejectOrder ==
  "future:2665" :>
      Once("method" :> Runs(<<Push("$1", <<"$2", "$3">>)>>, "$3") @@ Records("result"),
           <<MakeList("results", <<>>), WithResolvers("f1"), Says("f1.next"),
             ThenDo("f1", "f2", "f1.next"), Says("f1.catch"), Catch("f1", "g1", "f1.catch"),
             Says("f2.next"), ThenDo("f2", "f3", "f2.next"), Says("f3.catch"),
             Catch("f3", "f4", "f3.catch"), ThenDo("f4", "g2", "result"), Says("f2.catch"),
             Catch("f2", "g3", "f2.catch"), CallReject("f1", "Hello"),
             Called("result", <<"Hello">>),
             Holds("results", <<"f1.catch", "Hello", "f2.catch", "Hello", "f3.catch", "Hello">>)>>)
    @@ "future:2709" :>
           Once(Records("afterFinally") @@ Records("onFinally"),
                <<WithResolvers("f"), Finally("f", "g1", "onFinally"),
                  Catch("g1", "g2", "afterFinally"), CallReject("f", "2222"),
                  Called("onFinally", <<>>), Called("afterFinally", <<"2222">>)>>)
    @@ "future:2743" :>
           Once(Records("afterFinally"),
                <<WithResolvers("f"), Pass("f", "g1"), Catch("g1", "g2", "afterFinally"),
                  CallReject("f", "2222"), Called("afterFinally", <<"2222">>)>>)

RejectedPromise ==
  "future:2767" :>
      Once(NoMethods,
           <<WithResolvers("f"), CallReject("f", "Hello"), Outcome("f", "Rejected", "Hello")>>)
    @@ "future:2790" :>
           Once(NoMethods,
                <<WithResolvers("f"), CallReject("f", "Hello"),
                  Outcome("f", "Rejected", "Hello")>>)
    @@ "future:2813" :>
           Once(NoMethods,
                <<BrokenPromise("p", "Hello"), WithResolvers("f"), CallResolve("f", "p"),
                  Outcome("f", "Rejected", "Hello")>>)
    @@ "future:2844" :>
           RejectedForeign(NoMethods,
                           <<BrokenPromise("p", Foreign), WithResolvers("f"),
                             CallResolve("f", "p")>>)

MethodGone ==
  "future:2875" :>
      <<Session(Records("My Method") @@ Records("catcher"),
                <<WithResolvers("f"), ThenDo("f", "g1", "My Method"),
                  Catch("g1", "g2", "catcher")>>),
        Session(Records("catcher"),
                <<ById("Fulfilled", "f", "hello"), Called("catcher", <<"g1.exception">>),
                  IsEmpty>>)>>
    @@ "future:2915" :> 
    LET methods == "caller" :> Calls("$1") @@ Records("catcher")
    IN <<Session(methods @@ Records("Bound Method"),
                 <<WithResolvers("f"), Bind("caller", "bound", <<"Bound Method">>),
                   ThenDo("f", "g1", "bound"), Catch("g1", "g2", "catcher")>>),
         Session(methods,
                 <<ById("Fulfilled", "f", Undefined), Called("catcher", <<"g1.exception">>), IsEmpty>>)>>

RejectedOnce ==
  "future:2966" :> SecondIgnored(CallReject("f", "4312"), CallReject("f", "123"), "Rejected")
    @@ "future:2986" :>
           SecondIgnoredAcross(ById("Rejected", "f", "4312"), ById("Rejected", "f", "123"),
                               Catch("f", "g", "method"))
    @@ "future:3026" :>
           SecondIgnored(CallReject("f", "4312"), CallResolve("f", "123"), "Rejected")
    @@ "future:3046" :>
           SecondIgnoredAcross(ById("Rejected", "f", "4312"), ById("Fulfilled", "f", "123"),
                               Catch("f", "g", "method"))
    @@ "future:3086" :>
           Once(NoMethods,
                <<WithResolvers("f1"), WithResolvers("f2"), ThenDo("f1", "g", "f2.reject"),
                  CallResolve("f1", "Hello"), Outcome("f2", "Rejected", "Hello")>>)
    @@ "future:3108" :>
           Once(NoMethods,
                <<WithResolvers("f1"), WithResolvers("f2"), Catch("f1", "g", "f2.reject"),
                  CallReject("f1", "Hello"), Outcome("f2", "Rejected", "Hello")>>)

\* A rejected Future "f" that `steps` make comes back with its reason.
RejectedAcross(steps, v, seen) == Across(steps, "f", <<Outcome("f", "Rejected", v)>> \o seen)
WithMethods(program, methods) ==
  [n \in DOMAIN program |-> [program[n] EXCEPT !.methods = @ @@ methods]]
\* So does one that a Method "thrower" rejected.
ThrownFuture(steps, v, seen) ==
  WithMethods(RejectedAcross(steps, v, seen), "thrower" :> Throws("$1"))
MakeDictionary == Make("dictionary", "dictionary", [Hello |-> "1234"])
HoldsDictionary == Holds("dictionary", [Hello |-> "1234"])

RejectedHolds ==
  "future:3130" :> RejectedAcross(<<Settled("f", "Rejected", "123")>>, "123", <<>>)
    @@ "future:3171" :>
           ThrownFuture(<<MakeDictionary, Settled("g", "Fulfilled", "dictionary"),
                          ThenDo("g", "f", "thrower")>>, "dictionary", <<HoldsDictionary>>)

RejectedHoldsContainer ==
  "future:3239" :>
      RejectedAcross(<<MakeDictionary, Settled("f", "Rejected", "dictionary")>>, "dictionary",
                     <<HoldsDictionary>>)
    @@ "future:3294" :>
           ThrownFuture(<<MakeDictionary, Try("thrower", "f", <<"dictionary">>)>>, "dictionary",
                        <<HoldsDictionary>>)

RejectedHoldsFuture ==
  "future:3362" :>
      ThrownFuture(<<Settled("g", "Fulfilled", "futures"), ThenDo("g", "f", "thrower")>>,
                   "futures", <<>>)
    @@ "future:3416" :>
           RejectedAcross(<<Settled("inner", "Fulfilled", "1"),
                            Settled("f", "Rejected", "inner")>>, "inner",
                          <<Is("future", "inner"), Outcome("inner", "Fulfilled", "1")>>)

RejectedHoldsMethod ==
  "future:3464" :>
      WithMethods(RejectedAcross(<<Bind("thunk", "bound thunk", <<"1">>),
                                   Settled("f", "Rejected", "bound thunk")>>, "bound thunk",
                                 <<Is("method", "bound thunk"), CallReturns("bound thunk", "1")>>),
                  "thunk" :> Returns("$1"))
    @@ "future:3516" :> SameFuture(<<Settled("f", "Rejected", Undefined)>>)

FutureSuite ==
  ResolveRuns @@ NextUnwraps @@ ResolveWithFuture @@ OnFulfilledThrows @@ NextOfResolve @@
    TryAndCatch @@ NextUnwrapsPromise @@ FinallyWaits @@ GetPromise @@ AnyFutureObject @@
    SettledOnce @@ LockedOnce @@ LockedNotRejected @@ ResolveAcross @@ ResolverAcross @@
    SameFutures @@ RejectRuns @@ ThrowsForeign @@ CatchWorks @@ CatchForwards @@
    OnRejectedThrows @@ TryThrows @@ RejectOrder @@ RejectedPromise @@ MethodGone @@
    RejectedOnce @@ RejectedHolds @@ RejectedHoldsContainer @@ RejectedHoldsFuture @@
    RejectedHoldsMethod
=============================================================================
