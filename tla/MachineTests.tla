---------------------------- MODULE MachineTests ----------------------------
(***************************************************************************)
(* The suite future_machine.ts: race, all, any and allSettled, in one      *)
(* session and across sessions.  A test is named after the line it begins  *)
(* at.  Left out: what may be called before and after build, and the names *)
(* of Methods and Entities (module Sessions); tests that count microtasks; *)
(* combinators called by the iterable of another one.                      *)
(***************************************************************************)
EXTENDS Programs

----------------------------------------------------------------------------
(* MethodMachine and FutureMachine, general. *)

General ==
  "machine:38" :> Across(<<>>, "methodMachine", <<>>)
    @@ "machine:121" :>
           <<Session(Records("nextFinally") @@ Records("thunk") @@ Records("thrower")
                       @@ Records("onFinally")
                       @@ Records("afterFinally"),
                     <<WithResolvers("f"), Finally("f", "g1", "onFinally"),
                       ThenDo("g1", "g2", "afterFinally"), CallResolve("f", "1234"),
                       Called("onFinally", <<>>), Called("afterFinally", <<"1234">>),
                       NotCalled("nextFinally"), NotCalled("thunk"), NotCalled("thrower")>>)>>

OneCall(step) == <<Session(Records("method"), <<step>>)>>

FutureMachineGeneral ==
  "machine:327" :> Across(<<>>, "futures", <<>>)
    @@ "machine:367" :> <<Session(NoMethods, Create("f", <<>>, None))>>
    @@ "machine:377" :> OneCall(WithResolvers("f"))
    @@ "machine:387" :> OneCall(ById("Fulfilled", "", Undefined))
    @@ "machine:396" :> OneCall(ById("Rejected", "", Undefined))
    @@ "machine:406" :> OneCall(Settled("f", "Fulfilled", Undefined))
    @@ "machine:416" :> OneCall(Settled("f", "Rejected", Undefined))
    @@ "machine:426" :> OneCall(Try("method", "f", <<>>))

----------------------------------------------------------------------------
(* race and any. *)

TwoFutures == <<WithResolvers("f1"), WithResolvers("f2")>>

\* The second of two Futures settles first.
SecondFirst(kind, values, end, type) ==
  Once(NoMethods,
       TwoFutures \o <<Combine(kind, "g", values), end[2], end[1], Outcome("g", type, "4312")>>)
SecondResolves(kind, one) ==
  SecondFirst(kind, <<"f1", "f2">>, <<CallResolve("f1", one), CallResolve("f2", "4312")>>, "Fulfilled")

\* A Future "f2" that has settled, or a plain value, comes before one that settles later.
FirstIsPending(kind, type, v, values, rest, end) ==
  Once(NoMethods,
       <<WithResolvers("f1"), Settled("f2", type, v)>> \o rest
         \o <<Combine(kind, "g", values), end, Outcome("g", IF type = "Rejected" THEN type ELSE "Fulfilled", "4312")>>)
SettledBeforePending(kind) ==
  FirstIsPending(kind, "Fulfilled", "4312", <<"f1", "f2", "true">>, <<>>, CallResolve("f1", "Hello"))
ValueBeforePending(kind) ==
  FirstIsPending(kind, "Fulfilled", "true", <<"f1", "4312", "f2">>, <<>>, CallResolve("f1", "Hello"))

\* The iterable throws before it yields a value.
IterableThrows(kind, thrown, v, seen) ==
  Once(NoMethods, <<CombineThrows(kind, "g", <<>>, thrown), Outcome("g", "Rejected", v)>> \o seen)
ThrowsValue(kind) == IterableThrows(kind, "4312", "4312", <<>>)
ThrowsForeignValue(kind) ==
  IterableThrows(kind, Foreign, "g.exception", <<Holds("g.exception", [name |-> "SerializableException"])>>)

\* The first of two Futures settles first, in the second session.
FirstAcross(kind) ==
  <<Session(Records("method"),
            TwoFutures \o <<Combine(kind, "g", <<"f1", "f2">>), ThenDo("g", "next", "method")>>),
    Session(Records("method"),
            <<ById("Fulfilled", "f1", "4312"), ById("Fulfilled", "f2", "Hello"),
              Called("method", <<"4312">>), IsEmpty>>)>>

\* A PromiseLike takes two microtasks more than a Future.
PendingPromise(kind) ==
  Once(NoMethods,
       <<NewPromise("p"), WithResolvers("f2"), Combine(kind, "g", <<"p", "f2">>), CallResolve("f2", "4312"),
         SettlePromise("p", "Fulfilled", "Hello"), Outcome("g", "Fulfilled", "4312")>>)

RaceResolves ==
  "machine:439" :> SecondResolves("race", "Hello")
    @@ "machine:463" :> SettledBeforePending("race")
    @@ "machine:485" :> ValueBeforePending("race")
    @@ "machine:507" :>
           SecondFirst("race", <<"f1", "f2">>,
                       <<CallReject("f1", "Hello"), CallReject("f2", "4312")>>, "Rejected")
    @@ "machine:531" :>
           FirstIsPending("race", "Rejected", "4312", <<"f1", "f2", "p">>,
                          <<NewPromise("p"), SettlePromise("p", "Fulfilled", "true")>>,
                          CallResolve("f1", "Hello"))
    @@ "machine:553" :> SecondResolves("race", "9999")
    @@ "machine:582" :> ThrowsValue("race")

RaceThrows ==
  "machine:605" :> ThrowsForeignValue("race")
    @@ "machine:663" :> FirstAcross("race")
    @@ "machine:713" :> PendingPromise("race")

AnyResolves ==
  "machine:1051" :> SecondResolves("any", "Hello")
    @@ "machine:1075" :> SettledBeforePending("any")
    @@ "machine:1097" :> ValueBeforePending("any")
    @@ "machine:1119" :>
           Once(NoMethods,
                TwoFutures
                  \o <<Combine("any", "g", <<"f1", "f2">>), CallReject("f1", "Hello"),
                       CallResolve("f2", "4312"), Outcome("g", "Fulfilled", "4312")>>)
    @@ "machine:1143" :>
           Once(NoMethods,
                TwoFutures
                  \o <<Combine("any", "g", <<"f1", "f2">>), CallReject("f2", "Hello"),
                       CallReject("f1", "4312"), Outcome("g", "Rejected", "g.exception"),
                       Holds("g.list", <<"4312", "Hello">>)>>)

\* Both Futures are rejected: the AggregateException lists their reasons in order.
AnyOfTwo == TwoFutures \o <<Combine("any", "g", <<"f1", "f2">>), Catch("g", "next", "onException")>>
HoldsReasons ==
  <<Holds("g.exception", [name |-> "AggregateException", errors |-> "g.list"]),
    Holds("g.list", <<"4312", "Hello">>), IsEmpty>>

AnyRejects ==
  "machine:1170" :> 
    LET methods == Records("onException")
    IN <<Session(methods, AnyOfTwo),
         Session(methods, <<ById("Rejected", "f2", "Hello")>>),
         Session(methods, <<ById("Rejected", "f1", "4312"), Called("onException", <<"g.exception">>)>>
                            \o HoldsReasons)>>

AggregateExceptionAcross ==
  "machine:1235" :> 
    LET methods == Records("onException")
    IN <<Session(methods,
                 AnyOfTwo \o <<CallReject("f2", "Hello"), CallReject("f1", "4312"), WithResolvers("f3"),
                               Called("onException", <<"g.exception">>),
                               Bind("onException", "bound", <<"g.exception">>), ThenDo("f3", "after", "bound")>>),
         Session(methods,
                 <<ById("Fulfilled", "f3", Undefined), Called("onException", <<"g.exception", Undefined>>)>>
                   \o HoldsReasons)>>

AnyOfNone ==
  Once(NoMethods,
       <<Combine("any", "g", <<>>), Outcome("g", "Rejected", "g.exception"), Holds("g.list", <<>>)>>)

AnyThrows ==
  "machine:1292" :> SecondResolves("any", "9999")
    @@ "machine:1321" :> ThrowsValue("any")
    @@ "machine:1344" :> ThrowsForeignValue("any")

AnyAcross ==
  "machine:1401" :> FirstAcross("any")
    @@ "machine:1450" :> PendingPromise("any")
    @@ "machine:1508" :> AnyOfNone
    @@ "machine:1527" :> AnyOfNone

----------------------------------------------------------------------------
(* all. *)

\* The result lists the values in the order of the inputs, whatever settles first.
AllOf(steps, values, ends) ==
  Once(NoMethods,
       steps \o <<Combine("all", "g", values)>> \o ends
         \o <<Outcome("g", "Fulfilled", "g.list"), Holds("g.list", <<"Hello", "1234">>)>>)
AllOfTwo(steps, one, end) == AllOf(steps, <<one, "f2">>, <<CallResolve("f2", "1234")>> \o end)
NothingToSettle(kind) ==
  Once(NoMethods, <<Combine(kind, "g", <<>>), Outcome("g", "Fulfilled", "g.list"), Holds("g.list", <<>>)>>)

AllResolves ==
  "machine:772" :> AllOfTwo(TwoFutures, "f1", <<CallResolve("f1", "Hello")>>)
    @@ "machine:801" :> AllOfTwo(TwoFutures, "f1", <<CallResolve("f1", "Hello")>>)
    @@ "machine:825" :>
           Once(NoMethods,
                TwoFutures
                  \o <<Combine("all", "g", <<"f1", "f2">>), CallResolve("f2", "4321"),
                       CallReject("f1", "1234"), Outcome("g", "Rejected", "1234")>>)
    @@ "machine:849" :> AllOfTwo(<<WithResolvers("f2")>>, "Hello", <<>>)
    @@ "machine:870" :> ThrowsValue("all")
    @@ "machine:893" :> ThrowsForeignValue("all")

AllAcross ==
  "machine:950" :>
      <<Session(Records("method"),
                TwoFutures
                  \o <<Combine("all", "g", <<"f1", "f2">>), ThenDo("g", "next", "method")>>),
        Session(Records("method"), <<ById("Fulfilled", "f2", "1234")>>),
        Session(Records("method"),
                <<ById("Fulfilled", "f1", "Hello"), Called("method", <<"g.list">>),
                  Holds("g.list", <<"Hello", "1234">>), IsEmpty>>)>>
    @@ "machine:1010" :>
           AllOfTwo(<<NewPromise("p"), WithResolvers("f2")>>, "p",
                    <<SettlePromise("p", "Fulfilled", "Hello")>>)
    @@ "machine:1033" :> NothingToSettle("all")

----------------------------------------------------------------------------
(* allSettled. *)

SettledEntries == <<"g.next1.entry", "g.next2.entry">>
FulfilledEntry(v) == [status |-> "fulfilled", value |-> v]
RejectedEntry(v) == [status |-> "rejected", reason |-> v]

\* The result says of each input how it settled: the second is rejected, and settles first.
HoldsOutcomes(first) ==
  <<Holds("g.list", SettledEntries), Holds("g.next1.entry", first),
    Holds("g.next2.entry", RejectedEntry("1234"))>>
AllSettledOf(steps, one, end, first) ==
  Once(NoMethods,
       steps \o <<Combine("allSettled", "g", <<one, "f2">>), CallReject("f2", "1234")>> \o end
         \o <<Outcome("g", "Fulfilled", "g.list")>> \o HoldsOutcomes(first))
HelloFulfilled(steps, one, end) == AllSettledOf(steps, one, end, FulfilledEntry("Hello"))

AllSettledResolves ==
  "machine:1555" :> HelloFulfilled(TwoFutures, "f1", <<CallResolve("f1", "Hello")>>)
    @@ "machine:1590" :> HelloFulfilled(TwoFutures, "f1", <<CallResolve("f1", "Hello")>>)
    @@ "machine:1620" :> HelloFulfilled(<<WithResolvers("f2")>>, "Hello", <<>>)
    @@ "machine:1647" :> ThrowsValue("allSettled")
    @@ "machine:1670" :> ThrowsForeignValue("allSettled")

AllSettledAcross ==
  "machine:1727" :>
      <<Session(Records("method"),
                TwoFutures
                  \o <<Combine("allSettled", "g", <<"f1", "f2">>), ThenDo("g", "next", "method")>>),
        Session(Records("method"),
                <<ById("Rejected", "f2", "1234"), ById("Fulfilled", "f1", "Hello"),
                  Called("method", <<"g.list">>)>>
                  \o HoldsOutcomes(FulfilledEntry("Hello"))
                  \o <<IsEmpty>>)>>
    @@ "machine:1790" :>
           HelloFulfilled(<<NewPromise("p"), WithResolvers("f2")>>, "p",
                          <<SettlePromise("p", "Fulfilled", "Hello")>>)
    @@ "machine:1825" :>
           AllSettledOf(<<NewPromise("p"), WithResolvers("f2")>>, "p",
                        <<SettlePromise("p", "Rejected", "1234")>>, RejectedEntry("1234"))
    @@ "machine:1860" :> NothingToSettle("allSettled")

AllSettledPersists ==
  "machine:1876" :>
      <<Session(Records("method"),
                TwoFutures
                  \o <<Combine("allSettled", "g", <<"f1", "f2">>), CallReject("f2", "1234"),
                       CallResolve("f1", "Hello"), ThenDo("g", "next", "method"),
                       WithResolvers("f3"), Called("method", <<"g.list">>),
                       Bind("method", "bound", <<"g.list">>), ThenDo("f3", "after", "bound")>>),
        Session(Records("method"),
                <<ById("Fulfilled", "f3", Undefined), Called("method", <<"g.list", Undefined>>)>>
                  \o HoldsOutcomes(FulfilledEntry("Hello"))
                  \o <<IsEmpty>>)>>
    @@ "machine:1946" :>
           <<Session(Records("getter") @@ Records("holder"),
                     <<WithResolvers("f1"), Combine("allSettled", "g", <<"f1">>),
                       CallResolve("f1", "Hello"), ThenDo("g", "next", "getter"),
                       WithResolvers("f3"), Called("getter", <<"g.list">>),
                       Bind("holder", "bound", <<"g.next1.entry">>),
                       ThenDo("f3", "after", "bound")>>),
             Session(Records("getter") @@ Records("holder"),
                     <<ById("Fulfilled", "f3", Undefined),
                       Called("holder", <<"g.next1.entry", Undefined>>),
                       Holds("g.next1.entry", FulfilledEntry("Hello")), IsEmpty>>)>>

AllSettledContainers ==
  "machine:2020" :> 
    LET inputs == <<"f1", "f2", "f3", "f4">>
        containers == <<"dictionary", "list", "struct", "entity">>
        entries == [i \in DOMAIN inputs |-> "g.next" \o ToString(i) \o ".entry"]
    IN <<Session(Records("method"),
                 <<WithResolvers("future")>> \o [i \in DOMAIN inputs |-> WithResolvers(inputs[i])]
                   \o <<Combine("allSettled", "g", inputs), Make("dictionary", "dictionary", <<>>),
                        MakeList("list", <<"hello", "world">>),
                        Make("struct", "struct", [A |-> Undefined, B |-> "123"]),
                        Make("entity", "entity", [Hello |-> Undefined, World |-> "4321"])>>
                   \o [i \in DOMAIN inputs |-> CallResolve(inputs[i], containers[i])]
                   \o <<Put("dictionary", "World", "1234"), Put("struct", "A", "true"), Put("entity", "Hello", "1234"),
                        ThenDo("g", "next", "method"), Called("method", <<"g.list">>),
                        Bind("method", "bound", <<"g.list">>), ThenDo("future", "after", "bound")>>),
         Session(Records("method"),
                 <<ById("Fulfilled", "future", "World"), Called("method", <<"g.list", "World">>), Holds("g.list", entries)>>
                   \o [i \in DOMAIN inputs |-> Holds(entries[i], FulfilledEntry(containers[i]))]
                   \o <<Holds("dictionary", [World |-> "1234"]), Holds("list", <<"hello", "world">>),
                        Holds("struct", [A |-> "true", B |-> "123"]),
                        Holds("entity", [Hello |-> "1234", World |-> "4321"])>>)>>

MachineSuite ==
  General @@ FutureMachineGeneral @@ RaceResolves @@ RaceThrows @@ AnyResolves @@
    AnyRejects @@ AggregateExceptionAcross @@ AnyThrows @@ AnyAcross @@ AllResolves @@
    AllAcross @@ AllSettledResolves @@ AllSettledAcross @@ AllSettledPersists @@
    AllSettledContainers
=============================================================================
