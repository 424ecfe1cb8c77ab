---------------------------- MODULE MethodTests ----------------------------
(***************************************************************************)
(* The suite method.ts: what bound Methods are called with, and the same   *)
(* Method back across sessions.  A test is named after the line it begins  *)
(* at.                                                                     *)
(***************************************************************************)
EXTENDS Programs

\* A Method that calls the Method it is bound to.
CallsItsArgument == "My Method" :> Runs(<<Call("$1", <<"$2">>)>>, Undefined) @@ Records("callback")
BindThrice ==
  <<Bind("My Method", "bound1", <<"callback">>), Bind("My Method", "bound2", <<"bound1">>),
    Bind("My Method", "bound3", <<"bound2">>)>>

BindValues ==
  "method:69" :>
      <<Session(Records("My Method"),
                <<Call("My Method", <<"1", "Hello">>), Bind("My Method", "bound", <<"2">>),
                  Call("bound", <<"world">>), Bind("bound", "full", <<"fizz">>),
                  Call("full", <<>>), Bind("My Method", "full2", <<"3", "buzz">>),
                  Call("full2", <<>>), CalledNth("My Method", 1, <<"1", "Hello">>),
                  CalledNth("My Method", 2, <<"2", "world">>),
                  CalledNth("My Method", 3, <<"2", "fizz">>),
                  CalledNth("My Method", 4, <<"3", "buzz">>)>>)>>

BindMethods ==
  "method:99" :>
      <<Session(CallsItsArgument,
                <<WithResolvers("f"), Bind("My Method", "bound", <<"callback">>),
                  ThenDo("f", "next", "bound"), CallResolve("f", "4343"),
                  Called("callback", <<"4343">>)>>)>>
    @@ "method:133" :>
           <<Session(CallsItsArgument,
                     <<WithResolvers("f")>> \o BindThrice
                       \o <<ThenDo("f", "next", "bound3"), CallResolve("f", "4343"),
                            Called("callback", <<"4343">>)>>)>>

BindMethodsAcross ==
  "method:169" :>
      <<Session(CallsItsArgument,
                <<WithResolvers("f")>> \o BindThrice \o <<ThenDo("f", "next", "bound3")>>),
        Session(CallsItsArgument,
                <<ById("Fulfilled", "f", "4343"), Called("callback", <<"4343">>)>>)>>

\* A bound Method called with more arguments than it takes.
ListsTwo(bound, v, w) ==
  <<Session("My Method" :> Runs(<<MakeList("list", <<"$1", "$2">>)>>, "list") @@ Records("method2"),
            <<WithResolvers("f"), Bind("My Method", "bound", bound), ThenDo("f", "g", "bound"),
              ThenDo("g", "next", "method2"), CallResolve("f", "Hello"), Called("method2", <<"list">>),
              Holds("list", <<v, w>>)>>)>>

NextCallsBound ==
  "method:222" :> ListsTwo(<<"1">>, "1", "Hello")
    @@ "method:246" :> ListsTwo(<<"2", "World">>, "2", "World")

\* A Method that is bound to a Future and to what waits for it.
WaitsForBound == "My Method" :> Runs(<<ThenDo("$1", "after", "$2")>>, Undefined) @@ Records("callback")
BoundFutureAcross(bound, ends) ==
  <<Session(WaitsForBound,
            <<WithResolvers("f"), bound, Bind("My Method", "bound", <<"held", "callback">>),
              ThenDo("f", "next", "bound")>>),
    Session(WaitsForBound, ends \o <<ById("Fulfilled", "f", Undefined), Called("callback", <<"4343">>)>>)>>

BindFutures ==
  "method:265" :> BoundFutureAcross(WithResolvers("held"), <<ById("Fulfilled", "held", "4343")>>)

BindSettledFutures ==
  "method:325" :> BoundFutureAcross(Settled("held", "Fulfilled", "4343"), <<>>)

\* The same Method comes back.
MethodBack(steps, m) ==
  <<Session(Records("holder") @@ Records("method"),
            <<WithResolvers("f")>> \o steps
              \o <<Bind("holder", "bound holder", <<m>>), ThenDo("f", "next", "bound holder"),
                   ById("Fulfilled", "f", Undefined), Called("holder", <<m, Undefined>>), Is("method", m)>>)>>

SameMethod ==
  "method:381" :> MethodBack(<<>>, "method")
    @@ "method:413" :> MethodBack(<<Bind("method", "bound", <<"1">>)>>, "bound")

SameMethodAcross ==
  "method:447" :> MethodBack(<<>>, "method")
    @@ "method:480" :>
           <<Session(Records("holder") @@ Records("method"),
                     <<WithResolvers("f"), Bind("holder", "bound", <<"method">>),
                       ThenDo("f", "next", "bound")>>),
             Session(Records("holder") @@ Records("method"),
                     <<ById("Fulfilled", "f", Undefined),
                       Called("holder", <<"method", Undefined>>)>>)>>

MethodSuite ==
  BindValues @@ BindMethods @@ BindMethodsAcross @@ NextCallsBound @@ BindFutures @@
    BindSettledFutures @@ SameMethod @@ SameMethodAcross
=============================================================================
