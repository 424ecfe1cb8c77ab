----------------------------- MODULE StoreTests -----------------------------
(***************************************************************************)
(* sql_future_database.test.ts: what a flush writes, what comes back after *)
(* a collection, and what the weak caches may let go.  A test is named     *)
(* after the line it begins at.  The sizes of the caches are module        *)
(* WeakCache's subject; forced garbage collection is one of the moments    *)
(* at which other code comes in, here a Pause.                             *)
(***************************************************************************)
EXTENDS Programs

Pause == CalledTimes("method", 0)

InvalidId == "store:28" :> <<Session(NoMethods, <<ById("Fulfilled", "nowhere", Undefined)>>)>>

FlushWritesReactions ==
  "store:43" :>
      <<Session(Records("method"),
                <<WithResolvers("f"), ThenDo("f", "next", "method"), Rows("reaction", 0),
                  Flushed, Rows("reaction", 2)>>)>>

FlushWritesStates ==
  "store:76" :>
      <<Session(NoMethods,
                <<WithResolvers("f"), Rows("future", 0), Flushed, CallResolve("f", "3"),
                  Rows("future", 1), RowSays("f", "Pending", None, TRUE), Flushed,
                  RowSays("f", "Fulfilled", "3", FALSE)>>)>>

WrittenWhenNeeded ==
  "store:132" :>
      <<Session(Records("method"),
                <<Settled("rejected", "Rejected", "123"), Rows("future", 0),
                  Bind("method", "bound", <<"rejected">>), Rows("future", 0), Flushed,
                  Rows("future", 0), WithResolvers("f"), Rows("future", 0), Flushed,
                  Rows("future", 1), ThenDo("f", "next", "bound"), Rows("future", 1), Flushed,
                  Rows("future", 3)>>)>>

\* An object is written, what refers to it settles or not, a collection comes, and
\* another Method is bound to it.
BoundAgain(methods, make, m1, m2, v, between) ==
  Session(methods,
          make \o <<WithResolvers("f1"), Bind(m1, "bound1", <<v>>), ThenDo("f1", "next1", "bound1"),
                    Flushed>>
               \o between
               \o <<Collected, WithResolvers("f2"), Bind(m2, "bound2", <<v>>),
                    ThenDo("f2", "next2", "bound2")>>)
Rewritten(make, v, seen) ==
  <<BoundAgain(Records("method"), make, "method", "method", v, <<CallResolve("f1", Undefined)>>),
    Session(Records("method"),
            <<ById("Fulfilled", "f2", Undefined), Called("method", <<v, Undefined>>)>> \o seen)>>

Numbers == <<"76", "33", "2", "49", "90">>

ObjectsRewritten ==
  "store:186" :> Rewritten(<<MakeList("list", Numbers)>>, "list", <<Holds("list", Numbers)>>)

ObjectsKept ==
  LET methods == Records("method1") @@ Records("method2")
  IN "store:246" :>
         <<BoundAgain(methods, <<MakeList("list", Numbers)>>, "method1", "method2", "list", <<>>),
           Session(methods,
                   <<ById("Fulfilled", "f1", Undefined), Called("method1", <<"list", Undefined>>),
                     Holds("list", Numbers), Put("list", 1, "0"),
                     ById("Fulfilled", "f2", Undefined), Called("method2", <<"list", Undefined>>),
                     Holds("list", <<"0", "33", "2", "49", "90">>)>>)>>

\* One bound Method for both Futures.
BoundOnce(between, after) ==
  Session(Records("method"),
          <<WithResolvers("f1"), Bind("method", "bound", <<"12">>), ThenDo("f1", "next1", "bound"),
            Flushed>> \o between
            \o <<Collected, WithResolvers("f2"), ThenDo("f2", "next2", "bound")>> \o after)

MethodsRewritten ==
  "store:325" :>
      <<BoundOnce(<<CallResolve("f1", Undefined)>>, <<>>),
        Session(Records("method"),
                <<ById("Fulfilled", "f2", Undefined), Called("method", <<"12", Undefined>>)>>)>>

MethodsKept == "store:384" :> <<BoundOnce(<<>>, <<Flushed, Rows("method", 1)>>)>>

FuturesRewritten ==
  "store:436" :> Rewritten(<<Settled("held", "Fulfilled", "12")>>, "held",
                           <<Outcome("held", "Fulfilled", "12")>>)

FuturesKept ==
  "store:495" :> Rewritten(<<WithResolvers("held")>>, "held",
                           <<ById("Fulfilled", "held", "12"), Outcome("held", "Fulfilled", "12")>>)

\* A Dictionary that was written and changed: nothing but its pending write keeps it.
ChangedObjectsStay ==
  "store:666" :>
      <<Session("method" :> ReturnsSlot("key1"),
                <<Make("dictionary", "obj", "key1" :> "2"), WithResolvers("f1"), WithResolvers("f2"),
                  Bind("method", "bound", <<"obj">>), ThenDo("f1", "next1", "bound"),
                  ThenDo("f2", "next2", "bound"), Flushed, Put("obj", "key1", "5"),
                  CallResolve("f1", Undefined), Outcome("next1", "Fulfilled", "5"), Pause,
                  ById("Fulfilled", "f2", Undefined), Outcome("next2", "Fulfilled", "5"), Flushed>>)>>

MethodsCached ==
  "store:779" :>
      <<Session(Records("method"),
                <<WithResolvers("f"), ThenDo("f", "next", "method"), Flushed, Rows("method", 1), Pause,
                  ById("Fulfilled", "f", Undefined), Called("method", <<Undefined>>)>>)>>
    @@ "store:812" :>
           <<Session(Records("method"),
                     <<WithResolvers("f"), Make("dictionary", "holder", <<>>),
                       Bind("method", "bound", <<"holder">>), Put("holder", "boundMethod", "bound"),
                       ThenDo("f", "next", "bound"), Flushed, Rows("method", 1)>>)>>

\* A reaction that is not written keeps its Future, and that its Method's argument.
UnwrittenReactionsStay ==
  "store:846" :>
      <<Session(Records("method"),
                <<WithResolvers("f"), Flushed, Make("struct", "struct1", [unique_world |-> "3"]),
                  Bind("method", "bound", <<"struct1">>), ThenDo("f", "next", "bound"), Pause,
                  ById("Fulfilled", "f", Undefined), Called("method", <<"struct1", Undefined>>),
                  Holds("struct1", [unique_world |-> "3"]), Put("struct1", "unique_world", "4"),
                  Holds("struct1", [unique_world |-> "4"])>>)>>

StoreSuite ==
  InvalidId @@ FlushWritesReactions @@ FlushWritesStates @@ WrittenWhenNeeded @@ ObjectsRewritten
    @@ ObjectsKept @@ MethodsRewritten @@ MethodsKept @@ FuturesRewritten @@ FuturesKept
    @@ ChangedObjectsStay @@ MethodsCached @@ UnwrittenReactionsStay
=============================================================================
