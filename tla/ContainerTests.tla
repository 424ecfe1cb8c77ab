--------------------------- MODULE ContainerTests ---------------------------
(***************************************************************************)
(* The suite container.ts: what Dictionaries, Structs, Lists and Entities  *)
(* hold survives the session, wherever they are held themselves.  A test   *)
(* is named after the line it begins at.  That an object that comes back   *)
(* is the same JavaScript object is module WeakCache's subject; here it is *)
(* the same by its name.                                                   *)
(***************************************************************************)
EXTENDS Programs

\* Bound to a Method that reads the slot `key`, which `put` writes before the call.
BoundHere(make, put, key, v) ==
  <<Session("method" :> ReturnsSlot(key),
            <<make, WithResolvers("future"), Bind("method", "bound", <<"it">>),
              Then("future", "value", "bound", None), put, Call("future.resolve", <<"key">>),
              Outcome("value", "Fulfilled", v)>>)>>

HoldsFuture(steps, key) ==
  Across(<<Settled("held", "Fulfilled", "4321")>> \o steps, "it",
         <<Holds("it", key :> "held"), Outcome("held", "Fulfilled", "4321")>>)

HoldsMethod(steps, key) ==
  LET methods == Records("holder") @@ "thunk" :> Returns("$1")
  IN <<Session(methods, <<WithResolvers("future"), Bind("thunk", "held", <<"4321">>)>> \o steps
                          \o <<Bind("holder", "bound", <<"it">>), Then("future", "next", "bound", None)>>),
       Session(methods, <<ById("Fulfilled", "future", Undefined), Called("holder", <<"it", Undefined>>),
                          Holds("it", key :> "held"), CallReturns("held", "4321")>>)>>

\* Held by a Future, which comes back with it.
InFuture(steps, slots) ==
  Across(steps \o <<Settled("resolved", "Fulfilled", "it")>>, "resolved",
         <<Outcome("resolved", "Fulfilled", "it"), Holds("it", slots)>>)

\* Two inputs of a combinator get the containers "first" and "second", each in a session
\* of its own: `one` and `two` make them, `fill1` and `fill2` change them afterwards, and
\* `seen` is what they hold in the end.
Two(one, fill1, two, fill2, seen) ==
  [one |-> one, fill1 |-> fill1, two |-> two, fill2 |-> fill2, seen |-> seen]

Aggregated(kind, type, result, list, c) ==
  LET next == IF kind = "any" THEN Then("all", "next", None, "method")
                              ELSE Then("all", "next", "method", None)
  IN <<Session(Records("method"), <<WithResolvers("future1"), WithResolvers("future2"),
                                    Combine(kind, "all", <<"future1", "future2">>), next>>),
       Session(Records("method"), <<c.two, ById(type, "future2", "second")>> \o c.fill2),
       Session(Records("method"), <<c.one, ById(type, "future1", "first")>> \o c.fill1
                                    \o <<Called("method", <<result>>)>> \o list \o c.seen)>>

InAll(containers) ==
  Aggregated("all", "Fulfilled", "all.list",
             <<Holds("all.list", <<"first", "second">>)>>, containers)

Entry(o) == [status |-> "fulfilled", value |-> o]
InAllSettled(containers) ==
  Aggregated("allSettled", "Fulfilled", "all.list",
             <<Holds("all.list", <<"all.next1.entry", "all.next2.entry">>),
               Holds("all.next1.entry", Entry("first")), Holds("all.next2.entry", Entry("second"))>>,
             containers)

InAny(containers) ==
  Aggregated("any", "Rejected", "all.exception",
             <<Holds("all.exception", [name |-> "AggregateException", errors |-> "all.list"]),
               Holds("all.list", <<"first", "second">>)>>, containers)

\* Changed by a Method in one session, read by another in the next.
Updated(make, key, v, slots) ==
  LET methods == Records("method") @@ "updateMethod" :> Runs(<<Put("$1", key, "$3")>>, Undefined)
  IN <<Session(methods, <<WithResolvers("future1"), WithResolvers("future2"), make,
                          Bind("method", "bound1", <<"it">>), Then("future1", "next1", "bound1", None),
                          Bind("updateMethod", "bound2", <<"it", key>>),
                          Then("future2", "next2", "bound2", None)>>),
       Session(methods, <<ById("Fulfilled", "future2", v)>>),
       Session(methods, <<ById("Fulfilled", "future1", key), Called("method", <<"it", key>>),
                          Holds("it", slots)>>)>>

\* One container of each kind, and what they hold in the end.
MakeEntries ==
  <<Make("dictionary", "dictionary", <<>>), MakeList("list", <<"hello", "world">>),
    Make("struct", "struct", [A |-> Undefined, B |-> "123"])>>
FillEntries == <<Put("dictionary", "World", "1234"), Put("struct", "A", "true")>>
HoldsEntries ==
  <<Holds("dictionary", [World |-> "1234"]), Holds("list", <<"hello", "world">>),
    Holds("struct", [A |-> "true", B |-> "123"])>>
EntriesAcross(first, second) ==
  AcrossWith("World", first \o FillEntries \o <<Put("entity", "Hello", "1234")>>, "it",
             second \o HoldsEntries \o <<Holds("entity", [Hello |-> "1234", World |-> "4321"])>>)
MakeEntity == Make("entity", "entity", [Hello |-> Undefined, World |-> "4321"])
AllEntries == [Dict |-> "dictionary", List |-> "list", Struct |-> "struct", Entity |-> "entity"]
HoldsAll == Holds("it", AllEntries)

\* The same object comes back in the session that put it in.
SameInstance(steps, key) ==
  <<Session(Records("holder") @@ Records("method"),
            <<WithResolvers("future")>> \o steps
              \o <<Bind("holder", "bound", <<"it">>), Then("future", "next", "bound", None),
                   ById("Fulfilled", "future", Undefined), Called("holder", <<"it", Undefined>>),
                   Holds("it", key :> "held")>>)>>
HeldMethod == Bind("method", "held", <<"1">>)
HeldFuture == WithResolvers("held")
HeldEntity == Make("entity", "held", <<>>)
HeldList == MakeList("held", <<>>)
HeldStruct == Make("struct", "held", [num |-> "1"])
HeldDictionary == Make("dictionary", "held", <<>>)

----------------------------------------------------------------------------
(* describe Dictionary. *)

EmptyDictionary(o) == Make("dictionary", o, <<>>)
DictionaryWith(o, key, v) == <<EmptyDictionary(o), Put(o, key, v)>>
HelloDictionary == DictionaryWith("it", "Hello", "1234")
Fill1 == <<Put("first", "Hello", "1234"), Put("first", "World", "4321")>>
Fill2 == <<Put("second", "Fizz", "111")>>
HoldsFilled == <<Holds("first", [Hello |-> "1234", World |-> "4321"]), Holds("second", [Fizz |-> "111"])>>

DictionaryBound ==
  "container:914" :> BoundHere(EmptyDictionary("it"), Put("it", "Hello", "1234"), "Hello", "1234")
    @@ "container:946" :> AcrossWith("Hello", HelloDictionary, "it", <<Holds("it", [Hello |-> "1234"])>>)
    @@ "container:996" :> HoldsFuture(DictionaryWith("it", "Hello", "held"), "Hello")

DictionarySame ==
  "container:1049" :> SameInstance(<<HeldMethod>> \o DictionaryWith("it", "key", "held"), "key")
    @@ "container:1082" :> SameInstance(<<HeldFuture>> \o DictionaryWith("it", "key", "held"), "key")
    @@ "container:1113" :> SameInstance(<<HeldEntity>> \o DictionaryWith("it", "key", "held"), "key")
    @@ "container:1155" :> SameInstance(<<HeldList>> \o DictionaryWith("it", "key", "held"), "key")

DictionarySameNested ==
  "container:1186" :> SameInstance(<<HeldStruct>> \o DictionaryWith("it", "key", "held"), "key")
    @@ "container:1218" :> SameInstance(<<HeldDictionary>> \o DictionaryWith("it", "key", "held"), "key")
    @@ "container:1249" :> HoldsMethod(DictionaryWith("it", "Hello", "held"), "Hello")

TwoDictionaries ==
  Two(EmptyDictionary("first"), Fill1, EmptyDictionary("second"), Fill2, HoldsFilled)

DictionaryInAll ==
  "container:1313" :> InFuture(HelloDictionary, [Hello |-> "1234"])
    @@ "container:1363" :> InAll(TwoDictionaries)

DictionaryInAllSettled ==
  "container:1438" :> InAllSettled(TwoDictionaries)

DictionaryInAny ==
  "container:1524" :> InAny(TwoDictionaries)
    @@ "container:1602" :> Updated(EmptyDictionary("it"), "Hello", "1234", [Hello |-> "1234"])

DictionaryOfContainers ==
  "container:1674" :> EntriesAcross(
         <<EmptyDictionary("it")>> \o MakeEntries
           \o <<MakeEntity, Put("it", "Dict", "dictionary"), Put("it", "List", "list"),
                Put("it", "Struct", "struct"), Put("it", "Entity", "entity")>>, <<HoldsAll>>)

DictionaryOfItself ==
  "container:1842" :> Across(DictionaryWith("it", "number", "1234") \o <<Put("it", "dict", "it")>>, "it",
              <<Holds("it", [number |-> "1234", dict |-> "it"])>>)

----------------------------------------------------------------------------
(* describe Struct. *)

Pair(kind, o, hello, world) == Make(kind, o, [Hello |-> hello, World |-> world])
HalfPair(kind, o) == Pair(kind, o, Undefined, "4321")
StructWith(key) == <<Make("struct", "it", key :> "held")>>

\* Of Structs and of Entities: the second keeps a slot that is undefined.
FillFirst == <<Put("first", "Hello", "1234")>>
HoldsPairs ==
  <<Holds("first", [Hello |-> "1234", World |-> "4321"]),
    Holds("second", [Hello |-> Undefined, World |-> "111"])>>

StructBound ==
  "container:2114" :> BoundHere(HalfPair("struct", "it"), Put("it", "Hello", "1234"), "Hello", "1234")
    @@ "container:2153" :> AcrossWith("World", <<HalfPair("struct", "it")>>, "it",
                  <<Holds("it", [Hello |-> Undefined, World |-> "4321"])>>)
    @@ "container:2209" :> HoldsFuture(StructWith("Hello"), "Hello")

StructSame ==
  "container:2265" :> SameInstance(<<HeldMethod>> \o StructWith("boundMethod"), "boundMethod")
    @@ "container:2300" :> SameInstance(<<HeldFuture>> \o StructWith("future"), "future")
    @@ "container:2333" :> SameInstance(<<HeldEntity>> \o StructWith("test"), "test")
    @@ "container:2377" :> SameInstance(<<HeldList>> \o StructWith("list"), "list")

StructSameNested ==
  "container:2410" :> SameInstance(<<HeldStruct>> \o StructWith("value"), "value")
    @@ "container:2443" :> SameInstance(<<HeldDictionary>> \o StructWith("value"), "value")
    @@ "container:2474" :> HoldsMethod(StructWith("Hello"), "Hello")

TwoStructs ==
  Two(HalfPair("struct", "first"), FillFirst, Pair("struct", "second", Undefined, "111"), <<>>, HoldsPairs)

StructInAll ==
  "container:2541" :> InFuture(<<HalfPair("struct", "it")>>, [Hello |-> Undefined, World |-> "4321"])
    @@ "container:2598" :> InAll(TwoStructs)

StructInAllSettled ==
  "container:2679" :> InAllSettled(TwoStructs)

StructInAny ==
  "container:2771" :> InAny(TwoStructs)

StructUpdated ==
  "container:2854" :> Updated(HalfPair("struct", "it"), "Hello", "1234",
                               [Hello |-> "1234", World |-> "4321"])

StructOfContainers ==
  "container:2940" :> EntriesAcross(
         MakeEntries \o <<MakeEntity, Make("struct", "it", AllEntries)>>, <<HoldsAll>>)

StructOfItself ==
  "container:3105" :> Across(<<Make("struct", "it", [Hello |-> Undefined]), Put("it", "Hello", "it")>>, "it",
              <<Holds("it", [Hello |-> "it"])>>)

----------------------------------------------------------------------------
(* describe List. *)

Elements == <<"1234", "88", "438", "574">>
FillList1 == <<Push("first", Elements)>>
Elements2 == <<"55", "33", "2929", "4023", "7">>
HoldsLists == <<Holds("first", Elements), Holds("second", Elements2)>>
ListOf(v) == <<MakeList("it", <<v>>)>>

ListBound ==
  "container:3330" :> BoundHere(MakeList("it", <<>>), Push("it", Elements), 3, "438")
    @@ "container:3361" :> AcrossWith("2", <<MakeList("it", <<>>), Push("it", Elements)>>,
                             "it", <<Holds("it", Elements)>>)
    @@ "container:3411" :> HoldsFuture(ListOf("held"), 1)

ListSame ==
  "container:3462" :> SameInstance(<<HeldMethod>> \o ListOf("held"), 1)
    @@ "container:3495" :> SameInstance(<<HeldFuture>> \o ListOf("held"), 1)
    @@ "container:3526" :> SameInstance(<<HeldEntity>> \o ListOf("held"), 1)
    @@ "container:3568" :> SameInstance(<<HeldList>> \o ListOf("held"), 1)

ListSameNested ==
  "container:3599" :> SameInstance(<<HeldStruct>> \o ListOf("held"), 1)
    @@ "container:3632" :> SameInstance(<<HeldDictionary>> \o ListOf("held"), 1)
    @@ "container:3663" :> HoldsMethod(ListOf("held"), 1)

TwoLists ==
  Two(MakeList("first", <<>>), FillList1, MakeList("second", <<>>), <<Push("second", Elements2)>>, HoldsLists)

ListInAll ==
  "container:3725" :> InFuture(<<MakeList("it", <<>>), Push("it", Elements)>>, Elements)
    @@ "container:3774" :> InAll(TwoLists)

ListInAggregates ==
  "container:3843" :> InAllSettled(TwoLists)
    @@ "container:3917" :> InAny(TwoLists)

ListOfContainers ==
  "container:3989" :> EntriesAcross(
         <<MakeList("it", <<>>)>> \o MakeEntries
           \o <<MakeEntity, Push("it", <<"dictionary", "list", "struct", "entity">>)>>,
         <<Holds("it", <<"dictionary", "list", "struct", "entity">>)>>)

ListOfItself ==
  "container:4143" :> Across(<<MakeList("it", <<>>), Push("it", <<"it">>)>>, "it", <<Holds("it", <<"it">>)>>)

----------------------------------------------------------------------------
(* describe Entity. *)

EntityWith(key) == <<Make("entity", "it", key :> "held")>>
SwitchedEntity == <<Pair("entity", "it", "true", "4321"), Put("it", "Hello", "false")>>
Switched == [Hello |-> "false", World |-> "4321"]

EntityBoundHere ==
  "container:4348" :> BoundHere(Pair("entity", "it", "1234", "4321"), Put("it", "Hello", "1234"),
                                 "Hello", "1234")

EntityBound ==
  "container:4420" :> 
        <<Session(Records("method"),
                  <<WithResolvers("future"), Pair("entity", "it", "true", "4321"),
                    Bind("method", "bound", <<"it">>), Then("future", "next", "bound", None),
                    Put("it", "Hello", "false")>>),
          Session(Records("method"),
                  <<ById("Fulfilled", "future", "World"), Called("method", <<"it", "World">>),
                    Holds("it", Switched)>>)>>
    @@ "container:4515" :> HoldsFuture(EntityWith("hello"), "hello")

EntitySame ==
  "container:4590" :> SameInstance(<<HeldMethod>> \o EntityWith("boundMethod"), "boundMethod")
    @@ "container:4641" :> SameInstance(<<HeldFuture>> \o EntityWith("future"), "future")
    @@ "container:4690" :> SameInstance(<<HeldEntity>> \o EntityWith("test"), "test")

EntitySameNested ==
  "container:4746" :> SameInstance(<<HeldList>> \o EntityWith("value"), "value")
    @@ "container:4793" :> SameInstance(<<HeldStruct>> \o EntityWith("value"), "value")
    @@ "container:4842" :> SameInstance(<<HeldDictionary>> \o EntityWith("value"), "value")

EntityHoldsMethod ==
  "container:4892" :> HoldsMethod(EntityWith("hello"), "hello")
    @@ "container:4971" :> Across(<<MakeList("list", <<"441", "234", "81">>), Pair("entity", "it", "list", "4321")>>,
                             "it",
                             <<Holds("it", [Hello |-> "list", World |-> "4321"]),
                               Holds("list", <<"441", "234", "81">>)>>)

TwoEntities ==
  Two(HalfPair("entity", "first"), FillFirst, Pair("entity", "second", Undefined, "111"), <<>>, HoldsPairs)

EntityInFuture ==
  "container:5054" :> InFuture(SwitchedEntity, Switched)

EntityInAll ==
  "container:5147" :> InAll(TwoEntities)

EntityInAllSettled ==
  "container:5253" :> InAllSettled(TwoEntities)

EntityInAny ==
  "container:5364" :> InAny(TwoEntities)

\* The constructor itself goes to disk; what it makes is called "made".
Constructor == "test" :> Runs(<<Pair("entity", "made", "$1", "4321")>>, "made")
EntityConstructor ==
  "container:5474" :> 
        LET methods == Constructor @@ Records("method")
        IN <<Session(methods, <<WithResolvers("future"), Bind("method", "bound", <<"test">>),
                                Then("future", "next", "bound", None)>>),
             Session(methods, <<ById("Fulfilled", "future", Undefined),
                                Called("method", <<"test", Undefined>>), Call("test", <<"Hello world">>),
                                Holds("made", [Hello |-> "Hello world", World |-> "4321"])>>)>>

EntityUpdated ==
  "container:5571" :> Updated(Pair("entity", "it", "true", "4321"), "Hello", "false", Switched)

EntityOfContainers ==
  "container:5874" :> AcrossWith(
         "World",
         <<Make("entity", "it", [k \in {"Dict", "List", "Struct", "Entity"} |-> Undefined])>> \o MakeEntries
           \o <<Pair("entity", "entity", "1234", "4321"), Put("it", "Dict", "dictionary"),
                Put("it", "List", "list"), Put("it", "Struct", "struct"), Put("it", "Entity", "entity")>>
           \o FillEntries, "it", <<HoldsAll>> \o HoldsEntries)

EntityOfItself ==
  "container:6083" :> Across(<<Make("entity", "it", [self |-> Undefined]), Put("it", "self", "it")>>, "it",
                               <<Holds("it", [self |-> "it"])>>)

ContainerSuite ==
  DictionaryBound @@ DictionarySame @@ DictionarySameNested @@ DictionaryInAll @@
    DictionaryInAllSettled @@ DictionaryInAny @@ DictionaryOfContainers @@
    DictionaryOfItself
  @@ StructBound @@ StructSame @@ StructSameNested @@ StructInAll @@ StructInAllSettled @@
    StructInAny @@ StructUpdated @@ StructOfContainers @@ StructOfItself
  @@ ListBound @@ ListSame @@ ListSameNested @@ ListInAll @@ ListInAggregates @@
    ListOfContainers @@ ListOfItself
  @@ EntityBoundHere @@ EntityBound @@ EntitySame @@ EntitySameNested @@ EntityHoldsMethod
    @@ EntityInFuture @@ EntityInAll @@ EntityInAllSettled @@ EntityInAny @@
    EntityConstructor @@ EntityUpdated @@ EntityOfContainers @@ EntityOfItself
=============================================================================
