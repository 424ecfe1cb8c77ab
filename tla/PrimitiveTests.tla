--------------------------- MODULE PrimitiveTests ---------------------------
(***************************************************************************)
(* The suite primitives.ts: a value of each primitive type goes to disk    *)
(* and comes back, in every place that can hold one.  A test is named      *)
(* after the line it begins at.                                            *)
(***************************************************************************)
EXTENDS Programs

Big == "90071992547409919007199254740991"

Bound(v) == Across(<<>>, v, <<>>)

InDictionary(v) ==
  Across(<<Make("dictionary", "it", <<>>), Put("it", "Hello", v)>>, "it",
         <<Holds("it", "Hello" :> v)>>)

InList(v) ==
  Across(<<Make("list", "it", <<>>), Put("it", 1, v)>>, "it", <<Holds("it", <<v>>)>>)

\* A Struct or an Entity.
InFields(kind, v) ==
  Across(<<Make(kind, "it", "Hello" :> v)>>, "it", <<Holds("it", "Hello" :> v)>>)

ValueInFuture(v) ==
  Across(<<Settled("it", "Fulfilled", v)>>, "it", <<Outcome("it", "Fulfilled", v)>>)

\* The reason of a Method that throws, kept by allSettled until the other input settles.
ThrownAcross(v) ==
  LET methods == "resolver" :> Returns(Undefined) @@ "thrower" :> Throws(v)
  IN <<Session(methods, <<WithResolvers("future"), Try("thrower", "tried", <<>>),
                          Combine("allSettled", "all", <<"tried", "future">>),
                          Then("all", "next", "resolver", None)>>),
       Session(methods, <<ById("Fulfilled", "future", Undefined), Called("resolver", <<"all.list">>),
                          Holds("all.next1.entry", [status |-> "rejected", reason |-> v])>>)>>

\* describe undefined.
UndefinedKept ==
  "primitives:21" :> Bound(Undefined)
    @@ "primitives:59" :> InDictionary(Undefined)
    @@ "primitives:107" :> InFields("struct", Undefined)
UndefinedListed ==
  "primitives:158" :> InList(Undefined) @@ "primitives:201" :> InFields("entity", Undefined)
UndefinedSettled ==
  "primitives:267" :> ValueInFuture(Undefined) @@ "primitives:310" :> ThrownAcross(Undefined)

\* describe null.
NullKept ==
  "primitives:371" :> Bound("null")
    @@ "primitives:409" :> InDictionary("null")
    @@ "primitives:457" :> InFields("struct", "null")
NullListed ==
  "primitives:508" :> InList("null") @@ "primitives:550" :> InFields("entity", "null")
NullSettled ==
  "primitives:616" :> ValueInFuture("null") @@ "primitives:658" :> ThrownAcross("null")

\* describe boolean.
BooleanKept ==
  "primitives:719" :> Bound("true")
    @@ "primitives:757" :> InDictionary("true")
    @@ "primitives:805" :> InFields("struct", "true")
BooleanListed ==
  "primitives:856" :> InList("true") @@ "primitives:898" :> InFields("entity", "true")
BooleanSettled ==
  "primitives:964" :> ValueInFuture("true") @@ "primitives:1006" :> ThrownAcross("false")

\* describe number.
NumberKept ==
  "primitives:1067" :> Bound("123")
    @@ "primitives:1107" :> InDictionary("123")
    @@ "primitives:1157" :> InFields("struct", "123")
NumberListed ==
  "primitives:1210" :> InList("123") @@ "primitives:1254" :> InFields("entity", "123")
NumberSettled == "primitives:1321" :> ValueInFuture("123")

\* describe bigint.
BigintKept ==
  "primitives:1367" :> Bound(Big)
    @@ "primitives:1407" :> InDictionary(Big)
    @@ "primitives:1457" :> InFields("struct", Big)
BigintListed ==
  "primitives:1510" :> InList(Big) @@ "primitives:1554" :> InFields("entity", Big)
BigintSettled == "primitives:1621" :> ValueInFuture(Big)

\* describe string.
StringKept ==
  "primitives:1667" :> Bound("Hello world!")
    @@ "primitives:1707" :> InDictionary("Hello world!")
    @@ "primitives:1757" :> InFields("struct", "Hello world!")
StringListed ==
  "primitives:1810" :> InList("Hello world!") @@ "primitives:1854" :> InFields("entity", "Hello world!")
StringSettled == "primitives:1921" :> ValueInFuture("123")

PrimitiveSuite ==
  UndefinedKept @@ UndefinedListed @@ UndefinedSettled
    @@ NullKept @@ NullListed @@ NullSettled
    @@ BooleanKept @@ BooleanListed @@ BooleanSettled
    @@ NumberKept @@ NumberListed @@ NumberSettled
    @@ BigintKept @@ BigintListed @@ BigintSettled
    @@ StringKept @@ StringListed @@ StringSettled
=============================================================================
