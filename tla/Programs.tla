------------------------------ MODULE Programs ------------------------------
(***************************************************************************)
(* How a test of the conformance suites is written down: a program is a    *)
(* sequence of sessions over one database; a session registers Methods and *)
(* then runs steps.  A step is one call of the public API, one wait, or    *)
(* one assertion.                                                          *)
(*                                                                         *)
(* Values, objects and Methods are all strings.  A string that a step      *)
(* creates something under is an object's name, which it keeps in later    *)
(* sessions; any other string is a plain value.  "f.resolve" and           *)
(* "f.reject" are the resolvers that come with the Future "f".             *)
(***************************************************************************)
EXTENDS Sequences, TLC

Undefined == "undefined"
Foreign == "{}"     \* a value that is not serializable
None == "none"   \* no handler, and the value of a Future that is not settled

\* `new` names what the step creates, or the slot it writes.
Step(op, new, of, args) == [op |-> op, new |-> new, of |-> of, args |-> args]

\* Futures.
WithResolvers(f) == Step("withResolvers", f, "", <<>>)
Settled(f, type, v) == Step("settled", f, "", <<type, v>>)
Try(m, f, args) == Step("try", f, m, args)
Then(f, g, onFulfilled, onRejected) == Step("next", g, f, <<onFulfilled, onRejected>>)
ThenDo(f, g, m) == Then(f, g, m, None)
Catch(f, g, m) == Then(f, g, None, m)
Pass(f, g) == Then(f, g, None, None)
Finally(f, g, onFinally) == Step("finally", g, f, <<onFinally>>)
ById(type, f, v) == Step("byId", "", f, <<type, v>>)
Combine(kind, g, values) == Step("combine", g, kind, Append(values, None))
CombineThrows(kind, g, values, thrown) == Step("combine", g, kind, Append(values, thrown))

\* Methods.
Bind(m, b, args) == Step("bind", b, m, args)
Call(m, args) == Step("call", "", m, args)
CallResolve(f, v) == Call(f \o ".resolve", <<v>>)
CallReject(f, v) == Call(f \o ".reject", <<v>>)

\* create: what its executor does, and what it throws.
Create(f, executor, thrown) ==
  <<WithResolvers(f)>> \o executor
    \o (IF thrown = None THEN <<>> ELSE <<Step("executorThrows", "", f, <<thrown>>)>>)

\* Containers: slots is a sequence, or a function from keys.
Make(kind, o, slots) == Step("make", o, kind, slots)
MakeList(o, elements) == Make("list", o, elements)
Put(o, key, v) == Step("put", key, o, <<v>>)
Push(o, vs) == Step("push", "", o, vs)

\* Promises the test makes itself.
NewPromise(p) == Step("promise", p, "", <<"Pending", None>>)
BrokenPromise(p, thrown) == Step("promise", p, "", <<"Broken", thrown>>)   \* its `then` getter throws
SettlePromise(p, type, v) == Step("settlePromise", "", p, <<type, v>>)

\* What the test waits for, and what it expects then: the arguments of a Method's
\* first call, its n-th call, the outcome of a Future.
CalledNth(m, n, args) == Step("called", n, m, args)
Called(m, args) == CalledNth(m, 1, args)
CalledTimes(m, n) == Step("calledTimes", n, m, <<>>)
Outcome(f, type, v) == Step("outcome", "", f, <<type, v>>)
Flushed == Step("flush", "", "", <<>>)

\* What the test expects at once.
NotCalled(m) == Step("notCalled", "", m, <<>>)
Holds(o, slots) == Step("holds", "", o, slots)
CallReturns(m, v) == Step("callReturns", "", m, <<v>>)
Is(kind, o) == Step("is", "", o, <<kind>>)
IsEmpty == Step("empty", "", "", <<>>)

\* The store alone: a collection, the number of rows of a kind, and what the row of a
\* Future says, if other code has not had it collected.
Collected == Step("collect", "", "", <<>>)
Rows(kind, n) == Step("rows", n, kind, <<>>)
RowSays(f, state, v, root) == Step("row", root, f, <<state, v>>)

Waits == {"called", "calledTimes", "outcome", "flush", "collect", "empty"}

\* The steps that use a Future's id and not the Future.
UsesId == {"byId", "row"}

\* Bodies of Methods: what they do, how they end, and with what.  "$1", "$2", ...
\* stand for the arguments of the call; the slot is one of the first argument's.
Returns(v) == [do |-> <<>>, ends |-> "returns", value |-> v]
Throws(v) == [do |-> <<>>, ends |-> "throws", value |-> v]
ReturnsSlot(key) == [do |-> <<>>, ends |-> "reads", value |-> key]
Calls(m) == [do |-> <<>>, ends |-> "calls", value |-> m]
Runs(steps, v) == [do |-> steps, ends |-> "returns", value |-> v]

NoMethods == <<>>
Session(methods, steps) == [methods |-> methods, steps |-> steps]

\* A Method that hands its arguments to the test.
Records(m) == m :> Returns(Undefined)

\* One session, that leaves nothing in the database.
Once(methods, steps) == <<Session(methods, steps \o <<IsEmpty>>)>>

\* The shape of most tests: what the first session binds to a Method comes back in a
\* second session, when the Future that the Method waits for is resolved by its id.
AcrossWith(r, steps, v, seen) ==
  <<Session(Records("method"),
            <<WithResolvers("future")>> \o steps
              \o <<Bind("method", "bound", <<v>>), Then("future", "next", "bound", None)>>),
    Session(Records("method"),
            <<ById("Fulfilled", "future", r), Called("method", <<v, r>>)>> \o seen)>>
Across(steps, v, seen) == AcrossWith(Undefined, steps, v, seen)
=============================================================================
