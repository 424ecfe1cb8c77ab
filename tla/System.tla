------------------------------- MODULE System -------------------------------
(***************************************************************************)
(* The whole system under the programs of the conformance suites: engine,  *)
(* combinators, Methods, containers and the SQLite store together.  The    *)
(* program drives the public API; microtasks run between its steps; other  *)
(* code may flush, collect, or let the host collect objects at any point.  *)
(*                                                                         *)
(* The components are modelled one by one, with every interleaving of user *)
(* code, in the modules of their own; here user code is what the suites    *)
(* say, and the point is what the components do to each other.  An object  *)
(* is known by its name in memory and on disk: ids, and the caches that    *)
(* keep one object per id, are modules SqlObjects and WeakCache.           *)
(***************************************************************************)
EXTENDS Integers, FiniteSets, SequencesExt, Programs

CONSTANTS Tests,      \* the programs, by name
          MaxRounds   \* bound: how often other code flushes, collects or evicts

ASSUME SystemAssumption == MaxRounds \in Nat

VARIABLES
  test,      \* the program that runs, with its name
  session,   \* its current session; one more than it has when it is done
  pc,        \* the next step of the session
  system,    \* memory and disk
  rounds     \* how often other code has come in between

vars == <<test, session, pc, system, rounds>>

\* What is in memory, on disk, queued, and what the program has seen:
\*   objects       by name: Futures, Methods, containers, promises
\*   rows          by name: the tables futures, methods and objects
\*   reactionRows  the tables fulfillReactions and rejectReactions
\*   marks         by name: the mark of its row
\*   currentMark   the mark of what the last collection kept
\*   pending       pendingWrites, in insertion order
\*   dirty         the objects and reaction lists whose dirty flag is set
\*   known         Futures that are inDatabase, other objects that have an id
\*   jobs          the host's microtasks
\*   calls         the calls of the program's Methods in this session
\*   created       the names of all objects there have been
\*   failed        the expectations that were not met
EmptySystem ==
  [created |-> {}, objects |-> <<>>, rows |-> <<>>, reactionRows |-> <<>>,
   marks |-> <<>>, currentMark |-> "Set1", pending |-> <<>>,
   dirty |-> {}, known |-> {}, jobs |-> <<>>, calls |-> <<>>, failed |-> {}]

Fail(s, what) == [s EXCEPT !.failed = @ \cup {what}]
Expect(s, condition, what) == IF condition THEN s ELSE Fail(s, what)

Kind(s, v) == IF v \in DOMAIN s.objects THEN s.objects[v].kind ELSE "plain"
New(s, name, object) ==
  [Expect(s, name \notin s.created, name) EXCEPT
     !.created = @ \cup {name}, !.objects = (name :> object) @@ @]

----------------------------------------------------------------------------
(* Records.                                                                *)

NoReactions == [written |-> <<>>, unwritten |-> <<>>, deleted |-> FALSE]
DeletedReactions == [NoReactions EXCEPT !.deleted = TRUE]

FutureDB(state, value, root) ==
  [kind |-> "future", state |-> state, value |-> value, settled |-> state # "Pending",
   root |-> root, read |-> TRUE,
   reactions |-> [Fulfilled |-> NoReactions, Rejected |-> NoReactions]]

\* A Method of the library: bound arguments are `slots`; a FutureId among them is
\* `on`, a string that keeps no Future alive.  And one of the program.
MethodDB(name, slots, on, index) ==
  [kind |-> "method", type |-> "internal", name |-> name, slots |-> slots, on |-> on, index |-> index]
ExternalMethodDB(name) == [MethodDB(name, <<>>, None, 0) EXCEPT !.type = "external"]
Container(kind, slots) == [kind |-> kind, slots |-> slots]
Exception(name) == Container("entity", [name |-> name])
AggregateDB(slots, remaining) ==
  [kind |-> "aggregate", slots |-> slots, remaining |-> remaining]
OutsidePromise(state, value) ==
  [kind |-> "promise", state |-> state, value |-> value, waiting |-> <<>>]

RowOf(o) ==
  IF o.kind = "future"
  THEN [kind |-> "future", state |-> o.state, value |-> o.value,
        settled |-> o.settled, root |-> o.root]
  ELSE o

\* Mutant: the alreadySettled column is not read.
FromRowUnsettled(row) ==
  IF row.kind = "future" THEN [FutureDB(row.state, row.value, row.root) EXCEPT !.settled = FALSE, !.read = FALSE]
  ELSE row

\* getFutureDB, getMethodDb, getObjectDb: an object of a row; a Future's reactions
\* stay on disk until it settles.
FromRow(row) ==
  IF row.kind = "future"
  THEN [FutureDB(row.state, row.value, row.root) EXCEPT !.settled = row.settled, !.read = FALSE]
  ELSE row

\* What a row or an object names, without a Future's reactions.
Refs(o) == IF o.kind \in {"future", "promise"} THEN {o.value} ELSE Range(o.slots)
ReactionRefs(o) ==
  IF o.kind = "future"
  THEN UNION {{r.next, r.handler} : r \in UNION {Range(o.reactions[t].written)
              \cup Range(o.reactions[t].unwritten) : t \in DOMAIN o.reactions}}
  ELSE IF o.kind = "promise" THEN Range(o.waiting) ELSE {}

----------------------------------------------------------------------------
(* The store.                                                              *)

FutureItem(f) == [object |-> f, part |-> "future"]
ReactionItem(f, type) == [object |-> f, part |-> type]
ObjectItem(o) == [object |-> o, part |-> "object"]

\* setDirty: an item that is in the Set of pending writes keeps its place.
SetDirty(s, item) ==
  IF item \in s.dirty THEN s
  ELSE [s EXCEPT !.dirty = @ \cup {item},
                 !.pending = IF Contains(@, item) THEN @ ELSE Append(@, item)]

\* SQLObjectDB.setDirty: an object without an id is written when it is referred to.
SetContainerDirty(s, o) == IF o \in s.known THEN SetDirty(s, ObjectItem(o)) ELSE s

\* Mutant: a row that was collected is not noticed.
EnsureInDatabaseOnce(s, f) == IF f \in s.known THEN s ELSE SetDirty(s, FutureItem(f))

\* SQLFutureDB.ensureInDatabase.
EnsureInDatabase(s, f) ==
  IF f \in s.known \cap DOMAIN s.rows THEN s
  ELSE SetDirty([s EXCEPT !.known = @ \ {f}], FutureItem(f))

\* Reading the objects `names` from their rows, and all that these hold.
RECURSIVE Load(_, _)
Load(s, names) ==
  LET unread == (names \cap DOMAIN s.rows) \ DOMAIN s.objects
  IN IF unread = {} THEN s
     ELSE Load([s EXCEPT !.objects = [n \in unread |-> FromRow(s.rows[n])] @@ @,
                         !.known = @ \cup unread],
               UNION {Refs(s.rows[n]) : n \in unread})

\* A new row has the current mark.
InsertRow(s, n) ==
  [s EXCEPT !.rows = (n :> RowOf(s.objects[n])) @@ @, !.known = @ \cup {n},
            !.marks = (n :> s.currentMark) @@ @]

\* toInternalValue: a Future is added to the pending writes, a Method or container
\* that has no row is written with all it holds.  An AggregateDB that has no list
\* ends the flush with a TypeError.
RECURSIVE Save(_, _)
Save(s, v) ==
  LET o == s.objects[v]
  IN CASE Kind(s, v) = "plain" -> s
       [] Kind(s, v) = "future" -> EnsureInDatabase(s, v)
       [] Kind(s, v) = "promise" -> Fail(s, "not serializable")
       [] o.kind = "aggregate" /\ o.slots = <<>> -> Fail(s, "no list")
       [] OTHER ->
            IF v \in s.known \cap DOMAIN s.rows THEN s
            ELSE FoldSet(LAMBDA w, t : Save(t, w), InsertRow(s, v), Range(o.slots))
SaveAll(s, vs) == FoldSet(LAMBDA w, t : Save(t, w), s, vs)

ReactionRowsOf(s, f, type) ==
  SelectSeq(s.reactionRows, LAMBDA r : r.of = f /\ r.type = type)

\* SQLFutureDB.write: insert, or update a row that may be gone.
WriteFuture(s, f) ==
  LET o == s.objects[f]
      saved == Save(s, o.value)
  IN CASE f \notin s.known -> InsertRow(saved, f)
       [] f \in s.known \cap DOMAIN s.rows -> [saved EXCEPT !.rows[f] = RowOf(o)]
       [] OTHER -> saved

\* SQLReactionsDB.write.
WriteReactions(s, f, type) ==
  LET r == s.objects[f].reactions[type]
      ensured == FoldLeft(LAMBDA t, new : Save(Save(t, new.next), new.handler), s, r.unwritten)
  IN IF r.deleted
     THEN [s EXCEPT !.reactionRows = SelectSeq(@, LAMBDA x : x.of # f \/ x.type # type)]
     ELSE [ensured EXCEPT
             !.reactionRows = @ \o [i \in DOMAIN r.unwritten |->
                [of |-> f, type |-> type, next |-> r.unwritten[i].next,
                 handler |-> r.unwritten[i].handler, mark |-> s.currentMark]],
             !.objects[f].reactions[type] =
                [r EXCEPT !.written = IF s.objects[f].read THEN @ \o r.unwritten ELSE @,
                          !.unwritten = <<>>]]

\* SQLObjectDB.write: a complete AggregateDB is deleted, anything else updated.
WriteContainer(s, n) ==
  LET o == s.objects[n]
      saved == SaveAll(s, Range(o.slots))
  IN IF n \notin DOMAIN s.rows THEN saved
     ELSE IF o.kind = "aggregate" /\ o.slots = <<>>
     THEN [s EXCEPT !.rows = Restrict(@, DOMAIN @ \ {n}),
                    !.marks = Restrict(@, DOMAIN @ \ {n})]
     ELSE [saved EXCEPT !.rows[n] = o]

Write(s, item) ==
  LET clean == [s EXCEPT !.dirty = @ \ {item}]
  IN CASE item.part = "future" -> WriteFuture(clean, item.object)
       [] item.part = "object" -> WriteContainer(clean, item.object)
       [] OTHER -> WriteReactions(clean, item.object, item.part)

\* flush: writes that are added while it runs are written too.
RECURSIVE FlushFrom(_, _)
FlushFrom(s, i) ==
  IF i > Len(s.pending) THEN [s EXCEPT !.pending = <<>>]
  ELSE FlushFrom(Write(s, s.pending[i]), i + 1)

RowLinks(s, n) ==
  (IF n \in DOMAIN s.rows THEN Refs(s.rows[n]) ELSE {})
    \cup UNION {{r.next, r.handler} : r \in {x \in Range(s.reactionRows) : x.of = n}}

Roots(s) == {n \in DOMAIN s.rows : s.rows[n].kind = "future" /\ s.rows[n].root}

Flip(s) == [s EXCEPT !.currentMark = IF @ = "Set1" THEN "Set2" ELSE "Set1"]
MarkRows(s, names) ==
  [s EXCEPT !.marks = [n \in DOMAIN @ |-> IF n \in names THEN s.currentMark ELSE @[n]]]

\* The loop of gc: what is in the sets is marked, and what was not marked before adds
\* what it names.  The reactions of a Future have marks of their own.
RECURSIVE MarkFrom(_, _)
MarkFrom(s, names) ==
  LET unmarked == {n \in names \cap DOMAIN s.rows : s.marks[n] # s.currentMark}
      IsUnmarked(r) == r.of \in names /\ r.mark # s.currentMark
      found == UNION {Refs(s.rows[n]) : n \in unmarked}
                 \cup UNION {{r.next, r.handler} : r \in {x \in Range(s.reactionRows) : IsUnmarked(x)}}
  IN IF names = {} THEN s
     ELSE MarkFrom([MarkRows(s, unmarked) EXCEPT
                      !.reactionRows = [i \in DOMAIN @ |->
                         IF IsUnmarked(@[i]) THEN [@[i] EXCEPT !.mark = s.currentMark] ELSE @[i]]],
                   found)

Sweep(s) ==
  LET kept == {n \in DOMAIN s.rows : s.marks[n] = s.currentMark}
  IN [s EXCEPT !.rows = Restrict(@, kept), !.marks = Restrict(@, kept),
               !.reactionRows = SelectSeq(@, LAMBDA r : r.mark = s.currentMark)]

\* gc: a flush; the roots are marked first, so their results are not looked at; the
\* sweep.
MarkAndSweep(s) == Sweep(MarkFrom(MarkRows(s, Roots(s)), Roots(s)))
Collect(s) == MarkAndSweep(Flip(FlushFrom(s, 1)))

----------------------------------------------------------------------------
(* Settlement.                                                             *)

Queue(s, new) == [s EXCEPT !.jobs = @ \o new]
Job(kind, next, from, handler, type, arg) ==
  [kind |-> kind, next |-> next, from |-> from, handler |-> handler, type |-> type, arg |-> arg]
ReactionJob(r, type, v) == Job("reaction", r.next, None, r.handler, type, v)

\* Mutant: only the reactions that are in memory.
PoppedFromMemory(s, f, type) ==
  s.objects[f].reactions[type].written \o s.objects[f].reactions[type].unwritten

\* SQLReactionsDB.pop: the rows, unless all reactions are in memory, and then the
\* ones that are not written yet.
Popped(s, f, type) ==
  LET o == s.objects[f]
  IN (IF o.read THEN o.reactions[type].written ELSE ReactionRowsOf(s, f, type))
       \o o.reactions[type].unwritten

\* SQLFutureDB.fulfill and reject, with the reactions they trigger.
Settle(s, f, type, v) ==
  LET reactions == Popped(s, f, type)
      read == Load(s, UNION {{r.next, r.handler} : r \in Range(reactions)})
      settled == [read EXCEPT !.objects[f] =
                    [@ EXCEPT !.state = type, !.value = v, !.settled = TRUE, !.root = FALSE,
                              !.reactions = [Fulfilled |-> DeletedReactions,
                                             Rejected |-> DeletedReactions]]]
  IN Queue(SetDirty(SetDirty(settled, FutureItem(f)), ReactionItem(f, type)),
           [i \in DOMAIN reactions |-> ReactionJob(reactions[i], type, v)])

\* SQLFutureDB.settle: the Future is resolved with something that is not settled.
Lock(s, f) ==
  SetDirty([s EXCEPT !.objects[f].settled = TRUE, !.objects[f].root = FALSE], FutureItem(f))

\* Rejection with an Exception that the library makes.
RejectWith(s, f, exception) ==
  Settle(New(s, f \o ".exception", Exception(exception)), f, "Rejected", f \o ".exception")

\* serializeThrownError, and rejection with what was thrown.
SerializeThrown(s, f, thrown) ==
  IF thrown = Foreign
  THEN [system |-> New(s, f \o ".exception", Exception("SerializableException")),
        value |-> f \o ".exception"]
  ELSE [system |-> s, value |-> thrown]
RejectThrown(s, f, thrown) ==
  LET t == SerializeThrown(s, f, thrown) IN Settle(t.system, f, "Rejected", t.value)

\* resolveFutureByDBNoSettledCheck.
Resolve(s, f, v) ==
  CASE s.objects[f].state # "Pending" -> Fail(s, "settled futureDb")
    [] Kind(s, v) = "promise" ->
         IF s.objects[v].state = "Broken" THEN RejectThrown(s, f, s.objects[v].value)
         ELSE Queue(Lock(s, f), <<Job("subscribe", f, v, None, None, None)>>)
    [] v = f -> RejectWith(s, f, "TypeException")
    [] Kind(s, v) = "future" /\ v # f ->
         Queue(Lock(s, f), <<Job("adopt", f, v, None, None, None)>>)
    [] OTHER -> Settle(s, f, "Fulfilled", v)

\* resolveFutureById and rejectFutureById: a Future that is not found is taken for
\* one that has settled.
SettleUnlessSettled(s, type, f, v) ==
  CASE f \notin DOMAIN s.objects -> s
    [] s.objects[f].settled -> s
    [] OTHER -> IF type = "Fulfilled" THEN Resolve(s, f, v) ELSE Settle(s, f, "Rejected", v)
SettleById(s, type, f, v) == SettleUnlessSettled(Load(s, {f}), type, f, v)
RejectByIdThrown(s, f, thrown) ==
  LET t == SerializeThrown(s, f, thrown) IN SettleById(t.system, "Rejected", f, t.value)

\* createFutureWithResolvers.
CreateFuture(s, f) ==
  LET made == New(New(New(s, f, FutureDB("Pending", None, TRUE)),
                      f \o ".resolve", MethodDB("resolve", <<>>, f, 0)),
                  f \o ".reject", MethodDB("reject", <<>>, f, 0))
  IN EnsureInDatabase(made, f)

\* futures.resolve and futures.reject.
CreateSettled(s, f, type, v) ==
  IF type = "Fulfilled" /\ Kind(s, v) = "promise"
  THEN Resolve(CreateFuture(s, f), f, v)
  ELSE New(s, f, FutureDB(type, v, FALSE))

\* Mutant: only one of the two lists is marked dirty.
PushReactionsOneDirty(s, f, next, handlers) ==
  SetDirty([s EXCEPT !.objects[f].reactions = [t \in DOMAIN @ |->
              [@[t] EXCEPT !.unwritten = Append(@, [next |-> next, handler |-> handlers[t]])]]],
           ReactionItem(f, "Fulfilled"))

\* SQLFutureDB.pushReactions.
PushReactions(s, f, next, handlers) ==
  LET pushed == [s EXCEPT !.objects[f].reactions = [t \in DOMAIN @ |->
                   [@[t] EXCEPT !.unwritten = Append(@, [next |-> next, handler |-> handlers[t]])]]]
  IN SetDirty(SetDirty(pushed, ReactionItem(f, "Fulfilled")), ReactionItem(f, "Rejected"))

Handlers(onFulfilled, onRejected) == [Fulfilled |-> onFulfilled, Rejected |-> onRejected]

\* settledNext, given the Future that it decides.
SettledNext(s, f, next, handlers) ==
  LET o == s.objects[f]
  IN Queue(s, <<Job("reaction", next, None, handlers[o.state], o.state, o.value)>>)

\* FutureImpl.next.
FutureNext(s, f, g, handlers) ==
  IF s.objects[f].state = "Pending"
  THEN PushReactions(New(s, g, FutureDB("Pending", None, FALSE)), f, g, handlers)
  ELSE SettledNext(CreateFuture(s, g), f, g, handlers)

\* FutureImpl.nextWithFuture.
NextWithFuture(s, f, g) ==
  IF s.objects[f].state = "Pending"
  THEN PushReactions(s, f, g, Handlers(None, None))
  ELSE SettledNext(s, f, g, Handlers(None, None))

----------------------------------------------------------------------------
(* Methods.                                                                *)

Program == test.sessions
Methods == Program[session].methods

Returned(s, v) == [system |-> s, ends |-> "returns", value |-> v]
Thrown(s, v) == [system |-> s, ends |-> "throws", value |-> v]
First(args) == IF args = <<>> THEN Undefined ELSE Head(args)

\* Mutant: the count is marked dirty, the list is not.
SettleElementListClean(s, aggregate, index, v) ==
  LET list == s.objects[aggregate].slots[1]
      left == s.objects[aggregate].remaining - 1
  IN SetContainerDirty(
       [s EXCEPT !.objects[list].slots[index] = v,
                 !.objects[aggregate] = AggregateDB(IF left = 0 THEN <<>> ELSE <<list>>, left)],
       aggregate)

\* SQLAggregateDB.settleElement.
SettleElement(s, aggregate, index, v) ==
  LET list == s.objects[aggregate].slots[1]
      left == s.objects[aggregate].remaining - 1
      set == [s EXCEPT !.objects[list].slots[index] = v,
                       !.objects[aggregate] = AggregateDB(IF left = 0 THEN <<>> ELSE <<list>>, left)]
  IN SetContainerDirty(SetContainerDirty(set, list), aggregate)

\* The Methods of the combinators, when the last element has settled.
Complete(s, m, list) ==
  CASE m.name = "anyRejectElement" ->
         SettleById(New(s, m.on \o ".exception",
                        Container("entity", [name |-> "AggregateException", errors |-> list])),
                    "Rejected", m.on, m.on \o ".exception")
    [] OTHER -> SettleById(s, "Fulfilled", m.on, list)

\* The Methods of the combinators: `m` is bound to the AggregateDB.
RunElement(s, m, aggregate, v, tag) ==
  LET entry == tag \o ".entry"
      settled ==
        CASE m.name = "allSettledResolveElement" ->
               SettleElement(New(s, entry, Container("struct", [status |-> "fulfilled", value |-> v])),
                             aggregate, m.index, entry)
          [] m.name = "allSettledRejectElement" ->
               SettleElement(New(s, entry, Container("struct", [status |-> "rejected", reason |-> v])),
                             aggregate, m.index, entry)
          [] OTHER -> SettleElement(s, aggregate, m.index, v)
  IN IF settled.objects[aggregate].remaining = 0
     THEN Complete(settled, m, s.objects[aggregate].slots[1])
     ELSE settled

\* nextFinally and catchFinally, once onFinally returned `r`: its result is waited
\* for, then the outcome is passed on.
AfterFinally(s, pass, r, v, tag) ==
  LET isFuture == Kind(s, r) = "future"
      waited == IF isFuture THEN r ELSE tag \o ".finally"
      made == IF isFuture THEN s ELSE CreateSettled(s, waited, "Fulfilled", r)
      bound == New(made, tag \o ".pass", MethodDB(pass, <<v>>, None, 0))
  IN Returned(FutureNext(bound, waited, tag \o ".after", Handlers(tag \o ".pass", None)),
              tag \o ".after")

\* The arguments of a call in place of "$1", "$2" and "$3".
Actual(v, args) ==
  CASE v = "$1" /\ Len(args) >= 1 -> args[1]
    [] v = "$2" /\ Len(args) >= 2 -> args[2]
    [] v = "$3" /\ Len(args) >= 3 -> args[3]
    [] OTHER -> v
Instantiate(step, args) ==
  [step EXCEPT !.of = Actual(@, args),
               !.args = [i \in DOMAIN @ |-> Actual(@[i], args)]]

RECURSIVE Invoke(_, _, _, _), Do(_, _)

DoAll(s, steps) == FoldLeft(LAMBDA t, step : Do(t, step), s, steps)

\* How a Method of the program ends, and what it ends with.
End(s, body, args, tag) ==
  CASE body.ends = "reads" -> Returned(s, s.objects[args[1]].slots[body.value])
    [] body.ends = "calls" -> Invoke(s, Actual(body.value, args), <<>>, tag)
    [] OTHER -> [system |-> s, ends |-> body.ends, value |-> Actual(body.value, args)]

\* A Method of the program.
RunBody(s, name, args, tag) ==
  LET body == Methods[name]
      entered == [s EXCEPT !.calls = Append(@, [method |-> name, args |-> args])]
  IN End(DoAll(entered, [i \in DOMAIN body.do |-> Instantiate(body.do[i], args)]), body, args, tag)

\* A Method of the library.
RunInternal(s, m, args, tag) ==
  CASE m.name = "resolve" -> Returned(SettleById(s, "Fulfilled", m.on, First(args)), Undefined)
    [] m.name = "reject" -> Returned(SettleById(s, "Rejected", m.on, First(args)), Undefined)
    [] m.name = "thunk" -> Returned(s, args[1])
    [] m.name = "thrower" -> Thrown(s, args[1])
    [] m.name \in {"nextFinally", "catchFinally"} ->
         LET r == Invoke(s, args[1], <<>>, tag)
             pass == IF m.name = "nextFinally" THEN "thunk" ELSE "thrower"
         IN IF r.ends = "throws" THEN r
            ELSE AfterFinally(r.system, pass, r.value, args[2], tag)
    [] OTHER -> Returned(RunElement(s, m, args[1], args[2], tag), Undefined)

\* A call of a Method that the session may not have registered.  What the call
\* creates is named after `tag`.
Invoke(s, name, args, tag) ==
  LET m == s.objects[name]
      all == m.slots \o args
  IN CASE Kind(s, name) # "method" -> Thrown(Fail(s, "not a Method"), None)
       [] m.type = "internal" -> RunInternal(s, m, all, tag)
       [] m.type = "external" /\ m.name \notin DOMAIN Methods ->
            Thrown(New(s, tag \o ".exception", Exception("Exception")), tag \o ".exception")
       [] OTHER -> RunBody(s, m.name, all, tag)

----------------------------------------------------------------------------
(* The combinators.                                                        *)

\* What the combinator hangs on its i-th input.
Element(s, kind, g, i) ==
  LET on == g \o ".on" \o ToString(i)
      off == g \o ".off" \o ToString(i)
      aggregate == g \o ".aggregate"
  IN CASE kind = "race" -> [system |-> s, handlers |-> Handlers(g \o ".resolve", g \o ".reject")]
       [] kind = "all" ->
            [system |-> New(s, on, MethodDB("allResolveElement", <<aggregate>>, g, i)),
             handlers |-> Handlers(on, g \o ".reject")]
       [] kind = "any" ->
            [system |-> New(s, off, MethodDB("anyRejectElement", <<aggregate>>, g, i)),
             handlers |-> Handlers(g \o ".resolve", off)]
       [] kind = "allSettled" ->
            [system |-> New(New(s, on, MethodDB("allSettledResolveElement", <<aggregate>>, g, i)),
                            off, MethodDB("allSettledRejectElement", <<aggregate>>, g, i)),
             handlers |-> Handlers(on, off)]

Observe(s, kind, g, i, v) ==
  LET isFuture == Kind(s, v) = "future"
      input == IF isFuture THEN v ELSE g \o ".in" \o ToString(i)
      e == Element(IF isFuture THEN s ELSE CreateSettled(s, input, "Fulfilled", v), kind, g, i)
  IN FutureNext(e.system, input, g \o ".next" \o ToString(i), e.handlers)

\* setElementCount: the elements that are not settled are undefined.
SetElementCount(s, g, n) ==
  LET listed == New(s, g \o ".list", Container("list", [i \in 1..n |-> Undefined]))
  IN SetContainerDirty([listed EXCEPT !.objects[g \o ".aggregate"] = AggregateDB(<<g \o ".list">>, n)],
                       g \o ".aggregate")

\* With no input the result is there at once.
SettleEmpty(s, kind, g) ==
  IF kind = "any" THEN Complete(s, MethodDB("anyRejectElement", <<>>, g, 0), g \o ".list")
                  ELSE Resolve(s, g, g \o ".list")

EndIteration(s, kind, g, n, thrown) ==
  CASE thrown # None -> RejectByIdThrown(s, g, thrown)
    [] thrown = None /\ kind = "race" -> s
    [] thrown = None /\ kind # "race" ->
         IF n = 0 THEN SettleEmpty(SetElementCount(s, g, 0), kind, g) ELSE SetElementCount(s, g, n)

\* race, all, any and allSettled, of an iterable that ends or throws.
CombineValues(s, kind, g, values, thrown) ==
  LET begun == IF kind = "race" THEN CreateFuture(s, g)
               ELSE New(CreateFuture(s, g), g \o ".aggregate", AggregateDB(<<>>, 0))
  IN EndIteration(
       FoldLeftDomain(LAMBDA t, i : Observe(t, kind, g, i, values[i]), begun, values),
       kind, g, Len(values), thrown)

----------------------------------------------------------------------------
(* Microtasks.                                                             *)

\* A Future is settled with the outcome of a Method.
SettleAs(r, f) ==
  IF r.ends = "returns" THEN Resolve(r.system, f, r.value) ELSE RejectThrown(r.system, f, r.value)

\* The microtask of queueFutureReactionJob.
RunReaction(s, job) ==
  CASE job.handler = None /\ job.type = "Fulfilled" -> Resolve(s, job.next, job.arg)
    [] job.handler = None /\ job.type = "Rejected" -> Settle(s, job.next, "Rejected", job.arg)
    [] OTHER -> SettleAs(Invoke(s, job.handler, <<job.arg>>, job.next), job.next)

Callback(f, type, v) == Job("callback", f, None, None, type, v)

\* promise.then, called with what settles the Future.
Subscribe(s, f, p) ==
  LET promise == s.objects[p]
  IN IF promise.state = "Pending" THEN [s EXCEPT !.objects[p].waiting = Append(@, f)]
     ELSE Queue(s, <<Callback(f, promise.state, promise.value)>>)

SettlePromiseWith(s, p, type, v) ==
  LET waiting == s.objects[p].waiting
  IN Queue([s EXCEPT !.objects[p] = OutsidePromise(type, v)],
           [i \in DOMAIN waiting |-> Callback(waiting[i], type, v)])

RunJob(s, job) ==
  CASE job.kind = "reaction" -> RunReaction(s, job)
    [] job.kind = "adopt" -> NextWithFuture(s, job.from, job.next)
    [] job.kind = "subscribe" -> Subscribe(s, job.next, job.from)
    [] job.kind = "callback" -> IF job.type = "Fulfilled" THEN Resolve(s, job.next, job.arg)
                                ELSE Settle(s, job.next, "Rejected", job.arg)

\* No microtask is left that onActivitySettled waits for.
Idle(s) == \A i \in DOMAIN s.jobs : s.jobs[i].kind = "callback"

----------------------------------------------------------------------------
(* The program.                                                            *)

\* What the tests of the store ask of its tables.
RowCount(s, kind) ==
  IF kind = "reaction" THEN Len(s.reactionRows)
  ELSE Cardinality({n \in DOMAIN s.rows : s.rows[n].kind = kind})
RowAgrees(s, f, said) ==
  f \in DOMAIN s.rows =>
    said = [state |-> s.rows[f].state, value |-> s.rows[f].value, root |-> s.rows[f].root]

CallsOf(s, m) == SelectSeq(s.calls, LAMBDA c : c.method = m)

ExpectReturned(r, v, what) == Expect(r.system, r.ends = "returns" /\ r.value = v, what)
ExpectEmpty(s, what) == Expect(s, DOMAIN s.rows = {} /\ s.reactionRows = <<>>, what)

\* try: like SettleAs, by the Future's id.
TrySettle(r, f) ==
  IF r.ends = "returns" THEN SettleById(r.system, "Fulfilled", f, r.value)
                        ELSE RejectByIdThrown(r.system, f, r.value)

\* The steps of a program; the ones that wait are taken when they are Ready, and none
\* is once the test has failed.
Do(s, step) ==
  LET op == step.op
      new == step.new
      of == step.of
      args == step.args
      what == op \o " " \o of
  IN CASE op = "withResolvers" -> CreateFuture(s, new)
       [] op = "settled" -> CreateSettled(s, new, args[1], args[2])
       [] op = "try" ->
            TrySettle(Invoke(CreateFuture(s, new), of, args, new), new)
       [] op = "executorThrows" -> RejectByIdThrown(s, of, args[1])
       [] op = "next" -> FutureNext(s, of, new, Handlers(args[1], args[2]))
       [] op = "finally" ->
            FutureNext(New(New(s, new \o ".onFulfilled", MethodDB("nextFinally", args, None, 0)),
                           new \o ".onRejected", MethodDB("catchFinally", args, None, 0)),
                       of, new, Handlers(new \o ".onFulfilled", new \o ".onRejected"))
       [] op = "byId" -> SettleById(s, args[1], of, args[2])
       [] op = "combine" -> CombineValues(s, of, new, Front(args), Last(args))
       [] op = "bind" -> New(s, new, [s.objects[of] EXCEPT !.slots = @ \o args])
       [] op = "call" -> Invoke(s, of, args, of \o ".call").system
       [] op = "make" -> New(s, new, Container(of, args))
       [] op = "put" -> SetContainerDirty([s EXCEPT !.objects[of].slots = (new :> args[1]) @@ @], of)
       [] op = "push" -> SetContainerDirty([s EXCEPT !.objects[of].slots = @ \o args], of)
       [] op = "promise" -> New(s, new, OutsidePromise(args[1], args[2]))
       [] op = "settlePromise" -> SettlePromiseWith(s, of, args[1], args[2])
       [] op = "calledTimes" -> s
       [] op = "called" -> Expect(s, CallsOf(s, of)[new].args = args, what)
       [] op = "outcome" -> Expect(s, s.objects[of].state = args[1] /\ s.objects[of].value = args[2], what)
       [] op = "flush" -> FlushFrom(s, 1)
       [] op = "notCalled" -> Expect(s, CallsOf(s, of) = <<>>, what)
       [] op = "holds" -> Expect(s, of \in DOMAIN s.objects /\ s.objects[of].slots = args, what)
       [] op = "callReturns" ->
            ExpectReturned(Invoke(s, of, <<>>, of \o ".call"), args[1], what)
       [] op = "is" -> Expect(s, Kind(s, of) = args[1], what)
       [] op = "empty" -> ExpectEmpty(Collect(s), what)
       [] op = "collect" -> Collect(s)
       [] op = "rows" -> Expect(s, RowCount(s, of) = new, what)
       [] op = "row" -> Expect(s, RowAgrees(s, of, [state |-> args[1], value |-> args[2], root |-> new]), what)

Ready(s, step) ==
  /\ s.failed = {}
  /\ CASE step.op \in {"called", "calledTimes"} -> Len(CallsOf(s, step.of)) >= step.new
       [] step.op = "outcome" -> s.objects[step.of].state # "Pending"
       [] step.op \in {"flush", "collect", "empty"} -> Idle(s)
       [] OTHER -> TRUE

Steps == Program[session].steps
Running == session <= Len(Program)

\* The last of the steps from pc on that run without waiting.
SegmentEnd ==
  CHOOSE i \in pc..Len(Steps) :
    /\ \A j \in pc + 1..i : Steps[j].op \notin Waits
    /\ i = Len(Steps) \/ Steps[i + 1].op \in Waits

\* A session begins with the Methods it registers and what is on disk.
Begin(s, program, n) ==
  [EmptySystem EXCEPT
     !.objects = IF n > Len(program) THEN <<>>
                 ELSE [m \in DOMAIN program[n].methods |-> ExternalMethodDB(m)],
     !.rows = s.rows, !.reactionRows = s.reactionRows, !.marks = s.marks,
     !.currentMark = s.currentMark, !.created = s.created, !.failed = s.failed]

Init ==
  /\ test \in {[name |-> t, sessions |-> Tests[t]] : t \in DOMAIN Tests}
  /\ session = 1
  /\ pc = 1
  /\ system = Begin(EmptySystem, Program, 1)
  /\ rounds = 0

\* The program runs up to where it next waits.
Continue ==
  /\ Running
  /\ pc <= Len(Steps)
  /\ Ready(system, Steps[pc])
  /\ system' = DoAll(system, SubSeq(Steps, pc, SegmentEnd))
  /\ pc' = SegmentEnd + 1
  /\ UNCHANGED <<test, session, rounds>>

RunMicrotask ==
  /\ system.jobs # <<>>
  /\ system' = RunJob([system EXCEPT !.jobs = Tail(@)], Head(system.jobs))
  /\ UNCHANGED <<test, session, pc, rounds>>

\* close of the suite's database holder: gc, then the database is closed.
Close ==
  /\ Running
  /\ pc > Len(Steps)
  /\ Idle(system)
  /\ system.failed = {}
  /\ session' = session + 1
  /\ pc' = 1
  /\ system' = Begin(Collect(system), Program, session')
  /\ UNCHANGED <<test, rounds>>

\* Other code of the process.
Round == Running /\ pc <= Len(Steps) /\ rounds < MaxRounds /\ rounds' = rounds + 1

FlushDatabase ==
  /\ Round
  /\ Idle(system)
  /\ system.pending # <<>>
  /\ system' = FlushFrom(system, 1)
  /\ UNCHANGED <<test, session, pc>>

CollectDatabase ==
  /\ Round
  /\ Idle(system)
  /\ system' = Collect(system)
  /\ UNCHANGED <<test, session, pc>>

\* What the program can still reach: the names it goes on to use, except Futures
\* that it knows by their id.
Named(step) == Range(step.args) \cup (IF step.op \in UsesId THEN {} ELSE {step.of})
HeldNames ==
  UNION {Named(Steps[i]) : i \in pc..Len(Steps)}
    \cup UNION {UNION {Named(Methods[m].do[i]) : i \in DOMAIN Methods[m].do}
                  \cup (IF Methods[m].ends = "reads" THEN {} ELSE {Methods[m].value}) : m \in DOMAIN Methods}

RECURSIVE Reachable(_, _)
Reachable(s, names) ==
  LET found == names \cap DOMAIN s.objects
      more == UNION {Refs(s.objects[n]) \cup ReactionRefs(s.objects[n]) : n \in found} \ names
  IN IF more = {} THEN found ELSE Reachable(s, names \cup more)

\* Mutant: pendingWrites holds its objects weakly.
LiveObjectsUnwritten ==
  Reachable(system,
    HeldNames \cup DOMAIN Methods
      \cup UNION {{j.next, j.from, j.handler, j.arg} : j \in Range(system.jobs)})

LiveObjects ==
  Reachable(system,
    HeldNames \cup DOMAIN Methods
      \cup {system.pending[i].object : i \in DOMAIN system.pending}
      \cup UNION {{j.next, j.from, j.handler, j.arg} : j \in Range(system.jobs)})

\* The host collects what nobody can reach; it is read from its row when it is next
\* asked for by id.
HostCollects ==
  /\ Round
  /\ DOMAIN system.objects # LiveObjects
  /\ system' = [system EXCEPT !.objects = Restrict(@, LiveObjects),
                              !.known = @ \cap LiveObjects,
                              !.dirty = {i \in @ : i.object \in LiveObjects}]
  /\ UNCHANGED <<test, session, pc>>

Next ==
  \/ Continue
  \/ RunMicrotask
  \/ Close
  \/ FlushDatabase
  \/ CollectDatabase
  \/ HostCollects

\* The host runs its microtasks and the program goes on when it can; other code owes
\* nothing.  This is WF_vars(TestStep) with ENABLED written out.
TestStep == Continue \/ RunMicrotask \/ Close
CanStep ==
  Running /\ \/ system.jobs # <<>>
             \/ pc > Len(Steps) /\ system.failed = {}
             \/ pc <= Len(Steps) /\ Ready(system, Steps[pc])
Fairness == []<>~CanStep \/ []<><<TestStep>>_vars

Spec == Init /\ [][Next]_vars /\ Fairness

----------------------------------------------------------------------------
(* Properties.                                                             *)

TypeOK ==
  /\ Program = Tests[test.name]
  /\ session \in 1..Len(Program) + 1
  /\ pc \in Nat
  /\ rounds \in 0..MaxRounds
  /\ DOMAIN system = DOMAIN EmptySystem
  /\ system.known \subseteq DOMAIN system.objects
  /\ \A i \in DOMAIN system.pending : system.pending[i].object \in DOMAIN system.objects
  /\ DOMAIN system.marks = DOMAIN system.rows

\* Every Method the suite expects to be called is called with what the suite expects,
\* every Future it awaits has the outcome it expects, every container that comes
\* back holds what was put in, and the database ends as empty as the suite says.
ExpectationsMet == system.failed = {}

\* What a later session can come to read, from a root on: a settled Future's reactions
\* are not read.
RECURSIVE Readable(_, _)
Readable(s, names) ==
  LET IsSettled(n) ==
        n \in DOMAIN s.rows /\ s.rows[n].kind = "future" /\ s.rows[n].state # "Pending"
      more == UNION {IF IsSettled(n) THEN Refs(s.rows[n]) ELSE RowLinks(s, n) : n \in names} \ names
  IN IF more = {} THEN names ELSE Readable(s, names \cup more)

\* Whatever can be read has its row, whenever the process dies.
RowsComplete == Readable(system, Roots(system)) \cap system.created \subseteq DOMAIN system.rows


\* An outcome that is on disk is never replaced, by no session and no object that was
\* read back since.
HasOutcome(s, f) == f \in DOMAIN s.rows /\ s.rows[f].kind = "future" /\ s.rows[f].state # "Pending"
OutcomesKept ==
  [][\A f \in DOMAIN system.rows \cap DOMAIN system'.rows :
       HasOutcome(system, f) => system'.rows[f] = system.rows[f]]_system

\* Whatever a later session can come to read that is Pending is a root, is owed an
\* outcome by another one however that settles, or waits for a promise of this process.
OwedOnDisk(s, f) ==
  \/ s.rows[f].root
  \/ \E g \in DOMAIN s.rows :
       \A type \in {"Fulfilled", "Rejected"} : \E i \in DOMAIN s.reactionRows :
         LET r == s.reactionRows[i]
         IN r.of = g /\ r.next = f /\ r.type = type /\ ~HasOutcome(s, g)
  \/ \E p \in DOMAIN s.objects : s.objects[p].kind = "promise" /\ Contains(s.objects[p].waiting, f)
  \/ \E i \in DOMAIN s.jobs : s.jobs[i].kind = "callback" /\ s.jobs[i].next = f
StillOwed ==
  \A f \in Readable(system, Roots(system)) \cap DOMAIN system.rows :
    system.rows[f].kind = "future" /\ ~HasOutcome(system, f) => OwedOnDisk(system, f)

\* While a test is not done it can go on or a microtask is queued that gets it there: it
\* never waits for what nobody will do.
NeverStuck == Running => CanStep

\* Every test comes to its end, whatever other code does to the database meanwhile.
TestsEnd == <>~Running
=============================================================================
