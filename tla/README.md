# A verification project for FutureMachine

FutureMachine is a TypeScript library of *Futures*: promises that survive a
restart of the process, can be settled by their id, and whose callbacks are
*Methods*, functions registered under a name so that a later session finds them
again. This directory holds TLA+ models of its core, the TLC runs that check
them on small instances, three hundred of the repository's own tests run as
programs on a model of the whole, and TLAPS proofs about the settlement engine, the
sessions, the combinators, the containers and the SQLite store's Futures for all instances. `PROJECT.json` links each definition to the source lines it
stands for, and lists the runs, the mutants, the hazards and the findings.

Paths below are relative to `src/packages/`.

## 1. The system

### Components

| component | source | state | operations |
|---|---|---|---|
| Settlement engine | `core/src/core/future_machine_impl.ts`, `future_impl.ts` | per Future: state, result or reason, `alreadySettled`, reaction pairs, the promise of `getPromise`; `ongoingCalls`, `onDonePromiseWithResolvers`; the host's microtask queue | create, withResolvers, resolve, reject, `next`, `finally`, `resolveFutureById`, `rejectFutureById`, adoption (`nextWithFuture`), `getPromise`, `onActivitySettled` |
| Combinators | `all`, `any`, `allSettled`, `race`, `core/src/core/internal_methods.ts`, the AggregateDB of each store | list of values, `remainingElementCount` | the call, one reaction per element |
| In-memory store | `core/src/database/simple_future_database.ts` | `futureMap`, `idCounter`, `instanceId`, `unboundMethodMap` | the FutureDB interface, `flush`, `close` |
| SQLite store | `db-sqlite-node/src/` | tables futures, fulfillReactions, rejectReactions, methods, objects, metadata; objects in memory with dirty flags; `pendingWrites`; weak caches; `garbageCollectionCount` | the FutureDB interface, `flush`, `gc`, `close` |
| Methods | `core/src/core/method_impl.ts`, `createMethodImpl`, `getMethodFromMethodDB` | `methodMaps`, bound arguments, facades | create, `bindArgs`, look up by name |
| Containers, serialization | `core/src/containers/`, `core/src/database/serialize_utils.ts` | List, Dictionary, Struct, Entity | collection operations |
| Exceptions | `core/src/exceptions/` | stack, `exception_boundary_map_global` | create, boundary enter and leave |
| Public API | `core/src/core/future_machine.ts`, `future.ts` | `built` | forwards to the engine |
| Fuzzer | `fuzzer/src/` | a random plan, run once on promises and once on Futures | compares the calls of the plan's Methods |
| Conformance suites | `db-conformance-tests/src/`, `db-sqlite-node/test/` | what each test expects | sessions over one database |
| Tools | `core/src/tools/dot.ts`, `typedoc-plugin` | | not part of the program |

### How they interact

Everything runs on one JavaScript thread. User code, Methods and the callbacks
of outside promises call the engine; the engine calls the store synchronously and
queues microtasks; the host runs the microtasks in order between two pieces of
user code. The store does no I/O until `flush`, which awaits
`onActivitySettled` and then writes all of `pendingWrites` in one transaction.
A restart starts from the last commit with new, empty objects in memory.

### What is hard

* A decision and its effect are microtasks apart: a Future is locked by
  `settle()`, and only a later microtask reads the state of the Future it adopts.
* Many parties can settle a Future (resolvers, an id, reactions, an adopted
  Future, an outside promise), and `triggerRejectReactions` does not check
  that it is still Pending.
* `ongoingCalls` must be balanced on every path, or `flush` never returns.
* The SQLite store is a write-back cache. Dirty flags, a set of pending writes
  that changes while it is iterated, a garbage collector that deletes rows
  of objects that are still in memory, and weak references, all decide together
  whether a reference on disk still has its row.
* Crashes, outside promises that misbehave, iterables that throw.

The `hazards` of `PROJECT.json` list each of these at its line, with the
properties that guard against it or the reason why none does yet.

### What makes each component correct

* Engine: a settled Future never changes; a Pending one is always owed an
  outcome by exactly one party; a follower ends like what it follows;
  reactions run, in order; `onActivitySettled` resolves exactly when nothing is
  queued.
* Combinators: the result is the one the combinator's definition gives for the
  inputs and their order, and it arrives.
* Store: what a restart finds can still be settled; a reference on disk has a
  row; a clean object agrees with its row.
* Objects and Methods of the SQLite store: the id an object keeps never names the
  row of another, and an id on disk has a row.
* Weak cache: one object for each Future at a time.
* Methods: a Method read back runs the function registered under its name and
  type, as an object of this session.
* All of them together: what the conformance suites expect, whatever else the process does
  to the database while a test waits; and what a later session can come to read has its row.
* Containers: each changes as the collection it is named after, reads back as
  written, and what was changed together is saved together.

## 2. Modules

| module | what it is |
|---|---|
| `FutureMachine` | the engine over the in-memory FutureDB |
| `FutureLifecycle` | what the engine promises about each Future, without queues or counters |
| `Promises` | native promises, as the fuzzer runs a plan on them |
| `FutureMachine_proofs` | the theorems about `FutureMachine`, its inductive invariant, and the order of its reactions |
| `Promises_proofs` | `FutureMachine` implements `Promises` |
| `Sessions_proofs` | the theorems about `Sessions` |
| `Thenables` | the engine with outside promises that misbehave |
| `Aggregate` | one call of a combinator and its AggregateDB |
| `Aggregate_proofs` | the theorems about `Aggregate` |
| `SqlStore` | the SQLite store of Futures and reactions, as a write-back cache |
| `DurableFutures` | what a store that survives restarts promises about Futures, without objects, rows, lists or queues |
| `SqlStore_proofs` | the theorems about `SqlStore` |
| `DurableFutures_proofs` | `SqlStore` implements `DurableFutures` |
| `SqlObjects` | the ids and rows of Methods and containers in the SQLite store |
| `SqlObjects_proofs` | the theorems about `SqlObjects` |
| `WeakCache` | the cache of the SQLite store for one key, with a finalizer that runs late |
| `Sessions` | Methods, Entities and containers by name, over a store that is closed and used again |
| `Containers` | a List, a Dictionary and a Struct of the SQLite store, with their rows |
| `Collections` | what the containers promise: an Array, a Map and an object that are saved together |
| `Containers_proofs` | `Containers` reads back what it wrote and implements `Collections` |
| `Programs` | how a test is written down: sessions of steps |
| `System` | the whole system on the SQLite store, under such programs |
| `FutureTests`, `MachineTests`, `MethodTests`, `ExceptionTests`, `ContainerTests`, `PrimitiveTests` | the tests of the six conformance suites |
| `StoreTests` | the tests of `db-sqlite-node/test/sql_future_database.test.ts` |
| `MCSystemGaps` | two programs that no suite has and that do not end |
| `MC...` | the instances for TLC, one module for each module that is run |

`FutureMachine_proofs` and `Thenables` extend `FutureMachine`, and `Promises_proofs` extends
`FutureMachine_proofs`, as `DurableFutures_proofs` does `SqlStore_proofs`; `Sessions_proofs`, `Aggregate_proofs`, `Containers_proofs`, `SqlStore_proofs`
and `SqlObjects_proofs` extend the module they are about; `Aggregate`, `SqlStore`,
`SqlObjects`, `WeakCache`, `Sessions` and `Containers` stand alone, each with what it
needs of its neighbours reduced to what it can tell apart, and each with every interleaving
of user code. `FutureMachine`, `Containers` and `SqlStore` each instantiate the abstract specifications they
implement (`FutureLifecycle` and `Promises`, `Collections`, `DurableFutures`). `System` is the opposite: all components as they call each other, and user code
that does only what a program says.

Definitions named after a mutation (`...Unchecked`, `...CheckedEarly`, ...) and
marked `Mutant` stand just before the definition they vary. They are no part of
any specification: each is a plausible bug under which a property is expected to fail.

### FutureMachine

`state`, `value`, `alreadySettled`, `reactions` and `promise` are the fields of
FutureDB, `idCounter` the store's; `jobs` are the microtasks for which
`beginCall` was called, oldest first; `ongoingCalls` and `onDone` are the
engine's. `resolvable` says whose resolvers or id left the machine: `next()` keeps
those of the Future it returns. `parent` and `follows` are history: where a
Future comes from and what it was resolved with.

* `Trigger` is `triggerFulfillReactions` and `triggerRejectReactions`;
  `Enqueue` is `beginCall` and `endCall`, its flag `done` saying whether the
  step ends the oldest microtask.
* `ResolveFutureByDBNoSettledCheck` covers a plain value, an outside promise, an
  object whose `then` throws when it is read, another Future, and the Future itself.
* `CreateFuture`, `CreateSettled`, `FutureNext`, `ResolveFutureById`,
  `RejectFutureById`, `GetPromise` and `OnActivitySettled` are calls of user code;
  `PromiseCallback` is an outside promise, `RunMicrotask` and `Resume` the host.

A Method that runs inside a microtask may call any of these operations before it
returns. The model takes such calls just before the microtask: in both orders
the jobs they queue are behind the microtask's predecessors and ahead of what its
own outcome queues, so the queues are the same. The Method's outcome is any value,
thrown or returned. Of `race`, `all`, `any`, `allSettled` and `finally`
the engine sees only `next` and `withResolvers`, so they are no actions here.

`onDone` is a Boolean because the code keeps one shared promise. `Resume` comes
ahead of `RunMicrotask` because the continuation was queued when no counted
microtask was left.

### FutureLifecycle

The abstract specification: a Future is unborn, open, locked to a source, or
settled; only that source settles a locked Future, with its own outcome. The
engine's Pending Future is open until `alreadySettled` is set and locked afterwards
(`status`). `ImplementsLifecycle` checks the step simulation and the fairness of
followers; the theorem `RefinesLifecycle` proves the step simulation.

### Promises

The other executor of the fuzzer: ECMAScript's promises with their two reaction lists, their
resolving functions and the host's one queue. It is external to this repository, but the fuzzer asserts
that Futures behave like it, call for call. `ImplementsPromises` states that: the
engine's `jobs` are mapped to the host's jobs one by one (`NativeJob`), `alreadySettled` to promises
whose resolving functions are spent, reaction pairs to the two lists, and what only the engine has
(`ongoingCalls`, `getPromise`, `onActivitySettled`) stutters. A Future is thus settled at the very
microtask at which a promise would be. The theorem `RefinesPromises` proves it.

### Thenables

`SpecForeign` lets an outside promise settle with something `serialize` refuses, which
its type allows and any native promise may do. `FutureMachine` assumes the other
promises. A `PromiseLike` that calls its callbacks twice is no step of either.

### Aggregate

A whole call in one action (`Call`: it is synchronous), with any iterable of at
most `MaxLength` values over two Futures, some given twice, and possibly throwing
at the end; then inputs settle and reactions run. `values` and `remaining` are
SimpleAggregateDB's. `Promised` is the reference definition of each
combinator in terms of the inputs and the order they settled in; it does not
mention the AggregateDB.

### SqlStore

`mem[f]` is the SQLFutureDB of a Future with its two SQLReactionsDB, or `Absent`;
`disk` the tables; `pendingWrites` the Set, as a sequence without repetitions.
`phase` follows a `flush()` call from the call over the wait for
`onActivitySettled` to its synchronous part, which is one action, as is the
collector's. The engine is reduced to the jobs it queues, because they are the only
references to Futures that a crash loses. A step first computes the next store as a record
(`DirtyFuture`, `EnsureInDatabase`, `Load`, `PushReactions`, `Settled`, `Lock`),
so that the code's nested calls are composed as they are.

What is abstracted:

* a value is plain, or a List that holds one Future: containers matter here only
  as references, and `getOrCreateId` of a container reaches the Futures it holds;
* fulfilments have Lists and rejections plain values. The code treats the two kinds
  alike, so this loses no case and halves the states;
* Methods and their bound arguments are left out, and outside promises too;
* the `garbageCollectionCount` shortcut only skips a query whose answer it knows;
* a crash inside a transaction leaves what a crash before it leaves;
* the collector may run after any step, as `gc` awaits a flush and its
  continuation may come after further steps.

`Next` restricts user code in two ways, lifted in specifications of their own: it is quiet
between the end of the last microtask and the continuation of `flush`
(`SpecStale` lets it settle a stored Future there), and it never makes a Future part of its own result,
not by way of the results of others either (`SpecSelfHolding` lifts this). The second is also what makes `Load` right: the code
caches an object only after its value was read, so results that hold each other would give two objects for
one Future. User code also never lets Futures wait for each other in a circle: such
Futures are owed an outcome only by each other, in the code as in the
model.

`NothingForgotten`, `NoDanglingRows` and `WriteBack` are about states, `OutcomesDurable` about steps: within a session
an outcome is never replaced, and once a flush has written it no later session sees another, until the Future is swept.
An outcome that no flush has written is lost in a crash, and the Future is Pending again: it may then settle otherwise.

`DurableFutures` says what the store promises to those who use Futures, without the store. `now` and `saved` give for each Future an *entry*: it is gone, open
to user code, a follower of another, due an outcome, or settled. Settling a Future makes its outcome due to
its followers, and what is due is delivered before the next flush; a flush saves all that is not settled, and of what is settled
may leave out what nothing saved refers to; a crash goes back to what was saved; only settled Futures are forgotten, and never
one that another refers to. In `SqlStore`, `NowEntry` reads the entry off the object, or else the row, and off
the job or the list of reactions that will settle the Future; `SavedEntry` reads it off the tables alone. Most of what the
store does is not seen: loading, marking what is dirty, the beginning of a flush, and the eviction of what has a row.
`OutcomesDurable` speaks of rows and objects, which `DurableFutures` does not know; it is proved, and no run repeats it.

### SqlObjects

`mem[n]` is the SQLListDB or SQLMethodDB of an object, `disk` the tables with the id
counter of the metadata, `pendingWrites` the Set. Rows of Futures are reduced to *pins*:
a Pending root with one reaction, whose Method is what keeps an object on disk. A
List of one element stands for the four containers, whose contents are
`Containers`' subject; it may hold a Method bound to itself, so cycles occur. Two objects
in memory made from one Method row are one object here. The tables share one id counter,
which only makes the model's ids scarcer: no step compares ids across tables. A step that
would need an id beyond `MaxIds` is not taken. The AggregateDB, whose row is deleted when it is complete, is in `System`.

### Programs and System

A *program* is a test: sessions over one database, each with the Methods it registers and a
sequence of steps, one for each call of the public API, wait or assertion.
`System` runs it. `system` holds the memory (`objects`, `dirty`, `known`, `pending`, `jobs`), the disk
(`rows`, `reactionRows`, and the marks of `gc`: `marks`, `currentMark`) and what the program saw (`calls`, `failed`). Each operation is a function
from one system to the next and calls the others as the code does: a settlement pops the reactions
(`Popped`), loads what they name (`Load`), marks what changed and queues jobs; a job invokes a Method,
which may be one of the library's and settle an element of an AggregateDB; a flush writes what is
pending, objects that a write meets for the first time included (`Save`); `Collect` is `gc`: a flush, then the
current mark flips, the roots are marked, `MarkFrom` is the loop over what they name, and what has the old mark is swept.

`Continue` runs the program from one wait to the next, since a test function is not
interrupted in between; `RunMicrotask` is the host; `Close` ends a session with the collection that
the tests' `close` does and begins the next one with what is on disk. `FlushDatabase`, `CollectDatabase`
and `HostCollects` are other code of the process: they come between any two microtasks and waits at
which they can, and are what the tests themselves hardly reach. `MaxRounds` bounds how often.

What is abstracted:

* an object has its name in memory and on disk: ids and caches are `SqlObjects` and `WeakCache`;
* what follows an `await` may run at any time after what it awaits is there; `flush` and `gc` run
  their synchronous part when nothing is queued (that they may come later is `SqlStore`'s `SpecStale`);
* a test holds what it goes on to use, Futures it awaits included, and only that;
* a Method bound to `FuturesAPI` or `FutureMachineAPI` has a plain value in its place;
* a number of rows that other code could change before the test looks is asserted only
  where no wait comes in between;
* there is no crash: sessions end with `close`, as in the tests.

The suites' modules name each program after its suite and the line of the test, as in `"future:70"`. Tests
that are the same but for a value or a container share a definition. Tests that a `describe` splits
over sessions are one program.

`ExpectationsMet` says that no assertion of any test fails, `TestsEnd` that every test ends,
`RowsComplete` that what a later session can read, from the roots on, always has its row, whenever
the process dies. `StillOwed` says of the same rows that a Pending Future is a root, is the next Future of
both kinds of reaction of another Pending one, or waits for a promise of this process: a restart finds
none that nobody can settle. `OutcomesKept` says that no session replaces an outcome that is on
disk, whatever was evicted and read back since. A test that fails stops, so it violates `TestsEnd` as well.

The suites' tests have two sessions at most where Futures are settled. `MCConformance` adds programs of
three, in which what one session settled or locked meets the next one by its id, and a
combinator gets one element in each. In `MCSystemGaps` the property is `NeverStuck`: while a program is
not done, it can go on or a microtask is queued. That is the safety half of `TestsEnd`.

### WeakCache

One key. `held` is what user code refers to, `map` the entry, `finalizable` the objects
that are gone but whose finalizer was not called. The host drops an object when nothing refers
to it and calls the finalizer in some later task, as the language allows.

### Sessions

The in-memory store is closed and used again by the next session. A DB object is a record
of what it was made from (session, type, name, argument), since nothing the code does
tells two such objects apart by what they run; `facade` is the session whose machine its
facade belongs to, `unbound` is `unboundMethodMap`, `hand` is the last object user code
got. The library's Methods are reduced to the thrower and one more; a
bound Method has one argument; the internal Entities are left out.
`RegisterEntity` enters the class before it creates the Methods, which may throw, as the
code does. `Iterate` is the read through a Dictionary's iterators, which do not call the
store's `deserialize`: `OriginalMethods` is claimed for the other reads.

### Containers and Collections

Each of the three containers has an object in memory with a dirty flag, or none, and a row.
Sweeping and ids are `SqlObjects`' subject, so no row disappears here. `pendingWrites` is the
set of dirty containers, as their writes do not touch each other. A List row with a null in it cannot
be read: the code has put the empty List into the cache by then, and so does the
model. `MaxGap` bounds how far past the end `set` may begin: 0 in the run, for
`list.ts` leaves open what more means, 1 shows what the code does then (section 4). `-0`, which is
written as 0, is in `ToInternalValue` and left out of the instances' values. An Entity has the
layout of a Struct. `getOrInsertComputed` is one step: what its callback does are steps before it.

`Collections` has only the present and the saved contents of each. The refinement
mapping of `Containers` takes the object in memory if there is one and the row otherwise;
a flush is `Save` of all at once, a crash is `Restart`, and eviction and loading are stutters.

## 3. Runs

| run | instance | states | expected | shows |
|---|---|---|---|---|
| `engine` | 3 Futures, one that has a promise | 64 thousand | pass | safety, liveness, and that the engine implements `FutureLifecycle` and `Promises` |
| `thenable_not_serializable` | 2 Futures | | violation | a locked Future is abandoned |
| `aggregate` | 2 inputs, 2 payloads, up to 3 values | 13 thousand | pass | results as the definitions say, and they arrive |
| `store` | 3 Futures | 290 thousand | pass | the store's safety across flush, gc, eviction and crash, and that it implements `DurableFutures` |
| `store_stale` | 3 Futures | | violation | a stored reaction lost by a flush that came too late |
| `objects` | 3 objects, 1 pin, 4 ids | 1.5 million | pass | ids and rows agree |
| `weak_cache` | 3 objects | | violation | two objects settle one Future |
| `sessions` | 3 sessions, 2 user names, 1 slot | 370 thousand | pass | what a stored Method runs, and whose objects user code holds |
| `session_names` | the same, one name that the library uses too | | violation | another Method runs |
| `containers` | Lists up to 2, 2 keys, 1 property, 2 values | 98 thousand | pass | that the containers implement `Collections` |
| `conformance` | 312 programs, 6 rounds of other code each | 97 thousand | pass | the components together do what the tests expect, under flushes, collections and evictions, and what is on disk can be gone on with |
| `system_gaps` | 2 programs, 1 round | | violation | waits for what nobody will do |

Why the bounds are enough. Three Futures make up every pairwise interaction with
a third party: a Future, the one it follows, and one that waits for
either; a cycle; a reaction added before and one after settlement. One payload is enough
for the engine, which never compares payloads; its own reasons
(`TypeException`, `NotFound`) are kept apart from it. `Observed` lets one
Future have a promise, since no step relates two promises. `NestedPromises` is empty in
`engine`, because a promise that hands over a promise again and again never
settles its Future and liveness would need a further assumption; the proofs cover it. Two inputs
in an iterable of three give one input twice and another in every position. In
the store, three Futures give a root, its next Future, and one that is
held by a value or adopted; this already exhibits the violations of section 4. Three objects make a
cycle of two with something that reaches it, and four ids let each object lose its row and one
be written again. A third session tells the session that
made an object from the one that stored it and the one that reads it. A List of two has a first, a
last and an end. There is no limit on flushes, collections, evictions or crashes there. Histories
are bounded by the number of Futures, objects, ids and sessions only. In `conformance`, two
rounds make a flush or a collection that writes and an eviction of what is then clean, a third meets what was
read back, and six allow that in two sessions of a test. A program's own length bounds the rest.

Deadlock is checked in `engine`, `sessions` and `containers`, where user code can always
act. It is not in `Aggregate`, `SqlStore` and `SqlObjects`, which may end when all is settled and
created or the bounds are reached, and not in `System`, where a test ends; that none
stops before its end is `TestsEnd`.

### Fairness

`FutureMachine` assumes WF of `RunMicrotask` and `Resume`: the host drains the microtask queue
before it does anything else. User code and outside promises owe nothing. Hence
`AdoptionCompletes` and `ReactionsRun` start from a Future that is settled.
`Aggregate` assumes WF of `RunElement` for the same reason. `System` assumes that the host runs its
microtasks and resumes the test function when what it awaits is there, which is weak fairness of `TestStep`; its
`Fairness` is that definition written out, with `CanStep` for ENABLED, which TLC could not evaluate in
reasonable time. Other code owes nothing. The other modules state no liveness.

## 4. Findings

`PROJECT.json` quotes for each what the repository's comments and tests say.

1. A promise that settles with something not serializable leaves the Future
   Pending for ever (`core/src/core/future_machine_impl.ts:469`).
2. `flush` may run after user code settled a stored Future whose reactions are still queued, and deletes the
   rows of those reactions; a crash then loses them, and what waited stays Pending
   (`db-sqlite-node/src/sql_future_database_impl.ts:83`).
3. The finalizer of a collected object removes the cache entry of its successor: the
   next lookup makes a second object for the Future, each is settled, and the row
   changes from one outcome to the other (`db-sqlite-node/src/weak_cache.ts:4`).
4. A user's Method with the name of one of the library's takes its place in
   `unboundMethodMap`, or the other way round (`core/src/database/simple_future_database.ts:566`).
5. A Future that waits for an outside promise is no root: a `gc` sweeps its row and its reactions, and
   when the promise settles in the same session nothing is called
   (`core/src/core/future_machine_impl.ts:466`).
6. An iterable that throws after it yielded a Pending Future leaves an AggregateDB that cannot be
   written: the next flush throws inside its transaction and every later one fails
   (`db-sqlite-node/src/sql_aggregate_db.ts:73`). Findings 5 and 6 are the two programs of
   `system_gaps`; each violates `NeverStuck` alone.

Four more were met without a run of their own. A Future that is held by its own result when it is
first written stays dirty for ever and is not rewritten after a collection
(`db-sqlite-node/src/sql_future_db.ts:185`): under `SpecSelfHolding`, `SqlStore` violates
`NoDanglingRows`. A List set past its end is written with a null that cannot be
read back, and is empty from then on (`db-sqlite-node/src/sql_list_db.ts:70`): with `MaxGap = 1`,
`Containers` violates `ReadsBack`. A `PromiseLike` that rejects after it resolved
changes a settled Future (`future_machine_impl.ts:470`), and an iterable that throws after
yielding leaves reactions that meet an assertion in `settleElement`
(`simple_future_database.ts:258`); their entries under `hazards` say more.

## 5. Proofs

`FutureMachine_proofs` proves, for every `MaxFutures`, `Payload`, `Handlers`,
`NestedPromises` and `Observed` that satisfy `ConstantsAssumption` (the bound is a natural number, `NoValue` is no
payload, and handler pairs and nested promises are of their kinds):

| theorem | statement |
|---|---|
| `Invariance` | `Spec => []IInv` |
| `TypeCorrect` | `TypeOK` |
| `SettlersExclusive` | `NoTwoSettlers` |
| `NothingForgotten` | `PendingIffOwed` |
| `CallsAreCounted` | `CallsCounted` |
| `WaitersAreResumed` | `NoForgottenWaiter` |
| `Followers` | `FollowersAgree` |
| `Promises` | `PromiseAgrees` |
| `RefinesLifecycle` | `Spec => Lifecycle!Safety` |
| `SettlementIsFinal` | `SettledForGood` |
| `Ordered` | `ReactionsInOrder` |
| `RefinesPromises` (`Promises_proofs`) | `ImplementsPromises` |

`Sessions_proofs` proves, for every `UserName`, `InternalName`, `Slot` and `MaxSessions` that satisfy
`NamesAssumption` (the thrower's name is the library's and not the user's, and there is a first session):

| theorem | statement |
|---|---|
| `SessionsInvariant` | `Spec => []SInv` |
| `SessionsTypes` | `TypeOK` |
| `FacadesAreOfThisSession` | `FacadesOfThisSession` |
| `RunAsRegistered` | `RunsAsRegistered`, if `NamesDiffer` |
| `OriginalMethodsRead` | `OriginalMethods`, if `NamesDiffer` |

`NamesDiffer` (user code takes no name of the library's) is what the code fails to enforce: the run
`session_names` violates `RunsAsRegistered` without it, and these two theorems show that nothing else
is missing.

`Aggregate_proofs` proves, for every `Input`, `Payload`, `Undefined`, `Thrown` and `MaxLength` that satisfy
`AggregateAssumption` (a place without a value can be told from one with a value):

| theorem | statement |
|---|---|
| `AggregateInvariant` | `Spec => []AInv` |
| `AggregateTypes` | `TypeOK` |
| `CountExact` | `RemainingExact` |
| `AsPromised` | `ResultAsPromised` |

`Containers_proofs` proves, for every `Value`, `Key` and `Field` and Lists and batches of any length that satisfy
`BoundsAssumption` (what is not there can be told from what is), if `MaxGap = 0` and -0 is not among the values:

| theorem | statement |
|---|---|
| `ContainersInvariant` | `Spec => []CInv` |
| `ContainerTypes` | `TypeOK` |
| `EverythingReadsBack` | `ReadsBack` |
| `ContainersAreCollections` | `ImplementsCollections` |

`SqlStore_proofs` proves, for any number of Futures (`MaxFuturesAssumption`):

| theorem | statement |
|---|---|
| `Inductive` | `Spec => []IInv` |
| `StoreTypes` | `TypeOK` |
| `NothingIsForgotten` | `NothingForgotten` |
| `RowsComplete` | `NoDanglingRows` |
| `WrittenBack` | `WriteBack` |
| `OutcomesAreDurable` | `OutcomesDurable` |
| `LedgerIsSound` | `Sound`, of what is in memory and of what a crash would leave |
| `RefinesDurableFutures` (`DurableFutures_proofs`) | `ImplementsDurableFutures` |

`SqlObjects_proofs` proves, for any number of objects, roots and ids (`BoundsAssumption`):

| theorem | statement |
|---|---|
| `Invariant` | `Spec => []IInv` |
| `ObjectTypes` | `TypeOK` |
| `IdsHaveRows` | `NoDanglingIds` |
| `ObjectsAgree` | `RowsAgree` |
| `OneRowEach` | `OneRow` |

The two conditions of `Containers_proofs` are the ones the code needs: an assignment behind the end leaves a hole that cannot
be read back (section 4), and -0 is written as 0 (section 2).

**The inductive invariant.** `PendingIffOwed` and `NoTwoSettlers` quantify over
positions in sequences that grow and shrink, and neither is inductive. The code is right
because the *claims* on a Future are handed over one by one: a stored reaction
becomes a job, a job becomes a stored reaction (adoption), a subscription
(an outside promise) or nothing (settlement). `IInv` says this claim by claim:

* `BirthInv`: an unborn Future has no value, no reactions and no resolvers; a
  Future is settled only with its flag set and a value; only a Pending one has reactions.
* `LockInv`: what follows something is locked; what is Pending and locked follows
  something; nothing follows itself or a Future that does not exist.
* `JobsInv`, `ReactionsInv`, `SubscribedInv`: the Future that a job, a stored
  reaction or a subscription is for is Pending, and what each kind of claim says of
  its source.
* `OnceInv`: no Future is claimed twice. It is the symmetric core of
  `NoTwoSettlers`.
* `OwedInv`: every Pending Future is claimed. With the three before it this gives
  `PendingIffOwed`.
* `CallsCounted`, `NoForgottenWaiter`, `FollowersAgree`, `PromiseAgrees`
  and `TypeOK`, which are inductive with the others.

There is one lemma for each way a step changes the state (`Trigger`, `Lock`, storing a reaction, creating a
Future), each giving `IInv'` and the step of the abstract lifecycle (`Maps`) at once. Every action
is then a case that names its lemma. `SettlementIsFinal` follows from
`RefinesLifecycle`'s step simulation, as the lifecycle has no step out of a settled status.

**Promises.** Each action's queue step is the host's, because mapping a queue element by element
commutes with taking its head and with appending (`MappedQueue`); the two reaction lists of a
promise are the engine's reaction pairs split by kind. One lemma per way of settling relates `Trigger`
and `Lock` to the host's operations, and every action of the engine is a case. The simulation
needs `IInv` to know that what a microtask settles is still Pending.

**Order.** `ReactionsInOrder` speaks of the queue only; what enters it was stored before. `OrderInv` adds
`ParentInv` (what `next` returned has no resolvers in user code), `StoredOrder` (in the list of a
Future, the younger children that are not locked come later, and are its own) and `QueuedOrder` (the same
in the queue, per source). A locked Future is exempt: it waits again, for what it follows. Adoption
moves a claim and locks its Future at the same step, which is why this exemption is inductive.

**Sessions.** `SInv` says that a facade of this session exists only for an object whose name this session
has registered (`FacadeOK`), that `unboundMethodMap` leads from each name to a Method of that name,
registered in this session if the session has the name at all (`UnboundInv`), and that what user code
holds has a facade of this session. With `NamesDiffer` the name also tells the type (`TypeByName`), and
what a reaction runs then follows by cases on its argument.

**Combinators.** `AInv` has three parts. `QueueInv`: the elements of settled inputs are in `order` once
each, and `jobs` is its tail; what is in front of it has run (`Ran`). `ValuesInv`: the list holds exactly the
values of those that have run and are collected, and `RemainingExact`. `ResultInv`: the result is Pending,
promised or thrown, and Pending only while all that ran were collected. A step needs
that a promised outcome stays promised (`PromisedStable`), as inputs settle after the result is fixed;
that the reaction whose value fills the last place is the one that sees 0 (`OneFewer`); and that an element
that is not collected is the first of its type in `order`, because what ran before it was collected. `InOrder`
and `First` choose a least index; that there is one comes from the well-foundedness of finite sets (`Least`).

**Containers.** `CInv` is `ReadsBack` with what makes it inductive: every row is one that can be read
(`RowsInv`: no null in a List's row, no key twice in a Dictionary's), and what is in memory has no hole, no key
twice, and is there as long as it is to be written (`MemoryInv`). What is written is read back
(`ListReadBack`, `DictionaryReadBack`, `StructReadBack`), so a flush maps to `Save`, a crash to `Restart`, and loading
and eviction change nothing that is seen. For the operations, the entries of a Dictionary are a Map and the order of its keys
(`MapOfFacts`): an entry appended, replaced or removed changes both as the Map does (`Appended`,
`Replaced`, `Removed`).

**The SQLite store.** `WriteBack` follows from an invariant about each object and its row (`ObjectOk`), but
`NothingForgotten` is about all of them: it says that each Pending Future is owed an outcome, and a step that
settles or stores one claim must leave the others'. The *ledger* states what is preserved. `Once`: nobody is to settle a
Future twice, so that a claim that is used up was the only one on its Future. `Grounded`: of any set of Pending
Futures, one is settled from outside the set, so that none wait only for each other; this is what a collection needs, which
keeps just what is reachable from the roots. `Sound` is both, and `IInv` claims it twice: of the objects in memory with the rows of
those that have none (`NowInv`), and of the disk alone (`SavedInv`), which is what a crash leaves. Between the two:

* `Marks`: an object or a list is dirty if and only if it is in the Set, which has no entry twice. `Marks(s, n)` is the same
  while a flush has been through the first `n` entries.
* `DiskInv`: rows refer to rows, only a Pending Future is a root, what user code knows and is not locked is a root.
* `MemInv` (`ObjectOk`, `ListOk`): a clean object is its row; a dirty one that has a row is locked or settled and its row
  still Pending; what is not read of a list is in the rows; what memory refers to is in memory.

The operations of the ledger are lemmas of their own: a new Future, a reaction added, a Future settled whose reactions become
jobs, an adoption. A flush runs the entries of the Set while they add to it. `Flushing(s, n, E)` is its loop
invariant after `n` entries: a reference in a row leads to a row, to an object that the rest of the Set will write, or to one
of `E`, the references of the current entry that are still to be looked at. That the loop reaches the end of the Set is a matter of
counting: a Set without repetitions has at most `3 * MaxFutures` entries (`SetBound`). Then nothing is due and what is Pending in memory and
reachable is Pending on disk with the same reactions: `NowInv` becomes `SavedInv`. This needs the queue to be empty,
which is why a flush that is late (section 4, finding 2) is excluded from `Spec`, and that no Future is part of its own result, which is
the first of the four further findings.

`OutcomesDurable` is a property of steps that rests on the same `IInv`. `ObjectOk` has the two facts it needs: an object whose
row is settled is clean and equal to it (`SettledRow`), so that a flush never writes over an outcome, and a dirty one has a row that is Pending.
A step that leaves the tables alone then has only to show what `Inherits` says of each object: it keeps the
outcome it had, or is read from its row.

**The store implements `DurableFutures`.** The entry of a Future that waits is read off *the* job or *the* Future whose list it is in;
that there is no other is `Once`, that there is one follows from `Grounded` (`SoundCovers`), and so what a Future comes to
is a function of the ledger (`Comes`, `EntriesNow`; `ComesSaved`, `EntriesSaved` for the tables alone). Each operation
of the store is then described twice over, by what it leaves of the views the ledger is made of (`FlushViews`,
`CollectViews`, `EvictViews`, `CrashViews`) and by the entries that follow from those. Three facts carry the steps. `KeptEntry`:
a Future whose object, reactions and jobs are seen as before has the entry it had, however much was loaded, dirtied or evicted. A
settlement turns exactly the followers of the Future into ones that are due, as its reactions become its jobs (`SettleSeen`), and
a job settles the one Future it is for, with the outcome that Future was due. A flush finds the
queue empty, so nothing is due; it writes every object that is dirty, and a root or a follower always has a row afterwards, so what is not saved is
settled (`FlushImplements`). That entries refer to entries in memory and on disk (`NowIsComplete`, `SavedIsComplete`) comes
from `MemInv` and `DiskInv`, and from the closures of `Collect` and `Evict`.

**Objects and ids.** The three properties need one another: an object may be inserted again only if its row is
gone, which it can tell only if its id names no other's row, which it does only if ids are never given out twice. `Good` says all of it of
the objects, the tables, the reactions and a set `W` of entries that are still to be written, so that it is the invariant
between steps (`W` is the Set) and inside a flush (`W` is what is left of it):

* `RowsOk`, `PinsOk`: every stored id is at most the counter, elements and reactions name rows, and no two rows are of one object.
* `ObjectsOk`: the id of an object is at most the counter, so no later row gets it; if a row has it, the row is the object's, and its element
  too unless the object is dirty; and if some row is of an object in memory, the object has that row's id. The last is what makes
  an object that lost its row notice it, and one that has it not be inserted.
* `SetOk`, `ReactionsOk`: an entry of the Set is in memory and has an id, a dirty object is an entry; a reaction in memory is a
  Method in memory, and one that is only on disk has a row.

The heart is `ExtendsGood`: inserting everything that `getOrCreateId` goes through at once, cycles included, keeps `Good`. Each new
id is above the counter (`Ranks`), an object of which some row exists never needs one, and the element of what is inserted either has a
row or is inserted too (`InsertedFacts`). `CleanGood` and `PinWritten` are then the two kinds of entry. `Collect` keeps `Good` because what is marked
is closed (`MarkedFacts`), and `Load` because what it makes of rows are clean copies of them.

No induction over data is needed: the closures of `Load`, `Read`, `Inserted` and `Collect` are defined as least sets, and the loops of
both models' flushes are recursive functions of a number, over which `UpTo` does induction by taking a least counterexample.

**Model-checked only.** Liveness and the fairness part of `ImplementsLifecycle`
are beyond the prover: `AdoptionCompletes`, `ReactionsRun`, `ActivitySettles` and `ResultArrives` are such
properties. So is `System`, which is built from recursive operators: its `TypeOK`, `ExpectationsMet`, `RowsComplete`, `StillOwed`
and `OutcomesKept` are checked for the programs of `conformance` only. What `SqlStore_proofs` and `SqlObjects_proofs` say of its
parts, they say of those modules' simpler stores.

## 6. Not modelled

The tools of section 1, wording and stack traces of exceptions and the boundary that trims them,
`toString` and similar views, and for now what the plan lists. SQLite itself is
taken to keep its promises: a transaction is atomic, and a commit survives a crash of
the process.

Of the suites: tests of types, formatting and stack traces; those that count microtasks (the
engine's order is `ImplementsPromises`); iterables within iterables; iterators, `List.map` and
`groupBy`; Entities that a later session does not register, build flags and duplicate names
(`Sessions` has these); the sizes of the caches.

## 7. Plan

In this order, most important first.

1. A crash in `System`, which sessions that end with `close` do not have, and a flush that fails in
   it and goes on failing; ids instead of names, to show that names are implemented by `SqlObjects` and `WeakCache`.
2. `Thenables` with a `then` that throws in its microtask.
3. `Containers`: iterators that outlive the object they came from, properties a Struct was not
   created with, `List.map` and `groupBy`. `Sessions`: a second store over `getState()`.
4. `ExceptionBoundary`.
