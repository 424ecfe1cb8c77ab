------------------------------ MODULE SqlStore ------------------------------
(***************************************************************************)
(* The SQLite store of Futures and their reactions, as a write-back cache: *)
(* SQLFutureDB and SQLReactionsDB objects in memory, the rows on disk, the *)
(* set of pending writes that flush empties inside one transaction, gc,    *)
(* eviction from the weak cache, and crashes.  The engine above it is      *)
(* reduced to the jobs it queues.                                          *)
(*                                                                         *)
(* A row's value is nothing, plain, or a List holding one Future; Methods  *)
(* and their bound arguments are left out.                                 *)
(***************************************************************************)
EXTENDS Integers, SequencesExt

CONSTANTS MaxFutures  \* bound: how many Futures a behaviour creates

ASSUME MaxFuturesAssumption == MaxFutures \in Nat

Future == 1..MaxFutures
Type == {"Fulfilled", "Rejected"}
None == -1    \* the value of a Future that is not settled
Plain == 0    \* any value without a Future in it; n > 0 is a List holding Future n
Value == {None, Plain} \cup Future
NoRow == [state |-> "none"]
Absent == [state |-> "absent"]

VARIABLES
  created,        \* how many Futures exist
  known,          \* Futures whose id user code holds: it survives a crash
  mem,            \* per Future, its SQLFutureDB with its two SQLReactionsDB
  disk,           \* the tables
  pendingWrites,  \* the Set of objects to write, in insertion order
  phase,          \* of a flush() call: "idle", "awaiting" onActivitySettled, "ready"
  queue           \* the engine's microtasks, oldest first

store == <<mem, pendingWrites>>
vars == <<created, known, store, disk, phase, queue>>

Reactions == [written : Seq(Future), unwritten : Seq(Future),
              read : BOOLEAN, deleted : BOOLEAN, dirty : BOOLEAN]
FutureDB == [state : Type \cup {"Pending"}, value : Value, settled : BOOLEAN,
             root : BOOLEAN, inDatabase : BOOLEAN, dirty : BOOLEAN,
             rx : [Type -> Reactions]]
Row == [state : Type \cup {"Pending"}, value : Value, settled : BOOLEAN, root : BOOLEAN]
Tables == [rows : [Future -> Row \cup {NoRow}], rx : [Type -> [Future -> Seq(Future)]]]
Job == [next : Future, from : Future, type : Type \cup {"adopt"}, value : Value]
Write == Future \X (Type \cup {"future"})

TypeOK ==
  /\ created \in 0..MaxFutures
  /\ known \subseteq Future
  /\ mem \in [Future -> FutureDB \cup {Absent}]
  /\ disk \in Tables
  /\ pendingWrites \in Seq(Write)
  /\ phase \in {"idle", "awaiting", "ready"}
  /\ queue \in Seq(Job)

Empty == [rows |-> [f \in Future |-> NoRow], rx |-> [t \in Type |-> [f \in Future |-> <<>>]]]

Init ==
  /\ created = 0
  /\ known = {}
  /\ mem = [f \in Future |-> Absent]
  /\ disk = Empty
  /\ pendingWrites = <<>>
  /\ phase = "idle"
  /\ queue = <<>>

----------------------------------------------------------------------------
(* Objects in memory and the Set of pending writes.                        *)

Live == {f \in Future : mem[f] # Absent}
Stored(tbl) == {f \in Future : tbl.rows[f] # NoRow}

\* A SQLFutureDB as the constructor builds it; `read` is ~inDatabase.
NewDB(row, inDb) ==
  [state |-> row.state, value |-> row.value, settled |-> row.settled, root |-> row.root,
   inDatabase |-> inDb, dirty |-> FALSE,
   rx |-> [t \in Type |-> [written |-> <<>>, unwritten |-> <<>>, read |-> ~inDb,
                           deleted |-> FALSE, dirty |-> FALSE]]]

PendingRow(root) == [state |-> "Pending", value |-> None, settled |-> FALSE, root |-> root]

\* Set.add: an entry that is already there keeps its place.
Add(set, w) == IF Contains(set, w) THEN set ELSE Append(set, w)

\* SQLFutureDB.setDirty and SQLReactionsDB.setDirty, on a store given as a record.
DirtyFuture(s, f) ==
  IF s.mem[f].dirty THEN s
  ELSE [s EXCEPT !.mem[f].dirty = TRUE, !.pending = Add(@, <<f, "future">>)]
DirtyReactions(s, f, t) ==
  IF s.mem[f].rx[t].dirty THEN s
  ELSE [s EXCEPT !.mem[f].rx[t].dirty = TRUE, !.pending = Add(@, <<f, t>>)]

Store == [mem |-> mem, pending |-> pendingWrites, disk |-> disk]
SetStore(s) == mem' = s.mem /\ pendingWrites' = s.pending

\* Mutant: whether a collection removed the row is not looked at.
EnsureInDatabaseOnce(s, f) ==
  IF s.mem[f].inDatabase THEN s ELSE DirtyFuture(s, f)

\* ensureInDatabase: the row was never inserted, or a collection removed it.  (The
\* code skips the query while its count of collections says there was none.)
EnsureInDatabase(s, f) ==
  IF s.mem[f].inDatabase /\ f \in Stored(s.disk) THEN s
  ELSE DirtyFuture([s EXCEPT !.mem[f].inDatabase = FALSE], f)

\* What deserializing the rows of `fs` leads to: with each Future the one its List holds.
HeldOnDisk(gs) == {disk.rows[f].value : f \in gs \cap Stored(disk)} \cap Future
Loaded(fs) ==
  {f \in Future : \A gs \in SUBSET Future : fs \subseteq gs /\ HeldOnDisk(gs) \subseteq gs => f \in gs}

\* getFutureDB: the objects are read from their rows unless they are in memory.  (The code
\* caches an object after its value: that is one object for each, as no Future holds itself.)
Load(s, fs) ==
  LET read == {f \in Loaded(fs) \cap Stored(disk) : s.mem[f] = Absent}
  IN [s EXCEPT !.mem = [f \in Future |-> IF f \in read THEN NewDB(disk.rows[f], TRUE) ELSE @[f]]]

\* pushReactionsWithFuture: one reaction in each list.
PushReactions(s, f, next) ==
  LET pushed == [s EXCEPT !.mem[f].rx = [t \in Type |->
                   [s.mem[f].rx[t] EXCEPT !.unwritten = Append(@, next)]]]
  IN DirtyReactions(DirtyReactions(pushed, f, "Fulfilled"), f, "Rejected")

\* Mutant: what was read from disk before is taken for all there is.
PoppedFromMemory(f, t) == mem[f].rx[t].written \o mem[f].rx[t].unwritten

\* What pop yields: the reactions in memory, or the rows of those that were not read.
Popped(f, t) ==
  LET r == mem[f].rx[t]
  IN (IF r.read THEN r.written ELSE disk.rx[t][f]) \o r.unwritten

Deleted(r) == [r EXCEPT !.deleted = TRUE, !.written = <<>>, !.unwritten = <<>>]

Other(t) == IF t = "Fulfilled" THEN "Rejected" ELSE "Fulfilled"

\* fulfill and reject: the list of the other kind is deleted but not made dirty.
Settled(s, f, t, v) ==
  LET settled == [s EXCEPT !.mem[f].state = t, !.mem[f].value = v,
                           !.mem[f].settled = TRUE, !.mem[f].root = FALSE]
      opposite == [DirtyFuture(settled, f) EXCEPT !.mem[f].rx[Other(t)] = Deleted(@)]
      popped == Load(opposite, ToSet(Popped(f, t)))
  IN DirtyReactions([popped EXCEPT !.mem[f].rx[t] = Deleted(@)], f, t)

\* Mutant: settle does not call setDirty.
LockSilently(s, f) == [s EXCEPT !.mem[f].settled = TRUE, !.mem[f].root = FALSE]

\* settle: resolved with another Future, still Pending.
Lock(s, f) ==
  DirtyFuture([s EXCEPT !.mem[f].settled = TRUE, !.mem[f].root = FALSE], f)

\* A Future as this session sees it: its object if there is one, else its row.
View(f) == IF f \in Live THEN mem[f].state ELSE disk.rows[f].state
ViewReactions(f, t) == IF f \in Live THEN Popped(f, t) ELSE disk.rx[t][f]
ViewRoot(f) == IF f \in Live THEN mem[f].root ELSE f \in Stored(disk) /\ disk.rows[f].root

----------------------------------------------------------------------------
(* The engine's use of the store.  `rest` is the queue the step leaves.    *)

\* The job that hands an outcome to n, and the one in which n adopts f.
Forward(n, t, v) == [next |-> n, from |-> n, type |-> t, value |-> v]
Adoption(n, f) == [next |-> n, from |-> f, type |-> "adopt", value |-> None]

Enqueue(rest, jobs) ==
  /\ queue' = rest \o jobs
  /\ phase' = IF phase = "awaiting" /\ queue' = <<>> THEN "ready" ELSE phase

Settle(f, t, v, rest) ==
  /\ SetStore(Settled(Store, f, t, v))
  /\ LET next == Popped(f, t)
     IN Enqueue(rest, [i \in DOMAIN next |-> Forward(next[i], t, v)])

Fresh == created + 1

\* Mutant: an id is taken once for the Future and once for its resolvers.
CreateCountsTwice ==
  /\ Fresh \in Future
  /\ created' = Fresh + 1
  /\ known' = known \cup {Fresh}
  /\ SetStore(EnsureInDatabase(
       [Store EXCEPT !.mem[Fresh] = NewDB(PendingRow(TRUE), FALSE)], Fresh))
  /\ UNCHANGED <<disk, phase, queue>>

\* create and withResolvers: a root, written because its id is handed out.
Create ==
  /\ Fresh \in Future
  /\ created' = Fresh
  /\ known' = known \cup {Fresh}
  /\ SetStore(EnsureInDatabase(
       [Store EXCEPT !.mem[Fresh] = NewDB(PendingRow(TRUE), FALSE)], Fresh))
  /\ UNCHANGED <<disk, phase, queue>>

\* resolve(value) and reject(reason): settled at once, written only if referred to.
CreateSettled ==
  /\ Fresh \in Future
  /\ created' = Fresh
  /\ mem' = [mem EXCEPT ![Fresh] =
       NewDB([state |-> "Rejected", value |-> Plain, settled |-> TRUE, root |-> FALSE], FALSE)]
  /\ UNCHANGED <<known, pendingWrites, disk, phase, queue>>

\* next on a Pending Future: the new one is no root and is not written for its own sake.
\* On a settled one it is made like one of withResolvers, whose id nobody gets.
NextOn(f) ==
  /\ Fresh \in Future
  /\ created' = Fresh
  /\ LET With(root) == [Store EXCEPT !.mem[Fresh] = NewDB(PendingRow(root), FALSE)]
     IN IF mem[f].state = "Pending"
        THEN SetStore(PushReactions(With(FALSE), f, Fresh)) /\ UNCHANGED <<queue, phase>>
        ELSE /\ SetStore(EnsureInDatabase(With(TRUE), Fresh))
             /\ Enqueue(queue, <<Forward(Fresh, mem[f].state, mem[f].value)>>)
  /\ UNCHANGED <<known, disk>>

\* resolveFutureById, rejectFutureById: with a value, or with another Future.  The
\* two kinds are treated alike, so each is given only one of the two sorts of value.
ResolveWith(f) ==
  /\ ~mem[f].settled
  /\ \/ \E g \in Live : Settle(f, "Fulfilled", g, queue)
     \/ Settle(f, "Rejected", Plain, queue)
  /\ UNCHANGED <<created, known, disk>>

ResolveWithFuture(f, g) ==
  /\ ~mem[f].settled
  /\ SetStore(Lock(Store, f))
  /\ Enqueue(queue, <<Adoption(f, g)>>)
  /\ UNCHANGED <<created, known, disk>>

\* Looking a Future up by its id.
GetFutureDB(f) ==
  /\ f \in (known \cap Stored(disk)) \ Live
  /\ SetStore(Load(Store, {f}))
  /\ UNCHANGED <<created, known, disk, phase, queue>>

RunJob ==
  /\ queue # <<>>
  /\ LET job == Head(queue)
         f == job.from
     IN IF job.type # "adopt" THEN Settle(job.next, job.type, job.value, Tail(queue))
        ELSE IF mem[f].state = "Pending"
             THEN SetStore(PushReactions(Store, f, job.next)) /\ Enqueue(Tail(queue), <<>>)
             ELSE /\ UNCHANGED store
                  /\ Enqueue(Tail(queue), <<Forward(job.next, mem[f].state, mem[f].value)>>)
  /\ UNCHANGED <<created, known, disk>>

----------------------------------------------------------------------------
(* Flush, garbage collection, eviction and crashes.                        *)

\* flush() is called: it waits for onActivitySettled.
CallFlush ==
  /\ phase = "idle"
  /\ phase' = IF queue = <<>> THEN "ready" ELSE "awaiting"
  /\ UNCHANGED <<created, known, store, disk, queue>>

\* getInternalId of every Future in `fs`, in order.
Touch(s, fs) ==
  LET touched[n \in 0..Len(fs)] ==
        IF n = 0 THEN s ELSE EnsureInDatabase(touched[n - 1], fs[n])
  IN touched[Len(fs)]

Held(v) == IF v \in Future THEN <<v>> ELSE <<>>

\* SQLFutureDB.write: INSERT, or UPDATE of the row if it is still there.  The object
\* is clean before the value is converted, and inDatabase after.
WriteFuture(s, f) ==
  LET m == s.mem[f]
      touched == Touch([s EXCEPT !.mem[f].dirty = FALSE], Held(m.value))
      row == [state |-> m.state, value |-> m.value, settled |-> m.settled, root |-> m.root]
  IN IF ~m.inDatabase
     THEN [touched EXCEPT !.mem[f].inDatabase = TRUE, !.disk.rows[f] = row]
     ELSE IF f \notin Stored(s.disk) THEN touched
     ELSE [touched EXCEPT !.disk.rows[f] =
             IF m.state = "Pending" THEN [@ EXCEPT !.root = FALSE, !.settled = TRUE]
                                    ELSE row]

\* SQLReactionsDB.write: DELETE, or an INSERT per reaction not written yet.
WriteReactions(s, f, t) ==
  LET r == s.mem[f].rx[t]
      kept == [r EXCEPT !.dirty = FALSE, !.unwritten = <<>>,
                        !.written = IF r.read THEN @ \o r.unwritten ELSE @]
  IN IF r.deleted
     THEN [s EXCEPT !.mem[f].rx[t].dirty = FALSE, !.disk.rx[t][f] = <<>>]
     ELSE Touch([s EXCEPT !.mem[f].rx[t] = kept, !.disk.rx[t][f] = @ \o r.unwritten], r.unwritten)

WriteEntry(s, w) ==
  IF w[2] = "future" THEN WriteFuture(s, w[1]) ELSE WriteReactions(s, w[1], w[2])

\* The iteration over the Set: it visits the entries added meanwhile too, each once.
Written ==
  LET after[n \in 0 .. 3 * MaxFutures] ==
        IF n = 0 THEN Store
        ELSE LET s == after[n - 1]
             IN IF n \in DOMAIN s.pending THEN WriteEntry(s, s.pending[n]) ELSE s
  IN after[3 * MaxFutures]

\* The rest of flush is synchronous, from BEGIN to COMMIT.  A crash within is a
\* rollback: it leaves what a crash before the step leaves.
Flush ==
  /\ phase = "ready"
  /\ phase' = "idle"
  /\ LET written == Written IN mem' = written.mem /\ disk' = written.disk
  /\ pendingWrites' = <<>>
  /\ UNCHANGED <<created, known, queue>>

\* What the marking reaches in one round from the Futures in `fs`: the next Futures of
\* their reactions, and what the values of those that are not roots hold.
Marked(fs) ==
  fs \cup (UNION {ToSet(disk.rx[t][f]) : t \in Type, f \in fs})
     \cup {g \in Future : \E f \in fs \cap Stored(disk) :
                             ~disk.rows[f].root /\ disk.rows[f].value = g}

Roots == {f \in Stored(disk) : disk.rows[f].root}
Reachable ==
  {f \in Future : \A gs \in SUBSET Future : Roots \subseteq gs /\ Marked(gs) \subseteq gs => f \in gs}

\* The rest of gc, one transaction: mark and sweep.  Before it, gc awaits a
\* flush; since that one user code may have gone on, or flushed again.
Collect ==
  /\ LET kept == Reachable
     IN disk' = [rows |-> [f \in Future |-> IF f \in kept THEN disk.rows[f] ELSE NoRow],
                 rx |-> [t \in Type |-> [f \in Future |->
                           IF f \in kept THEN disk.rx[t][f] ELSE <<>>]]]
  /\ UNCHANGED <<created, known, store, phase, queue>>

\* The objects that keep f's object alive: pending writes, jobs, and the reactions
\* and values of other objects.
Retained(f) ==
  \/ \E i \in DOMAIN pendingWrites : pendingWrites[i][1] = f
  \/ \E i \in DOMAIN queue : f \in {queue[i].next, queue[i].from, queue[i].value}
  \/ \E g \in Live \ {f} :
       \/ mem[g].value = f
       \/ \E t \in Type : f \in ToSet(mem[g].rx[t].written \o mem[g].rx[t].unwritten)

\* User code drops its reference and the host collects the object.
Evict(f) ==
  /\ f \in Live
  /\ ~Retained(f)
  /\ mem' = [mem EXCEPT ![f] = Absent]
  /\ UNCHANGED <<created, known, pendingWrites, disk, phase, queue>>

\* The process stops; the next one starts from the last commit.
Crash ==
  /\ mem' = [f \in Future |-> Absent]
  /\ pendingWrites' = <<>>
  /\ phase' = "idle"
  /\ queue' = <<>>
  /\ UNCHANGED <<created, known, disk>>

----------------------------------------------------------------------------
\* The Futures that wait for one in `fs`, directly or not.
WaitFor(gs) ==
  (UNION {ToSet(ViewReactions(f, "Fulfilled")) : f \in gs})
    \cup {queue[i].next : i \in {j \in DOMAIN queue : queue[j].from \in gs}}
Waiters(fs) ==
  {f \in Future : \A gs \in SUBSET Future : fs \subseteq gs /\ WaitFor(gs) \subseteq gs => f \in gs}

UserStep ==
  \/ Create
  \/ CreateSettled
  \/ \E f \in Live : NextOn(f)
  \/ \E f \in Live \cap known :
       \/ ResolveWith(f)
       \/ \E g \in Live \ Waiters({f}) : ResolveWithFuture(f, g)
  \/ \E f \in Future : GetFutureDB(f)
  \/ CallFlush

SystemStep ==
  \/ phase # "ready" /\ RunJob
  \/ Flush
  \/ Collect
  \/ \E f \in Future : Evict(f)
  \/ Crash

ValueNow(f) ==
  IF f \in Live THEN mem[f].value
  ELSE IF f \in Stored(disk) THEN disk.rows[f].value
  ELSE None

\* No Future is part of its own result, not by way of the results of others either: of the
\* Futures in any set, one holds none of the set.
NoSelfHolding == \A gs \in SUBSET Future : gs # {} => \E f \in gs : ValueNow(f) \notin gs

\* User code leaves the machine alone between the moment its work is done and the
\* continuation of flush, and lets no Future become part of its own result or wait
\* for itself.
Next == ((phase # "ready" /\ UserStep) \/ SystemStep) /\ NoSelfHolding'
Spec == Init /\ [][Next]_vars

\* Nothing keeps user code from acting in between.  Here it settles a Future that a
\* flush has stored before, with a value that holds no other.
SettleInBetween ==
  /\ phase = "ready"
  /\ \E f \in Live \cap known \cap Stored(disk) : ResolveWith(f) /\ mem'[f].value = Plain
  /\ NoSelfHolding'
SpecStale == Init /\ [][Next \/ SettleInBetween]_vars

\* A Future may be part of its own result.  (Load then says less than the code does: a
\* Future that is read while it is being read gets a second object.)
SpecSelfHolding == Init /\ [][(phase # "ready" /\ UserStep) \/ SystemStep]_vars
----------------------------------------------------------------------------
(* Properties.                                                             *)

\* Every Pending Future, in memory or only on disk, before and after a restart, can
\* still be settled: user code may, a job will, or it is in both reaction lists of a
\* Pending Future.
NothingForgotten ==
  \A f \in Future : View(f) = "Pending" =>
    \/ f \in known /\ ViewRoot(f)
    \/ \E i \in DOMAIN queue : queue[i].next = f
    \/ \E g \in Future : /\ View(g) = "Pending"
                         /\ \A t \in Type : f \in ToSet(ViewReactions(g, t))

\* Every Future that a row refers to has a row.
NoDanglingRows ==
  \A f \in Stored(disk) :
    /\ disk.rows[f].value \in Future => disk.rows[f].value \in Stored(disk)
    /\ \A t \in Type : ToSet(disk.rx[t][f]) \subseteq Stored(disk)

\* An object that is not to be written agrees with its row, one that was never inserted
\* has none, and one that is to be written is in the Set.
WriteBack ==
  \A f \in Live :
    /\ mem[f].inDatabase /\ ~mem[f].dirty /\ f \in Stored(disk) =>
         /\ disk.rows[f].state = mem[f].state
         /\ disk.rows[f].value = mem[f].value
         /\ disk.rows[f].settled = mem[f].settled
         /\ disk.rows[f].root = mem[f].root
    /\ ~mem[f].inDatabase => f \notin Stored(disk)
    /\ \A w \in {"future"} \cup Type :
         (IF w = "future" THEN mem[f].dirty ELSE mem[f].rx[w].dirty) =>
           Contains(pendingWrites, <<f, w>>)

SameOutcome(a, b) == a.state = b.state /\ a.value = b.value

\* The outcome that the object or the row of f has is that of both after the step, unless
\* the object or the row is gone, or the row, not written yet, stays Pending.
KeepsOutcome(f) ==
  \A was \in {mem[f], disk.rows[f]} : was.state \in Type =>
    /\ mem'[f] # Absent => SameOutcome(mem'[f], was)
    /\ \/ disk'.rows[f] = NoRow
       \/ SameOutcome(disk'.rows[f], was)
       \/ disk.rows[f].state = "Pending" /\ disk'.rows[f] = disk.rows[f]

\* A settled Future keeps its outcome, in memory and on disk, across flushes, collections,
\* evictions and crashes: the object has it as long as there is one, the one that is read
\* anew too, and the row from the flush that writes it until a collection removes it.
OutcomesDurable == [][\A f \in Future : KeepsOutcome(f)]_vars

----------------------------------------------------------------------------
(* The store implements DurableFutures.  What a Future has come to is read *)
(* off its object or else its row, the reactions and the jobs; what it has *)
(* come to after a crash is read off the tables alone.                     *)

OutcomeOf(row) == [type |-> row.state, value |-> row.value]

\* What the Future of `row` has come to: `open` is whether user code is to settle it, and
\* `owed` what it is owed if not.
EntryOf(row, open, owed) ==
  IF row.state \in Type THEN [is |-> "settled", outcome |-> OutcomeOf(row)]
  ELSE IF row.state # "Pending" THEN [is |-> "gone"]
  ELSE IF open THEN [is |-> "open"]
  ELSE owed

FollowerOf(g) == [is |-> "follower", of |-> g]
DueTo(o) == [is |-> "due", outcome |-> o]

ObjectOrRow(f) == IF f \in Live THEN mem[f] ELSE disk.rows[f]

\* What the next Future of a job is owed: the outcome the job carries, or that of the
\* Future it adopts.
OwedBy(job) ==
  IF job.type # "adopt" THEN DueTo([type |-> job.type, value |-> job.value])
  ELSE IF ObjectOrRow(job.from).state \in Type THEN DueTo(OutcomeOf(ObjectOrRow(job.from)))
  ELSE FollowerOf(job.from)

JobsFor(f) == {job \in ToSet(queue) : job.next = f}
Followed(f) == {g \in Future : View(g) = "Pending" /\ f \in ToSet(ViewReactions(g, "Fulfilled"))}

NowEntry(f) ==
  EntryOf(ObjectOrRow(f), f \in known /\ ViewRoot(f),
    IF JobsFor(f) # {} THEN OwedBy(CHOOSE job \in JobsFor(f) : TRUE)
    ELSE FollowerOf(CHOOSE g \in Followed(f) : TRUE))

FollowedOnDisk(f) ==
  {g \in Stored(disk) : disk.rows[g].state = "Pending" /\ f \in ToSet(disk.rx["Fulfilled"][g])}

SavedEntry(f) ==
  EntryOf(disk.rows[f], f \in known /\ f \in Stored(disk) /\ disk.rows[f].root,
    FollowerOf(CHOOSE g \in FollowedOnDisk(f) : TRUE))

Durable == INSTANCE DurableFutures WITH
  used <- 1..created,
  now <- [f \in Future |-> NowEntry(f)],
  saved <- [f \in Future |-> SavedEntry(f)]

\* Each Future gets one outcome, from user code or from the Future it follows, across
\* flushes, collections, evictions and crashes: a crash goes back to the last flush, and
\* what is forgotten is settled and nothing refers to it.
ImplementsDurableFutures == Durable!Spec
=============================================================================
