----------------------------- MODULE SqlObjects -----------------------------
(***************************************************************************)
(* The ids of Methods and containers in the SQLite store.  An object has a *)
(* row only if a reaction on disk leads to it: flush gives it an id and    *)
(* inserts it when something written refers to it, gc sweeps the rows that *)
(* nothing reaches, and the object in memory, which keeps the id of a row  *)
(* that may be gone, is inserted again when it is next referred to.        *)
(*                                                                         *)
(* Containers are Lists of one element; the reactions that keep objects    *)
(* are the pins, each the one reaction of a Pending root.  The ids of the  *)
(* two tables, never compared with each other, come from one counter.      *)
(***************************************************************************)
EXTENDS Integers, FiniteSets, SequencesExt

CONSTANTS
  MaxObjects,  \* bound: objects that exist at a time, in memory or on disk
  MaxPins,     \* bound: roots that have a reaction, in memory or on disk, at a time
  MaxIds       \* bound: ids a behaviour gives out

ASSUME BoundsAssumption ==
  /\ MaxObjects \in Nat
  /\ MaxPins \in Nat
  /\ MaxIds \in Nat

Obj == 1..MaxObjects
Pin == (-MaxPins) .. (-1)
Id == 1..MaxIds
Plain == 0     \* an element that is no object
NoId == 0
NoMethod == 0  \* a root without a reaction
OnDisk == -1   \* a reaction whose Future is not in memory
Absent == [kind |-> "absent"]
NoRow == [kind |-> "none"]

VARIABLES
  mem,            \* per object, its SQLListDB or SQLMethodDB
  reaction,       \* per root, the Method of its reaction
  pendingWrites,  \* the Set of objects and reaction lists to write, in insertion order
  disk            \* the tables and the counter in metadata

vars == <<mem, reaction, pendingWrites, disk>>

\* `checked` says that garbageCollectionCount is the store's: the row is there for sure.
ObjectDB == [kind : {"list", "method"}, elem : Obj \cup {Plain}, id : Id \cup {NoId},
             checked : BOOLEAN, dirty : BOOLEAN]

\* `of` is the object a row was written for: an abbreviation for what it was, not stored.
Row == [kind : {"list", "method"}, elem : Id \cup {NoId}, of : Obj]
Tables == [rows : [Id -> Row \cup {NoRow}], reactions : [Pin -> Id \cup {NoId}], count : 0..MaxIds]

TypeOK ==
  /\ mem \in [Obj -> ObjectDB \cup {Absent}]
  /\ reaction \in [Pin -> Obj \cup {NoMethod, OnDisk}]
  /\ pendingWrites \in Seq(Obj \cup Pin)
  /\ IsInjective(pendingWrites)
  /\ disk \in Tables
  /\ \A i \in Id : disk.rows[i] # NoRow => i <= disk.count

Init ==
  /\ mem = [n \in Obj |-> Absent]
  /\ reaction = [p \in Pin |-> NoMethod]
  /\ pendingWrites = <<>>
  /\ disk = [rows |-> [i \in Id |-> NoRow], reactions |-> [p \in Pin |-> NoId], count |-> 0]

----------------------------------------------------------------------------
Live == {n \in Obj : mem[n] # Absent}
Lists == {n \in Live : mem[n].kind = "list"}
Methods == {n \in Live : mem[n].kind = "method"}
Rows == {i \in Id : disk.rows[i] # NoRow}

\* An object that neither memory nor a row is taken by.
Unused == Obj \ (Live \cup {disk.rows[i].of : i \in Rows})
Least(S) == CHOOSE n \in S : \A o \in S : n <= o

NewDB(kind, elem, id) ==
  [kind |-> kind, elem |-> elem, id |-> id, checked |-> FALSE, dirty |-> FALSE]

\* Mutant: an entry is added although it is there.
AddAgain(set, w) == Append(set, w)

\* Set.add: an entry that is already there keeps its place.
Add(set, w) == IF Contains(set, w) THEN set ELSE Append(set, w)

\* createListDB, with nothing in the List yet.
NewList ==
  /\ Unused # {}
  /\ mem' = [mem EXCEPT ![Least(Unused)] = NewDB("list", Plain, NoId)]
  /\ UNCHANGED <<reaction, pendingWrites, disk>>

\* bindArgs of a registered Method: an object of its own, whose id is not the other's.
Bind(l) ==
  /\ Unused # {}
  /\ mem' = [mem EXCEPT ![Least(Unused)] = NewDB("method", l, NoId)]
  /\ UNCHANGED <<reaction, pendingWrites, disk>>

\* push, pop and set: setDirty does nothing for a List that never had a row.
Set(l, v) ==
  /\ IF mem[l].id # NoId /\ ~mem[l].dirty
     THEN /\ mem' = [mem EXCEPT ![l].elem = v, ![l].dirty = TRUE]
          /\ pendingWrites' = Add(pendingWrites, l)
     ELSE mem' = [mem EXCEPT ![l].elem = v] /\ UNCHANGED pendingWrites
  /\ UNCHANGED <<reaction, disk>>

\* The next of a new root with a Method.
AddNext(m) ==
  LET free == {p \in Pin : /\ reaction[p] = NoMethod
                           /\ disk.reactions[p] = NoId
                           /\ ~Contains(pendingWrites, p)}
      p == Least(free)
  IN /\ free # {}
     /\ reaction' = [reaction EXCEPT ![p] = m]
     /\ pendingWrites' = Add(pendingWrites, p)
     /\ UNCHANGED <<mem, disk>>

\* The ids that are read with row i: its element's, and so on.
Named(ids) == {disk.rows[j].elem : j \in ids \cap Rows} \ {NoId}
Read(i) ==
  {j \in Id : \A ids \in SUBSET Id : i \in ids /\ Named(ids) \subseteq ids => j \in ids}

\* getObjectDb and getMethodDb: the object the cache has for the id, or one made from
\* the row, whose element is loaded too.
Load(i) ==
  [n \in Obj |->
     IF mem[n] = Absent /\ \E j \in Read(i) : disk.rows[j].of = n
     THEN LET j == CHOOSE j \in Read(i) : disk.rows[j].of = n
              e == disk.rows[j].elem
          IN NewDB(disk.rows[j].kind, IF e = NoId THEN Plain ELSE disk.rows[e].of, j)
     ELSE mem[n]]

\* The root is settled: its reaction is popped, which loads the Method unless it is in
\* memory, and the row of the reaction is to be deleted.
Settle(p) ==
  /\ reaction[p] # NoMethod
  /\ mem' = IF reaction[p] = OnDisk THEN Load(disk.reactions[p]) ELSE mem
  /\ reaction' = [reaction EXCEPT ![p] = NoMethod]
  /\ pendingWrites' = Add(pendingWrites, p)
  /\ UNCHANGED disk

----------------------------------------------------------------------------
(* Flush.  The operators take and return the objects and the tables.       *)

\* Mutant: after a collection every object is inserted again.
NotChecked(s, n) == s.mem[n].id = NoId \/ ~s.mem[n].checked

\* Whether getOrCreateId inserts the object: it never had a row, or a collection has
\* run since the row was inserted and has removed it.
NeedsRow(s, n) ==
  \/ s.mem[n].id = NoId
  \/ ~s.mem[n].checked /\ s.disk.rows[s.mem[n].id] = NoRow

\* The objects that getOrCreateId(n) inserts: the id is set before the element is
\* serialized, so it goes from element to element up to the first that needs no row.
Needing(s) == {o \in Obj : s.mem[o] # Absent /\ NeedsRow(s, o)}
Inserted(s, n) ==
  {o \in Needing(s) : \A os \in SUBSET Needing(s) :
     (({n} \cup {s.mem[x].elem : x \in os}) \cap Needing(s)) \subseteq os => o \in os}

\* Mutant: the lowest free id, as a rowid without a counter would be.
LowestFree(s, k) ==
  CHOOSE i \in Id : /\ s.disk.rows[i] = NoRow
                    /\ Cardinality({j \in 1..i : s.disk.rows[j] = NoRow}) = k

\* The k-th id handed out from here: getNextObjectId and getNextMethodId.
NextId(s, k) == s.disk.count + k

\* The id of o, and the row it gets, when the objects in `new` are inserted.
IdOf(s, new, o) ==
  IF o = Plain THEN NoId
  ELSE IF o \in new THEN NextId(s, Cardinality({x \in new : x <= o}))
  ELSE s.mem[o].id
RowFor(s, new, o) == [kind |-> s.mem[o].kind, elem |-> IdOf(s, new, s.mem[o].elem), of |-> o]

\* Each of them gets an id of its own, and its row holds the id of its element.  (Which of
\* them gets the lower id, on which nothing depends, is the order of the objects.)
Insert(s, new) ==
  LET owner(i) == {o \in new : IdOf(s, new, o) = i}
  IN [s EXCEPT !.mem = [o \in Obj |-> IF o \in new
                                      THEN [@[o] EXCEPT !.id = IdOf(s, new, o), !.checked = TRUE]
                                      ELSE @[o]],
               !.disk.rows = [i \in Id |-> IF owner(i) # {} THEN RowFor(s, new, CHOOSE o \in owner(i) : TRUE)
                                           ELSE @[i]],
               !.disk.count = @ + Cardinality(new)]

GetOrCreateId(s, n) == IF n = Plain THEN s ELSE Insert(s, Inserted(s, n))

\* SQLObjectDB.write: UPDATE of the row the id names, if there still is one.
WriteObject(s, n) ==
  LET m == s.mem[n]
      serialized == GetOrCreateId(s, m.elem)
      elem == IF m.elem = Plain THEN NoId ELSE serialized.mem[m.elem].id
      clean == [serialized EXCEPT !.mem[n].dirty = FALSE]
  IN IF s.disk.rows[m.id] = NoRow THEN clean
     ELSE [clean EXCEPT !.disk.rows[m.id].elem = elem]

\* SQLReactionsDB.write: DELETE, or INSERT with the id of the Method.
WriteReaction(s, p) ==
  IF reaction[p] = NoMethod THEN [s EXCEPT !.disk.reactions[p] = NoId]
  ELSE LET created == GetOrCreateId(s, reaction[p])
       IN [created EXCEPT !.disk.reactions[p] = created.mem[reaction[p]].id]

\* (A flush that runs out of ids goes no further and is no step.)
WriteEntry(s, w) ==
  IF s.disk.count <= MaxIds
  THEN IF w \in Pin THEN WriteReaction(s, w) ELSE WriteObject(s, w)
  ELSE s

\* The iteration over the Set, to which a write adds nothing.
Written ==
  LET after[n \in 0..Len(pendingWrites)] ==
        IF n = 0 THEN [mem |-> mem, disk |-> disk] ELSE WriteEntry(after[n - 1], pendingWrites[n])
  IN after[Len(pendingWrites)]

\* The rest of flush after its await, from BEGIN to COMMIT.
Flush ==
  /\ LET written == Written
     IN /\ written.disk.count <= MaxIds
        /\ mem' = written.mem
        /\ disk' = written.disk
  /\ pendingWrites' = <<>>
  /\ UNCHANGED reaction

----------------------------------------------------------------------------
(* Garbage collection, eviction and crashes.                               *)

\* What the marking reaches from the reactions.
Marked ==
  UNION {Read(disk.reactions[p]) : p \in {p \in Pin : disk.reactions[p] # NoId}}

Swept(tables) == [tables EXCEPT !.rows = [i \in Id |-> IF i \in Marked THEN @[i] ELSE NoRow]]

\* Mutant: the count of collections stays as it was.
CollectUncounted ==
  /\ disk' = Swept(disk)
  /\ UNCHANGED <<mem, reaction, pendingWrites>>

\* The rest of gc after its flush, one transaction; then the collections are counted.
Collect ==
  /\ disk' = Swept(disk)
  /\ mem' = [n \in Obj |-> IF n \in Live THEN [mem[n] EXCEPT !.checked = FALSE] ELSE Absent]
  /\ UNCHANGED <<reaction, pendingWrites>>

\* User code drops its references and the host collects the object: nothing to be
\* written, no reaction in memory and no other object holds it.
Evict(n) ==
  /\ ~Contains(pendingWrites, n)
  /\ \A p \in Pin : reaction[p] # n
  /\ \A o \in Live \ {n} : mem[o].elem # n
  /\ mem' = [mem EXCEPT ![n] = Absent]
  /\ UNCHANGED <<reaction, pendingWrites, disk>>

\* The same for a root: its reaction is then only on disk.
EvictRoot(p) ==
  /\ reaction[p] \in Obj
  /\ ~Contains(pendingWrites, p)
  /\ reaction' = [reaction EXCEPT ![p] = OnDisk]
  /\ UNCHANGED <<mem, pendingWrites, disk>>

\* The process stops; the next one starts from the last commit.
Crash ==
  /\ mem' = [n \in Obj |-> Absent]
  /\ reaction' = [p \in Pin |-> IF disk.reactions[p] = NoId THEN NoMethod ELSE OnDisk]
  /\ pendingWrites' = <<>>
  /\ UNCHANGED disk

Next ==
  \/ NewList
  \/ \E l \in Lists : Bind(l)
  \/ \E l \in Lists, v \in Live \cup {Plain} : Set(l, v)
  \/ \E m \in Methods : AddNext(m)
  \/ \E p \in Pin : Settle(p)
  \/ Flush
  \/ Collect
  \/ \E n \in Live : Evict(n)
  \/ \E p \in Pin : EvictRoot(p)
  \/ Crash

Spec == Init /\ [][Next]_vars

----------------------------------------------------------------------------
(* Properties.                                                             *)

\* Every id in a reaction names the row of a Method, and every id in the row of a
\* Method or a List names a row: what a restart reads is there.
NoDanglingIds ==
  /\ \A p \in Pin : disk.reactions[p] # NoId =>
       /\ disk.reactions[p] \in Rows
       /\ disk.rows[disk.reactions[p]].kind = "method"
  /\ \A i \in Rows : disk.rows[i].elem \in Rows \cup {NoId}

\* The id an object keeps never comes to name another's row, an object that need not be
\* written agrees with its row down to the element, and one that must be is in the Set.
RowsAgree ==
  \A n \in Live :
    /\ mem[n].dirty => Contains(pendingWrites, n)
    /\ mem[n].checked => mem[n].id \in Rows
    /\ mem[n].id \in Rows =>
         LET row == disk.rows[mem[n].id]
         IN /\ row.of = n
            /\ row.kind = mem[n].kind
            /\ ~mem[n].dirty =>
                 IF mem[n].elem = Plain THEN row.elem = NoId
                 ELSE row.elem \in Rows /\ disk.rows[row.elem].of = mem[n].elem

\* A List has one row, whichever Methods and Lists lead to it and however often it was
\* swept and inserted again: two that shared it still share it after a restart.
OneRow == \A i, j \in Rows : disk.rows[i].of = disk.rows[j].of => i = j
=============================================================================
