----------------------------- MODULE Containers -----------------------------
(***************************************************************************)
(* A List, a Dictionary and a Struct of the SQLite store that a Future on  *)
(* disk holds: they have their rows, which no collection sweeps (what ids  *)
(* and sweeping do is module SqlObjects).  Here it is the contents: the    *)
(* operations, the layout of a row, what marks an object dirty, and when a *)
(* row is read back.  An Entity has the layout of a Struct and its name.   *)
(***************************************************************************)
EXTENDS Integers, SequencesExt

CONSTANTS
  Value,      \* what can be held and is read back as it was written
  NegativeZero, Zero,  \* the number that is not, and what it is read back as
  Key,        \* keys of the Dictionary
  Field,      \* keys of the Struct
  Hole,       \* an element of a JavaScript array that is not there
  Absent,     \* a container that is not in memory
  MaxLength,  \* bound: the length of the List
  MaxBatch,   \* bound: how many values one push or set is given
  MaxGap      \* bound: how far past the end set may begin

Container == {"list", "dictionary", "struct"}
Null == [kind |-> "null"]      \* JSON null

VARIABLES
  elements,  \* SQLListDB.elements, or Absent
  map,       \* SQLDictionaryDB.map, or Absent: its entries, in the order of insertion
  obj,       \* SQLStructDB.obj, or Absent
  dirty,     \* the containers with dirtyState Changed, which pendingWrites holds
  rows       \* the value of each container's row

vars == <<elements, map, obj, dirty, rows>>

Entry == [key : Key, value : Value]

ASSUME BoundsAssumption ==
  /\ MaxLength \in Nat /\ MaxBatch \in Nat /\ MaxGap \in Nat
  /\ Hole \notin Value
  /\ NegativeZero \in Value => Zero \in Value
  /\ Absent \notin Seq(Value \cup {Hole})
  /\ Absent \notin Seq(Entry)
  /\ Absent \notin [Field -> Value]

Batch == BoundedSeq(Value, MaxBatch)

UniqueKeys(entries) == \A i, j \in DOMAIN entries : entries[i].key = entries[j].key => i = j

TypeOK ==
  /\ elements = Absent \/ elements \in BoundedSeq(Value \cup {Hole}, MaxLength)
  /\ map = Absent \/ (map \in Seq(Entry) /\ UniqueKeys(map))
  /\ obj = Absent \/ obj \in [Field -> Value]
  /\ dirty \subseteq Container
  /\ DOMAIN rows = Container

----------------------------------------------------------------------------
(* Rows.                                                                   *)

\* toInternalValue: the type, and the value as text; "-0" is not a text toString gives.
ToInternalValue(v) == [kind |-> "value", text |-> IF v = NegativeZero THEN Zero ELSE v]
FromInternalValue(stored) == stored.text

\* Array.map skips what is not there, and JSON.stringify writes null for it.
SerializeList(list) ==
  [i \in DOMAIN list |-> IF list[i] = Hole THEN Null ELSE ToInternalValue(list[i])]
SerializeDictionary(entries) ==
  [i \in DOMAIN entries |-> <<entries[i].key, ToInternalValue(entries[i].value)>>]
SerializeStruct(struct) == [k \in Field |-> ToInternalValue(struct[k])]

\* The List is in the cache before its elements are converted.  A null among them has
\* no valueType: the conversion throws, and the empty List stays in the cache.
DeserializeList(row) ==
  IF Contains(row, Null) THEN <<>> ELSE [i \in DOMAIN row |-> FromInternalValue(row[i])]
DeserializeDictionary(row) ==
  [i \in DOMAIN row |-> [key |-> row[i][1], value |-> FromInternalValue(row[i][2])]]
DeserializeStruct(row) == [k \in Field |-> FromInternalValue(row[k])]

\* Empty containers, a Struct with any value, written by the flush before.
Init ==
  /\ elements = <<>>
  /\ map = <<>>
  /\ obj \in {[k \in Field |-> v] : v \in Value}
  /\ dirty = {}
  /\ rows = [list |-> <<>>, dictionary |-> <<>>, struct |-> SerializeStruct(obj)]

----------------------------------------------------------------------------
(* List.                                                                   *)

SetDirty(c) == dirty' = dirty \cup {c} /\ UNCHANGED rows

\* push and pop mark the List also when nothing changes.
Push(values) ==
  /\ elements # Absent
  /\ Len(elements) + Len(values) <= MaxLength
  /\ elements' = elements \o values
  /\ SetDirty("list")
  /\ UNCHANGED <<map, obj>>

Pop ==
  /\ elements # Absent
  /\ elements' = IF elements = <<>> THEN <<>> ELSE Front(elements)
  /\ SetDirty("list")
  /\ UNCHANGED <<map, obj>>

\* One assignment per value, elements[index] and on; what lies between the end and
\* `index` is not there.
Set(values, index) ==
  LET end == index + Len(values)
      length == IF values # <<>> /\ end > Len(elements) THEN end ELSE Len(elements)
  IN /\ elements # Absent
     /\ index <= Len(elements) + MaxGap
     /\ length <= MaxLength
     /\ elements' = [i \in 1..length |->
          IF index < i /\ i <= end THEN values[i - index]
          ELSE IF i <= Len(elements) THEN elements[i] ELSE Hole]
     /\ SetDirty("list")
     /\ UNCHANGED <<map, obj>>

----------------------------------------------------------------------------
(* Dictionary and Struct.                                                  *)

HasKey(key) == \E i \in DOMAIN map : map[i].key = key
Position(entries, key) == CHOOSE i \in DOMAIN entries : entries[i].key = key

\* Mutant: an entry is added whether or not the key has one.
MapSetAppends(key, value) == Append(map, [key |-> key, value |-> value])

\* Map.set: an entry that is already there keeps its place.
MapSet(key, value) ==
  IF HasKey(key)
  THEN [i \in DOMAIN map |-> IF map[i].key = key THEN [key |-> key, value |-> value] ELSE map[i]]
  ELSE Append(map, [key |-> key, value |-> value])

DictionarySet(key, value) ==
  /\ map # Absent
  /\ map' = MapSet(key, value)
  /\ SetDirty("dictionary")
  /\ UNCHANGED <<elements, obj>>

\* getOrInsert and getOrInsertComputed, which set what they are given, or compute,
\* only if there is no entry.
GetOrInsert(key, value) ==
  /\ map # Absent
  /\ ~HasKey(key)
  /\ DictionarySet(key, value)

\* Map.delete: the entries behind it move up.
MapDelete(key) == IF HasKey(key) THEN RemoveAt(map, Position(map, key)) ELSE map

\* Mutant: the key that is removed does not mark the Dictionary.
DeleteQuietly(key) ==
  /\ map # Absent
  /\ map' = MapDelete(key)
  /\ UNCHANGED <<elements, obj, dirty, rows>>

Delete(key) ==
  /\ map # Absent
  /\ map' = MapDelete(key)
  /\ SetDirty("dictionary")
  /\ UNCHANGED <<elements, obj>>

Clear ==
  /\ map # Absent
  /\ map' = <<>>
  /\ SetDirty("dictionary")
  /\ UNCHANGED <<elements, obj>>

\* An assignment to a property the Struct was created with.
StructSet(key, value) ==
  /\ obj # Absent
  /\ obj' = [obj EXCEPT ![key] = value]
  /\ SetDirty("struct")
  /\ UNCHANGED <<elements, map>>

----------------------------------------------------------------------------
(* The store.                                                              *)

\* serialize() of a container.
Serialized(c) ==
  CASE c = "list" -> SerializeList(elements)
    [] c = "dictionary" -> SerializeDictionary(map)
    [] c = "struct" -> SerializeStruct(obj)

\* Mutant: a transaction for each container.
FlushOne ==
  /\ \E c \in dirty :
       rows' = [rows EXCEPT ![c] = Serialized(c)] /\ dirty' = dirty \ {c}
  /\ UNCHANGED <<elements, map, obj>>

\* The transaction of flush: an UPDATE for each container in pendingWrites.
Flush ==
  /\ rows' = [c \in Container |-> IF c \in dirty THEN Serialized(c) ELSE rows[c]]
  /\ dirty' = {}
  /\ UNCHANGED <<elements, map, obj>>

\* getObjectDb, of containers that are not in the cache.
Load(c) ==
  /\ \/ c = "list" /\ elements = Absent /\ elements' = DeserializeList(rows[c])
        /\ UNCHANGED <<map, obj>>
     \/ c = "dictionary" /\ map = Absent /\ map' = DeserializeDictionary(rows[c])
        /\ UNCHANGED <<elements, obj>>
     \/ c = "struct" /\ obj = Absent /\ obj' = DeserializeStruct(rows[c])
        /\ UNCHANGED <<elements, map>>
  /\ UNCHANGED <<dirty, rows>>

\* Nobody holds the container and the host collects it.
Evict(c) ==
  /\ c \notin dirty
  /\ \/ c = "list" /\ elements # Absent /\ elements' = Absent /\ UNCHANGED <<map, obj>>
     \/ c = "dictionary" /\ map # Absent /\ map' = Absent /\ UNCHANGED <<elements, obj>>
     \/ c = "struct" /\ obj # Absent /\ obj' = Absent /\ UNCHANGED <<elements, map>>
  /\ UNCHANGED <<dirty, rows>>

\* The process ends; the next one starts from the last commit.
Crash ==
  /\ elements' = Absent /\ map' = Absent /\ obj' = Absent
  /\ dirty' = {}
  /\ UNCHANGED rows

Next ==
  \/ \E values \in Batch : Push(values)
  \/ \E values \in Batch, index \in 0..(MaxLength + MaxGap) : Set(values, index)
  \/ Pop
  \/ \E key \in Key, value \in Value : DictionarySet(key, value) \/ GetOrInsert(key, value)
  \/ \E key \in Key : Delete(key)
  \/ Clear
  \/ \E key \in Field, value \in Value : StructSet(key, value)
  \/ Flush
  \/ \E c \in Container : Load(c) \/ Evict(c)
  \/ Crash

Spec == Init /\ [][Next]_vars

----------------------------------------------------------------------------
(* Properties.                                                             *)

\* A container in memory that has nothing to be written is what its row reads back as,
\* whatever it was flushed with: reading it again finds the elements, in their order.
ReadsBack ==
  /\ elements # Absent /\ "list" \notin dirty =>
       /\ Len(elements) = Len(rows["list"])
       /\ elements = DeserializeList(rows["list"])
  /\ map # Absent /\ "dictionary" \notin dirty => map = DeserializeDictionary(rows["dictionary"])
  /\ obj # Absent /\ "struct" \notin dirty => obj = DeserializeStruct(rows["struct"])

\* The contents as an Array, a Map and an object.
OrderOf(entries) == [i \in DOMAIN entries |-> entries[i].key]
MapOf(entries) ==
  [k \in {entries[i].key : i \in DOMAIN entries} |-> entries[Position(entries, k)].value]
Contents(list, entries, struct) ==
  [array |-> list, order |-> OrderOf(entries), map |-> MapOf(entries), object |-> struct]

\* What a restart would find, and what a program sees, by reading back if need be.
Saved ==
  Contents(DeserializeList(rows["list"]), DeserializeDictionary(rows["dictionary"]),
           DeserializeStruct(rows["struct"]))
Now ==
  Contents(IF elements = Absent THEN DeserializeList(rows["list"]) ELSE elements,
           IF map = Absent THEN DeserializeDictionary(rows["dictionary"]) ELSE map,
           IF obj = Absent THEN DeserializeStruct(rows["struct"]) ELSE obj)

Promised == INSTANCE Collections WITH saved <- Saved, now <- Now

\* Each operation changes what a program sees as an Array, a Map or an object would
\* change; writing, evicting and reading back are not to be seen; and a crash loses
\* what was changed since a flush, of all containers alike.
ImplementsCollections == Promised!Spec
=============================================================================
