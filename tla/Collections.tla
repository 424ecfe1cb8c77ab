---------------------------- MODULE Collections ----------------------------
(***************************************************************************)
(* What the containers of a persistent program promise: they change like   *)
(* an Array, a Map and an object with fixed fields, now and then all that  *)
(* they hold is saved at once, and a restart goes back to what was saved.  *)
(***************************************************************************)
EXTENDS SequencesExt

CONSTANTS
  Value,      \* what can be held
  Key,        \* keys of the Map
  Field,      \* fields of the object
  MaxLength,  \* bound: the length of the Array
  MaxBatch    \* bound: how many values one push or set is given

VARIABLES now, saved
vars == <<now, saved>>

\* An Array is a sequence, a Map a function and the order its keys were inserted in.
Contents ==
  [array : BoundedSeq(Value, MaxLength),
   order : {s \in Seq(Key) : IsInjective(s)},
   map : UNION {[K -> Value] : K \in SUBSET Key},
   object : [Field -> Value]]

Init ==
  /\ now \in Contents
  /\ ToSet(now.order) = DOMAIN now.map
  /\ saved = now

Batch == BoundedSeq(Value, MaxBatch)

Push(values) == now' = [now EXCEPT !.array = @ \o values]

Pop == now' = [now EXCEPT !.array = IF @ = <<>> THEN @ ELSE Front(@)]

\* Positions count from 0.  Those before and behind what is written stay as they are.
Set(values, index) ==
  /\ index <= Len(now.array)
  /\ now' = [now EXCEPT !.array =
       SubSeq(@, 1, index) \o values \o SubSeq(@, index + Len(values) + 1, Len(@))]

\* A key keeps its place in the order as long as it is not removed.
Insert(key, value) ==
  now' = [now EXCEPT !.order = IF key \in DOMAIN now.map THEN @ ELSE Append(@, key),
                     !.map = [k \in DOMAIN @ \cup {key} |-> IF k = key THEN value ELSE @[k]]]

Erase(key) ==
  now' = [now EXCEPT !.order = IF key \in DOMAIN now.map
                               THEN RemoveAt(@, CHOOSE i \in DOMAIN now.order : now.order[i] = key)
                               ELSE @,
                     !.map = [k \in DOMAIN @ \ {key} |-> @[k]]]

EraseAll == now' = [now EXCEPT !.order = <<>>, !.map = [k \in {} |-> @[k]]]

Assign(field, value) == now' = [now EXCEPT !.object[field] = value]

Change ==
  /\ \/ \E values \in Batch : Push(values)
     \/ Pop
     \/ \E values \in Batch, index \in 0..MaxLength : Set(values, index)
     \/ \E key \in Key, value \in Value : Insert(key, value)
     \/ \E key \in Key : Erase(key)
     \/ EraseAll
     \/ \E field \in Field, value \in Value : Assign(field, value)
  /\ UNCHANGED saved

Save == saved' = now /\ UNCHANGED now

Restart == now' = saved /\ UNCHANGED saved

Next == Change \/ Save \/ Restart

Spec == Init /\ [][Next]_vars
=============================================================================
