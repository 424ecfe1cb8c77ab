----------------------------- MODULE WeakCache ------------------------------
(***************************************************************************)
(* The weak cache of the SQLite store, for one Future: which SQLFutureDB   *)
(* its id leads to.  The host drops an object nothing refers to, and calls *)
(* the finalizer, which removes the entry of the id, only later.           *)
(***************************************************************************)
EXTENDS Integers, SequencesExt

CONSTANTS MaxObjects  \* bound: how many objects are made for the Future

Object == 1..MaxObjects
NoEntry == 0
State == {"Pending", "Fulfilled", "Rejected"}

VARIABLES
  made,           \* how many objects were made
  state,          \* per object, its state
  held,           \* the objects user code refers to
  map,            \* the object the cache's WeakRef is of, gone or not
  finalizable,    \* the objects gone whose finalizer was not called yet
  pendingWrites,  \* the objects to write, in insertion order
  row             \* the state in the futures table

vars == <<made, state, held, map, finalizable, pendingWrites, row>>

Gone == {"gone"}

TypeOK ==
  /\ made \in 0..MaxObjects
  /\ state \in [Object -> State \cup Gone]
  /\ held \subseteq 1..made
  /\ map \in (1..made) \cup {NoEntry}
  /\ finalizable \subseteq 1..made
  /\ pendingWrites \in Seq(1..made)
  /\ row \in State

\* A session finds the Future Pending on disk.
Init ==
  /\ made = 0
  /\ state = [o \in Object |-> "gone"]
  /\ held = {}
  /\ map = NoEntry
  /\ finalizable = {}
  /\ pendingWrites = <<>>
  /\ row = "Pending"

\* getFutureDB: the object of the entry, or a new one, read from the row.
GetFutureDB ==
  IF map # NoEntry /\ state[map] # "gone"
  THEN /\ held' = held \cup {map}
       /\ UNCHANGED <<made, state, map, finalizable, pendingWrites, row>>
  ELSE /\ made < MaxObjects
       /\ made' = made + 1
       /\ state' = [state EXCEPT ![made + 1] = row]
       /\ held' = held \cup {made + 1}
       /\ map' = made + 1
       /\ UNCHANGED <<finalizable, pendingWrites, row>>

\* fulfill and reject, guarded by alreadySettled.
Settle(o, outcome) ==
  /\ o \in held
  /\ state[o] = "Pending"
  /\ state' = [state EXCEPT ![o] = outcome]
  /\ pendingWrites' = Append(pendingWrites, o)
  /\ UNCHANGED <<made, held, map, finalizable, row>>

\* flush: each object updates the row.
Flush ==
  /\ pendingWrites # <<>>
  /\ row' = state[Last(pendingWrites)]
  /\ pendingWrites' = <<>>
  /\ UNCHANGED <<made, state, held, map, finalizable>>

Drop(o) ==
  /\ o \in held
  /\ held' = held \ {o}
  /\ UNCHANGED <<made, state, map, finalizable, pendingWrites, row>>

\* The host collects an object that neither user code nor a pending write holds.
Evict(o) ==
  /\ state[o] # "gone"
  /\ o \notin held
  /\ ~Contains(pendingWrites, o)
  /\ state' = [state EXCEPT ![o] = "gone"]
  /\ finalizable' = finalizable \cup {o}
  /\ UNCHANGED <<made, held, map, pendingWrites, row>>

\* The finalizer of o, in a task of its own: it removes whatever entry the id has.
Finalize(o) ==
  /\ o \in finalizable
  /\ finalizable' = finalizable \ {o}
  /\ map' = NoEntry
  /\ UNCHANGED <<made, state, held, pendingWrites, row>>

Next ==
  \/ GetFutureDB
  \/ \E o \in Object : \/ \E outcome \in {"Fulfilled", "Rejected"} : Settle(o, outcome)
                       \/ Drop(o)
                       \/ Evict(o)
                       \/ Finalize(o)
  \/ Flush

Spec == Init /\ [][Next]_vars

----------------------------------------------------------------------------
\* A Future that is settled on disk stays as it is: "a Future cannot be rejected
\* after being resolved".
RowSettledForGood == [][row # "Pending" => row' = row]_row
=============================================================================
