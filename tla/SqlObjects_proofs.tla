------------------------- MODULE SqlObjects_proofs -------------------------
(***************************************************************************)
(* Proofs about SqlObjects for any number of objects, pins and ids: its    *)
(* types, that every id on disk has a row, that the id an object keeps     *)
(* never names another's row, and that no object has two rows.             *)
(***************************************************************************)
EXTENDS SqlObjects, FiniteSetTheorems, WellFoundedInduction, TLAPS

----------------------------------------------------------------------------
(* Induction, least elements, the Set.                                     *)

\* A nonempty set of integers that are all above some number has a least one.
LEMMA LeastOf ==
  ASSUME NEW b \in Int, NEW S \in SUBSET Int, S # {}, \A x \in S : b <= x
  PROVE  \E n \in S : \A o \in S : n <= o
<1>1. PICK T : T = {x - b : x \in S}
  OBVIOUS
<1>2. T \subseteq Nat /\ T # {}
  <2>1. \A x \in S : x \in Int /\ x - b \in Nat
    OBVIOUS
  <2> QED BY <2>1, <1>1
<1>3. PICK k \in T : \A j \in T : ~(<<j, k>> \in OpToRel(<, Nat))
  BY <1>2, NatLessThanWellFounded, WFMin, Zenon
<1>4. ASSUME NEW j \in T PROVE k <= j
  <2>1. j \in Nat /\ k \in Nat
    BY <1>2
  <2>2. j < k => <<j, k>> \in OpToRel(<, Nat)
    BY <2>1 DEF OpToRel
  <2>3. ~(j < k)
    BY <2>2, <1>3, Zenon
  <2> QED BY <2>1, <2>3
<1>5. PICK n \in S : n - b = k
  BY <1>1
<1>6. ASSUME NEW o \in S PROVE n <= o
  <2>1. o - b \in T /\ k <= o - b
    BY <1>1, <1>4
  <2> QED BY <2>1, <1>5
<1> QED BY <1>6

LEMMA LeastIn ==
  ASSUME NEW b \in Int, NEW S \in SUBSET Int, S # {}, \A x \in S : b <= x
  PROVE  Least(S) \in S
<1>1. \E n \in S : \A o \in S : n <= o
  BY LeastOf
<1> QED BY <1>1 DEF Least

\* A set of numbers with 0 and with each successor up to n has all of them.
LEMMA UpTo ==
  ASSUME NEW n \in Nat, NEW T, 0 \in T, \A k \in 0 .. n - 1 : k \in T => k + 1 \in T
  PROVE  \A k \in 0..n : k \in T
<1> SUFFICES ASSUME NEW bad, bad = {k \in 0..n : k \notin T}, bad # {} PROVE FALSE
  OBVIOUS
<1>1. bad \in SUBSET Int /\ \A x \in bad : 0 <= x
  OBVIOUS
<1>2. PICK k \in bad : \A j \in bad : k <= j
  <2>1. 0 \in Int
    OBVIOUS
  <2> QED BY <1>1, <2>1, LeastOf, Zenon
<1>3. k \in 0..n /\ k \notin T /\ k # 0
  OBVIOUS
<1>4. k - 1 \in 0 .. n - 1 /\ k - 1 \in 0..n /\ (k - 1) + 1 = k /\ ~(k <= k - 1)
  BY <1>3
<1> QED BY <1>2, <1>3, <1>4

LEMMA AddFacts ==
  ASSUME NEW S, NEW set \in Seq(S), IsInjective(set), NEW w \in S
  PROVE  /\ Add(set, w) \in Seq(S) /\ IsInjective(Add(set, w))
         /\ ToSet(Add(set, w)) = ToSet(set) \cup {w}
<1>1. CASE Contains(set, w)
  <2>1. w \in ToSet(set)
    BY <1>1 DEF Contains, ToSet
  <2> QED BY <1>1, <2>1 DEF Add
<1>2. CASE ~Contains(set, w)
  <2>1. PICK q : q = Append(set, w)
    OBVIOUS
  <2>2. PICK N : N = Len(set)
    OBVIOUS
  <2>3. /\ q \in Seq(S) /\ N \in Nat /\ DOMAIN set = 1..N /\ DOMAIN q = 1 .. N + 1
        /\ q[N + 1] = w /\ \A i \in 1..N : q[i] = set[i]
    BY <2>1, <2>2
  <2>4. \A i \in 1 .. N + 1 : i \in 1..N \/ i = N + 1
    BY <2>3
  <2>5. \A i \in 1..N : set[i] # w
    BY <1>2, <2>3 DEF Contains
  <2>6. IsInjective(q)
    <3> SUFFICES ASSUME NEW i \in DOMAIN q, NEW j \in DOMAIN q, q[i] = q[j] PROVE i = j
      BY DEF IsInjective
    <3>1. CASE i \in 1..N /\ j \in 1..N
      BY <3>1, <2>3 DEF IsInjective
    <3>2. CASE i = N + 1 \/ j = N + 1
      BY <3>2, <2>3, <2>4, <2>5
    <3> QED BY <3>1, <3>2, <2>3, <2>4
  <2>7. ToSet(q) = ToSet(set) \cup {w}
    <3>1. ToSet(q) = {q[i] : i \in 1 .. N + 1} /\ ToSet(set) = {set[i] : i \in 1..N}
      BY <2>3 DEF ToSet
    <3>2. N + 1 \in 1 .. N + 1 /\ \A i \in 1..N : i \in 1 .. N + 1
      BY <2>3
    <3>3. ToSet(q) \subseteq ToSet(set) \cup {w}
      BY <3>1, <2>3, <2>4
    <3>4. ToSet(set) \cup {w} \subseteq ToSet(q)
      BY <3>1, <3>2, <2>3
    <3> QED BY <3>3, <3>4
  <2> QED BY <1>2, <2>1, <2>3, <2>6, <2>7 DEF Add
<1> QED BY <1>1, <1>2

LEMMA ContainsIn == ASSUME NEW set, NEW w PROVE Contains(set, w) <=> w \in ToSet(set)
BY DEF Contains, ToSet

LEMMA EmptySet == ToSet(<<>>) = {} /\ IsInjective(<<>>)
BY DEF ToSet, IsInjective

----------------------------------------------------------------------------
(* The inductive invariant, of the objects m, the tables d, the reactions r *)
(* in memory and the entries W of the Set.                                  *)

Stored(d) == {i \in Id : d.rows[i] # NoRow}

\* Rows refer to rows, and no two are of one object.
RowsOk(d) ==
  /\ \A i \in Stored(d) : i <= d.count /\ d.rows[i].elem \in Stored(d) \cup {NoId}
  /\ \A i, j \in Stored(d) : d.rows[i].of = d.rows[j].of => i = j
PinsOk(d) ==
  \A p \in Pin : d.reactions[p] # NoId =>
    d.reactions[p] \in Stored(d) /\ d.rows[d.reactions[p]].kind = "method"

\* Row i has the element e.
Holds(d, i, e) ==
  IF e = Plain THEN d.rows[i].elem = NoId
  ELSE d.rows[i].elem \in Stored(d) /\ d.rows[d.rows[i].elem].of = e

\* An id is below the counter for ever, so it never comes to name another's row.
ObjectOk(n, o, d) ==
  /\ o.id <= d.count
  /\ o.checked => o.id \in Stored(d)
  /\ o.dirty => o.id # NoId
  /\ o.id \in Stored(d) => /\ d.rows[o.id].of = n /\ d.rows[o.id].kind = o.kind
                           /\ ~o.dirty => Holds(d, o.id, o.elem)
ObjectsOk(m, d) ==
  /\ \A n \in Obj : m[n] # Absent =>
       ObjectOk(n, m[n], d) /\ (m[n].elem # Plain => m[m[n].elem] # Absent)
  /\ \A i \in Stored(d) : m[d.rows[i].of] # Absent => m[d.rows[i].of].id = i

SetOk(m, W) ==
  /\ \A n \in Obj : n \in W => m[n] # Absent /\ m[n].id # NoId
  /\ \A n \in Obj : m[n] # Absent /\ m[n].dirty => n \in W
ReactionsOk(m, d, r, W) ==
  \A p \in Pin : /\ r[p] \in Obj => m[r[p]] # Absent /\ m[r[p]].kind = "method"
                 /\ r[p] # NoMethod => p \in W \/ d.reactions[p] # NoId
                 /\ p \in W => r[p] # OnDisk

Memory == [Obj -> ObjectDB \cup {Absent}]
Good(m, d, r, W) ==
  /\ m \in Memory /\ d \in Tables /\ r \in [Pin -> Obj \cup {NoMethod, OnDisk}]
  /\ RowsOk(d) /\ PinsOk(d) /\ ObjectsOk(m, d) /\ SetOk(m, W) /\ ReactionsOk(m, d, r, W)

IInv ==
  /\ pendingWrites \in Seq(Obj \cup Pin) /\ IsInjective(pendingWrites)
  /\ Good(mem, disk, reaction, ToSet(pendingWrites))

----------------------------------------------------------------------------
(* Types.                                                                  *)

LEMMA Numbers ==
  /\ Obj \subseteq Nat /\ Id \subseteq Nat /\ Pin \subseteq Int /\ \A n \in Obj : n # 0
  /\ \A i \in Id : i # 0 /\ 1 <= i /\ i <= MaxIds
  /\ \A p \in Pin : -MaxPins <= p /\ p \notin Obj
BY BoundsAssumption DEF Obj, Id, Pin

LEMMA AbsentIsNone == Absent \notin ObjectDB
<1> SUFFICES ASSUME Absent \in ObjectDB PROVE FALSE
  OBVIOUS
<1>1. Absent.kind \in {"list", "method"}
  BY DEF ObjectDB
<1> QED BY <1>1 DEF Absent

LEMMA NoRowIsNone == NoRow \notin Row
<1> SUFFICES ASSUME NoRow \in Row PROVE FALSE
  OBVIOUS
<1>1. NoRow.kind \in {"list", "method"}
  BY DEF Row
<1> QED BY <1>1 DEF NoRow

LEMMA DiskTypes ==
  ASSUME NEW d \in Tables
  PROVE  /\ d.rows \in [Id -> Row \cup {NoRow}] /\ d.reactions \in [Pin -> Id \cup {NoId}] /\ d.count \in 0..MaxIds
         /\ d.count \in Nat /\ NoId \notin Stored(d) /\ Stored(d) \subseteq Id
         /\ \A i \in Stored(d) : /\ d.rows[i] \in Row /\ d.rows[i].of \in Obj /\ d.rows[i].elem \in Id \cup {NoId}
                                 /\ d.rows[i].kind \in {"list", "method"}
<1>1. /\ d.rows \in [Id -> Row \cup {NoRow}] /\ d.reactions \in [Pin -> Id \cup {NoId}] /\ d.count \in 0..MaxIds
  BY DEF Tables
<1>2. d.count \in Nat
  BY <1>1, BoundsAssumption
<1>3. NoId \notin Stored(d) /\ Stored(d) \subseteq Id
  BY Numbers DEF Stored, NoId
<1>4. ASSUME NEW i \in Stored(d)
      PROVE  /\ d.rows[i] \in Row /\ d.rows[i].of \in Obj /\ d.rows[i].elem \in Id \cup {NoId}
             /\ d.rows[i].kind \in {"list", "method"}
  <2>1. d.rows[i] \in Row
    BY <1>1 DEF Stored
  <2> QED BY <2>1 DEF Row
<1> QED BY <1>1, <1>2, <1>3, <1>4

LEMMA MemoryTypes ==
  ASSUME NEW m \in Memory, NEW n \in Obj, m[n] # Absent
  PROVE  /\ m[n] \in ObjectDB /\ m[n].kind \in {"list", "method"} /\ m[n].elem \in Obj \cup {Plain}
         /\ m[n].id \in Id \cup {NoId} /\ m[n].id \in Nat /\ m[n].checked \in BOOLEAN /\ m[n].dirty \in BOOLEAN
<1>1. m[n] \in ObjectDB
  BY DEF Memory
<1>2. /\ m[n].kind \in {"list", "method"} /\ m[n].elem \in Obj \cup {Plain}
      /\ m[n].id \in Id \cup {NoId} /\ m[n].checked \in BOOLEAN /\ m[n].dirty \in BOOLEAN
  BY <1>1 DEF ObjectDB
<1> QED BY <1>1, <1>2, Numbers DEF NoId

\* The invariant is that of the module, and the properties follow from it.
LEMMA GoodTypes ==
  ASSUME IInv
  PROVE  TypeOK
<1>1. mem \in Memory /\ disk \in Tables /\ RowsOk(disk) /\ reaction \in [Pin -> Obj \cup {NoMethod, OnDisk}]
  BY DEF IInv, Good
<1>2. \A i \in Id : disk.rows[i] # NoRow => i <= disk.count
  BY <1>1 DEF RowsOk, Stored
<1> QED BY <1>1, <1>2 DEF IInv, TypeOK, Memory

----------------------------------------------------------------------------
(* Objects: creation, change, eviction.                                    *)

\* The object of n is, or becomes, o, and may have been added to the Set.
LEMMA PutGood ==
  ASSUME NEW m, NEW d, NEW r, NEW W, Good(m, d, r, W),
         NEW n \in Obj, NEW o \in ObjectDB, NEW u \in Memory, u[n] = o, \A x \in Obj \ {n} : u[x] = m[x],
         ObjectOk(n, o, d), o.elem # Plain => u[o.elem] # Absent,
         \A i \in Stored(d) : d.rows[i].of = n => o.id = i,
         NEW V, V = W \/ V = W \cup {n}, n \in V => o.id # NoId, o.dirty => n \in V,
         \A p \in Pin : r[p] = n => o.kind = "method"
  PROVE  Good(u, d, r, V)
<1>1. m \in Memory /\ d \in Tables
  BY DEF Good
<1>2. u \in Memory /\ u[n] = o /\ o # Absent /\ \A x \in Obj \ {n} : u[x] = m[x]
  BY AbsentIsNone
<1>3. \A x \in Obj : m[x] # Absent => u[x] # Absent
  BY <1>2
<1>4. ObjectsOk(u, d)
  <2>1. ASSUME NEW x \in Obj, u[x] # Absent
        PROVE  ObjectOk(x, u[x], d) /\ (u[x].elem # Plain => u[u[x].elem] # Absent)
    <3>1. CASE x = n
      BY <3>1, <1>2
    <3>2. CASE x # n
      <4>1. u[x] = m[x] /\ m[x].elem \in Obj \cup {Plain}
        BY <3>2, <2>1, <1>1, <1>2, MemoryTypes
      <4>2. ObjectOk(x, m[x], d) /\ (m[x].elem # Plain => m[m[x].elem] # Absent)
        BY <2>1, <4>1 DEF Good, ObjectsOk
      <4> QED BY <4>1, <4>2, <1>3
    <3> QED BY <3>1, <3>2
  <2>2. ASSUME NEW i \in Stored(d), u[d.rows[i].of] # Absent
        PROVE  u[d.rows[i].of].id = i
    <3>1. CASE d.rows[i].of = n
      BY <3>1, <1>2
    <3>2. CASE d.rows[i].of # n
      <4>1. u[d.rows[i].of] = m[d.rows[i].of]
        BY <3>2, <1>1, <1>2, DiskTypes
      <4> QED BY <4>1, <2>2 DEF Good, ObjectsOk
    <3> QED BY <3>1, <3>2
  <2> QED BY <2>1, <2>2 DEF ObjectsOk
<1>5. SetOk(u, V)
  <2>1. ASSUME NEW x \in Obj, x \in V PROVE u[x] # Absent /\ u[x].id # NoId
    <3>1. CASE x = n
      BY <3>1, <2>1, <1>2
    <3>2. CASE x # n
      BY <3>2, <2>1, <1>2 DEF Good, SetOk
    <3> QED BY <3>1, <3>2
  <2>2. ASSUME NEW x \in Obj, u[x] # Absent, u[x].dirty PROVE x \in V
    <3>1. CASE x = n
      BY <3>1, <2>2, <1>2
    <3>2. CASE x # n
      BY <3>2, <2>2, <1>2 DEF Good, SetOk
    <3> QED BY <3>1, <3>2
  <2> QED BY <2>1, <2>2 DEF SetOk
<1>6. ReactionsOk(u, d, r, V)
  <2> SUFFICES ASSUME NEW p \in Pin
               PROVE  /\ r[p] \in Obj => u[r[p]] # Absent /\ u[r[p]].kind = "method"
                      /\ r[p] # NoMethod => p \in V \/ d.reactions[p] # NoId
                      /\ p \in V => r[p] # OnDisk
    BY DEF ReactionsOk
  <2>1. /\ r[p] \in Obj => m[r[p]] # Absent /\ m[r[p]].kind = "method"
        /\ r[p] # NoMethod => p \in W \/ d.reactions[p] # NoId
        /\ p \in W => r[p] # OnDisk
    BY DEF Good, ReactionsOk
  <2>2. p \in V <=> p \in W
    BY Numbers
  <2>3. r[p] \in Obj => u[r[p]] # Absent /\ u[r[p]].kind = "method"
    <3>1. CASE r[p] = n
      BY <3>1, <1>2
    <3>2. CASE r[p] # n
      BY <3>2, <2>1, <1>2
    <3> QED BY <3>1, <3>2
  <2> QED BY <2>1, <2>2, <2>3
<1> QED BY <1>2, <1>4, <1>5, <1>6 DEF Good

\* An object that is not in memory is not what anything in memory or in the Set refers to.
LEMMA UnusedFacts ==
  ASSUME IInv, Unused # {}
  PROVE  /\ Least(Unused) \in Obj /\ mem[Least(Unused)] = Absent
         /\ \A i \in Stored(disk) : disk.rows[i].of # Least(Unused)
<1>1. PICK S : S = Unused
  OBVIOUS
<1>2. Least(Unused) \in Unused
  <2>1. S \subseteq Obj
    BY <1>1 DEF Unused
  <2>2. S \in SUBSET Int /\ S # {} /\ 0 \in Int /\ \A n \in S : 0 <= n
    BY <1>1, <2>1, Numbers
  <2>3. Least(S) \in S
    BY <2>2, LeastIn, Zenon
  <2> QED BY <2>3, <1>1
<1>3. Stored(disk) = Rows
  BY DEF Stored, Rows
<1> QED BY <1>2, <1>3 DEF Unused, Live

LEMMA NewStep ==
  ASSUME IInv, Unused # {}, NEW kind \in {"list", "method"}, NEW elem \in Live \cup {Plain},
         mem' = [mem EXCEPT ![Least(Unused)] = NewDB(kind, elem, NoId)],
         UNCHANGED <<reaction, pendingWrites, disk>>
  PROVE  IInv'
<1>1. PICK n : n = Least(Unused)
  OBVIOUS
<1>2. PICK o : o = NewDB(kind, elem, NoId)
  OBVIOUS
<1>3. n \in Obj /\ mem[n] = Absent /\ \A i \in Stored(disk) : disk.rows[i].of # n
  BY <1>1, UnusedFacts
<1>4. Good(mem, disk, reaction, ToSet(pendingWrites)) /\ mem \in Memory /\ disk \in Tables
  BY DEF IInv, Good
<1>5. /\ o \in ObjectDB /\ o.kind = kind /\ o.elem = elem /\ o.id = NoId /\ ~o.checked /\ ~o.dirty
      /\ elem # Plain => elem \in Obj /\ mem[elem] # Absent
  BY <1>2 DEF NewDB, ObjectDB, Live
<1>6. PICK u : u = [mem EXCEPT ![n] = o]
  OBVIOUS
<1>7. u \in Memory /\ u[n] = o /\ \A x \in Obj \ {n} : u[x] = mem[x]
  BY <1>3, <1>4, <1>5, <1>6 DEF Memory
<1>8. o.elem # Plain => u[o.elem] # Absent
  BY <1>3, <1>5, <1>7
<1>9. ObjectOk(n, o, disk)
  <2>1. 0 <= disk.count /\ NoId \notin Stored(disk)
    BY <1>4, DiskTypes
  <2> QED BY <2>1, <1>5 DEF ObjectOk, NoId
<1>10. n \notin ToSet(pendingWrites) /\ \A p \in Pin : reaction[p] # n
  BY <1>3, <1>4 DEF Good, SetOk, ReactionsOk
<1>11. Good(u, disk, reaction, ToSet(pendingWrites))
  <2>1. PICK W : W = ToSet(pendingWrites)
    OBVIOUS
  <2>2. /\ W = W \/ W = W \cup {n}
        /\ n \in W => o.id # NoId
        /\ o.dirty => n \in W
        /\ \A p \in Pin : reaction[p] = n => o.kind = "method"
        /\ \A i \in Stored(disk) : disk.rows[i].of = n => o.id = i
    BY <2>1, <1>3, <1>5, <1>10
  <2>3. Good(u, disk, reaction, W)
    BY <2>1, <2>2, <1>3, <1>4, <1>5, <1>7, <1>8, <1>9, PutGood
  <2> QED BY <2>1, <2>3
<1>12. mem' = u /\ disk' = disk /\ reaction' = reaction /\ pendingWrites' = pendingWrites
  BY <1>1, <1>2, <1>6
<1> QED BY <1>11, <1>12 DEF IInv

LEMMA SetStep ==
  ASSUME IInv, NEW l \in Lists, NEW v \in Live \cup {Plain}, Set(l, v)
  PROVE  IInv'
<1>1. PICK o : o = mem[l]
  OBVIOUS
<1>2. Good(mem, disk, reaction, ToSet(pendingWrites)) /\ mem \in Memory /\ disk \in Tables
  BY DEF IInv, Good
<1>3. /\ l \in Obj /\ o \in ObjectDB /\ o # Absent /\ ObjectOk(l, o, disk)
      /\ v \in Obj \cup {Plain} /\ (v # Plain => mem[v] # Absent)
  BY <1>1, <1>2, MemoryTypes DEF Lists, Live, Good, ObjectsOk
<1>4. PICK b : b \in BOOLEAN /\ (b <=> o.dirty \/ o.id # NoId)
  OBVIOUS
<1>5. PICK y : y = [o EXCEPT !.elem = v, !.dirty = b]
  OBVIOUS
<1>6. /\ y \in ObjectDB /\ y.elem = v /\ y.id = o.id /\ y.kind = o.kind /\ y.checked = o.checked /\ y.dirty = b
  BY <1>3, <1>4, <1>5 DEF ObjectDB
<1>7. PICK q : q = IF o.id # NoId /\ ~o.dirty THEN Add(pendingWrites, l) ELSE pendingWrites
  OBVIOUS
<1>8. o.dirty => l \in ToSet(pendingWrites) /\ o.id # NoId
  BY <1>1, <1>2, <1>3 DEF Good, SetOk, ObjectOk
<1>9. /\ q \in Seq(Obj \cup Pin) /\ IsInjective(q)
      /\ ToSet(q) = ToSet(pendingWrites) \/ ToSet(q) = ToSet(pendingWrites) \cup {l}
      /\ y.dirty => l \in ToSet(q)
      /\ l \in ToSet(q) => y.id # NoId
  <2>1. pendingWrites \in Seq(Obj \cup Pin) /\ IsInjective(pendingWrites) /\ l \in Obj \cup Pin
    BY <1>3 DEF IInv
  <2>2. /\ Add(pendingWrites, l) \in Seq(Obj \cup Pin) /\ IsInjective(Add(pendingWrites, l))
        /\ ToSet(Add(pendingWrites, l)) = ToSet(pendingWrites) \cup {l}
    BY <2>1, AddFacts
  <2>3. l \in ToSet(pendingWrites) => o.id # NoId
    BY <1>1, <1>2, <1>3 DEF Good, SetOk
  <2>4. y.dirty <=> o.dirty \/ o.id # NoId
    BY <1>4, <1>6
  <2>5. CASE o.id # NoId /\ ~o.dirty
    BY <2>2, <2>5, <1>6, <1>7
  <2>6. CASE ~(o.id # NoId /\ ~o.dirty)
    BY <2>1, <2>3, <2>4, <2>6, <1>6, <1>7, <1>8
  <2> QED BY <2>5, <2>6
<1>10. PICK u : u = [mem EXCEPT ![l] = y]
  OBVIOUS
<1>11. u \in Memory /\ u[l] = y /\ \A x \in Obj \ {l} : u[x] = mem[x]
  BY <1>2, <1>3, <1>6, <1>10 DEF Memory
<1>12. mem' = u /\ pendingWrites' = q /\ disk' = disk /\ reaction' = reaction
  <2>1. disk' = disk /\ reaction' = reaction
    BY DEF Set
  <2>2. CASE o.id # NoId /\ ~o.dirty
    <3>1. mem' = [mem EXCEPT ![l].elem = v, ![l].dirty = TRUE] /\ pendingWrites' = Add(pendingWrites, l)
      BY <2>2, <1>1 DEF Set
    <3>2. b = TRUE
      BY <2>2, <1>4
    <3>3. y = [o EXCEPT !.elem = v, !.dirty = TRUE]
      BY <3>2, <1>5
    <3>4. mem' = [mem EXCEPT ![l] = y]
      BY <3>1, <3>3, <1>1, <1>2, <1>3 DEF Memory
    <3> QED BY <3>1, <3>4, <2>1, <2>2, <1>7, <1>10
  <2>3. CASE ~(o.id # NoId /\ ~o.dirty)
    <3>1. mem' = [mem EXCEPT ![l].elem = v] /\ pendingWrites' = pendingWrites
      BY <2>3, <1>1 DEF Set
    <3>2. b = o.dirty
      BY <2>3, <1>3, <1>4, <1>8 DEF ObjectDB
    <3>3. y = [o EXCEPT !.elem = v]
      BY <3>2, <1>3, <1>5 DEF ObjectDB
    <3>4. mem' = [mem EXCEPT ![l] = y]
      BY <3>1, <3>3, <1>1, <1>2, <1>3 DEF Memory
    <3> QED BY <3>1, <3>4, <2>1, <2>3, <1>7, <1>10
  <2> QED BY <2>2, <2>3
<1>13. ObjectOk(l, y, disk)
  <2>1. y.id \in Stored(disk) => y.dirty
    <3>1. NoId \notin Stored(disk)
      BY <1>2, DiskTypes
    <3> QED BY <3>1, <1>4, <1>6
  <2>2. y.dirty => y.id # NoId
    BY <1>4, <1>6, <1>8
  <2> QED BY <2>1, <2>2, <1>3, <1>6 DEF ObjectOk
<1>14. Good(u, disk, reaction, ToSet(q))
  <2>1. PICK W, V : W = ToSet(pendingWrites) /\ V = ToSet(q)
    OBVIOUS
  <2>2. /\ V = W \/ V = W \cup {l}
        /\ l \in V => y.id # NoId
        /\ y.dirty => l \in V
    BY <2>1, <1>9
  <2>3. \A p \in Pin : reaction[p] = l => y.kind = "method"
    BY <1>1, <1>2, <1>3, <1>6 DEF Good, ReactionsOk
  <2>4. \A i \in Stored(disk) : disk.rows[i].of = l => y.id = i
    BY <1>1, <1>2, <1>3, <1>6 DEF Good, ObjectsOk
  <2>5. y.elem # Plain => u[y.elem] # Absent
    <3>1. y # Absent
      BY <1>6, AbsentIsNone
    <3> QED BY <3>1, <1>3, <1>6, <1>11
  <2>6. Good(mem, disk, reaction, W)
    BY <2>1, <1>2
  <2>7. Good(u, disk, reaction, V)
    BY <2>2, <2>3, <2>4, <2>5, <2>6, <1>3, <1>6, <1>11, <1>13, PutGood
  <2> QED BY <2>1, <2>7
<1> QED BY <1>9, <1>12, <1>14 DEF IInv

\* What is not in memory is no element, reaction or entry of the Set.
LEMMA EvictStep ==
  ASSUME IInv, NEW n \in Live, Evict(n)
  PROVE  IInv'
<1>1. PICK W : W = ToSet(pendingWrites)
  OBVIOUS
<1>2. Good(mem, disk, reaction, W) /\ mem \in Memory /\ disk \in Tables /\ n \in Obj
  BY <1>1 DEF IInv, Good, Live
<1>3. /\ n \notin W /\ (\A p \in Pin : reaction[p] # n) /\ \A o \in Live \ {n} : mem[o].elem # n
  BY <1>1, ContainsIn DEF Evict
<1>4. PICK u : u = mem'
  OBVIOUS
<1>5. u \in Memory /\ u[n] = Absent /\ \A x \in Obj \ {n} : u[x] = mem[x]
  BY <1>2, <1>4 DEF Evict, Memory
<1>6. disk' = disk /\ reaction' = reaction /\ pendingWrites' = pendingWrites
  BY DEF Evict
<1>7. ObjectsOk(u, disk)
  <2>1. ASSUME NEW x \in Obj, u[x] # Absent
        PROVE  ObjectOk(x, u[x], disk) /\ (u[x].elem # Plain => u[u[x].elem] # Absent)
    <3>1. x # n /\ u[x] = mem[x] /\ x \in Live
      BY <2>1, <1>5 DEF Live
    <3>2. ObjectOk(x, mem[x], disk) /\ (mem[x].elem # Plain => mem[mem[x].elem] # Absent)
      BY <3>1, <2>1, <1>2 DEF Good, ObjectsOk
    <3>3. mem[x].elem # n /\ mem[x].elem \in Obj \cup {Plain}
      BY <3>1, <2>1, <1>2, <1>3, MemoryTypes
    <3> QED BY <3>1, <3>2, <3>3, <1>5
  <2>2. ASSUME NEW i \in Stored(disk), u[disk.rows[i].of] # Absent
        PROVE  u[disk.rows[i].of].id = i
    <3>1. disk.rows[i].of \in Obj
      BY <1>2, DiskTypes
    <3>2. u[disk.rows[i].of] = mem[disk.rows[i].of]
      BY <3>1, <2>2, <1>5
    <3> QED BY <3>2, <2>2, <1>2 DEF Good, ObjectsOk
  <2> QED BY <2>1, <2>2 DEF ObjectsOk
<1>8. SetOk(u, W)
  BY <1>2, <1>3, <1>5 DEF Good, SetOk
<1>9. ReactionsOk(u, disk, reaction, W)
  <2>1. ASSUME NEW p \in Pin, reaction[p] \in Obj PROVE u[reaction[p]] = mem[reaction[p]]
    BY <2>1, <1>3, <1>5
  <2> QED BY <2>1, <1>2 DEF Good, ReactionsOk
<1>10. Good(u, disk, reaction, W)
  BY <1>2, <1>5, <1>7, <1>8, <1>9 DEF Good
<1> QED BY <1>1, <1>4, <1>6, <1>10 DEF IInv

----------------------------------------------------------------------------
(* Reactions, collections, crashes.                                        *)

\* The reaction of p is, or becomes, x; p may have been added to the Set.
LEMMA PinGood ==
  ASSUME NEW m, NEW d, NEW r, NEW W, Good(m, d, r, W), NEW p \in Pin, NEW x \in Obj \cup {NoMethod, OnDisk},
         NEW V, V = W \/ V = W \cup {p},
         x \in Obj => m[x] # Absent /\ m[x].kind = "method",
         x # NoMethod => p \in V \/ d.reactions[p] # NoId,
         p \in V => x # OnDisk
  PROVE  Good(m, d, [r EXCEPT ![p] = x], V)
<1>1. PICK u : u = [r EXCEPT ![p] = x]
  OBVIOUS
<1>2. u \in [Pin -> Obj \cup {NoMethod, OnDisk}] /\ u[p] = x /\ \A o \in Pin \ {p} : u[o] = r[o]
  BY <1>1 DEF Good
<1>3. SetOk(m, V)
  <2>1. p \notin Obj
    BY Numbers
  <2> QED BY <2>1 DEF Good, SetOk
<1>4. ReactionsOk(m, d, u, V)
  <2> SUFFICES ASSUME NEW o \in Pin
               PROVE  /\ u[o] \in Obj => m[u[o]] # Absent /\ m[u[o]].kind = "method"
                      /\ u[o] # NoMethod => o \in V \/ d.reactions[o] # NoId
                      /\ o \in V => u[o] # OnDisk
    BY DEF ReactionsOk
  <2>1. CASE o = p
    BY <2>1, <1>2
  <2>2. CASE o # p
    <3>1. u[o] = r[o] /\ (o \in V <=> o \in W)
      BY <2>2, <1>2
    <3> QED BY <3>1 DEF Good, ReactionsOk
  <2> QED BY <2>1, <2>2
<1> QED BY <1>1, <1>2, <1>3, <1>4 DEF Good

LEMMA AddNextStep ==
  ASSUME IInv, NEW n \in Methods, AddNext(n)
  PROVE  IInv'
<1>1. PICK W : W = ToSet(pendingWrites)
  OBVIOUS
<1>2. Good(mem, disk, reaction, W)
  BY <1>1 DEF IInv
<1>3. PICK free : free = {p \in Pin : /\ reaction[p] = NoMethod
                                      /\ disk.reactions[p] = NoId
                                      /\ ~Contains(pendingWrites, p)}
  OBVIOUS
<1>4. /\ free # {} /\ reaction' = [reaction EXCEPT ![Least(free)] = n]
      /\ pendingWrites' = Add(pendingWrites, Least(free)) /\ mem' = mem /\ disk' = disk
  BY <1>3 DEF AddNext
<1>5. PICK p : p = Least(free)
  OBVIOUS
<1>6. p \in Pin
  <2>1. free \subseteq Pin
    BY <1>3
  <2>2. free \in SUBSET Int /\ -MaxPins \in Int /\ \A o \in free : -MaxPins <= o
    BY <2>1, Numbers, BoundsAssumption
  <2>3. Least(free) \in free
    BY <2>2, <1>4, LeastIn, Zenon
  <2> QED BY <2>1, <2>3, <1>5
<1>7. PICK q : q = Add(pendingWrites, p)
  OBVIOUS
<1>8. q \in Seq(Obj \cup Pin) /\ IsInjective(q) /\ ToSet(q) = W \cup {p}
  <2>1. pendingWrites \in Seq(Obj \cup Pin) /\ IsInjective(pendingWrites) /\ p \in Obj \cup Pin
    BY <1>6 DEF IInv
  <2> QED BY <2>1, <1>1, <1>7, AddFacts
<1>9. n \in Obj /\ mem[n] # Absent /\ mem[n].kind = "method" /\ n # OnDisk /\ n # NoMethod
  BY Numbers DEF Methods, Live, OnDisk, NoMethod
<1>10. Good(mem, disk, [reaction EXCEPT ![p] = n], ToSet(q))
  BY <1>2, <1>6, <1>8, <1>9, PinGood
<1> QED BY <1>4, <1>5, <1>7, <1>8, <1>10 DEF IInv

LEMMA EvictRootStep ==
  ASSUME IInv, NEW p \in Pin, EvictRoot(p)
  PROVE  IInv'
<1>1. PICK W : W = ToSet(pendingWrites)
  OBVIOUS
<1>2. Good(mem, disk, reaction, W)
  BY <1>1 DEF IInv
<1>3. reaction[p] \in Obj /\ p \notin W /\ OnDisk \notin Obj
  BY <1>1, ContainsIn, Numbers DEF EvictRoot, OnDisk
<1>4. disk.reactions[p] # NoId
  BY <1>2, <1>3, Numbers DEF Good, ReactionsOk, NoMethod
<1>5. Good(mem, disk, [reaction EXCEPT ![p] = OnDisk], W)
  BY <1>2, <1>3, <1>4, PinGood
<1>6. /\ reaction' = [reaction EXCEPT ![p] = OnDisk] /\ mem' = mem /\ disk' = disk
      /\ pendingWrites' = pendingWrites
  BY DEF EvictRoot
<1> QED BY <1>1, <1>5, <1>6 DEF IInv

LEMMA CrashStep ==
  ASSUME IInv, Crash
  PROVE  IInv'
<1>1. PICK W : W = ToSet(pendingWrites)
  OBVIOUS
<1>2. Good(mem, disk, reaction, W)
  BY <1>1 DEF IInv
<1>3. PICK u, v : u = mem' /\ v = reaction'
  OBVIOUS
<1>4. /\ u \in Memory /\ v \in [Pin -> Obj \cup {NoMethod, OnDisk}]
      /\ \A n \in Obj : u[n] = Absent
      /\ \A p \in Pin : v[p] \notin Obj /\ (v[p] # NoMethod => disk.reactions[p] # NoId)
  BY <1>3, Numbers DEF Crash, Memory, NoMethod, OnDisk
<1>5. ObjectsOk(u, disk)
  <2>1. \A i \in Stored(disk) : disk.rows[i].of \in Obj
    BY <1>2, DiskTypes DEF Good
  <2> QED BY <2>1, <1>4 DEF ObjectsOk
<1>6. SetOk(u, {}) /\ ReactionsOk(u, disk, v, {})
  BY <1>4 DEF SetOk, ReactionsOk
<1>7. Good(u, disk, v, {})
  BY <1>2, <1>4, <1>5, <1>6 DEF Good
<1>8. pendingWrites' = <<>> /\ disk' = disk /\ <<>> \in Seq(Obj \cup Pin)
  BY DEF Crash
<1> QED BY <1>3, <1>7, <1>8, EmptySet DEF IInv

\* What is read with row i is stored, has i in it, and has what its rows name.
LEMMA ReadFacts ==
  ASSUME disk \in Tables, RowsOk(disk), NEW i \in Stored(disk)
  PROVE  /\ i \in Read(i) /\ Read(i) \subseteq Stored(disk)
         /\ \A j \in Read(i) : disk.rows[j].elem \in Read(i) \cup {NoId}
<1>1. Stored(disk) = Rows /\ Stored(disk) \subseteq Id
  BY DEF Stored, Rows
<1>2. i \in Read(i)
  BY <1>1 DEF Read
<1>3. Read(i) \subseteq Stored(disk)
  <2>1. Named(Stored(disk)) \subseteq Stored(disk)
    BY DEF RowsOk, Named
  <2>2. Stored(disk) \in SUBSET Id
    BY <1>1
  <2> QED BY <2>1, <2>2 DEF Read
<1>4. ASSUME NEW j \in Read(i), disk.rows[j].elem # NoId PROVE disk.rows[j].elem \in Read(i)
  <2>1. disk.rows[j].elem \in Id
    BY <1>1, <1>3, <1>4 DEF RowsOk
  <2>2. ASSUME NEW ids \in SUBSET Id, i \in ids, Named(ids) \subseteq ids PROVE disk.rows[j].elem \in ids
    <3>1. j \in ids
      BY <2>2 DEF Read
    <3>2. disk.rows[j].elem \in Named(ids)
      BY <3>1, <1>1, <1>3, <1>4 DEF Named
    <3> QED BY <3>2, <2>2
  <2> QED BY <2>1, <2>2 DEF Read
<1> QED BY <1>2, <1>3, <1>4

\* The object that is made of row j.
Made(j) ==
  NewDB(disk.rows[j].kind,
        IF disk.rows[j].elem = NoId THEN Plain ELSE disk.rows[disk.rows[j].elem].of, j)

LEMMA MadeFacts ==
  ASSUME disk \in Tables, RowsOk(disk), NEW j \in Stored(disk)
  PROVE  /\ Made(j) \in ObjectDB /\ Made(j).id = j /\ ~Made(j).dirty /\ ObjectOk(disk.rows[j].of, Made(j), disk)
         /\ Made(j).elem = IF disk.rows[j].elem = NoId THEN Plain ELSE disk.rows[disk.rows[j].elem].of
<1>1. PICK row : row = disk.rows[j]
  OBVIOUS
<1>2. row.kind \in {"list", "method"} /\ j \in Id /\ row.elem \in Stored(disk) \cup {NoId} /\ j <= disk.count
  BY <1>1, DiskTypes DEF RowsOk
<1>3. PICK e : e = IF row.elem = NoId THEN Plain ELSE disk.rows[row.elem].of
  OBVIOUS
<1>4. e \in Obj \cup {Plain} /\ (e = Plain <=> row.elem = NoId)
  <2>1. CASE row.elem = NoId
    BY <2>1, <1>3
  <2>2. CASE row.elem # NoId
    <3>1. disk.rows[row.elem].of \in Obj
      BY <2>2, <1>2, DiskTypes
    <3> QED BY <3>1, <2>2, <1>3, Numbers DEF Plain
  <2> QED BY <2>1, <2>2
<1>5. PICK o : o = NewDB(row.kind, e, j)
  OBVIOUS
<1>6. /\ o \in ObjectDB /\ o.kind = row.kind /\ o.elem = e /\ o.id = j /\ ~o.checked /\ ~o.dirty
  BY <1>2, <1>4, <1>5 DEF NewDB, ObjectDB
<1>7. Holds(disk, j, e)
  BY <1>1, <1>2, <1>3, <1>4 DEF Holds
<1>8. ObjectOk(row.of, o, disk)
  BY <1>1, <1>2, <1>6, <1>7 DEF ObjectOk
<1>9. Made(j) = o
  BY <1>1, <1>3, <1>5 DEF Made
<1> QED BY <1>1, <1>3, <1>6, <1>8, <1>9

LEMMA LoadGood ==
  ASSUME NEW W, Good(mem, disk, reaction, W), NEW i \in Stored(disk)
  PROVE  /\ Good(Load(i), disk, reaction, W)
         /\ Load(i)[disk.rows[i].of] # Absent
<1>1. mem \in Memory /\ disk \in Tables /\ RowsOk(disk)
  BY DEF Good
<1>2. PICK u : u = Load(i)
  OBVIOUS
<1>3. PICK ids : ids = Read(i)
  OBVIOUS
<1>4. i \in ids /\ ids \subseteq Stored(disk) /\ \A j \in ids : disk.rows[j].elem \in ids \cup {NoId}
  BY <1>1, <1>3, ReadFacts
<1>5. \A n \in Obj : (mem[n] # Absent \/ \A j \in ids : disk.rows[j].of # n) => u[n] = mem[n]
  BY <1>2, <1>3 DEF Load
<1>6. ASSUME NEW j \in ids, mem[disk.rows[j].of] = Absent
      PROVE  u[disk.rows[j].of] = Made(j)
  <2>1. PICK n : n = disk.rows[j].of
    OBVIOUS
  <2>2. n \in Obj
    BY <2>1, <1>1, <1>4, DiskTypes
  <2>3. PICK k : k = CHOOSE x \in ids : disk.rows[x].of = n
    OBVIOUS
  <2>4. k \in ids /\ disk.rows[k].of = n
    BY <2>1, <2>3
  <2>5. k = j
    BY <2>1, <2>4, <1>1, <1>4 DEF RowsOk
  <2>6. u[n] = Made(k)
    BY <2>1, <2>2, <2>3, <1>2, <1>3, <1>6, Zenon DEF Load, Made
  <2> QED BY <2>1, <2>5, <2>6
<1>7. ASSUME NEW j \in ids PROVE u[disk.rows[j].of] # Absent
  <2>1. disk.rows[j].of \in Obj /\ j \in Stored(disk)
    BY <1>1, <1>4, DiskTypes
  <2>2. Made(j) # Absent
    BY <2>1, <1>1, MadeFacts, AbsentIsNone
  <2>3. CASE mem[disk.rows[j].of] = Absent
    BY <2>2, <2>3, <1>6
  <2>4. CASE mem[disk.rows[j].of] # Absent
    BY <2>1, <2>4, <1>5
  <2> QED BY <2>3, <2>4
<1>8. ASSUME NEW n \in Obj
      PROVE  u[n] = mem[n] \/ (mem[n] = Absent /\ \E j \in ids : disk.rows[j].of = n /\ u[n] = Made(j))
  BY <1>5, <1>6
<1>9. u \in Memory
  <2>1. \A n \in Obj : u[n] \in ObjectDB \cup {Absent}
    BY <1>1, <1>4, <1>8, MadeFacts DEF Memory
  <2> QED BY <2>1, <1>2 DEF Load, Memory
<1>10. ObjectsOk(u, disk)
  <2>1. ASSUME NEW n \in Obj, u[n] # Absent
        PROVE  ObjectOk(n, u[n], disk) /\ (u[n].elem # Plain => u[u[n].elem] # Absent)
    <3>1. CASE u[n] = mem[n]
      <4>1. /\ ObjectOk(n, mem[n], disk) /\ (mem[n].elem # Plain => mem[mem[n].elem] # Absent)
            /\ mem[n].elem \in Obj \cup {Plain}
        BY <3>1, <2>1, <1>1, MemoryTypes DEF Good, ObjectsOk
      <4> QED BY <4>1, <3>1, <1>5
    <3>2. ASSUME NEW j \in ids, disk.rows[j].of = n, u[n] = Made(j)
          PROVE  ObjectOk(n, u[n], disk) /\ (u[n].elem # Plain => u[u[n].elem] # Absent)
      <4>1. j \in Stored(disk)
        BY <1>4
      <4>2. /\ ObjectOk(disk.rows[j].of, Made(j), disk)
            /\ Made(j).elem = IF disk.rows[j].elem = NoId THEN Plain ELSE disk.rows[disk.rows[j].elem].of
        BY <4>1, <1>1, MadeFacts
      <4>3. Made(j).elem # Plain => u[Made(j).elem] # Absent
        BY <4>2, <1>4, <1>7
      <4> QED BY <4>2, <4>3, <3>2
    <3> QED BY <3>1, <3>2, <1>8
  <2>2. ASSUME NEW k \in Stored(disk), u[disk.rows[k].of] # Absent
        PROVE  u[disk.rows[k].of].id = k
    <3>1. PICK n : n = disk.rows[k].of /\ n \in Obj
      BY <1>1, DiskTypes
    <3>2. CASE u[n] = mem[n]
      BY <3>1, <3>2, <2>2 DEF Good, ObjectsOk
    <3>3. ASSUME NEW j \in ids, disk.rows[j].of = n, u[n] = Made(j)
          PROVE  u[n].id = k
      <4>1. j \in Stored(disk) /\ j = k
        BY <3>1, <3>3, <1>1, <1>4 DEF RowsOk
      <4> QED BY <4>1, <3>3, <1>1, MadeFacts
    <3> QED BY <3>1, <3>2, <3>3, <1>8
  <2> QED BY <2>1, <2>2 DEF ObjectsOk
<1>11. SetOk(u, W)
  <2>1. ASSUME NEW n \in Obj, n \in W PROVE u[n] # Absent /\ u[n].id # NoId
    BY <2>1, <1>5 DEF Good, SetOk
  <2>2. ASSUME NEW n \in Obj, u[n] # Absent, u[n].dirty PROVE n \in W
    <3>1. u[n] = mem[n]
      BY <2>2, <1>1, <1>4, <1>8, MadeFacts
    <3> QED BY <3>1, <2>2 DEF Good, SetOk
  <2> QED BY <2>1, <2>2 DEF SetOk
<1>12. ReactionsOk(u, disk, reaction, W)
  <2>1. ASSUME NEW p \in Pin, reaction[p] \in Obj PROVE u[reaction[p]] # Absent /\ u[reaction[p]].kind = "method"
    BY <2>1, <1>5 DEF Good, ReactionsOk
  <2> QED BY <2>1 DEF Good, ReactionsOk
<1>13. Good(u, disk, reaction, W)
  BY <1>9, <1>10, <1>11, <1>12 DEF Good
<1>14. u[disk.rows[i].of] # Absent
  BY <1>4, <1>7
<1> QED BY <1>2, <1>13, <1>14

LEMMA SettleStep ==
  ASSUME IInv, NEW p \in Pin, Settle(p)
  PROVE  IInv'
<1>1. PICK W : W = ToSet(pendingWrites)
  OBVIOUS
<1>2. Good(mem, disk, reaction, W)
  BY <1>1 DEF IInv
<1>3. PICK u : u = IF reaction[p] = OnDisk THEN Load(disk.reactions[p]) ELSE mem
  OBVIOUS
<1>4. Good(u, disk, reaction, W)
  <2>1. CASE reaction[p] = OnDisk
    <3>1. disk.reactions[p] # NoId
      BY <2>1, <1>2 DEF Good, ReactionsOk, Settle
    <3>2. disk.reactions[p] \in Stored(disk)
      BY <3>1, <1>2 DEF Good, PinsOk
    <3> QED BY <3>2, <2>1, <1>2, <1>3, LoadGood
  <2>2. CASE reaction[p] # OnDisk
    BY <2>2, <1>2, <1>3
  <2> QED BY <2>1, <2>2
<1>5. PICK q : q = Add(pendingWrites, p)
  OBVIOUS
<1>6. q \in Seq(Obj \cup Pin) /\ IsInjective(q) /\ ToSet(q) = W \cup {p}
  <2>1. pendingWrites \in Seq(Obj \cup Pin) /\ IsInjective(pendingWrites) /\ p \in Obj \cup Pin
    BY DEF IInv
  <2> QED BY <2>1, <1>1, <1>5, AddFacts
<1>7. NoMethod \notin Obj /\ NoMethod # OnDisk
  BY Numbers DEF NoMethod, OnDisk
<1>8. Good(u, disk, [reaction EXCEPT ![p] = NoMethod], ToSet(q))
  BY <1>4, <1>6, <1>7, PinGood
<1>9. /\ mem' = u /\ reaction' = [reaction EXCEPT ![p] = NoMethod]
      /\ pendingWrites' = q /\ disk' = disk
  BY <1>3, <1>5 DEF Settle
<1> QED BY <1>6, <1>8, <1>9 DEF IInv

\* What is marked is stored, has what reactions name and what its rows name.
LEMMA MarkedFacts ==
  ASSUME disk \in Tables, RowsOk(disk), PinsOk(disk)
  PROVE  /\ Marked \subseteq Stored(disk)
         /\ \A j \in Marked : disk.rows[j].elem \in Marked \cup {NoId}
         /\ \A p \in Pin : disk.reactions[p] # NoId => disk.reactions[p] \in Marked
<1>1. ASSUME NEW p \in Pin, disk.reactions[p] # NoId
      PROVE  /\ disk.reactions[p] \in Read(disk.reactions[p]) /\ Read(disk.reactions[p]) \subseteq Stored(disk)
             /\ \A j \in Read(disk.reactions[p]) : disk.rows[j].elem \in Read(disk.reactions[p]) \cup {NoId}
  <2>1. disk.reactions[p] \in Stored(disk)
    BY <1>1 DEF PinsOk
  <2> QED BY <2>1, ReadFacts
<1>2. \A j : j \in Marked <=> \E p \in Pin : disk.reactions[p] # NoId /\ j \in Read(disk.reactions[p])
  BY DEF Marked
<1>3. Marked \subseteq Stored(disk)
  BY <1>1, <1>2
<1>4. ASSUME NEW j \in Marked PROVE disk.rows[j].elem \in Marked \cup {NoId}
  BY <1>1, <1>2
<1>5. \A p \in Pin : disk.reactions[p] # NoId => disk.reactions[p] \in Marked
  BY <1>1, <1>2
<1> QED BY <1>3, <1>4, <1>5

LEMMA CollectStep ==
  ASSUME IInv, Collect
  PROVE  IInv'
<1>1. PICK W : W = ToSet(pendingWrites)
  OBVIOUS
<1>2. /\ Good(mem, disk, reaction, W) /\ mem \in Memory /\ disk \in Tables
      /\ RowsOk(disk) /\ PinsOk(disk)
  BY <1>1 DEF IInv, Good
<1>3. PICK u, d, K : u = mem' /\ d = disk' /\ K = Marked
  OBVIOUS
<1>4. /\ K \subseteq Stored(disk)
      /\ \A j \in K : disk.rows[j].elem \in K \cup {NoId}
      /\ \A p \in Pin : disk.reactions[p] # NoId => disk.reactions[p] \in K
  BY <1>2, <1>3, MarkedFacts
<1>5. PICK rows : rows = [i \in Id |-> IF i \in K THEN disk.rows[i] ELSE NoRow]
  OBVIOUS
<1>6. /\ d \in Tables /\ d.count = disk.count /\ d.reactions = disk.reactions /\ d.rows = rows
  <2>1. d = [disk EXCEPT !.rows = rows]
    BY <1>3, <1>5 DEF Collect, Swept
  <2>2. rows \in [Id -> Row \cup {NoRow}]
    BY <1>2, <1>5 DEF Tables
  <2> QED BY <2>1, <2>2, <1>2 DEF Tables
<1>7. Stored(d) = K /\ \A i \in K : d.rows[i] = disk.rows[i]
  BY <1>4, <1>5, <1>6 DEF Stored
<1>8. RowsOk(d)
  BY <1>2, <1>4, <1>6, <1>7 DEF RowsOk
<1>9. PinsOk(d)
  BY <1>2, <1>4, <1>6, <1>7 DEF PinsOk
<1>10. /\ u \in Memory
       /\ \A n \in Obj : /\ u[n] # Absent <=> mem[n] # Absent
                         /\ mem[n] # Absent => /\ u[n].kind = mem[n].kind /\ u[n].elem = mem[n].elem
                                               /\ u[n].id = mem[n].id /\ u[n].dirty = mem[n].dirty /\ ~u[n].checked
  <2>1. u = [n \in Obj |-> IF mem[n] # Absent THEN [mem[n] EXCEPT !.checked = FALSE] ELSE Absent]
    BY <1>3 DEF Collect, Live
  <2>2. ASSUME NEW n \in Obj, mem[n] # Absent
        PROVE  /\ u[n] \in ObjectDB /\ u[n] # Absent /\ u[n].kind = mem[n].kind /\ u[n].elem = mem[n].elem
               /\ u[n].id = mem[n].id /\ u[n].dirty = mem[n].dirty /\ ~u[n].checked
    <3>1. PICK o : o = mem[n] /\ o \in ObjectDB
      BY <2>2, <1>2, MemoryTypes
    <3>2. u[n] = [o EXCEPT !.checked = FALSE]
      BY <3>1, <2>1, <2>2
    <3>3. u[n] \in ObjectDB
      BY <3>1, <3>2 DEF ObjectDB
    <3> QED BY <3>1, <3>2, <3>3, AbsentIsNone DEF ObjectDB
  <2>3. \A n \in Obj : mem[n] = Absent => u[n] = Absent
    BY <2>1
  <2>4. u \in Memory
    BY <2>1, <2>2, <2>3 DEF Memory
  <2> QED BY <2>2, <2>3, <2>4
<1>11. ObjectsOk(u, d)
  <2>1. ASSUME NEW n \in Obj, u[n] # Absent
        PROVE  ObjectOk(n, u[n], d) /\ (u[n].elem # Plain => u[u[n].elem] # Absent)
    <3>1. /\ ObjectOk(n, mem[n], disk) /\ (mem[n].elem # Plain => mem[mem[n].elem] # Absent)
          /\ mem[n].elem \in Obj \cup {Plain}
      BY <2>1, <1>2, <1>10, MemoryTypes DEF Good, ObjectsOk
    <3>2. u[n].elem # Plain => u[u[n].elem] # Absent
      BY <3>1, <2>1, <1>10
    <3>3. ASSUME NEW i \in K, Holds(disk, i, mem[n].elem) PROVE Holds(d, i, mem[n].elem)
      <4>1. NoId \notin Stored(disk)
        BY <1>2, DiskTypes
      <4> QED BY <4>1, <3>3, <1>4, <1>7 DEF Holds
    <3>4. ObjectOk(n, u[n], d)
      BY <3>1, <3>3, <2>1, <1>4, <1>6, <1>7, <1>10 DEF ObjectOk
    <3> QED BY <3>2, <3>4
  <2>2. ASSUME NEW i \in Stored(d), u[d.rows[i].of] # Absent
        PROVE  u[d.rows[i].of].id = i
    <3>1. i \in Stored(disk) /\ d.rows[i] = disk.rows[i] /\ disk.rows[i].of \in Obj
      BY <1>2, <1>4, <1>7, DiskTypes
    <3>2. mem[disk.rows[i].of] # Absent
      BY <3>1, <2>2, <1>10
    <3>3. mem[disk.rows[i].of].id = i
      BY <3>1, <3>2, <1>2 DEF Good, ObjectsOk
    <3> QED BY <3>1, <3>2, <3>3, <1>10
  <2> QED BY <2>1, <2>2 DEF ObjectsOk
<1>12. SetOk(u, W)
  BY <1>2, <1>10 DEF Good, SetOk
<1>13. ReactionsOk(u, d, reaction, W)
  BY <1>2, <1>6, <1>10 DEF Good, ReactionsOk
<1>14. Good(u, d, reaction, W)
  BY <1>2, <1>6, <1>8, <1>9, <1>10, <1>11, <1>12, <1>13 DEF Good
<1>15. reaction' = reaction /\ pendingWrites' = pendingWrites
  BY DEF Collect
<1> QED BY <1>1, <1>3, <1>14, <1>15 DEF IInv

----------------------------------------------------------------------------
(* A flush: the ids that are handed out.                                   *)

Rank(T, x) == Cardinality({y \in T : y <= x})

\* The elements of a finite set of numbers are numbered by their ranks.
LEMMA Ranks ==
  ASSUME NEW T \in SUBSET Obj
  PROVE  /\ IsFiniteSet(T) /\ Cardinality(T) \in Nat
         /\ \A x \in T : Rank(T, x) \in 1..Cardinality(T)
         /\ \A x, z \in T : Rank(T, x) = Rank(T, z) => x = z
<1>1. IsFiniteSet(T) /\ Cardinality(T) \in Nat
  <2>1. IsFiniteSet(Obj)
    BY BoundsAssumption, FS_Interval DEF Obj
  <2>2. IsFiniteSet(T)
    BY <2>1, FS_Subset
  <2> QED BY <2>2, FS_CardinalityType
<1>2. \A x \in T : x \in Nat
  BY Numbers
<1>3. ASSUME NEW x \in T PROVE Rank(T, x) \in 1..Cardinality(T)
  <2>1. PICK U : U = {y \in T : y <= x}
    OBVIOUS
  <2>2. U \subseteq T /\ x \in U
    BY <2>1, <1>2
  <2>3. IsFiniteSet(U) /\ Cardinality(U) <= Cardinality(T)
    BY <2>2, <1>1, FS_Subset
  <2>4. Cardinality(U) \in Nat /\ Cardinality(U) # 0
    BY <2>2, <2>3, FS_CardinalityType, FS_EmptySet
  <2> QED BY <2>1, <2>3, <2>4, <1>1 DEF Rank
<1>4. ASSUME NEW x \in T, NEW z \in T, x < z
      PROVE  Rank(T, x) < Rank(T, z)
  <2>1. PICK U, V : U = {y \in T : y <= x} /\ V = {y \in T : y <= z}
    OBVIOUS
  <2>2. U \subseteq V /\ z \in V /\ z \notin U /\ V \subseteq T
    BY <2>1, <1>2, <1>4
  <2>3. IsFiniteSet(V)
    BY <2>2, <1>1, FS_Subset
  <2>4. Cardinality(U) <= Cardinality(V) /\ (Cardinality(U) = Cardinality(V) => U = V) /\ IsFiniteSet(U)
    BY <2>2, <2>3, FS_Subset
  <2>5. Cardinality(U) \in Nat /\ Cardinality(V) \in Nat
    BY <2>3, <2>4, FS_CardinalityType
  <2>6. Cardinality(U) < Cardinality(V)
    BY <2>2, <2>4, <2>5
  <2> QED BY <2>1, <2>6 DEF Rank
<1>5. ASSUME NEW x \in T, NEW z \in T, Rank(T, x) = Rank(T, z)
      PROVE  x = z
  <2>1. Rank(T, x) \in Int /\ Rank(T, z) \in Int
    BY <1>3, <1>1
  <2>2. ~(x < z) /\ ~(z < x)
    BY <2>1, <1>4, <1>5
  <2> QED BY <2>2, <1>2
<1> QED BY <1>1, <1>3, <1>5

\* What getOrCreateId inserts needs a row, and so does no element of it that is not inserted.
LEMMA InsertedFacts ==
  ASSUME NEW s, NEW n
  PROVE  /\ Inserted(s, n) \subseteq Needing(s)
         /\ n \in Needing(s) => n \in Inserted(s, n)
         /\ \A o \in Inserted(s, n) : s.mem[o].elem \in Needing(s) => s.mem[o].elem \in Inserted(s, n)
<1>1. PICK N : N = Needing(s)
  OBVIOUS
<1>2. Inserted(s, n) = {o \in N : \A os \in SUBSET N : (({n} \cup {s.mem[x].elem : x \in os}) \cap N) \subseteq os => o \in os}
  BY <1>1 DEF Inserted
<1>3. ASSUME NEW o \in Inserted(s, n), s.mem[o].elem \in N PROVE s.mem[o].elem \in Inserted(s, n)
  <2>1. ASSUME NEW os \in SUBSET N, (({n} \cup {s.mem[x].elem : x \in os}) \cap N) \subseteq os
        PROVE  s.mem[o].elem \in os
    <3>1. o \in os
      BY <2>1, <1>2
    <3>2. s.mem[o].elem \in {s.mem[x].elem : x \in os}
      BY <3>1
    <3> QED BY <3>2, <2>1, <1>3
  <2> QED BY <2>1, <1>2, <1>3
<1>4. n \in N => n \in Inserted(s, n)
  BY <1>2
<1> QED BY <1>1, <1>2, <1>3, <1>4

StoreType == [mem : Memory, disk : Tables]

\* r is s with the objects in new inserted, each under its id.
Extends(s, r, new, id) ==
  /\ r \in StoreType /\ new \subseteq Needing(s)
  /\ s.disk.count <= r.disk.count /\ r.disk.reactions = s.disk.reactions
  /\ \A o \in new :
       /\ id[o] \in Id /\ s.disk.count < id[o] /\ id[o] <= r.disk.count
       /\ r.mem[o].id = id[o] /\ r.mem[o].checked /\ r.mem[o] # Absent
       /\ r.mem[o].kind = s.mem[o].kind /\ r.mem[o].elem = s.mem[o].elem /\ r.mem[o].dirty = s.mem[o].dirty
       /\ r.disk.rows[id[o]] # NoRow
       /\ r.disk.rows[id[o]].kind = s.mem[o].kind /\ r.disk.rows[id[o]].of = o
       /\ r.disk.rows[id[o]].elem = IF s.mem[o].elem = Plain THEN NoId ELSE r.mem[s.mem[o].elem].id
  /\ \A o, x \in new : id[o] = id[x] => o = x
  /\ \A o \in Obj \ new : r.mem[o] = s.mem[o]
  /\ \A i \in Id : (\A o \in new : id[o] # i) => r.disk.rows[i] = s.disk.rows[i]

Owner(s, new, i) == {o \in new : IdOf(s, new, o) = i}
MemoryOf(s, new) ==
  [o \in Obj |-> IF o \in new THEN [s.mem[o] EXCEPT !.id = IdOf(s, new, o), !.checked = TRUE] ELSE s.mem[o]]
RowsOf(s, new) ==
  [i \in Id |-> IF Owner(s, new, i) # {} THEN RowFor(s, new, CHOOSE o \in Owner(s, new, i) : TRUE)
                ELSE s.disk.rows[i]]

LEMMA InsertParts ==
  ASSUME NEW s \in StoreType, NEW new, NEW r, r = Insert(s, new)
  PROVE  /\ r.mem = MemoryOf(s, new) /\ r.disk.rows = RowsOf(s, new)
         /\ r.disk.count = s.disk.count + Cardinality(new) /\ r.disk.reactions = s.disk.reactions
         /\ r = [mem |-> r.mem, disk |-> r.disk]
         /\ r.disk = [rows |-> r.disk.rows, reactions |-> r.disk.reactions, count |-> r.disk.count]
<1>1. PICK a : a = MemoryOf(s, new)
  OBVIOUS
<1>2. PICK b : b = RowsOf(s, new)
  OBVIOUS
<1>3. PICK c : c = s.disk.count + Cardinality(new)
  OBVIOUS
<1>4. r = [s EXCEPT !.mem = a, !.disk.rows = b, !.disk.count = c]
  BY <1>1, <1>2, <1>3, Zenon DEF Insert, Owner, MemoryOf, RowsOf
<1>5. /\ r.mem = a /\ r.disk.rows = b /\ r.disk.count = c /\ r.disk.reactions = s.disk.reactions
      /\ r = [mem |-> r.mem, disk |-> r.disk]
      /\ r.disk = [rows |-> r.disk.rows, reactions |-> r.disk.reactions, count |-> r.disk.count]
  <2>1. /\ s = [mem |-> s.mem, disk |-> s.disk]
        /\ s.disk = [rows |-> s.disk.rows, reactions |-> s.disk.reactions, count |-> s.disk.count]
    BY DEF StoreType, Tables
  <2>2. r = [mem |-> a, disk |-> [rows |-> b, reactions |-> s.disk.reactions, count |-> c]]
    BY <2>1, <1>4
  <2> QED BY <2>2
<1> QED BY <1>1, <1>2, <1>3, <1>5

LEMMA CreatedExtends ==
  ASSUME NEW s \in StoreType, ObjectsOk(s.mem, s.disk), NEW n \in Obj,
         GetOrCreateId(s, n).disk.count <= MaxIds
  PROVE  \E id : Extends(s, GetOrCreateId(s, n), Inserted(s, n), id)
<1>1. PICK new : new = Inserted(s, n)
  OBVIOUS
<1>2. PICK r : r = GetOrCreateId(s, n)
  OBVIOUS
<1>3. n # Plain /\ Plain \notin Obj
  BY Numbers DEF Plain
<1>4. r = Insert(s, new)
  BY <1>1, <1>2, <1>3 DEF GetOrCreateId
<1>5. new \subseteq Needing(s) /\ new \subseteq Obj /\ \A o \in new : s.mem[o] # Absent
  BY <1>1, InsertedFacts DEF Needing
<1>6. s.mem \in Memory /\ s.disk \in Tables
  BY DEF StoreType
<1>7. /\ r.mem = MemoryOf(s, new) /\ r.disk.rows = RowsOf(s, new)
      /\ r.disk.count = s.disk.count + Cardinality(new) /\ r.disk.reactions = s.disk.reactions
      /\ r = [mem |-> r.mem, disk |-> r.disk]
      /\ r.disk = [rows |-> r.disk.rows, reactions |-> r.disk.reactions, count |-> r.disk.count]
  BY <1>4, InsertParts
<1>8. PICK id : id = [o \in new |-> IdOf(s, new, o)]
  OBVIOUS
<1>9. /\ Cardinality(new) \in Nat /\ s.disk.count \in Nat /\ r.disk.count = s.disk.count + Cardinality(new)
      /\ s.disk.count + Cardinality(new) <= MaxIds /\ r.disk.count \in 0..MaxIds
  <2>1. Cardinality(new) \in Nat
    BY <1>5, Ranks
  <2>2. s.disk.count \in Nat
    BY <1>6, DiskTypes, Zenon
  <2>3. r.disk.count <= MaxIds
    BY <1>2
  <2>4. r.disk.count = s.disk.count + Cardinality(new)
    BY <1>7, Zenon
  <2> QED BY <2>1, <2>2, <2>3, <2>4, BoundsAssumption
<1>10. ASSUME NEW o \in new
       PROVE  /\ id[o] = s.disk.count + Rank(new, o)
              /\ id[o] \in Id /\ s.disk.count < id[o] /\ id[o] <= r.disk.count
  <2>1. Rank(new, o) \in 1..Cardinality(new)
    BY <1>5, Ranks
  <2>2. id[o] = s.disk.count + Rank(new, o)
    BY <1>3, <1>5, <1>8 DEF IdOf, NextId, Rank
  <2>3. PICK k, c : k = Rank(new, o) /\ c = Cardinality(new)
    OBVIOUS
  <2>4. /\ k \in 1..c /\ c \in Nat /\ s.disk.count \in Nat /\ id[o] = s.disk.count + k
        /\ r.disk.count = s.disk.count + c /\ s.disk.count + c <= MaxIds
    BY <2>1, <2>2, <2>3, <1>9, Zenon
  <2>5. id[o] \in Id /\ s.disk.count < id[o] /\ id[o] <= r.disk.count
    BY <2>4, BoundsAssumption DEF Id
  <2> QED BY <2>2, <2>5
<1>11. ASSUME NEW o \in new, NEW x \in new, id[o] = id[x] PROVE o = x
  <2>1. /\ Rank(new, o) \in 1..Cardinality(new)
        /\ Rank(new, x) \in 1..Cardinality(new)
    BY <1>5, Ranks
  <2>2. PICK j, k, c : /\ j = Rank(new, o) /\ k = Rank(new, x)
                       /\ c = Cardinality(new)
    OBVIOUS
  <2>3. /\ j \in 1..c /\ k \in 1..c /\ c \in Nat /\ s.disk.count \in Nat
        /\ id[o] = s.disk.count + j /\ id[x] = s.disk.count + k
    BY <2>1, <2>2, <1>9, <1>10, Zenon
  <2>4. j = k
    BY <2>3, <1>11
  <2> QED BY <2>2, <2>4, <1>5, Ranks
<1>12. ASSUME NEW o \in new
       PROVE  /\ r.mem[o] \in ObjectDB /\ r.mem[o] # Absent /\ r.mem[o].id = id[o] /\ r.mem[o].checked
              /\ r.mem[o].kind = s.mem[o].kind /\ r.mem[o].elem = s.mem[o].elem /\ r.mem[o].dirty = s.mem[o].dirty
  <2>1. PICK y : y = s.mem[o] /\ y \in ObjectDB
    BY <1>5, <1>6, MemoryTypes
  <2>2. PICK i : i = id[o] /\ i \in Id
    BY <1>10
  <2>3. r.mem[o] = [y EXCEPT !.id = i, !.checked = TRUE]
    BY <2>1, <2>2, <1>5, <1>7, <1>8 DEF MemoryOf
  <2>4. PICK z : z = r.mem[o]
    OBVIOUS
  <2>5. /\ z \in ObjectDB /\ z.id = i /\ z.checked /\ z.kind = y.kind /\ z.elem = y.elem /\ z.dirty = y.dirty
    BY <2>1, <2>2, <2>3, <2>4 DEF ObjectDB
  <2> QED BY <2>1, <2>2, <2>4, <2>5, AbsentIsNone
<1>13. \A o \in Obj \ new : r.mem[o] = s.mem[o]
  BY <1>7 DEF MemoryOf
<1>14. r.mem \in Memory
  <2>1. \A o \in Obj : r.mem[o] \in ObjectDB \cup {Absent}
    BY <1>6, <1>12, <1>13 DEF Memory
  <2> QED BY <2>1, <1>7 DEF Memory, MemoryOf
<1>15. ASSUME NEW o \in new
       PROVE  /\ IdOf(s, new, s.mem[o].elem) \in Id \cup {NoId}
              /\ IdOf(s, new, s.mem[o].elem) = IF s.mem[o].elem = Plain THEN NoId ELSE r.mem[s.mem[o].elem].id
  <2>1. PICK e : e = s.mem[o].elem /\ e \in Obj \cup {Plain} /\ (e # Plain => s.mem[e] # Absent)
    BY <1>5, <1>6, MemoryTypes DEF ObjectsOk
  <2>2. CASE e = Plain
    BY <2>1, <2>2 DEF IdOf
  <2>3. CASE e \in new
    BY <2>1, <2>3, <1>3, <1>5, <1>8, <1>10, <1>12 DEF IdOf
  <2>4. CASE e # Plain /\ e \notin new
    <3>1. IdOf(s, new, e) = s.mem[e].id /\ r.mem[e] = s.mem[e]
      BY <2>1, <2>4, <1>13 DEF IdOf
    <3>2. s.mem[e].id \in Id \cup {NoId}
      BY <2>1, <2>4, <1>6, MemoryTypes
    <3> QED BY <3>1, <3>2, <2>1, <2>4
  <2> QED BY <2>2, <2>3, <2>4
<1>16. ASSUME NEW o \in new
       PROVE  r.disk.rows[id[o]] = RowFor(s, new, o) /\ RowFor(s, new, o) \in Row
  <2>1. \A x : x \in Owner(s, new, id[o]) <=> x = o
    BY <1>8, <1>11 DEF Owner
  <2>2. (CHOOSE x \in Owner(s, new, id[o]) : TRUE) = o
    BY <2>1
  <2>3. id[o] \in Id /\ Owner(s, new, id[o]) # {}
    BY <2>1, <1>10
  <2>4. r.disk.rows[id[o]] = RowFor(s, new, o)
    BY <2>2, <2>3, <1>7 DEF RowsOf
  <2>5. s.mem[o].kind \in {"list", "method"} /\ o \in Obj
    BY <1>5, <1>6, MemoryTypes
  <2> QED BY <2>4, <2>5, <1>15 DEF RowFor, Row
<1>17. ASSUME NEW i \in Id, \A o \in new : id[o] # i PROVE r.disk.rows[i] = s.disk.rows[i]
  <2>1. Owner(s, new, i) = {}
    BY <1>8, <1>17 DEF Owner
  <2> QED BY <2>1, <1>7 DEF RowsOf
<1>18. r \in StoreType
  <2>1. \A i \in Id : r.disk.rows[i] \in Row \cup {NoRow}
    BY <1>6, <1>16, <1>17, DiskTypes
  <2>2. r.disk.rows \in [Id -> Row \cup {NoRow}]
    BY <2>1, <1>7 DEF RowsOf
  <2>3. r.disk.reactions \in [Pin -> Id \cup {NoId}]
    BY <1>6, <1>7, DiskTypes
  <2>4. r.disk \in Tables
    BY <2>2, <2>3, <1>7, <1>9 DEF Tables
  <2> QED BY <2>4, <1>7, <1>14 DEF StoreType
<1>19. s.disk.count <= r.disk.count /\ r.disk.reactions = s.disk.reactions
  <2>1. s.disk.count <= r.disk.count
    BY <1>9
  <2>2. r.disk.reactions = s.disk.reactions
    BY <1>7, Zenon
  <2> QED BY <2>1, <2>2
<1>20. ASSUME NEW o \in new
       PROVE  /\ r.disk.rows[id[o]] # NoRow
              /\ r.disk.rows[id[o]].kind = s.mem[o].kind /\ r.disk.rows[id[o]].of = o
              /\ r.disk.rows[id[o]].elem = IF s.mem[o].elem = Plain THEN NoId ELSE r.mem[s.mem[o].elem].id
  <2>1. PICK row : row = RowFor(s, new, o)
    OBVIOUS
  <2>2. /\ row # NoRow /\ row.kind = s.mem[o].kind /\ row.of = o
        /\ row.elem = IdOf(s, new, s.mem[o].elem)
    BY <2>1, <1>16, NoRowIsNone DEF RowFor
  <2>3. r.disk.rows[id[o]] = row
    BY <2>1, <1>16, Zenon
  <2>4. row.elem = IF s.mem[o].elem = Plain THEN NoId ELSE r.mem[s.mem[o].elem].id
    BY <2>2, <1>15, Zenon
  <2> QED BY <2>2, <2>3, <2>4, Zenon
<1>21. Extends(s, r, new, id)
  BY <1>5, <1>10, <1>11, <1>12, <1>13, <1>17, <1>18, <1>19, <1>20, Zenon DEF Extends
<1> QED BY <1>1, <1>2, <1>21

\* The object n of s has a row in r.
HasRow(s, r, n) ==
  /\ r.mem[n].id \in Stored(r.disk) /\ r.disk.rows[r.mem[n].id].of = n
  /\ r.disk.rows[r.mem[n].id].kind = s.mem[n].kind

\* No row of s has changed, and the rows that were inserted hold the elements of their objects.
Kept(s, r) ==
  /\ \A n \in Obj : /\ r.mem[n] # Absent <=> s.mem[n] # Absent
                    /\ s.mem[n] # Absent =>
                         /\ r.mem[n].kind = s.mem[n].kind /\ r.mem[n].elem = s.mem[n].elem
                         /\ s.mem[n].id \notin Stored(s.disk) /\ r.mem[n].id \in Stored(r.disk)
                              => Holds(r.disk, r.mem[n].id, r.mem[n].elem)
  /\ \A i \in Stored(s.disk) : r.disk.rows[i] = s.disk.rows[i] /\ i \in Stored(r.disk)

\* Inserting the objects that lead from one to the next keeps the invariant, and each of them,
\* and each that needed no row, is then named by a row of its own.
LEMMA ExtendsGood ==
  ASSUME NEW s \in StoreType, NEW rx, NEW W, Good(s.mem, s.disk, rx, W),
         NEW r, NEW new, NEW id, Extends(s, r, new, id),
         \A o \in new : s.mem[o].elem \in Needing(s) => s.mem[o].elem \in new
  PROVE  /\ Good(r.mem, r.disk, rx, W) /\ Kept(s, r)
         /\ \A n \in Obj : s.mem[n] # Absent /\ (n \in Needing(s) => n \in new) => HasRow(s, r, n)
<1>1. PICK m, d, u, e : m = s.mem /\ d = s.disk /\ u = r.mem /\ e = r.disk
  OBVIOUS
<1>2. /\ m \in Memory /\ d \in Tables /\ RowsOk(d) /\ PinsOk(d) /\ ObjectsOk(m, d) /\ SetOk(m, W)
      /\ ReactionsOk(m, d, rx, W) /\ rx \in [Pin -> Obj \cup {NoMethod, OnDisk}]
  BY <1>1 DEF Good
<1>3. u \in Memory /\ e \in Tables /\ d.count <= e.count /\ e.reactions = d.reactions
  BY <1>1 DEF Extends, StoreType
<1>4. ASSUME NEW o \in new
      PROVE  /\ o \in Obj /\ m[o] # Absent /\ id[o] \in Id /\ d.count < id[o] /\ id[o] <= e.count
             /\ u[o].id = id[o] /\ u[o].checked /\ u[o] # Absent
             /\ u[o].kind = m[o].kind /\ u[o].elem = m[o].elem /\ u[o].dirty = m[o].dirty
             /\ id[o] \in Stored(e) /\ e.rows[id[o]].kind = m[o].kind /\ e.rows[id[o]].of = o
             /\ e.rows[id[o]].elem = IF m[o].elem = Plain THEN NoId ELSE u[m[o].elem].id
  BY <1>1 DEF Extends, Needing, Stored
<1>5. /\ \A o, x \in new : id[o] = id[x] => o = x
      /\ \A o \in Obj \ new : u[o] = m[o]
      /\ \A i \in Id : (\A o \in new : id[o] # i) => e.rows[i] = d.rows[i]
  BY <1>1 DEF Extends
<1>6. d.count \in Nat /\ e.count \in Nat /\ NoId \notin Stored(d) /\ NoId \notin Stored(e) /\ Stored(d) \subseteq Id
  BY <1>2, <1>3, DiskTypes
<1>7. ASSUME NEW o \in new, NEW i \in Id, i <= d.count PROVE id[o] # i
  BY <1>4, <1>6, <1>7, Numbers
<1>8. ASSUME NEW i \in Stored(d) PROVE e.rows[i] = d.rows[i] /\ i \in Stored(e) /\ i <= d.count
  <2>1. i <= d.count /\ i \in Id
    BY <1>2, <1>6 DEF RowsOk
  <2>2. e.rows[i] = d.rows[i]
    BY <2>1, <1>5, <1>7
  <2> QED BY <2>1, <2>2 DEF Stored
<1>9. ASSUME NEW i \in Stored(e), i \notin Stored(d) PROVE \E o \in new : id[o] = i
  BY <1>5, <1>9 DEF Stored
<1>10. ASSUME NEW n \in Obj, m[n] # Absent, n \notin Needing(s)
       PROVE  m[n].id \in Stored(d) /\ d.rows[m[n].id].of = n /\ d.rows[m[n].id].kind = m[n].kind
  <2>1. ~NeedsRow(s, n) /\ m[n].id \in Id \cup {NoId}
    BY <1>1, <1>2, <1>10, MemoryTypes DEF Needing
  <2>2. ObjectOk(n, m[n], d)
    BY <1>2, <1>10 DEF ObjectsOk
  <2>3. m[n].id \in Stored(d)
    BY <2>1, <2>2, <1>1 DEF NeedsRow, Stored, ObjectOk
  <2> QED BY <2>2, <2>3 DEF ObjectOk
<1>11. ASSUME NEW o \in new PROVE m[o].id \notin Stored(d)
  <2>1. NeedsRow(s, o)
    BY <1>1 DEF Extends, Needing
  <2> QED BY <2>1, <1>1, <1>6 DEF NeedsRow, Stored
<1>12. ASSUME NEW i \in Stored(d) PROVE d.rows[i].of \in Obj /\ d.rows[i].of \notin new
  <2>1. d.rows[i].of \in Obj
    BY <1>2, DiskTypes
  <2>2. m[d.rows[i].of] # Absent => m[d.rows[i].of].id = i
    BY <1>2 DEF ObjectsOk
  <2> QED BY <2>1, <2>2, <1>4, <1>11
<1>13. ASSUME NEW n \in Obj, m[n] # Absent, n \in Needing(s) => n \in new
       PROVE  u[n].id \in Stored(e) /\ e.rows[u[n].id].of = n /\ e.rows[u[n].id].kind = m[n].kind
  <2>1. CASE n \in new
    BY <2>1, <1>4
  <2>2. CASE n \notin new
    BY <2>2, <1>5, <1>8, <1>10, <1>13
  <2> QED BY <2>1, <2>2
<1>14. ASSUME NEW o \in new
       PROVE  Holds(e, id[o], m[o].elem) /\ e.rows[id[o]].elem \in Stored(e) \cup {NoId}
  <2>1. PICK x : x = m[o].elem /\ x \in Obj \cup {Plain} /\ (x # Plain => m[x] # Absent)
    BY <1>2, <1>4, MemoryTypes DEF ObjectsOk
  <2>2. CASE x = Plain
    <3>1. e.rows[id[o]].elem = IF x = Plain THEN NoId ELSE u[x].id
      BY <2>1, <1>4, Zenon
    <3>2. e.rows[id[o]].elem = NoId
      BY <3>1, <2>2, Zenon
    <3>3. Holds(e, id[o], x)
      BY <3>2, <2>2, Zenon DEF Holds
    <3> QED BY <3>2, <3>3, <2>1
  <2>3. CASE x # Plain
    <3>1. x \in Needing(s) => x \in new
      BY <2>1, <1>1
    <3>2. u[x].id \in Stored(e) /\ e.rows[u[x].id].of = x
      BY <3>1, <2>1, <2>3, <1>13
    <3> QED BY <3>2, <2>1, <2>3, <1>4 DEF Holds
  <2> QED BY <2>2, <2>3
<1>15. ASSUME NEW i \in Stored(d), NEW x, Holds(d, i, x) PROVE Holds(e, i, x)
  BY <1>2, <1>8, <1>15 DEF Holds, RowsOk
<1>16. RowsOk(e)
  <2>1. ASSUME NEW i \in Stored(e) PROVE i <= e.count /\ e.rows[i].elem \in Stored(e) \cup {NoId}
    <3>1. CASE i \in Stored(d)
      <4>1. d.rows[i].elem \in Stored(d) \cup {NoId} /\ i \in Nat
        BY <3>1, <1>2, <1>6, Numbers DEF RowsOk
      <4>2. e.rows[i].elem = d.rows[i].elem
        BY <3>1, <1>8
      <4>3. e.rows[i].elem \in Stored(e) \cup {NoId}
        BY <4>1, <4>2, <1>8
      <4>4. i <= d.count
        BY <3>1, <1>8
      <4>5. i <= e.count
        BY <4>1, <4>4, <1>3, <1>6
      <4> QED BY <4>3, <4>5
    <3>2. CASE i \notin Stored(d)
      BY <3>2, <1>4, <1>9, <1>14
    <3> QED BY <3>1, <3>2
  <2>2. ASSUME NEW i \in Stored(e), NEW j \in Stored(e), e.rows[i].of = e.rows[j].of PROVE i = j
    <3>1. CASE i \in Stored(d) /\ j \in Stored(d)
      BY <3>1, <2>2, <1>2, <1>8 DEF RowsOk
    <3>2. CASE i \in Stored(d) /\ j \notin Stored(d)
      BY <3>2, <2>2, <1>4, <1>8, <1>9, <1>12
    <3>3. CASE i \notin Stored(d) /\ j \in Stored(d)
      BY <3>3, <2>2, <1>4, <1>8, <1>9, <1>12
    <3>4. CASE i \notin Stored(d) /\ j \notin Stored(d)
      BY <3>4, <2>2, <1>4, <1>9
    <3> QED BY <3>1, <3>2, <3>3, <3>4
  <2> QED BY <2>1, <2>2 DEF RowsOk
<1>17. PinsOk(e)
  BY <1>2, <1>3, <1>8 DEF PinsOk
<1>18. ASSUME NEW n \in Obj
       PROVE  /\ u[n] # Absent <=> m[n] # Absent
              /\ m[n] # Absent => u[n].kind = m[n].kind /\ u[n].elem = m[n].elem /\ u[n].dirty = m[n].dirty
  BY <1>4, <1>5
<1>19. ASSUME NEW n \in Obj \ new, m[n] # Absent, m[n].id \in Stored(e) PROVE m[n].id \in Stored(d)
  <2>1. m[n].id <= d.count /\ m[n].id \in Id
    BY <1>2, <1>19 DEF ObjectsOk, ObjectOk, Stored
  <2> QED BY <2>1, <1>7, <1>9, <1>19
<1>20. ObjectsOk(u, e)
  <2>1. ASSUME NEW n \in Obj, u[n] # Absent PROVE ObjectOk(n, u[n], e)
    <3>1. CASE n \in new
      <4>1. u[n].id # NoId
        BY <3>1, <1>4, Numbers DEF NoId
      <4>2. Holds(e, u[n].id, u[n].elem)
        BY <3>1, <1>4, <1>14
      <4> QED BY <4>1, <4>2, <3>1, <1>4 DEF ObjectOk
    <3>2. CASE n \notin new
      <4>1. u[n] = m[n] /\ m[n] # Absent /\ ObjectOk(n, m[n], d)
        BY <3>2, <2>1, <1>2, <1>5 DEF ObjectsOk
      <4>2. m[n].id <= e.count
        <5>1. m[n].id \in Nat /\ m[n].id <= d.count
          BY <4>1, <1>2, MemoryTypes DEF ObjectOk
        <5> QED BY <5>1, <1>3, <1>6
      <4>3. m[n].id \in Stored(e) => m[n].id \in Stored(d)
        BY <4>1, <3>2, <1>19
      <4> QED BY <4>1, <4>2, <4>3, <1>8, <1>15 DEF ObjectOk
    <3> QED BY <3>1, <3>2
  <2>2. ASSUME NEW n \in Obj, u[n] # Absent, u[n].elem # Plain PROVE u[u[n].elem] # Absent
    <3>1. m[n] # Absent /\ u[n].elem = m[n].elem /\ m[n].elem \in Obj
      BY <2>2, <1>2, <1>18, MemoryTypes
    <3> QED BY <3>1, <2>2, <1>2, <1>18 DEF ObjectsOk
  <2>3. ASSUME NEW i \in Stored(e), u[e.rows[i].of] # Absent PROVE u[e.rows[i].of].id = i
    <3>1. CASE i \in Stored(d)
      <4>1. e.rows[i] = d.rows[i] /\ d.rows[i].of \in Obj \ new
        BY <3>1, <1>8, <1>12
      <4>2. u[d.rows[i].of] = m[d.rows[i].of]
        BY <4>1, <1>5
      <4> QED BY <4>1, <4>2, <3>1, <2>3, <1>2 DEF ObjectsOk
    <3>2. CASE i \notin Stored(d)
      BY <3>2, <1>4, <1>9
    <3> QED BY <3>1, <3>2
  <2> QED BY <2>1, <2>2, <2>3 DEF ObjectsOk
<1>21. SetOk(u, W)
  <2>1. ASSUME NEW n \in Obj, n \in W PROVE u[n] # Absent /\ u[n].id # NoId
    <3>1. m[n] # Absent /\ m[n].id # NoId
      BY <2>1, <1>2 DEF SetOk
    <3>2. CASE n \in new
      BY <3>2, <1>4, Numbers DEF NoId
    <3>3. CASE n \notin new
      BY <3>1, <3>3, <1>5
    <3> QED BY <3>2, <3>3
  <2>2. \A n \in Obj : u[n] # Absent /\ u[n].dirty => n \in W
    BY <1>2, <1>18 DEF SetOk
  <2> QED BY <2>1, <2>2 DEF SetOk
<1>22. ReactionsOk(u, e, rx, W)
  BY <1>2, <1>3, <1>18 DEF ReactionsOk
<1>23. Good(u, e, rx, W)
  BY <1>2, <1>3, <1>16, <1>17, <1>20, <1>21, <1>22 DEF Good
<1>24. ASSUME NEW n \in Obj, m[n] # Absent, m[n].id \notin Stored(d), u[n].id \in Stored(e)
       PROVE  Holds(e, u[n].id, u[n].elem)
  <2>1. CASE n \in new
    BY <2>1, <1>4, <1>14
  <2>2. CASE n \notin new
    BY <2>2, <1>5, <1>19, <1>24
  <2> QED BY <2>1, <2>2
<1>25. Kept(s, r)
  BY <1>1, <1>8, <1>18, <1>24 DEF Kept
<1>26. ASSUME NEW n \in Obj, s.mem[n] # Absent, n \in Needing(s) => n \in new PROVE HasRow(s, r, n)
  BY <1>1, <1>13, <1>26 DEF HasRow
<1> QED BY <1>1, <1>23, <1>25, <1>26

----------------------------------------------------------------------------
(* A flush: one entry of the Set.                                          *)

\* The object to write has been serialized, so its row, if it has one, has its element now.
LEMMA CleanGood ==
  ASSUME NEW m, NEW d, NEW rx, NEW W, Good(m, d, rx, W), NEW n \in Obj, m[n] # Absent,
         NEW u \in Memory, u[n] # Absent, u[n].kind = m[n].kind, u[n].elem = m[n].elem, u[n].id = m[n].id,
         u[n].checked = m[n].checked, ~u[n].dirty, \A o \in Obj \ {n} : u[o] = m[o],
         NEW e \in Tables, e.count = d.count, e.reactions = d.reactions, Stored(e) = Stored(d),
         \A i \in Stored(d) : e.rows[i].of = d.rows[i].of /\ e.rows[i].kind = d.rows[i].kind,
         \A i \in Stored(d) : d.rows[i].of # n => e.rows[i].elem = d.rows[i].elem,
         \A i \in Stored(d) : d.rows[i].of = n => Holds(e, i, m[n].elem)
  PROVE  Good(u, e, rx, W \ {n})
<1>1. /\ m \in Memory /\ d \in Tables /\ RowsOk(d) /\ PinsOk(d) /\ ObjectsOk(m, d) /\ SetOk(m, W)
      /\ ReactionsOk(m, d, rx, W) /\ rx \in [Pin -> Obj \cup {NoMethod, OnDisk}]
  BY DEF Good
<1>2. ASSUME NEW o \in Obj
      PROVE  /\ u[o] # Absent <=> m[o] # Absent
             /\ m[o] # Absent => u[o].kind = m[o].kind /\ u[o].elem = m[o].elem /\ u[o].id = m[o].id
                                 /\ u[o].checked = m[o].checked
  OBVIOUS
<1>3. NoId \notin Stored(d)
  BY <1>1, DiskTypes
<1>4. ASSUME NEW i \in Stored(d), NEW x, d.rows[i].of # n, Holds(d, i, x) PROVE Holds(e, i, x)
  BY <1>1, <1>4 DEF Holds
<1>5. RowsOk(e)
  <2>1. ASSUME NEW i \in Stored(d) PROVE e.rows[i].elem \in Stored(d) \cup {NoId}
    <3>1. CASE d.rows[i].of = n
      BY <3>1 DEF Holds
    <3>2. CASE d.rows[i].of # n
      BY <3>2, <1>1 DEF RowsOk
    <3> QED BY <3>1, <3>2
  <2> QED BY <2>1, <1>1 DEF RowsOk
<1>6. PinsOk(e)
  BY <1>1 DEF PinsOk
<1>7. ObjectsOk(u, e)
  <2>1. ASSUME NEW o \in Obj, u[o] # Absent PROVE ObjectOk(o, u[o], e)
    <3>1. m[o] # Absent /\ ObjectOk(o, m[o], d)
      BY <2>1, <1>1, <1>2 DEF ObjectsOk
    <3>2. CASE o = n
      BY <3>1, <3>2, <1>2 DEF ObjectOk
    <3>3. CASE o # n
      <4>1. u[o] = m[o]
        BY <3>3
      <4> QED BY <4>1, <3>1, <3>3, <1>4 DEF ObjectOk
    <3> QED BY <3>2, <3>3
  <2>2. ASSUME NEW o \in Obj, u[o] # Absent, u[o].elem # Plain PROVE u[u[o].elem] # Absent
    <3>1. m[o] # Absent /\ u[o].elem = m[o].elem /\ m[o].elem \in Obj
      BY <2>2, <1>1, <1>2, MemoryTypes
    <3> QED BY <3>1, <2>2, <1>1, <1>2 DEF ObjectsOk
  <2>3. ASSUME NEW i \in Stored(e), u[e.rows[i].of] # Absent PROVE u[e.rows[i].of].id = i
    <3>1. e.rows[i].of = d.rows[i].of /\ d.rows[i].of \in Obj
      BY <1>1, DiskTypes
    <3> QED BY <3>1, <2>3, <1>1, <1>2 DEF ObjectsOk
  <2> QED BY <2>1, <2>2, <2>3 DEF ObjectsOk
<1>8. SetOk(u, W \ {n})
  BY <1>1, <1>2 DEF SetOk
<1>9. ReactionsOk(u, e, rx, W \ {n})
  <2> SUFFICES ASSUME NEW p \in Pin
               PROVE  /\ rx[p] \in Obj => u[rx[p]] # Absent /\ u[rx[p]].kind = "method"
                      /\ rx[p] # NoMethod => p \in W \ {n} \/ e.reactions[p] # NoId
                      /\ p \in W \ {n} => rx[p] # OnDisk
    BY DEF ReactionsOk
  <2>1. p \in W \ {n} <=> p \in W
    BY Numbers
  <2>2. /\ rx[p] \in Obj => m[rx[p]] # Absent /\ m[rx[p]].kind = "method"
        /\ rx[p] # NoMethod => p \in W \/ d.reactions[p] # NoId
        /\ p \in W => rx[p] # OnDisk
    BY <1>1 DEF ReactionsOk
  <2>3. rx[p] \in Obj => u[rx[p]] # Absent /\ u[rx[p]].kind = "method"
    BY <2>2, <1>2
  <2> QED BY <2>1, <2>2, <2>3
<1> QED BY <1>1, <1>5, <1>6, <1>7, <1>8, <1>9 DEF Good

\* A reaction is written that refers to the row of a Method, or its row is deleted.
LEMMA PinWritten ==
  ASSUME NEW m, NEW d, NEW rx, NEW W, Good(m, d, rx, W), NEW p \in Pin, NEW i \in Id \cup {NoId},
         NEW e \in Tables, e.rows = d.rows, e.count = d.count, e.reactions = [d.reactions EXCEPT ![p] = i],
         i = NoId => rx[p] = NoMethod, i # NoId => i \in Stored(d) /\ d.rows[i].kind = "method"
  PROVE  Good(m, e, rx, W \ {p})
<1>1. /\ m \in Memory /\ d \in Tables /\ RowsOk(d) /\ PinsOk(d) /\ ObjectsOk(m, d) /\ SetOk(m, W)
      /\ ReactionsOk(m, d, rx, W) /\ rx \in [Pin -> Obj \cup {NoMethod, OnDisk}]
  BY DEF Good
<1>2. e.reactions[p] = i /\ \A o \in Pin \ {p} : e.reactions[o] = d.reactions[o]
  BY <1>1, DiskTypes
<1>3. Stored(e) = Stored(d)
  BY DEF Stored
<1>4. RowsOk(e)
  BY <1>1, <1>3 DEF RowsOk
<1>5. PinsOk(e)
  BY <1>1, <1>2, <1>3 DEF PinsOk
<1>6. ObjectsOk(m, e)
  <2>1. \A j, x : Holds(d, j, x) => Holds(e, j, x)
    BY <1>3 DEF Holds
  <2>2. \A n, o : ObjectOk(n, o, d) => ObjectOk(n, o, e)
    BY <2>1, <1>3 DEF ObjectOk
  <2> QED BY <2>2, <1>1, <1>3 DEF ObjectsOk
<1>7. SetOk(m, W \ {p})
  BY <1>1, Numbers DEF SetOk
<1>8. ReactionsOk(m, e, rx, W \ {p})
  <2> SUFFICES ASSUME NEW o \in Pin
               PROVE  /\ rx[o] \in Obj => m[rx[o]] # Absent /\ m[rx[o]].kind = "method"
                      /\ rx[o] # NoMethod => o \in W \ {p} \/ e.reactions[o] # NoId
                      /\ o \in W \ {p} => rx[o] # OnDisk
    BY DEF ReactionsOk
  <2>1. CASE o = p
    BY <2>1, <1>1, <1>2 DEF ReactionsOk
  <2>2. CASE o # p
    BY <2>2, <1>1, <1>2 DEF ReactionsOk
  <2> QED BY <2>1, <2>2
<1> QED BY <1>1, <1>4, <1>5, <1>6, <1>7, <1>8 DEF Good

LEMMA Shape ==
  ASSUME NEW s \in StoreType, NEW e, NEW r, r = GetOrCreateId(s, e)
  PROVE  r = [mem |-> r.mem, disk |-> r.disk]
         /\ r.disk = [rows |-> r.disk.rows, reactions |-> r.disk.reactions, count |-> r.disk.count]
<1>1. CASE e = Plain
  <2>1. r = s
    BY <1>1 DEF GetOrCreateId
  <2> QED BY <2>1 DEF StoreType, Tables
<1>2. CASE e # Plain
  <2>1. r = Insert(s, Inserted(s, e))
    BY <1>2 DEF GetOrCreateId
  <2> QED BY <2>1, InsertParts
<1> QED BY <1>1, <1>2

\* The element e, if it is an object, has a row in r.
Serializes(s, r, e) == Kept(s, r) /\ (e # Plain => HasRow(s, r, e))

LEMMA Serialized ==
  ASSUME NEW s \in StoreType, NEW rx, NEW W, Good(s.mem, s.disk, rx, W),
         NEW e \in Obj \cup {Plain}, e # Plain => s.mem[e] # Absent,
         NEW r, r = GetOrCreateId(s, e), r.disk.count <= MaxIds
  PROVE  r \in StoreType /\ Good(r.mem, r.disk, rx, W) /\ Serializes(s, r, e)
<1>1. CASE e = Plain
  <2>1. r = s
    BY <1>1 DEF GetOrCreateId
  <2> QED BY <2>1, <1>1 DEF Serializes, Kept, HasRow
<1>2. CASE e # Plain
  <2>1. e \in Obj
    BY <1>2
  <2>2. ObjectsOk(s.mem, s.disk)
    BY DEF Good
  <2>3. PICK new : new = Inserted(s, e)
    OBVIOUS
  <2>4. PICK id : Extends(s, r, new, id)
    BY <2>1, <2>2, <2>3, CreatedExtends
  <2>5. \A o \in new : s.mem[o].elem \in Needing(s) => s.mem[o].elem \in new
    BY <2>3, InsertedFacts
  <2>6. e \in Needing(s) => e \in new
    BY <2>3, InsertedFacts
  <2>7. /\ Good(r.mem, r.disk, rx, W) /\ Kept(s, r)
        /\ \A n \in Obj : s.mem[n] # Absent /\ (n \in Needing(s) => n \in new) => HasRow(s, r, n)
    BY <2>4, <2>5, ExtendsGood
  <2>8. r \in StoreType
    BY <2>4 DEF Extends
  <2>9. Serializes(s, r, e)
    BY <2>1, <2>6, <2>7 DEF Serializes
  <2> QED BY <2>7, <2>8, <2>9
<1> QED BY <1>1, <1>2

LEMMA ObjectWritten ==
  ASSUME NEW s \in StoreType, NEW rx, NEW W, Good(s.mem, s.disk, rx, W), NEW n \in Obj, n \in W,
         NEW t, t = WriteObject(s, n), t.disk.count <= MaxIds
  PROVE  t \in StoreType /\ Good(t.mem, t.disk, rx, W \ {n})
<1>1. PICK o, i : o = s.mem[n] /\ i = o.id
  OBVIOUS
<1>2. PICK r : r = GetOrCreateId(s, o.elem)
  OBVIOUS
<1>3. PICK y : y = IF o.elem = Plain THEN NoId ELSE r.mem[o.elem].id
  OBVIOUS
<1>4. PICK c : c = [r EXCEPT !.mem[n].dirty = FALSE]
  OBVIOUS
<1>5. t = IF s.disk.rows[i] = NoRow THEN c ELSE [c EXCEPT !.disk.rows[i].elem = y]
  BY <1>1, <1>2, <1>3, <1>4, Zenon DEF WriteObject
<1>6. /\ s.mem \in Memory /\ s.disk \in Tables /\ o # Absent /\ o.elem \in Obj \cup {Plain} /\ i \in Id
      /\ (o.elem # Plain => s.mem[o.elem] # Absent) /\ ObjectOk(n, o, s.disk)
  <2>1. s.mem \in Memory /\ s.disk \in Tables /\ o # Absent /\ i # NoId
    BY <1>1 DEF Good, SetOk
  <2>2. o.elem \in Obj \cup {Plain} /\ i \in Id
    BY <2>1, <1>1, MemoryTypes
  <2> QED BY <2>1, <2>2, <1>1 DEF Good, ObjectsOk
<1>7. /\ r = [mem |-> r.mem, disk |-> r.disk]
      /\ r.disk = [rows |-> r.disk.rows, reactions |-> r.disk.reactions, count |-> r.disk.count]
  BY <1>2, Shape
<1>8. /\ c = [mem |-> c.mem, disk |-> c.disk] /\ c.disk = r.disk /\ c.mem = [r.mem EXCEPT ![n].dirty = FALSE]
  BY <1>4, <1>7
<1>9. /\ t = [mem |-> c.mem, disk |-> t.disk]
      /\ t.disk = IF s.disk.rows[i] = NoRow THEN r.disk
                  ELSE [rows |-> [r.disk.rows EXCEPT ![i].elem = y], reactions |-> r.disk.reactions,
                        count |-> r.disk.count]
  <2>1. CASE s.disk.rows[i] = NoRow
    BY <2>1, <1>5, <1>8
  <2>2. CASE s.disk.rows[i] # NoRow
    <3>1. t = [c EXCEPT !.disk.rows[i].elem = y]
      BY <2>2, <1>5
    <3>2. t = [mem |-> c.mem, disk |-> [c.disk EXCEPT !.rows[i].elem = y]]
      BY <3>1, <1>8
    <3>3. [c.disk EXCEPT !.rows[i].elem = y]
            = [rows |-> [r.disk.rows EXCEPT ![i].elem = y], reactions |-> r.disk.reactions, count |-> r.disk.count]
      BY <1>7, <1>8
    <3> QED BY <3>2, <3>3, <2>2
  <2> QED BY <2>1, <2>2
<1>10. r.disk.count <= MaxIds
  BY <1>9
<1>11. /\ r \in StoreType /\ Good(r.mem, r.disk, rx, W)
       /\ o.elem # Plain => r.mem[o.elem].id \in Stored(r.disk) /\ r.disk.rows[r.mem[o.elem].id].of = o.elem
       /\ r.mem[n] # Absent /\ r.mem[n].elem = o.elem
       /\ i \notin Stored(s.disk) /\ r.mem[n].id \in Stored(r.disk) => Holds(r.disk, r.mem[n].id, r.mem[n].elem)
       /\ i \in Stored(s.disk) => r.disk.rows[i] = s.disk.rows[i] /\ i \in Stored(r.disk)
  <2>1. PICK x : x = o.elem
    OBVIOUS
  <2>2. /\ x \in Obj \cup {Plain} /\ (x # Plain => s.mem[x] # Absent) /\ r = GetOrCreateId(s, x)
    BY <2>1, <1>2, <1>6
  <2>3. r \in StoreType /\ Good(r.mem, r.disk, rx, W) /\ Serializes(s, r, x)
    BY <2>2, <1>10, Serialized
  <2>4. r.mem[n] # Absent /\ r.mem[n].elem = o.elem
    BY <2>3, <1>1, <1>6 DEF Serializes, Kept, HasRow
  <2>5. i \notin Stored(s.disk) /\ r.mem[n].id \in Stored(r.disk) => Holds(r.disk, r.mem[n].id, r.mem[n].elem)
    BY <2>3, <1>1, <1>6 DEF Serializes, Kept, HasRow
  <2>6. x # Plain => r.mem[x].id \in Stored(r.disk) /\ r.disk.rows[r.mem[x].id].of = x
    BY <2>3 DEF Serializes, Kept, HasRow
  <2>7. i \in Stored(s.disk) => r.disk.rows[i] = s.disk.rows[i] /\ i \in Stored(r.disk)
    BY <2>3 DEF Serializes, Kept, HasRow
  <2> QED BY <2>1, <2>3, <2>4, <2>5, <2>6, <2>7
<1>12. PICK m, d, u, e : m = r.mem /\ d = r.disk /\ u = t.mem /\ e = t.disk
  OBVIOUS
<1>13. m \in Memory /\ d \in Tables /\ RowsOk(d) /\ ObjectsOk(m, d) /\ m[n] \in ObjectDB
  BY <1>11, <1>12, MemoryTypes DEF Good
<1>14. /\ u \in Memory /\ u[n] # Absent /\ u[n].kind = m[n].kind /\ u[n].elem = m[n].elem /\ u[n].id = m[n].id
       /\ u[n].checked = m[n].checked /\ ~u[n].dirty /\ \A x \in Obj \ {n} : u[x] = m[x]
  <2>1. u = [m EXCEPT ![n].dirty = FALSE]
    BY <1>8, <1>9, <1>12
  <2>2. PICK z : z = m[n] /\ z \in ObjectDB
    BY <1>13
  <2>3. PICK w : w = [z EXCEPT !.dirty = FALSE]
    OBVIOUS
  <2>4. w \in ObjectDB /\ w.kind = z.kind /\ w.elem = z.elem /\ w.id = z.id /\ w.checked = z.checked /\ ~w.dirty
    BY <2>2, <2>3 DEF ObjectDB
  <2>5. u = [m EXCEPT ![n] = w]
    BY <2>1, <2>2, <2>3, <1>13 DEF Memory
  <2>6. u \in Memory /\ u[n] = w /\ \A x \in Obj \ {n} : u[x] = m[x]
    BY <2>4, <2>5, <1>13 DEF Memory
  <2> QED BY <2>2, <2>4, <2>6, AbsentIsNone
<1>15. CASE s.disk.rows[i] = NoRow
  <2>1. i \notin Stored(s.disk) /\ e = d
    BY <1>9, <1>12, <1>15 DEF Stored
  <2>2. ASSUME NEW j \in Stored(d), d.rows[j].of = n PROVE Holds(d, j, m[n].elem)
    <3>1. m[n].id = j
      BY <2>2, <1>11, <1>12, <1>13 DEF ObjectsOk
    <3> QED BY <3>1, <2>1, <1>11, <1>12
  <2>3. /\ Good(m, d, rx, W) /\ m[n] # Absent
        /\ e \in Tables /\ e.count = d.count /\ e.reactions = d.reactions /\ Stored(e) = Stored(d)
        /\ \A j \in Stored(d) : e.rows[j].of = d.rows[j].of /\ e.rows[j].kind = d.rows[j].kind
        /\ \A j \in Stored(d) : d.rows[j].of # n => e.rows[j].elem = d.rows[j].elem
        /\ \A j \in Stored(d) : d.rows[j].of = n => Holds(e, j, m[n].elem)
    BY <2>1, <2>2, <1>11, <1>12, <1>13
  <2>4. Good(u, e, rx, W \ {n})
    BY <2>3, <1>14, CleanGood
  <2>5. t \in StoreType
    BY <2>1, <1>9, <1>8, <1>12, <1>13, <1>14 DEF StoreType
  <2> QED BY <2>4, <2>5, <1>12
<1>16. CASE s.disk.rows[i] # NoRow
  <2>1. i \in Stored(s.disk)
    BY <1>6, <1>16 DEF Stored
  <2>2. i \in Stored(d) /\ d.rows[i].of = n
    BY <2>1, <1>1, <1>6, <1>11, <1>12 DEF ObjectOk
  <2>3. PICK row : row = d.rows[i] /\ row \in Row
    BY <2>2, <1>13, DiskTypes
  <2>4. y \in Stored(d) \cup {NoId}
    BY <1>3, <1>11, <1>12
  <2>5. NoId \notin Stored(d) /\ Stored(d) \subseteq Id /\ d.rows \in [Id -> Row \cup {NoRow}]
    BY <1>13, DiskTypes
  <2>6. PICK new : new = [row EXCEPT !.elem = y]
    OBVIOUS
  <2>7. new \in Row /\ new.elem = y /\ new.of = row.of /\ new.kind = row.kind
    BY <2>3, <2>4, <2>5, <2>6 DEF Row
  <2>8. /\ e = [rows |-> e.rows, reactions |-> d.reactions, count |-> d.count]
        /\ e.rows = [d.rows EXCEPT ![i].elem = y]
    BY <1>9, <1>12, <1>16
  <2>9. e.rows = [d.rows EXCEPT ![i] = new]
    BY <2>3, <2>5, <2>6, <2>8
  <2>10. /\ e.rows \in [Id -> Row \cup {NoRow}] /\ e.rows[i] = new /\ new # NoRow
         /\ \A j \in Id \ {i} : e.rows[j] = d.rows[j]
    BY <2>2, <2>5, <2>7, <2>9, NoRowIsNone
  <2>11. e \in Tables /\ e.count = d.count /\ e.reactions = d.reactions
    BY <2>8, <2>10, <1>13 DEF Tables
  <2>12. Stored(e) = Stored(d)
    BY <2>2, <2>10 DEF Stored
  <2>13. ASSUME NEW j \in Stored(d)
         PROVE  /\ e.rows[j].of = d.rows[j].of /\ e.rows[j].kind = d.rows[j].kind
                /\ d.rows[j].of # n => e.rows[j].elem = d.rows[j].elem
                /\ d.rows[j].of = n => j = i
    <3>1. d.rows[j].of = n => j = i
      BY <2>2, <1>13 DEF RowsOk
    <3>2. CASE j = i
      BY <3>2, <2>2, <2>3, <2>7, <2>10
    <3>3. CASE j # i
      BY <3>1, <3>3, <2>5, <2>10
    <3> QED BY <3>1, <3>2, <3>3
  <2>14. Holds(e, i, m[n].elem)
    <3>1. e.rows[i].elem = y /\ m[n].elem = o.elem
      BY <2>7, <2>10, <1>11, <1>12
    <3>2. CASE o.elem = Plain
      BY <3>1, <3>2, <1>3 DEF Holds
    <3>3. CASE o.elem # Plain
      <4>1. y \in Stored(d) /\ d.rows[y].of = o.elem
        BY <3>3, <1>3, <1>11, <1>12
      <4>2. e.rows[y].of = o.elem
        BY <4>1, <2>13
      <4> QED BY <4>1, <4>2, <3>1, <3>3, <2>12 DEF Holds
    <3> QED BY <3>2, <3>3
  <2>15. Good(m, d, rx, W) /\ m[n] # Absent
    BY <1>11, <1>12
  <2>16. /\ \A j \in Stored(d) : e.rows[j].of = d.rows[j].of /\ e.rows[j].kind = d.rows[j].kind
         /\ \A j \in Stored(d) : d.rows[j].of # n => e.rows[j].elem = d.rows[j].elem
         /\ \A j \in Stored(d) : d.rows[j].of = n => Holds(e, j, m[n].elem)
    BY <2>13, <2>14
  <2>17. Good(u, e, rx, W \ {n})
    BY <2>11, <2>12, <2>15, <2>16, <1>14, CleanGood
  <2>18. t = [mem |-> u, disk |-> e]
    BY <1>8, <1>9, <1>12
  <2>19. t \in StoreType
    BY <2>11, <2>18, <1>14 DEF StoreType
  <2> QED BY <2>17, <2>19, <1>12
<1> QED BY <1>15, <1>16

LEMMA ReactionWritten ==
  ASSUME NEW s \in StoreType, NEW W, Good(s.mem, s.disk, reaction, W), NEW p \in Pin, p \in W,
         NEW t, t = WriteReaction(s, p), t.disk.count <= MaxIds
  PROVE  t \in StoreType /\ Good(t.mem, t.disk, reaction, W \ {p})
<1>1. CASE reaction[p] = NoMethod
  <2>1. t = [s EXCEPT !.disk.reactions[p] = NoId]
    BY <1>1 DEF WriteReaction
  <2>2. PICK e : e = t.disk
    OBVIOUS
  <2>3. /\ t = [mem |-> s.mem, disk |-> e]
        /\ e = [rows |-> s.disk.rows, reactions |-> [s.disk.reactions EXCEPT ![p] = NoId], count |-> s.disk.count]
    BY <2>1, <2>2 DEF StoreType, Tables
  <2>4. e \in Tables
    BY <2>3 DEF StoreType, Tables
  <2>5. Good(s.mem, e, reaction, W \ {p})
    BY <2>3, <2>4, <1>1, PinWritten
  <2>6. t \in StoreType
    BY <2>3, <2>4 DEF StoreType
  <2> QED BY <2>3, <2>5, <2>6
<1>2. CASE reaction[p] # NoMethod
  <2>1. PICK x : x = reaction[p]
    OBVIOUS
  <2>2. x \in Obj /\ x # Plain /\ s.mem[x] # Absent /\ s.mem[x].kind = "method"
    <3>1. x \in Obj \cup {NoMethod, OnDisk} /\ x # OnDisk
      BY <2>1 DEF Good, ReactionsOk
    <3> QED BY <3>1, <2>1, <1>2, Numbers DEF Good, ReactionsOk, Plain
  <2>3. PICK r : r = GetOrCreateId(s, x)
    OBVIOUS
  <2>4. t = [r EXCEPT !.disk.reactions[p] = r.mem[x].id]
    BY <2>1, <2>3, <1>2 DEF WriteReaction
  <2>5. PICK i, e : i = r.mem[x].id /\ e = t.disk
    OBVIOUS
  <2>6. /\ r = [mem |-> r.mem, disk |-> r.disk]
        /\ r.disk = [rows |-> r.disk.rows, reactions |-> r.disk.reactions, count |-> r.disk.count]
    BY <2>3, Shape
  <2>7. /\ t = [mem |-> r.mem, disk |-> e]
        /\ e = [rows |-> r.disk.rows, reactions |-> [r.disk.reactions EXCEPT ![p] = i], count |-> r.disk.count]
    BY <2>4, <2>5, <2>6
  <2>8. r.disk.count <= MaxIds
    BY <2>5, <2>7
  <2>9. r \in StoreType /\ Good(r.mem, r.disk, reaction, W) /\ Serializes(s, r, x)
    BY <2>2, <2>3, <2>8, Serialized
  <2>10. /\ i \in Stored(r.disk) /\ r.disk.rows[i].kind = "method" /\ i \in Id /\ i # NoId
    BY <2>2, <2>5, <2>9, Numbers DEF Serializes, HasRow, Stored, NoId
  <2>11. e \in Tables
    BY <2>7, <2>9, <2>10 DEF StoreType, Tables
  <2>12. Good(r.mem, e, reaction, W \ {p})
    BY <2>7, <2>9, <2>10, <2>11, PinWritten
  <2>13. t \in StoreType
    BY <2>7, <2>9, <2>11 DEF StoreType
  <2> QED BY <2>7, <2>12, <2>13
<1> QED BY <1>1, <1>2

----------------------------------------------------------------------------
(* A flush: the iteration over the Set.                                    *)

Store == [mem |-> mem, disk |-> disk]

LEMMA WrittenSteps ==
  ASSUME NEW N \in Nat, N = Len(pendingWrites)
  PROVE  \E g : /\ g[0] = Store /\ Written = g[N]
                /\ \A n \in 1..N : g[n] = WriteEntry(g[n - 1], pendingWrites[n])
<1>1. PICK T : T = {k \in 0..N : \E g : g = [n \in 0..k |-> IF n = 0 THEN Store
                                                           ELSE WriteEntry(g[n - 1], pendingWrites[n])]}
  OBVIOUS
<1>2. 0 \in T
  <2>1. PICK g : g = [n \in 0..0 |-> Store]
    OBVIOUS
  <2>2. g = [n \in 0..0 |-> IF n = 0 THEN Store ELSE WriteEntry(g[n - 1], pendingWrites[n])]
    BY <2>1
  <2> QED BY <2>2, <1>1
<1>3. ASSUME NEW k \in 0 .. N - 1, k \in T PROVE k + 1 \in T
  <2>1. PICK g : g = [n \in 0..k |-> IF n = 0 THEN Store ELSE WriteEntry(g[n - 1], pendingWrites[n])]
    BY <1>1, <1>3
  <2>2. PICK h : h = [n \in 0 .. k + 1 |-> IF n = k + 1 THEN WriteEntry(g[k], pendingWrites[k + 1]) ELSE g[n]]
    OBVIOUS
  <2>3. /\ k \in Nat /\ k + 1 \in 0..N
        /\ \A n \in 0 .. k + 1 : n \in Int /\ n - 1 # k + 1 /\ (n = k + 1 \/ n \in 0..k)
        /\ \A n \in 0 .. k + 1 : (n # 0 => n - 1 \in 0..k) /\ (n = k + 1 => n - 1 = k /\ n # 0)
    BY <1>3
  <2>4. \A n \in 0..k : h[n] = g[n]
    BY <2>2, <2>3
  <2>5. ASSUME NEW n \in 0 .. k + 1
        PROVE  h[n] = IF n = 0 THEN Store ELSE WriteEntry(h[n - 1], pendingWrites[n])
    <3>1. CASE n = k + 1
      BY <3>1, <2>2, <2>3, <2>4
    <3>2. CASE n \in 0..k
      <4>1. h[n] = IF n = 0 THEN Store ELSE WriteEntry(g[n - 1], pendingWrites[n])
        BY <3>2, <2>1, <2>4
      <4>2. n # 0 => h[n - 1] = g[n - 1]
        BY <2>3, <2>4
      <4> QED BY <4>1, <4>2
    <3> QED BY <3>1, <3>2, <2>3
  <2>6. h = [n \in 0 .. k + 1 |-> IF n = 0 THEN Store ELSE WriteEntry(h[n - 1], pendingWrites[n])]
    BY <2>2, <2>5
  <2> QED BY <2>3, <2>6, <1>1
<1>4. N \in T
  <2>1. \A k \in 0..N : k \in T
    BY <1>2, <1>3, UpTo
  <2> QED BY <2>1
<1>5. \E g : g = [n \in 0..N |-> IF n = 0 THEN Store ELSE WriteEntry(g[n - 1], pendingWrites[n])]
  BY <1>4, <1>1
<1>6. PICK g : g = CHOOSE h : h = [n \in 0..N |-> IF n = 0 THEN Store ELSE WriteEntry(h[n - 1], pendingWrites[n])]
  OBVIOUS
<1>7. g = [n \in 0..N |-> IF n = 0 THEN Store ELSE WriteEntry(g[n - 1], pendingWrites[n])]
  BY <1>5, <1>6, Zenon
<1>8. Written = g[N]
  BY <1>6, Zenon DEF Written, Store
<1>9. g[0] = Store /\ \A n \in 1..N : g[n] = WriteEntry(g[n - 1], pendingWrites[n])
  BY <1>7
<1> QED BY <1>8, <1>9

\* The entries behind the first k.
Rest(k) == {pendingWrites[i] : i \in k + 1 .. Len(pendingWrites)}

\* Unless the ids have run out, the invariant holds with the entries that are still to write.
Flushing(s, k) == s.disk.count <= MaxIds => s \in StoreType /\ Good(s.mem, s.disk, reaction, Rest(k))

LEMMA EntryKeeps ==
  ASSUME IInv, NEW k \in 1..Len(pendingWrites), NEW s, Flushing(s, k - 1)
  PROVE  Flushing(WriteEntry(s, pendingWrites[k]), k)
<1>1. PICK N, w, t : N = Len(pendingWrites) /\ w = pendingWrites[k] /\ t = WriteEntry(s, w)
  OBVIOUS
<1>2. /\ N \in Nat /\ k \in 1..N /\ DOMAIN pendingWrites = 1..N /\ w \in Obj \cup Pin
      /\ IsInjective(pendingWrites)
  BY <1>1 DEF IInv
<1>3. PICK Q : Q = Rest(k - 1) /\ Rest(k) = Q \ {w} /\ w \in Q
  <2>1. \A i \in (k - 1) + 1 .. N : i = k \/ i \in k + 1 .. N
    BY <1>2
  <2>2. k \in (k - 1) + 1 .. N /\ \A i \in k + 1 .. N : i # k /\ i \in 1..N /\ i \in (k - 1) + 1 .. N
    BY <1>2
  <2>3. \A i \in k + 1 .. N : pendingWrites[i] # w
    BY <2>2, <1>1, <1>2 DEF IsInjective
  <2>4. Rest(k) = Rest(k - 1) \ {w} /\ w \in Rest(k - 1)
    BY <2>1, <2>2, <2>3, <1>1 DEF Rest
  <2> QED BY <2>4
<1>4. SUFFICES ASSUME t.disk.count <= MaxIds PROVE t \in StoreType /\ Good(t.mem, t.disk, reaction, Rest(k))
  BY <1>1 DEF Flushing
<1>5. s.disk.count <= MaxIds
  BY <1>1, <1>4 DEF WriteEntry
<1>6. s \in StoreType /\ Good(s.mem, s.disk, reaction, Rest(k - 1))
  BY <1>5 DEF Flushing
<1>7. CASE w \in Pin
  <2>1. t = WriteReaction(s, w)
    BY <1>1, <1>5, <1>7 DEF WriteEntry
  <2>2. w \in Q /\ s \in StoreType /\ Good(s.mem, s.disk, reaction, Q) /\ t.disk.count <= MaxIds
    BY <1>3, <1>4, <1>6
  <2>3. t \in StoreType /\ Good(t.mem, t.disk, reaction, Q \ {w})
    BY <2>1, <2>2, <1>7, ReactionWritten
  <2> QED BY <2>3, <1>3
<1>8. CASE w \notin Pin
  <2>1. t = WriteObject(s, w) /\ w \in Obj
    BY <1>1, <1>2, <1>5, <1>8 DEF WriteEntry
  <2>2. w \in Q /\ s \in StoreType /\ Good(s.mem, s.disk, reaction, Q) /\ t.disk.count <= MaxIds
    BY <1>3, <1>4, <1>6
  <2>3. t \in StoreType /\ Good(t.mem, t.disk, reaction, Q \ {w})
    BY <2>1, <2>2, ObjectWritten
  <2> QED BY <2>3, <1>3
<1> QED BY <1>7, <1>8

LEMMA FlushStep ==
  ASSUME IInv, Flush
  PROVE  IInv'
<1>1. PICK N : N = Len(pendingWrites) /\ N \in Nat
  BY DEF IInv
<1>2. PICK g : /\ g[0] = Store /\ Written = g[N]
               /\ \A n \in 1..N : g[n] = WriteEntry(g[n - 1], pendingWrites[n])
  BY <1>1, WrittenSteps
<1>3. PICK T : T = {k \in 0..N : Flushing(g[k], k)}
  OBVIOUS
<1>4. 0 \in T
  <2>1. DOMAIN pendingWrites = 1..N
    BY <1>1 DEF IInv
  <2>2. Rest(0) = ToSet(pendingWrites)
    BY <2>1, <1>1 DEF Rest, ToSet
  <2>3. Good(mem, disk, reaction, ToSet(pendingWrites)) /\ mem \in Memory /\ disk \in Tables
    BY DEF IInv, Good
  <2>4. Store \in StoreType /\ Store.mem = mem /\ Store.disk = disk
    BY <2>3 DEF Store, StoreType
  <2>5. Flushing(Store, 0)
    BY <2>2, <2>3, <2>4 DEF Flushing
  <2> QED BY <2>5, <1>1, <1>2, <1>3
<1>5. ASSUME NEW k \in 0 .. N - 1, k \in T PROVE k + 1 \in T
  <2>1. PICK j : j = k + 1 /\ j \in 1..N /\ j - 1 = k /\ j \in 0..N
    BY <1>1, <1>5
  <2>2. Flushing(g[j - 1], j - 1)
    BY <2>1, <1>3, <1>5
  <2>3. Flushing(WriteEntry(g[j - 1], pendingWrites[j]), j)
    BY <2>1, <2>2, <1>1, EntryKeeps
  <2>4. Flushing(g[j], j)
    BY <2>1, <2>3, <1>2
  <2> QED BY <2>1, <2>4, <1>3
<1>6. Flushing(Written, N)
  <2>1. \A k \in 0..N : k \in T
    BY <1>1, <1>4, <1>5, UpTo
  <2> QED BY <2>1, <1>1, <1>2, <1>3
<1>7. /\ Written.disk.count <= MaxIds /\ mem' = Written.mem /\ disk' = Written.disk
      /\ pendingWrites' = <<>> /\ reaction' = reaction
  BY DEF Flush
<1>8. Rest(N) = {}
  BY <1>1 DEF Rest
<1>9. Good(mem', disk', reaction', {})
  BY <1>6, <1>7, <1>8 DEF Flushing
<1>10. pendingWrites' \in Seq(Obj \cup Pin) /\ IsInjective(pendingWrites') /\ ToSet(pendingWrites') = {}
  BY <1>7, EmptySet
<1> QED BY <1>9, <1>10 DEF IInv

----------------------------------------------------------------------------
(* The theorems.                                                           *)

LEMMA InitInv ==
  ASSUME Init
  PROVE  IInv
<1>1. PICK m, d, r : m = mem /\ d = disk /\ r = reaction
  OBVIOUS
<1>2. \A n \in Obj : m[n] = Absent
  BY <1>1 DEF Init
<1>3. /\ d = [rows |-> d.rows, reactions |-> d.reactions, count |-> d.count]
      /\ d.rows = [i \in Id |-> NoRow] /\ d.reactions = [p \in Pin |-> NoId] /\ d.count = 0
  BY <1>1 DEF Init
<1>4. Stored(d) = {}
  BY <1>3 DEF Stored
<1>5. m \in Memory /\ d \in Tables /\ r \in [Pin -> Obj \cup {NoMethod, OnDisk}]
  <2>1. m \in Memory /\ r \in [Pin -> Obj \cup {NoMethod, OnDisk}]
    BY <1>1 DEF Init, Memory
  <2>2. 0 \in 0..MaxIds
    BY BoundsAssumption
  <2> QED BY <2>1, <2>2, <1>3 DEF Tables
<1>6. RowsOk(d) /\ PinsOk(d) /\ ObjectsOk(m, d)
  BY <1>2, <1>3, <1>4 DEF RowsOk, PinsOk, ObjectsOk
<1>7. SetOk(m, {}) /\ ReactionsOk(m, d, r, {})
  BY <1>1, <1>2, Numbers DEF Init, SetOk, ReactionsOk, NoMethod
<1>8. Good(m, d, r, {})
  BY <1>5, <1>6, <1>7 DEF Good
<1>9. pendingWrites = <<>>
  BY DEF Init
<1> QED BY <1>1, <1>8, <1>9, EmptySet DEF IInv

LEMMA Inductive ==
  ASSUME IInv, [Next]_vars
  PROVE  IInv'
<1>1. CASE NewList
  <2>1. /\ Unused # {} /\ mem' = [mem EXCEPT ![Least(Unused)] = NewDB("list", Plain, NoId)]
        /\ UNCHANGED <<reaction, pendingWrites, disk>>
    BY <1>1 DEF NewList
  <2>2. "list" \in {"list", "method"} /\ Plain \in Live \cup {Plain}
    OBVIOUS
  <2> QED BY <2>1, <2>2, NewStep
<1>2. ASSUME NEW l \in Lists, Bind(l) PROVE IInv'
  <2>1. /\ Unused # {} /\ mem' = [mem EXCEPT ![Least(Unused)] = NewDB("method", l, NoId)]
        /\ UNCHANGED <<reaction, pendingWrites, disk>>
    BY <1>2 DEF Bind
  <2>2. "method" \in {"list", "method"} /\ l \in Live \cup {Plain}
    BY DEF Lists
  <2> QED BY <2>1, <2>2, NewStep
<1>3. ASSUME NEW l \in Lists, NEW v \in Live \cup {Plain}, Set(l, v) PROVE IInv'
  BY <1>3, SetStep
<1>4. ASSUME NEW n \in Methods, AddNext(n) PROVE IInv'
  BY <1>4, AddNextStep
<1>5. ASSUME NEW p \in Pin, Settle(p) PROVE IInv'
  BY <1>5, SettleStep
<1>6. CASE Flush
  BY <1>6, FlushStep
<1>7. CASE Collect
  BY <1>7, CollectStep
<1>8. ASSUME NEW n \in Live, Evict(n) PROVE IInv'
  BY <1>8, EvictStep
<1>9. ASSUME NEW p \in Pin, EvictRoot(p) PROVE IInv'
  BY <1>9, EvictRootStep
<1>10. CASE Crash
  BY <1>10, CrashStep
<1>11. CASE UNCHANGED vars
  BY <1>11 DEF vars, IInv
<1> QED BY <1>1, <1>2, <1>3, <1>4, <1>5, <1>6, <1>7, <1>8, <1>9, <1>10, <1>11 DEF Next

LEMMA Invariant == Spec => []IInv
BY InitInv, Inductive, PTL DEF Spec

\* Every id in a reaction names the row of a Method and every id in a row names a row.
LEMMA Dangling ==
  ASSUME IInv
  PROVE  NoDanglingIds
<1>1. RowsOk(disk) /\ PinsOk(disk) /\ Stored(disk) = Rows
  BY DEF IInv, Good, Stored, Rows
<1> QED BY <1>1 DEF NoDanglingIds, RowsOk, PinsOk

LEMMA Agreement ==
  ASSUME IInv
  PROVE  RowsAgree
<1>1. /\ ObjectsOk(mem, disk) /\ SetOk(mem, ToSet(pendingWrites)) /\ Stored(disk) = Rows
  BY DEF IInv, Good, Stored, Rows
<1> SUFFICES ASSUME NEW n \in Live
             PROVE  /\ mem[n].dirty => Contains(pendingWrites, n)
                    /\ mem[n].checked => mem[n].id \in Rows
                    /\ mem[n].id \in Rows =>
                         LET row == disk.rows[mem[n].id]
                         IN /\ row.of = n
                            /\ row.kind = mem[n].kind
                            /\ ~mem[n].dirty =>
                                 IF mem[n].elem = Plain THEN row.elem = NoId
                                 ELSE row.elem \in Rows /\ disk.rows[row.elem].of = mem[n].elem
  BY DEF RowsAgree
<1>2. n \in Obj /\ mem[n] # Absent /\ ObjectOk(n, mem[n], disk)
  BY <1>1 DEF Live, ObjectsOk
<1>3. mem[n].dirty => Contains(pendingWrites, n)
  BY <1>1, <1>2, ContainsIn DEF SetOk
<1> QED BY <1>1, <1>2, <1>3 DEF ObjectOk, Holds

LEMMA Unique ==
  ASSUME IInv
  PROVE  OneRow
<1>1. RowsOk(disk) /\ Stored(disk) = Rows
  BY DEF IInv, Good, Stored, Rows
<1> QED BY <1>1 DEF RowsOk, OneRow

\* The fields of the objects, the Set without a second of any entry, and the tables, whose
\* rows are all below the counter: with any number of objects, roots and ids.
THEOREM ObjectTypes == Spec => []TypeOK
BY Invariant, GoodTypes, PTL

\* What a restart reads is there: whatever is flushed, collected, evicted and lost in a
\* crash, in any order, no reaction and no row on disk keeps the id of a row that is gone.
THEOREM IdsHaveRows == Spec => []NoDanglingIds
BY Invariant, Dangling, PTL

\* The id an object keeps after its row was swept never comes to name another's row, and
\* an object that is not in the Set has the element its row has.
THEOREM ObjectsAgree == Spec => []RowsAgree
BY Invariant, Agreement, PTL

\* getOrCreateId never gives a second row to an object that has one.
THEOREM OneRowEach == Spec => []OneRow
BY Invariant, Unique, PTL

=============================================================================
