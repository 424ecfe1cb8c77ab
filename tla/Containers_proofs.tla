-------------------------- MODULE Containers_proofs --------------------------
(***************************************************************************)
(* Proofs about Containers for any values, keys and fields and Lists of    *)
(* any length: what is read back is what was written, and the containers   *)
(* implement Collections, if no value is -0 and no assignment leaves a     *)
(* hole.                                                                   *)
(***************************************************************************)
EXTENDS Containers, SequenceTheorems, TLAPS

----------------------------------------------------------------------------
(* Rows.                                                                   *)

\* What is written for a value.
Cell == [kind : {"value"}, text : Value]

\* Values other than -0 are read back as they are.
LEMMA ValueReadBack ==
  ASSUME NegativeZero \notin Value, NEW v \in Value
  PROVE  ToInternalValue(v) \in Cell /\ FromInternalValue(ToInternalValue(v)) = v
BY DEF ToInternalValue, FromInternalValue, Cell

\* A row without null is read as a List of its values.
LEMMA ReadList ==
  ASSUME NEW row \in Seq(Cell)
  PROVE  /\ DeserializeList(row) = [i \in 1..Len(row) |-> row[i].text]
         /\ DeserializeList(row) \in Seq(Value) /\ Len(DeserializeList(row)) = Len(row)
<1>1. ~Contains(row, Null)
  <2>1. \A i \in 1..Len(row) : row[i] \in Cell
    OBVIOUS
  <2>2. \A x \in Cell : x # Null
    BY DEF Cell, Null
  <2> QED BY <2>1, <2>2 DEF Contains
<1>2. DeserializeList(row) = [i \in 1..Len(row) |-> row[i].text]
  BY <1>1 DEF DeserializeList, FromInternalValue
<1>3. \A i \in 1..Len(row) : row[i].text \in Value
  <2>1. \A i \in 1..Len(row) : row[i] \in Cell
    OBVIOUS
  <2>2. \A x \in Cell : x.text \in Value
    BY DEF Cell
  <2> QED BY <2>1, <2>2
<1> QED BY <1>2, <1>3

\* A List without holes is written without null, and read back.
LEMMA ListReadBack ==
  ASSUME NegativeZero \notin Value, NEW l \in Seq(Value)
  PROVE  /\ SerializeList(l) \in Seq(Cell) /\ Len(SerializeList(l)) = Len(l)
         /\ DeserializeList(SerializeList(l)) = l
<1>1. \A i \in 1..Len(l) : l[i] \in Value /\ l[i] # Hole
  BY BoundsAssumption DEF BoundsAssumption
<1>2. SerializeList(l) = [i \in 1..Len(l) |-> ToInternalValue(l[i])]
  BY <1>1 DEF SerializeList
<1>3. SerializeList(l) \in Seq(Cell) /\ Len(SerializeList(l)) = Len(l)
  BY <1>1, <1>2, ValueReadBack
<1>4. DeserializeList(SerializeList(l)) = [i \in 1..Len(l) |-> l[i]]
  <2>1. \A i \in 1..Len(l) : SerializeList(l)[i].text = l[i]
    BY <1>1, <1>2, ValueReadBack DEF FromInternalValue
  <2> QED BY <1>3, <2>1, ReadList
<1> QED BY <1>3, <1>4

\* The row of a Dictionary is read as entries with its keys.
LEMMA ReadDictionary ==
  ASSUME NEW row \in Seq(Key \X Cell)
  PROVE  /\ DeserializeDictionary(row) \in Seq(Entry) /\ Len(DeserializeDictionary(row)) = Len(row)
         /\ \A i \in 1..Len(row) : DeserializeDictionary(row)[i].key = row[i][1]
<1>1. \A i \in 1..Len(row) : row[i][1] \in Key /\ row[i][2].text \in Value
  BY DEF Cell
<1>2. DeserializeDictionary(row) = [i \in 1..Len(row) |-> [key |-> row[i][1], value |-> row[i][2].text]]
  BY DEF DeserializeDictionary, FromInternalValue
<1> QED BY <1>1, <1>2 DEF Entry

\* The entries of a Dictionary have a key and a value.
LEMMA EntriesOf ==
  ASSUME NEW m \in Seq(Entry)
  PROVE  \A i \in 1..Len(m) : /\ m[i].key \in Key /\ m[i].value \in Value
                              /\ m[i] = [key |-> m[i].key, value |-> m[i].value]
<1>1. \A i \in 1..Len(m) : m[i] \in Entry
  OBVIOUS
<1>2. \A e \in Entry : e.key \in Key /\ e.value \in Value /\ e = [key |-> e.key, value |-> e.value]
  BY DEF Entry
<1> QED BY <1>1, <1>2

\* A Dictionary is read back, its order included.
LEMMA DictionaryReadBack ==
  ASSUME NegativeZero \notin Value, NEW m \in Seq(Entry)
  PROVE  /\ SerializeDictionary(m) \in Seq(Key \X Cell)
         /\ DeserializeDictionary(SerializeDictionary(m)) = m
<1>1. \A i \in 1..Len(m) : /\ m[i].key \in Key /\ m[i].value \in Value
                           /\ m[i] = [key |-> m[i].key, value |-> m[i].value]
  BY EntriesOf
<1>2. SerializeDictionary(m) = [i \in 1..Len(m) |-> <<m[i].key, ToInternalValue(m[i].value)>>]
  BY DEF SerializeDictionary
<1>3. \A i \in 1..Len(m) : /\ ToInternalValue(m[i].value) \in Cell
                           /\ FromInternalValue(ToInternalValue(m[i].value)) = m[i].value
  BY <1>1, ValueReadBack
<1>4. SerializeDictionary(m) \in Seq(Key \X Cell) /\ DOMAIN SerializeDictionary(m) = 1..Len(m)
  <2>1. \A i \in 1..Len(m) : <<m[i].key, ToInternalValue(m[i].value)>> \in Key \X Cell
    BY <1>1, <1>3
  <2> QED BY <1>2, <2>1
<1>5. DeserializeDictionary(SerializeDictionary(m)) = [i \in 1..Len(m) |-> m[i]]
  BY <1>1, <1>2, <1>3, <1>4 DEF DeserializeDictionary
<1> QED BY <1>4, <1>5

\* The row of a Struct is read as one.
LEMMA ReadStruct ==
  ASSUME NEW row \in [Field -> Cell] PROVE DeserializeStruct(row) \in [Field -> Value]
BY DEF DeserializeStruct, FromInternalValue, Cell

\* A Struct is read back.
LEMMA StructReadBack ==
  ASSUME NegativeZero \notin Value, NEW o \in [Field -> Value]
  PROVE  /\ SerializeStruct(o) \in [Field -> Cell]
         /\ DeserializeStruct(SerializeStruct(o)) = o
<1>1. \A k \in Field : /\ ToInternalValue(o[k]) \in Cell
                       /\ FromInternalValue(ToInternalValue(o[k])) = o[k]
  BY ValueReadBack
<1> QED BY <1>1 DEF SerializeStruct, DeserializeStruct

----------------------------------------------------------------------------
(* Sequences.                                                              *)

\* Sequences are equal if their elements are.
LEMMA SameSequence ==
  ASSUME NEW S, NEW a \in Seq(S), NEW b \in Seq(S), Len(a) = Len(b),
         \A i \in 1..Len(a) : a[i] = b[i]
  PROVE  a = b
<1>1. a = [i \in 1..Len(a) |-> a[i]] /\ b = [i \in 1..Len(a) |-> b[i]]
  OBVIOUS
<1> QED BY <1>1

\* d is a up to m, and b up to n.
TwoParts(d, a, b, m, n) ==
  Len(d) = n /\ \A i \in 1..n : d[i] = IF i <= m THEN a[i] ELSE b[i - m]

\* Two sequences, one after the other.
LEMMA Joined ==
  ASSUME NEW S, NEW a \in Seq(S), NEW b \in Seq(S), NEW m \in Nat, Len(a) = m,
         NEW n \in Nat, Len(b) = n - m
  PROVE  a \o b \in Seq(S) /\ TwoParts(a \o b, a, b, m, n)
<1>1. Len(a) + Len(b) = n
  OBVIOUS
<1>2. /\ a \o b \in Seq(S) /\ Len(a \o b) = n
      /\ \A i \in 1..n : (a \o b)[i] = IF i <= m THEN a[i] ELSE b[i - m]
  BY <1>1, ConcatProperties, Zenon
<1> QED BY <1>2 DEF TwoParts

\* A sequence without the element at p.
LEMMA RemoveAtFacts ==
  ASSUME NEW S, NEW s \in Seq(S), NEW p \in 1..Len(s)
  PROVE  /\ RemoveAt(s, p) \in Seq(S) /\ Len(RemoveAt(s, p)) = Len(s) - 1
         /\ \A i \in 1..Len(s) - 1 : RemoveAt(s, p)[i] = IF i < p THEN s[i] ELSE s[i + 1]
<1>1. PICK a, b : a = SubSeq(s, 1, p - 1) /\ b = SubSeq(s, p + 1, Len(s))
  OBVIOUS
<1>2. p \in Int /\ Len(s) \in Nat /\ 1 <= p /\ p <= Len(s)
  OBVIOUS
<1>3. a \in Seq(S) /\ Len(a) = p - 1 /\ \A i \in 1..p - 1 : a[i] = s[i]
  BY <1>1, <1>2
<1>4. b \in Seq(S) /\ Len(b) = Len(s) - p /\ \A i \in 1..Len(s) - p : b[i] = s[p + i]
  BY <1>1, <1>2
<1>5. RemoveAt(s, p) = a \o b
  BY <1>1 DEF RemoveAt
<1>6. /\ a \o b \in Seq(S) /\ Len(a \o b) = Len(s) - 1
      /\ \A i \in 1..Len(s) - 1 : (a \o b)[i] = IF i <= p - 1 THEN a[i] ELSE b[i - (p - 1)]
  <2>1. p - 1 \in Nat /\ Len(s) - 1 \in Nat /\ Len(b) = (Len(s) - 1) - (p - 1)
    BY <1>2, <1>4
  <2>2. a \o b \in Seq(S) /\ TwoParts(a \o b, a, b, p - 1, Len(s) - 1)
    BY <1>3, <1>4, <2>1, Joined, Zenon
  <2> QED BY <2>2 DEF TwoParts
<1>7. ASSUME NEW i \in 1..Len(s) - 1 PROVE (a \o b)[i] = IF i < p THEN s[i] ELSE s[i + 1]
  <2>1. CASE i < p
    BY <1>2, <1>3, <1>6, <2>1
  <2>2. CASE ~(i < p)
    <3>1. i - (p - 1) \in 1..Len(s) - p /\ p + (i - (p - 1)) = i + 1 /\ ~(i <= p - 1)
      BY <1>2, <2>2
    <3> QED BY <1>4, <1>6, <2>2, <3>1
  <2> QED BY <2>1, <2>2
<1> QED BY <1>5, <1>6, <1>7

\* d is a, v up to q, and b up to n.
ThreeParts(d, a, v, b, p, q, n) ==
  Len(d) = n /\ \A i \in 1..n : d[i] = IF i <= p THEN a[i] ELSE IF i <= q THEN v[i - p] ELSE b[i - q]

\* Three sequences, one after the other.
LEMMA JoinedThrice ==
  ASSUME NEW S, NEW a \in Seq(S), NEW v \in Seq(S), NEW b \in Seq(S), NEW p \in Nat, Len(a) = p,
         NEW q \in Nat, Len(v) = q - p, NEW n \in Nat, Len(b) = n - q
  PROVE  a \o v \o b \in Seq(S) /\ ThreeParts(a \o v \o b, a, v, b, p, q, n)
<1>1. PICK c : c = a \o v
  OBVIOUS
<1>2. c \in Seq(S) /\ TwoParts(c, a, v, p, q)
  BY <1>1, Joined, Zenon
<1>3. PICK d : d = c \o b
  OBVIOUS
<1>4. d \in Seq(S) /\ TwoParts(d, c, b, q, n)
  <2>1. Len(c) = q
    BY <1>2 DEF TwoParts
  <2> QED BY <1>2, <1>3, <2>1, Joined, Zenon
<1>5. p <= q
  OBVIOUS
<1>6. ThreeParts(d, a, v, b, p, q, n)
  BY <1>2, <1>4, <1>5 DEF TwoParts, ThreeParts
<1> QED BY <1>1, <1>3, <1>4, <1>6

\* A List with the values written at p + 1 to q.
Written(d, l, v, p, q, n) ==
  Len(d) = n /\ \A i \in 1..n : d[i] = IF p < i /\ i <= q THEN v[i - p] ELSE l[i]

\* What lies before and behind what is written stays as it is.
LEMMA Overwritten ==
  ASSUME NEW l \in Seq(Value), NEW v \in Seq(Value), NEW p \in Nat, p <= Len(l),
         NEW q \in Nat, q = p + Len(v), NEW n \in Nat, q <= n, Len(l) <= n, n = q \/ n = Len(l)
  PROVE  /\ SubSeq(l, 1, p) \o v \o SubSeq(l, q + 1, Len(l)) \in Seq(Value)
         /\ Written(SubSeq(l, 1, p) \o v \o SubSeq(l, q + 1, Len(l)), l, v, p, q, n)
<1>1. PICK a, b : a = SubSeq(l, 1, p) /\ b = SubSeq(l, q + 1, Len(l))
  OBVIOUS
<1>2. p \in Nat /\ Len(l) \in Nat /\ p <= Len(l) /\ Len(v) = q - p /\ q <= n /\ p <= q
  OBVIOUS
<1>3. a \in Seq(Value) /\ Len(a) = p /\ \A i \in 1..p : a[i] = l[i]
  BY <1>1, <1>2
<1>4. b \in Seq(Value) /\ Len(b) = n - q /\ \A i \in 1..n - q : b[i] = l[q + i]
  BY <1>1, <1>2
<1>5. PICK d : d = a \o v \o b
  OBVIOUS
<1>8. d \in Seq(Value) /\ ThreeParts(d, a, v, b, p, q, n)
  <2>1. Len(v) = q - p /\ Len(b) = n - q /\ p \in Nat /\ Len(a) = p
    BY <1>2, <1>3, <1>4
  <2>2. a \o v \o b \in Seq(Value) /\ ThreeParts(a \o v \o b, a, v, b, p, q, n)
    BY <1>3, <1>4, <2>1, JoinedThrice, Zenon
  <2> QED BY <1>5, <2>2, Zenon
<1>6. /\ Len(d) = n
      /\ \A i \in 1..n : d[i] = IF i <= p THEN a[i] ELSE IF i <= q THEN v[i - p] ELSE b[i - q]
  BY <1>8 DEF ThreeParts
<1>7. ASSUME NEW i \in 1..n PROVE d[i] = IF p < i /\ i <= q THEN v[i - p] ELSE l[i]
  <2>1. CASE i <= p
    BY <1>2, <1>3, <1>6, <2>1
  <2>2. CASE p < i /\ i <= q
    BY <1>2, <1>6, <2>2
  <2>3. CASE q < i
    <3>1. i - q \in 1..n - q /\ q + (i - q) = i
      BY <1>2, <2>3
    <3>2. d[i] = b[i - q]
      BY <1>2, <1>6, <2>3
    <3> QED BY <1>2, <1>4, <2>3, <3>1, <3>2
  <2> QED BY <1>2, <2>1, <2>2, <2>3
<1>9. Written(d, l, v, p, q, n)
  BY <1>6, <1>7 DEF Written
<1> QED BY <1>1, <1>5, <1>8, <1>9

----------------------------------------------------------------------------
(* Entries as a Map and the order of its keys.                             *)

Keys(m) == {m[i].key : i \in 1..Len(m)}

\* g is the Map f with one value set.
IsAssigned(g, f, key, value) == g = [k \in DOMAIN f \cup {key} |-> IF k = key THEN value ELSE f[k]]

\* Entries of which one gets another value.
OneReplaced(w, m, key, e) ==
  Len(w) = Len(m) /\ \A i \in 1..Len(m) : w[i] = IF m[i].key = key THEN e ELSE m[i]

\* Each entry's value is the Map's, if no key has two entries.
LEMMA MapOfFacts ==
  ASSUME NEW m \in Seq(Entry), UniqueKeys(m)
  PROVE  /\ OrderOf(m) \in Seq(Key) /\ Len(OrderOf(m)) = Len(m)
         /\ \A i \in 1..Len(m) : OrderOf(m)[i] = m[i].key
         /\ IsInjective(OrderOf(m)) /\ ToSet(OrderOf(m)) = Keys(m)
         /\ Keys(m) \subseteq Key /\ MapOf(m) \in [Keys(m) -> Value]
         /\ \A i \in 1..Len(m) : MapOf(m)[m[i].key] = m[i].value
<1>1. DOMAIN m = 1..Len(m) /\ Len(m) \in Nat
  OBVIOUS
<1>2. \A i \in 1..Len(m) : m[i].key \in Key /\ m[i].value \in Value
  BY EntriesOf
<1>3. OrderOf(m) = [i \in 1..Len(m) |-> m[i].key]
  BY <1>1 DEF OrderOf
<1>4. OrderOf(m) \in Seq(Key) /\ Len(OrderOf(m)) = Len(m) /\ DOMAIN OrderOf(m) = 1..Len(m)
  BY <1>2, <1>3
<1>5. \A i, j \in 1..Len(m) : m[i].key = m[j].key => i = j
  BY <1>1 DEF UniqueKeys
<1>6. IsInjective(OrderOf(m))
  BY <1>3, <1>4, <1>5 DEF IsInjective
<1>7. ToSet(OrderOf(m)) = Keys(m)
  BY <1>3, <1>4 DEF ToSet, Keys
<1>8. MapOf(m) = [k \in Keys(m) |-> m[Position(m, k)].value]
  BY <1>1 DEF MapOf, Keys
<1>9. \A i \in 1..Len(m) : m[i].key \in Keys(m)
  BY DEF Keys
<1>10. \A i \in 1..Len(m) : m[i].key \in Keys(m) /\ MapOf(m)[m[i].key] = m[i].value
  <2> SUFFICES ASSUME NEW i \in 1..Len(m) PROVE MapOf(m)[m[i].key] = m[i].value
    BY <1>9
  <2>1. Position(m, m[i].key) = i
    <3>1. \A j \in 1..Len(m) : m[j].key = m[i].key <=> j = i
      BY <1>5
    <3> QED BY <1>1, <3>1 DEF Position
  <2> QED BY <1>8, <1>9, <2>1
<1>11. Keys(m) \subseteq Key /\ MapOf(m) \in [Keys(m) -> Value]
  <2>1. ASSUME NEW k \in Keys(m) PROVE k \in Key /\ MapOf(m)[k] \in Value
    <3>1. PICK i \in 1..Len(m) : k = m[i].key
      BY DEF Keys
    <3> QED BY <1>2, <1>10, <3>1
  <2>2. MapOf(m) = [k \in Keys(m) |-> MapOf(m)[k]]
    BY <1>8
  <2> QED BY <2>1, <2>2
<1> QED BY <1>3, <1>4, <1>6, <1>7, <1>10, <1>11

\* A Map is determined by its keys and by the value of each entry.
LEMMA SameMap ==
  ASSUME NEW m \in Seq(Entry), UniqueKeys(m), NEW f \in [Keys(m) -> Value],
         \A i \in 1..Len(m) : f[m[i].key] = m[i].value
  PROVE  MapOf(m) = f
<1>1. \A k \in Keys(m) : MapOf(m)[k] = f[k]
  <2> SUFFICES ASSUME NEW k \in Keys(m) PROVE MapOf(m)[k] = f[k]
    OBVIOUS
  <2>1. PICK i \in 1..Len(m) : k = m[i].key
    BY DEF Keys
  <2> QED BY <2>1, MapOfFacts
<1>2. MapOf(m) = [k \in Keys(m) |-> MapOf(m)[k]]
  BY MapOfFacts
<1> QED BY <1>1, <1>2

\* A new entry at the end.
LEMMA Appended ==
  ASSUME NEW m \in Seq(Entry), UniqueKeys(m), NEW key \in Key, NEW value \in Value, key \notin Keys(m),
         NEW e \in Entry, e.key = key, e.value = value, NEW w, w = Append(m, e)
  PROVE  /\ w \in Seq(Entry) /\ UniqueKeys(w)
         /\ OrderOf(w) = Append(OrderOf(m), key)
         /\ IsAssigned(MapOf(w), MapOf(m), key, value)
<1>2. e \in Entry /\ e.key = key /\ e.value = value
  OBVIOUS
<1>3. /\ w \in Seq(Entry) /\ Len(w) = Len(m) + 1 /\ Len(m) \in Nat
      /\ w[Len(m) + 1] = e /\ \A i \in 1..Len(m) : w[i] = m[i]
  BY <1>2
<1>4. \A i \in 1..Len(w) : i \in 1..Len(m) \/ i = Len(m) + 1
  BY <1>3
<1>5. \A i \in 1..Len(m) : m[i].key \in Keys(m) /\ m[i].key # key
  BY DEF Keys
<1>6. UniqueKeys(w)
  <2>1. DOMAIN w = 1..Len(w) /\ DOMAIN m = 1..Len(m)
    BY <1>3
  <2> QED BY <1>2, <1>3, <1>4, <1>5, <2>1 DEF UniqueKeys
<1>7. Keys(w) = Keys(m) \cup {key}
  <2>1. 1..Len(w) = 1..Len(m) \cup {Len(m) + 1}
    BY <1>3
  <2> QED BY <1>2, <1>3, <2>1 DEF Keys
<1>8. OrderOf(w) = Append(OrderOf(m), key)
  <2>1. OrderOf(m) \in Seq(Key) /\ Len(OrderOf(m)) = Len(m) /\ \A i \in 1..Len(m) : OrderOf(m)[i] = m[i].key
    BY MapOfFacts
  <2>2. OrderOf(w) \in Seq(Key) /\ Len(OrderOf(w)) = Len(w) /\ \A i \in 1..Len(w) : OrderOf(w)[i] = w[i].key
    BY <1>3, <1>6, MapOfFacts
  <2>3. PICK a : a = Append(OrderOf(m), key)
    OBVIOUS
  <2>4. a \in Seq(Key) /\ Len(a) = Len(w) /\ \A i \in 1..Len(w) : a[i] = w[i].key
    BY <1>2, <1>3, <1>4, <2>1, <2>3
  <2>5. OrderOf(w) = a
    BY <2>2, <2>4, SameSequence
  <2> QED BY <2>3, <2>5
<1>9. MapOf(w) = [k \in Keys(m) \cup {key} |-> IF k = key THEN value ELSE MapOf(m)[k]]
  <2>1. PICK f : f = [k \in Keys(m) \cup {key} |-> IF k = key THEN value ELSE MapOf(m)[k]]
    OBVIOUS
  <2>4. f \in [Keys(w) -> Value]
    BY <1>7, <2>1, MapOfFacts
  <2>2. \A i \in 1..Len(m) : MapOf(m)[m[i].key] = m[i].value
    BY MapOfFacts
  <2>3. \A i \in 1..Len(w) : f[w[i].key] = w[i].value
    BY <1>2, <1>3, <1>4, <1>5, <2>1, <2>2
  <2> QED BY <1>3, <1>6, <2>1, <2>3, <2>4, SameMap
<1>10. DOMAIN MapOf(m) = Keys(m)
  BY MapOfFacts
<1> QED BY <1>3, <1>6, <1>8, <1>9, <1>10 DEF IsAssigned

\* An entry that gets another value.
LEMMA Replaced ==
  ASSUME NEW m \in Seq(Entry), UniqueKeys(m), NEW key \in Key, NEW value \in Value, key \in Keys(m),
         NEW e \in Entry, e.key = key, e.value = value, NEW w \in Seq(Entry), OneReplaced(w, m, key, e)
  PROVE  /\ UniqueKeys(w)
         /\ OrderOf(w) = OrderOf(m)
         /\ IsAssigned(MapOf(w), MapOf(m), key, value)
<1>2. e \in Entry /\ e.key = key /\ e.value = value
  OBVIOUS
<1>4. w \in Seq(Entry) /\ Len(w) = Len(m) /\ DOMAIN w = 1..Len(m) /\ DOMAIN m = 1..Len(m)
      /\ \A i \in 1..Len(m) : w[i] = IF m[i].key = key THEN e ELSE m[i]
  BY DEF OneReplaced
<1>5. \A i \in 1..Len(m) : /\ w[i].key = m[i].key
                           /\ w[i].value = IF m[i].key = key THEN value ELSE m[i].value
  BY <1>2, <1>4
<1>6. UniqueKeys(w)
  BY <1>4, <1>5 DEF UniqueKeys
<1>7. Keys(w) = Keys(m) /\ Keys(m) \cup {key} = Keys(m)
  BY <1>4, <1>5 DEF Keys
<1>8. OrderOf(w) = OrderOf(m)
  BY <1>4, <1>5 DEF OrderOf
<1>9. MapOf(w) = [k \in Keys(m) \cup {key} |-> IF k = key THEN value ELSE MapOf(m)[k]]
  <2>1. PICK f : f = [k \in Keys(m) \cup {key} |-> IF k = key THEN value ELSE MapOf(m)[k]]
    OBVIOUS
  <2>4. f \in [Keys(w) -> Value]
    BY <1>7, <2>1, MapOfFacts
  <2>2. \A i \in 1..Len(m) : MapOf(m)[m[i].key] = m[i].value /\ m[i].key \in Keys(m)
    BY MapOfFacts DEF Keys
  <2>3. \A i \in 1..Len(w) : f[w[i].key] = w[i].value
    BY <1>4, <1>5, <2>1, <2>2
  <2> QED BY <1>4, <1>6, <2>1, <2>3, <2>4, SameMap
<1>10. DOMAIN MapOf(m) = Keys(m)
  BY MapOfFacts
<1> QED BY <1>4, <1>6, <1>8, <1>9, <1>10 DEF IsAssigned

\* An entry that is removed.
LEMMA Removed ==
  ASSUME NEW m \in Seq(Entry), UniqueKeys(m), NEW key \in Key, NEW p \in 1..Len(m), m[p].key = key,
         NEW w, w = RemoveAt(m, p)
  PROVE  /\ w \in Seq(Entry) /\ UniqueKeys(w)
         /\ OrderOf(w) = RemoveAt(OrderOf(m), p)
         /\ MapOf(w) = [k \in Keys(m) \ {key} |-> MapOf(m)[k]]
<1>1. /\ w \in Seq(Entry) /\ Len(w) = Len(m) - 1 /\ Len(m) \in Nat
      /\ \A i \in 1..Len(w) : w[i] = IF i < p THEN m[i] ELSE m[i + 1]
  <2>1. /\ RemoveAt(m, p) \in Seq(Entry) /\ Len(RemoveAt(m, p)) = Len(m) - 1
        /\ \A i \in 1..Len(m) - 1 : RemoveAt(m, p)[i] = IF i < p THEN m[i] ELSE m[i + 1]
    BY RemoveAtFacts
  <2> QED BY <2>1
<1>2. \A i \in 1..Len(w) : i \in 1..Len(m) /\ i + 1 \in 1..Len(m)
  BY <1>1
<1>3. \A i, j \in 1..Len(m) : m[i].key = m[j].key => i = j
  BY DEF UniqueKeys
<1>4. UniqueKeys(w)
  <2> SUFFICES ASSUME NEW i \in 1..Len(w), NEW j \in 1..Len(w), w[i].key = w[j].key PROVE i = j
    BY <1>1 DEF UniqueKeys
  <2>1. CASE i < p /\ j < p
    BY <1>1, <1>2, <1>3, <2>1
  <2>2. CASE i < p /\ ~(j < p)
    <3>1. i = j + 1
      BY <1>1, <1>2, <1>3, <2>2
    <3> QED BY <2>2, <3>1
  <2>3. CASE ~(i < p) /\ j < p
    <3>1. i + 1 = j
      BY <1>1, <1>2, <1>3, <2>3
    <3> QED BY <2>3, <3>1
  <2>4. CASE ~(i < p) /\ ~(j < p)
    <3>1. w[i] = m[i + 1] /\ w[j] = m[j + 1] /\ i + 1 \in 1..Len(m) /\ j + 1 \in 1..Len(m)
      BY <1>1, <1>2, <2>4
    <3>2. i + 1 = j + 1
      BY <1>3, <3>1
    <3> QED BY <3>2
  <2> QED BY <2>1, <2>2, <2>3, <2>4
<1>5. \A i \in 1..Len(w) : w[i].key \in Keys(m) \ {key}
  <2> SUFFICES ASSUME NEW i \in 1..Len(w) PROVE w[i].key \in Keys(m) /\ w[i].key # key
    OBVIOUS
  <2>1. CASE i < p
    <3>1. i # p /\ w[i] = m[i] /\ i \in 1..Len(m)
      BY <1>1, <1>2, <2>1
    <3> QED BY <1>3, <3>1 DEF Keys
  <2>2. CASE ~(i < p)
    <3>1. i + 1 # p /\ w[i] = m[i + 1] /\ i + 1 \in 1..Len(m)
      BY <1>1, <1>2, <2>2
    <3> QED BY <1>3, <3>1 DEF Keys
  <2> QED BY <2>1, <2>2
<1>6. \A k \in Keys(m) \ {key} : \E i \in 1..Len(w) : w[i].key = k
  <2> SUFFICES ASSUME NEW k \in Keys(m) \ {key} PROVE \E i \in 1..Len(w) : w[i].key = k
    OBVIOUS
  <2>1. PICK j \in 1..Len(m) : m[j].key = k /\ j # p
    BY DEF Keys
  <2>2. CASE j < p
    <3>1. j \in 1..Len(w) /\ w[j] = m[j]
      BY <1>1, <2>2
    <3> QED BY <2>1, <3>1
  <2>3. CASE ~(j < p)
    <3>1. j - 1 \in 1..Len(w) /\ ~(j - 1 < p) /\ (j - 1) + 1 = j
      BY <1>1, <2>1, <2>3
    <3>2. w[j - 1] = m[j]
      BY <1>1, <3>1
    <3> QED BY <2>1, <3>1, <3>2
  <2> QED BY <2>2, <2>3
<1>7. Keys(w) = Keys(m) \ {key}
  <2>1. Keys(w) \subseteq Keys(m) \ {key}
    <3>1. \A k \in Keys(w) : \E i \in 1..Len(w) : k = w[i].key
      BY DEF Keys
    <3> QED BY <1>5, <3>1
  <2>2. Keys(m) \ {key} \subseteq Keys(w)
    <3>1. \A i \in 1..Len(w) : w[i].key \in Keys(w)
      BY DEF Keys
    <3> QED BY <1>6, <3>1
  <2> QED BY <2>1, <2>2
<1>8. OrderOf(w) = RemoveAt(OrderOf(m), p)
  <2>1. OrderOf(m) \in Seq(Key) /\ Len(OrderOf(m)) = Len(m) /\ \A i \in 1..Len(m) : OrderOf(m)[i] = m[i].key
    BY MapOfFacts
  <2>2. OrderOf(w) \in Seq(Key) /\ Len(OrderOf(w)) = Len(w) /\ \A i \in 1..Len(w) : OrderOf(w)[i] = w[i].key
    BY <1>1, <1>4, MapOfFacts
  <2>3. PICK a : a = RemoveAt(OrderOf(m), p)
    OBVIOUS
  <2>4. /\ a \in Seq(Key) /\ Len(a) = Len(w)
        /\ \A i \in 1..Len(w) : a[i] = IF i < p THEN OrderOf(m)[i] ELSE OrderOf(m)[i + 1]
    BY <1>1, <2>1, <2>3, RemoveAtFacts
  <2>5. \A i \in 1..Len(w) : a[i] = w[i].key
    BY <1>1, <1>2, <2>1, <2>4
  <2>6. OrderOf(w) = a
    BY <2>2, <2>4, <2>5, SameSequence
  <2> QED BY <2>3, <2>6
<1>9. MapOf(w) = [k \in Keys(m) \ {key} |-> MapOf(m)[k]]
  <2>1. PICK f : f = [k \in Keys(m) \ {key} |-> MapOf(m)[k]]
    OBVIOUS
  <2>4. f \in [Keys(w) -> Value]
    BY <1>7, <2>1, MapOfFacts
  <2>2. \A i \in 1..Len(m) : MapOf(m)[m[i].key] = m[i].value
    BY MapOfFacts
  <2>3. \A i \in 1..Len(w) : f[w[i].key] = w[i].value
    <3> SUFFICES ASSUME NEW i \in 1..Len(w) PROVE f[w[i].key] = w[i].value
      OBVIOUS
    <3>1. PICK j \in 1..Len(m) : w[i] = m[j]
      BY <1>1, <1>2
    <3> QED BY <1>5, <2>1, <2>2, <3>1
  <2> QED BY <1>1, <1>4, <2>1, <2>3, <2>4, SameMap
<1> QED BY <1>1, <1>4, <1>8, <1>9

----------------------------------------------------------------------------
(* The inductive invariant.                                                *)

\* Every row can be read, and the keys of a Dictionary's row are different.
RowsInv ==
  /\ rows = [c \in Container |-> rows[c]]
  /\ rows["list"] \in Seq(Cell) /\ Len(rows["list"]) <= MaxLength
  /\ rows["dictionary"] \in Seq(Key \X Cell)
  /\ UniqueKeys(DeserializeDictionary(rows["dictionary"]))
  /\ rows["struct"] \in [Field -> Cell]

\* What is in memory has no hole, and what is to be written is in memory.
MemoryInv ==
  /\ elements # Absent => elements \in Seq(Value) /\ Len(elements) <= MaxLength
  /\ map # Absent => map \in Seq(Entry) /\ UniqueKeys(map)
  /\ obj # Absent => obj \in [Field -> Value]
  /\ dirty \subseteq Container
  /\ "list" \in dirty => elements # Absent
  /\ "dictionary" \in dirty => map # Absent
  /\ "struct" \in dirty => obj # Absent

CInv == RowsInv /\ MemoryInv /\ ReadsBack

\* What a program sees of each container.
ListNow == IF elements = Absent THEN DeserializeList(rows["list"]) ELSE elements
EntriesNow == IF map = Absent THEN DeserializeDictionary(rows["dictionary"]) ELSE map
StructNow == IF obj = Absent THEN DeserializeStruct(rows["struct"]) ELSE obj

\* It is a List of values, entries with different keys, and a value per field.
LEMMA NowTypes ==
  ASSUME CInv
  PROVE  /\ ListNow \in Seq(Value) /\ Len(ListNow) <= MaxLength
         /\ EntriesNow \in Seq(Entry) /\ UniqueKeys(EntriesNow)
         /\ StructNow \in [Field -> Value]
<1>1. DeserializeList(rows["list"]) \in Seq(Value) /\ Len(DeserializeList(rows["list"])) <= MaxLength
  BY ReadList DEF CInv, RowsInv
<1>2. DeserializeDictionary(rows["dictionary"]) \in Seq(Entry)
  BY ReadDictionary DEF CInv, RowsInv
<1>3. DeserializeStruct(rows["struct"]) \in [Field -> Value]
  BY ReadStruct DEF CInv, RowsInv
<1> QED BY <1>1, <1>2, <1>3 DEF CInv, RowsInv, MemoryInv, ListNow, EntriesNow, StructNow

\* What is in memory is never taken for what is not.
LEMMA Present ==
  /\ \A l \in Seq(Value) : l # Absent
  /\ \A m \in Seq(Entry) : m # Absent
  /\ \A o \in [Field -> Value] : o # Absent
<1>1. \A l \in Seq(Value) : l \in Seq(Value \cup {Hole})
  OBVIOUS
<1> QED BY <1>1, BoundsAssumption DEF BoundsAssumption

\* The four parts of what a program sees.
LEMMA NowIs ==
  Now = [array |-> ListNow, order |-> OrderOf(EntriesNow), map |-> MapOf(EntriesNow), object |-> StructNow]
BY DEF Now, Contents, ListNow, EntriesNow, StructNow

\* The same after a step.
LEMMA NowIsNext ==
  Now' = [array |-> ListNow', order |-> OrderOf(EntriesNow'), map |-> MapOf(EntriesNow'),
          object |-> StructNow']
BY DEF Now, Contents, ListNow, EntriesNow, StructNow, OrderOf, MapOf

----------------------------------------------------------------------------
(* Changes.                                                                *)

\* The List gets other elements.
LEMMA ListChanges ==
  ASSUME CInv, elements # Absent, elements' \in Seq(Value), Len(elements') <= MaxLength,
         SetDirty("list"), UNCHANGED <<map, obj>>
  PROVE  /\ CInv' /\ ListNow = elements /\ UNCHANGED Saved
         /\ Now' = [Now EXCEPT !.array = elements']
<1>1. rows' = rows /\ dirty' = dirty \cup {"list"} /\ map' = map /\ obj' = obj
  BY DEF SetDirty
<1>2. elements' # Absent
  BY Present
<1>3. RowsInv'
  BY <1>1 DEF CInv, RowsInv
<1>4. MemoryInv'
  BY <1>1, <1>2 DEF CInv, MemoryInv, Container
<1>5. ReadsBack'
  BY <1>1 DEF CInv, ReadsBack
<1>6. ListNow' = elements' /\ EntriesNow' = EntriesNow /\ StructNow' = StructNow
  BY <1>1, <1>2 DEF ListNow, EntriesNow, StructNow
<1>7. ListNow = elements /\ UNCHANGED Saved
  BY <1>1 DEF ListNow, Saved
<1>8. Now' = [Now EXCEPT !.array = elements']
  BY <1>6, NowIs, NowIsNext
<1> QED BY <1>3, <1>4, <1>5, <1>7, <1>8 DEF CInv

\* The Dictionary gets other entries.
LEMMA DictionaryChanges ==
  ASSUME CInv, map # Absent, map' \in Seq(Entry), UniqueKeys(map'),
         SetDirty("dictionary"), UNCHANGED <<elements, obj>>
  PROVE  /\ CInv' /\ EntriesNow = map /\ UNCHANGED Saved
         /\ Now' = [Now EXCEPT !.order = OrderOf(map'), !.map = MapOf(map')]
<1>1. rows' = rows /\ dirty' = dirty \cup {"dictionary"} /\ elements' = elements /\ obj' = obj
  BY DEF SetDirty
<1>2. map' # Absent
  BY Present
<1>3. RowsInv'
  BY <1>1 DEF CInv, RowsInv
<1>4. MemoryInv'
  BY <1>1, <1>2 DEF CInv, MemoryInv, Container, UniqueKeys
<1>5. ReadsBack'
  BY <1>1 DEF CInv, ReadsBack
<1>6. ListNow' = ListNow /\ EntriesNow' = map' /\ StructNow' = StructNow
  BY <1>1, <1>2 DEF ListNow, EntriesNow, StructNow
<1>7. EntriesNow = map /\ UNCHANGED Saved
  BY <1>1 DEF EntriesNow, Saved
<1>8. Now' = [Now EXCEPT !.order = OrderOf(map'), !.map = MapOf(map')]
  <2>1. PICK o, f : o = OrderOf(map') /\ f = MapOf(map')
    OBVIOUS
  <2>2. o = OrderOf(EntriesNow') /\ f = MapOf(EntriesNow')
    BY <1>6, <2>1
  <2>3. Now' = [array |-> ListNow, order |-> o, map |-> f, object |-> StructNow]
    BY <1>6, <2>2, NowIsNext
  <2>4. [Now EXCEPT !.order = o, !.map = f]
          = [array |-> ListNow, order |-> o, map |-> f, object |-> StructNow]
    <3>1. PICK x, a, b, c, d : /\ x = Now /\ x = [array |-> a, order |-> b, map |-> c, object |-> d]
                               /\ a = ListNow /\ d = StructNow
      BY NowIs
    <3>2. [x EXCEPT !.order = o, !.map = f] = [array |-> a, order |-> o, map |-> f, object |-> d]
      <4>1. PICK y : y = [x EXCEPT !.order = o]
        OBVIOUS
      <4>2. y = [array |-> a, order |-> o, map |-> c, object |-> d]
        BY <3>1, <4>1
      <4>3. [y EXCEPT !.map = f] = [array |-> a, order |-> o, map |-> f, object |-> d]
        BY <4>2
      <4>4. [x EXCEPT !.order = o, !.map = f] = [y EXCEPT !.map = f]
        BY <4>1
      <4> QED BY <4>3, <4>4
    <3> QED BY <3>1, <3>2
  <2> QED BY <2>1, <2>3, <2>4
<1> QED BY <1>3, <1>4, <1>5, <1>7, <1>8 DEF CInv

\* The Struct gets another value.
LEMMA StructChanges ==
  ASSUME CInv, obj # Absent, obj' \in [Field -> Value],
         SetDirty("struct"), UNCHANGED <<elements, map>>
  PROVE  /\ CInv' /\ StructNow = obj /\ UNCHANGED Saved
         /\ Now' = [Now EXCEPT !.object = obj']
<1>1. rows' = rows /\ dirty' = dirty \cup {"struct"} /\ elements' = elements /\ map' = map
  BY DEF SetDirty
<1>2. obj' # Absent
  BY Present
<1>3. RowsInv'
  BY <1>1 DEF CInv, RowsInv
<1>4. MemoryInv'
  BY <1>1, <1>2 DEF CInv, MemoryInv, Container
<1>5. ReadsBack'
  BY <1>1 DEF CInv, ReadsBack
<1>6. ListNow' = ListNow /\ EntriesNow' = EntriesNow /\ StructNow' = obj'
  BY <1>1, <1>2 DEF ListNow, EntriesNow, StructNow
<1>7. StructNow = obj /\ UNCHANGED Saved
  BY <1>1 DEF StructNow, Saved
<1>8. Now' = [Now EXCEPT !.object = obj']
  BY <1>6, NowIs, NowIsNext
<1> QED BY <1>3, <1>4, <1>5, <1>7, <1>8 DEF CInv

\* Each operation is that of an Array, a Map or an object.
LEMMA ChangesAreChanges ==
  ASSUME CInv, MaxGap = 0,
         \/ \E values \in Batch : Push(values)
         \/ \E values \in Batch, index \in 0..(MaxLength + MaxGap) : Set(values, index)
         \/ Pop
         \/ \E key \in Key, value \in Value : DictionarySet(key, value) \/ GetOrInsert(key, value)
         \/ \E key \in Key : Delete(key)
         \/ Clear
         \/ \E key \in Field, value \in Value : StructSet(key, value)
  PROVE  CInv' /\ Promised!Change
<1>1. /\ elements # Absent => elements \in Seq(Value) /\ Len(elements) <= MaxLength
      /\ map # Absent => map \in Seq(Entry) /\ UniqueKeys(map)
      /\ obj # Absent => obj \in [Field -> Value]
  BY DEF CInv, MemoryInv
<1>2. \A values \in Batch : values \in Seq(Value)
  BY DEF Batch, BoundedSeq, SeqOf
<1>3. Now.array = ListNow /\ Now.order = OrderOf(EntriesNow) /\ Now.map = MapOf(EntriesNow)
      /\ Now.object = StructNow
  BY NowIs
<1>4. ASSUME NEW values \in Batch, Push(values) PROVE CInv' /\ Promised!Change
  <2>1. elements # Absent /\ elements' = elements \o values /\ elements' \in Seq(Value)
        /\ Len(elements') <= MaxLength /\ SetDirty("list") /\ UNCHANGED <<map, obj>>
    BY <1>1, <1>2, <1>4 DEF Push
  <2>2. CInv' /\ ListNow = elements /\ UNCHANGED Saved /\ Now' = [Now EXCEPT !.array = elements']
    BY <2>1, ListChanges
  <2>3. Promised!Push(values)
    BY <1>3, <2>1, <2>2 DEF Promised!Push
  <2> QED BY <2>2, <2>3 DEF Promised!Change, Promised!Batch, Promised!BoundedSeq, Promised!SeqOf,
       Batch, BoundedSeq, SeqOf
<1>5. ASSUME NEW values \in Batch, NEW index \in 0..(MaxLength + MaxGap), Set(values, index)
      PROVE  CInv' /\ Promised!Change
  <2>1. elements # Absent /\ SetDirty("list") /\ UNCHANGED <<map, obj>>
        /\ elements \in Seq(Value) /\ index \in 0..Len(elements) /\ index \in 0..MaxLength
    BY <1>1, <1>5, BoundsAssumption DEF Set, BoundsAssumption
  <2>2. PICK n : n = IF values # <<>> /\ index + Len(values) > Len(elements)
                     THEN index + Len(values) ELSE Len(elements)
    OBVIOUS
  <2>3. /\ n <= MaxLength
        /\ elements' = [i \in 1..n |-> IF index < i /\ i <= index + Len(values) THEN values[i - index]
                                       ELSE IF i <= Len(elements) THEN elements[i] ELSE Hole]
    BY <1>5, <2>2 DEF Set
  <2>4. PICK l, w : l = elements /\ w = elements'
    OBVIOUS
  <2>5. /\ w \in Seq(Value) /\ Len(w) = n
        /\ w = SubSeq(l, 1, index) \o values \o SubSeq(l, index + Len(values) + 1, Len(l))
    <3>1. l \in Seq(Value) /\ values \in Seq(Value) /\ index \in 0..Len(l)
      BY <1>2, <2>1, <2>4
    <3>2. PICK q \in Nat : q = index + Len(values)
      BY <3>1
    <3>3. n \in Nat /\ q <= n /\ Len(l) <= n /\ (n = q \/ n = Len(l))
      <4>1. values = <<>> => q = index
        BY <3>1, <3>2
      <4> QED BY <2>2, <2>4, <3>1, <3>2, <4>1
    <3>4. PICK d : d = SubSeq(l, 1, index) \o values \o SubSeq(l, q + 1, Len(l))
      OBVIOUS
    <3>8. index \in Nat /\ index <= Len(l)
      BY <3>1
    <3>9. d \in Seq(Value) /\ Written(d, l, values, index, q, n)
      <4>1. /\ SubSeq(l, 1, index) \o values \o SubSeq(l, q + 1, Len(l)) \in Seq(Value)
            /\ Written(SubSeq(l, 1, index) \o values \o SubSeq(l, q + 1, Len(l)), l, values, index, q, n)
        BY <3>1, <3>2, <3>3, <3>8, Overwritten, Zenon
      <4> QED BY <3>4, <4>1, Zenon
    <3>5. /\ d \in Seq(Value) /\ Len(d) = n
          /\ \A i \in 1..n : d[i] = IF index < i /\ i <= q THEN values[i - index] ELSE l[i]
      BY <3>9 DEF Written
    <3>6. w = [i \in 1..n |-> IF index < i /\ i <= q THEN values[i - index] ELSE l[i]]
      <4>1. \A i \in 1..n : ~(index < i /\ i <= q) => i <= Len(l)
        BY <3>1, <3>2, <3>3
      <4> QED BY <2>3, <2>4, <3>2, <4>1
    <3>7. d = [i \in 1..n |-> IF index < i /\ i <= q THEN values[i - index] ELSE l[i]]
      BY <3>5
    <3> QED BY <3>2, <3>4, <3>5, <3>6, <3>7
  <2>6. CInv' /\ ListNow = elements /\ UNCHANGED Saved /\ Now' = [Now EXCEPT !.array = elements']
    BY <2>1, <2>3, <2>4, <2>5, ListChanges
  <2>7. Now.array = l
    BY <1>3, <2>4, <2>6
  <2>8. Promised!Set(values, index)
    <3>1. Now' = [Now EXCEPT !.array = w] /\ index <= Len(l)
      BY <2>1, <2>4, <2>6
    <3> QED BY <2>5, <2>7, <3>1 DEF Promised!Set
  <2> QED BY <2>1, <2>6, <2>8 DEF Promised!Change, Promised!Batch, Promised!BoundedSeq, Promised!SeqOf,
       Batch, BoundedSeq, SeqOf
<1>6. ASSUME Pop PROVE CInv' /\ Promised!Change
  <2>1. elements # Absent /\ SetDirty("list") /\ UNCHANGED <<map, obj>> /\ elements \in Seq(Value)
        /\ elements' = IF elements = <<>> THEN <<>> ELSE SubSeq(elements, 1, Len(elements) - 1)
    BY <1>1, <1>6 DEF Pop, Front
  <2>2. elements' \in Seq(Value) /\ Len(elements') <= MaxLength
    <3>1. CASE elements = <<>>
      BY <2>1, <3>1, BoundsAssumption DEF BoundsAssumption
    <3>2. CASE elements # <<>>
      <4>1. PICK n : n = Len(elements) - 1
        OBVIOUS
      <4>2. n \in Nat /\ n <= Len(elements) /\ n <= MaxLength
        BY <1>1, <2>1, <3>2, <4>1, BoundsAssumption DEF BoundsAssumption
      <4>3. elements' = SubSeq(elements, 1, n)
        BY <2>1, <3>2, <4>1
      <4> QED BY <2>1, <4>2, <4>3
    <3> QED BY <3>1, <3>2
  <2>3. CInv' /\ ListNow = elements /\ UNCHANGED Saved /\ Now' = [Now EXCEPT !.array = elements']
    BY <2>1, <2>2, ListChanges
  <2>4. Promised!Pop
    BY <1>3, <2>1, <2>3 DEF Promised!Pop, Promised!Front
  <2> QED BY <2>3, <2>4 DEF Promised!Change
<1>7. ASSUME NEW key \in Key, NEW value \in Value, DictionarySet(key, value)
      PROVE  CInv' /\ Promised!Change
  <2>1. map # Absent /\ SetDirty("dictionary") /\ UNCHANGED <<elements, obj>>
        /\ map' = MapSet(key, value) /\ map \in Seq(Entry) /\ UniqueKeys(map)
    BY <1>1, <1>7 DEF DictionarySet
  <2>2. PICK m, w : m = map /\ w = map'
    OBVIOUS
  <2>3. m \in Seq(Entry) /\ UniqueKeys(m) /\ DOMAIN m = 1..Len(m)
    BY <2>1, <2>2
  <2>4. HasKey(key) <=> key \in Keys(m)
    BY <2>2, <2>3 DEF HasKey, Keys
  <2>5. PICK e : e = [key |-> key, value |-> value]
    OBVIOUS
  <2>11. e \in Entry /\ e.key = key /\ e.value = value
    BY <2>5 DEF Entry
  <2>6. /\ w \in Seq(Entry) /\ UniqueKeys(w)
        /\ OrderOf(w) = IF key \in Keys(m) THEN OrderOf(m) ELSE Append(OrderOf(m), key)
        /\ IsAssigned(MapOf(w), MapOf(m), key, value)
    <3>1. CASE key \in Keys(m)
      <4>1. w = [i \in 1..Len(m) |-> IF m[i].key = key THEN e ELSE m[i]]
        BY <2>1, <2>2, <2>3, <2>4, <2>5, <3>1 DEF MapSet
      <4>2. \A i \in 1..Len(m) : m[i] \in Entry
        BY <2>3
      <4>3. w \in Seq(Entry) /\ Len(w) = Len(m) /\ \A i \in 1..Len(m) : w[i] = IF m[i].key = key THEN e ELSE m[i]
        BY <2>3, <2>11, <4>1, <4>2
      <4>5. OneReplaced(w, m, key, e)
        BY <4>3 DEF OneReplaced
      <4>4. /\ UniqueKeys(w) /\ OrderOf(w) = OrderOf(m)
            /\ IsAssigned(MapOf(w), MapOf(m), key, value)
        BY <2>3, <2>11, <3>1, <4>3, <4>5, Replaced, Zenon
      <4> QED BY <3>1, <4>3, <4>4
    <3>2. CASE key \notin Keys(m)
      <4>1. w = Append(m, e)
        BY <2>1, <2>2, <2>4, <2>5, <3>2 DEF MapSet
      <4>2. /\ w \in Seq(Entry) /\ UniqueKeys(w) /\ OrderOf(w) = Append(OrderOf(m), key)
            /\ IsAssigned(MapOf(w), MapOf(m), key, value)
        BY <2>3, <2>11, <3>2, <4>1, Appended, Zenon
      <4> QED BY <3>2, <4>2
    <3> QED BY <3>1, <3>2
  <2>7. CInv' /\ EntriesNow = map /\ UNCHANGED Saved
        /\ Now' = [Now EXCEPT !.order = OrderOf(map'), !.map = MapOf(map')]
    BY <2>1, <2>2, <2>6, DictionaryChanges
  <2>8. Now.order = OrderOf(m) /\ Now.map = MapOf(m) /\ DOMAIN Now.map = Keys(m)
    BY <1>3, <2>2, <2>3, <2>7, MapOfFacts
  <2>9. Now' = [Now EXCEPT !.order = OrderOf(w), !.map = MapOf(w)]
    BY <2>2, <2>7
  <2>10. Promised!Insert(key, value)
    BY <2>6, <2>8, <2>9 DEF Promised!Insert, IsAssigned
  <2> QED BY <2>7, <2>10 DEF Promised!Change
<1>8. ASSUME NEW key \in Key, Delete(key) PROVE CInv' /\ Promised!Change
  <2>1. map # Absent /\ SetDirty("dictionary") /\ UNCHANGED <<elements, obj>>
        /\ map' = MapDelete(key) /\ map \in Seq(Entry) /\ UniqueKeys(map)
    BY <1>1, <1>8 DEF Delete
  <2>2. PICK m, w, p : m = map /\ w = map' /\ p = Position(map, key)
    OBVIOUS
  <2>3. m \in Seq(Entry) /\ UniqueKeys(m) /\ DOMAIN m = 1..Len(m)
    BY <2>1, <2>2
  <2>4. HasKey(key) <=> key \in Keys(m)
    BY <2>2, <2>3 DEF HasKey, Keys
  <2>5. w = IF key \in Keys(m) THEN RemoveAt(m, p) ELSE m
    BY <2>1, <2>2, <2>4 DEF MapDelete
  <2>6. key \in Keys(m) => p \in 1..Len(m) /\ m[p].key = key
    BY <2>2, <2>3, <2>4 DEF Position, HasKey
  <2>7. /\ OrderOf(m) \in Seq(Key) /\ Len(OrderOf(m)) = Len(m) /\ IsInjective(OrderOf(m))
        /\ \A i \in 1..Len(m) : OrderOf(m)[i] = m[i].key
        /\ MapOf(m) \in [Keys(m) -> Value]
    BY <2>3, MapOfFacts
  <2>8. /\ w \in Seq(Entry) /\ UniqueKeys(w)
        /\ OrderOf(w) = IF key \in Keys(m) THEN RemoveAt(OrderOf(m), p) ELSE OrderOf(m)
        /\ MapOf(w) = [k \in Keys(m) \ {key} |-> MapOf(m)[k]]
    <3>1. CASE key \in Keys(m)
      BY <2>3, <2>5, <2>6, <3>1, Removed
    <3>2. CASE key \notin Keys(m)
      <4>1. w = m /\ Keys(m) \ {key} = Keys(m)
        BY <2>5, <3>2
      <4>2. MapOf(m) = [k \in Keys(m) |-> MapOf(m)[k]]
        BY <2>7
      <4> QED BY <2>3, <3>2, <4>1, <4>2
    <3> QED BY <3>1, <3>2
  <2>9. CInv' /\ EntriesNow = map /\ UNCHANGED Saved
        /\ Now' = [Now EXCEPT !.order = OrderOf(map'), !.map = MapOf(map')]
    BY <2>1, <2>2, <2>8, DictionaryChanges
  <2>10. Now.order = OrderOf(m) /\ Now.map = MapOf(m) /\ DOMAIN Now.map = Keys(m)
    BY <1>3, <2>2, <2>7, <2>9
  <2>11. key \in Keys(m) => (CHOOSE i \in DOMAIN OrderOf(m) : OrderOf(m)[i] = key) = p
    <3>1. DOMAIN OrderOf(m) = 1..Len(m)
      BY <2>7
    <3>2. \A i \in DOMAIN OrderOf(m) : key \in Keys(m) => (OrderOf(m)[i] = key <=> i = p)
      BY <2>6, <2>7, <3>1 DEF IsInjective
    <3> QED BY <2>6, <3>1, <3>2
  <2>12. Now' = [Now EXCEPT !.order = OrderOf(w), !.map = MapOf(w)]
    BY <2>2, <2>9
  <2>13. Promised!Erase(key)
    BY <2>8, <2>10, <2>11, <2>12 DEF Promised!Erase, Promised!RemoveAt, RemoveAt
  <2> QED BY <2>9, <2>13 DEF Promised!Change
<1>9. ASSUME Clear PROVE CInv' /\ Promised!Change
  <2>1. map # Absent /\ SetDirty("dictionary") /\ UNCHANGED <<elements, obj>> /\ map' = <<>>
        /\ map' \in Seq(Entry) /\ UniqueKeys(map')
    BY <1>9 DEF Clear, UniqueKeys
  <2>2. CInv' /\ UNCHANGED Saved /\ Now' = [Now EXCEPT !.order = OrderOf(map'), !.map = MapOf(map')]
    BY <2>1, DictionaryChanges
  <2>3. OrderOf(<<>>) = <<>> /\ MapOf(<<>>) = [k \in {} |-> Now.map[k]]
    BY DEF OrderOf, MapOf
  <2>4. Promised!EraseAll
    BY <2>1, <2>2, <2>3 DEF Promised!EraseAll
  <2> QED BY <2>2, <2>4 DEF Promised!Change
<1>10. ASSUME NEW key \in Field, NEW value \in Value, StructSet(key, value)
       PROVE  CInv' /\ Promised!Change
  <2>1. obj # Absent /\ SetDirty("struct") /\ UNCHANGED <<elements, map>>
        /\ obj' = [obj EXCEPT ![key] = value] /\ obj' \in [Field -> Value]
    BY <1>1, <1>10 DEF StructSet
  <2>2. CInv' /\ StructNow = obj /\ UNCHANGED Saved /\ Now' = [Now EXCEPT !.object = obj']
    BY <2>1, StructChanges
  <2>3. Promised!Assign(key, value)
    BY <1>3, <2>1, <2>2 DEF Promised!Assign
  <2> QED BY <2>2, <2>3 DEF Promised!Change
<1> QED BY <1>4, <1>5, <1>6, <1>7, <1>8, <1>9, <1>10 DEF GetOrInsert

----------------------------------------------------------------------------
(* Steps that change nothing a program sees, or all of it.                 *)

\* Reading a container back shows what it was written with.
LEMMA LoadIsUnseen ==
  ASSUME CInv, NEW c \in Container, Load(c) PROVE CInv' /\ UNCHANGED Now /\ UNCHANGED Saved
<1>1. rows' = rows /\ dirty' = dirty /\ RowsInv' /\ UNCHANGED Saved
  BY DEF Load, CInv, RowsInv, Saved
<1>2. CASE c = "list" /\ elements = Absent /\ elements' = DeserializeList(rows["list"])
           /\ UNCHANGED <<map, obj>>
  <2>1. /\ elements' \in Seq(Value) /\ Len(elements') <= MaxLength /\ Len(elements') = Len(rows["list"])
        /\ elements' # Absent
    BY <1>2, ReadList, Present DEF CInv, RowsInv
  <2>2. MemoryInv' /\ ReadsBack'
    BY <1>1, <1>2, <2>1 DEF CInv, MemoryInv, ReadsBack
  <2>3. ListNow' = ListNow /\ EntriesNow' = EntriesNow /\ StructNow' = StructNow
    BY <1>1, <1>2, <2>1 DEF ListNow, EntriesNow, StructNow
  <2> QED BY <1>1, <2>2, <2>3, NowIs, NowIsNext DEF CInv
<1>3. CASE c = "dictionary" /\ map = Absent /\ map' = DeserializeDictionary(rows["dictionary"])
           /\ UNCHANGED <<elements, obj>>
  <2>1. map' \in Seq(Entry) /\ UniqueKeys(map') /\ map' # Absent
    BY <1>3, ReadDictionary, Present DEF CInv, RowsInv
  <2>2. MemoryInv' /\ ReadsBack'
    BY <1>1, <1>3, <2>1 DEF CInv, MemoryInv, ReadsBack, UniqueKeys
  <2>3. ListNow' = ListNow /\ EntriesNow' = EntriesNow /\ StructNow' = StructNow
    BY <1>1, <1>3, <2>1 DEF ListNow, EntriesNow, StructNow
  <2> QED BY <1>1, <2>2, <2>3, NowIs, NowIsNext DEF CInv
<1>4. CASE c = "struct" /\ obj = Absent /\ obj' = DeserializeStruct(rows["struct"])
           /\ UNCHANGED <<elements, map>>
  <2>1. obj' \in [Field -> Value] /\ obj' # Absent
    BY <1>4, ReadStruct, Present DEF CInv, RowsInv
  <2>2. MemoryInv' /\ ReadsBack'
    BY <1>1, <1>4, <2>1 DEF CInv, MemoryInv, ReadsBack
  <2>3. ListNow' = ListNow /\ EntriesNow' = EntriesNow /\ StructNow' = StructNow
    BY <1>1, <1>4, <2>1 DEF ListNow, EntriesNow, StructNow
  <2> QED BY <1>1, <2>2, <2>3, NowIs, NowIsNext DEF CInv
<1> QED BY <1>2, <1>3, <1>4 DEF Load

\* A container that is collected was like its row.
LEMMA EvictIsUnseen ==
  ASSUME CInv, NEW c \in Container, Evict(c) PROVE CInv' /\ UNCHANGED Now /\ UNCHANGED Saved
<1>1. rows' = rows /\ dirty' = dirty /\ RowsInv' /\ UNCHANGED Saved
  BY DEF Evict, CInv, RowsInv, Saved
<1>2. CASE c = "list" /\ c \notin dirty /\ elements # Absent /\ elements' = Absent /\ UNCHANGED <<map, obj>>
  <2>1. MemoryInv' /\ ReadsBack'
    BY <1>1, <1>2 DEF CInv, MemoryInv, ReadsBack
  <2>2. ListNow' = ListNow /\ EntriesNow' = EntriesNow /\ StructNow' = StructNow
    BY <1>1, <1>2 DEF ListNow, EntriesNow, StructNow, CInv, ReadsBack
  <2> QED BY <1>1, <2>1, <2>2, NowIs, NowIsNext DEF CInv
<1>3. CASE c = "dictionary" /\ c \notin dirty /\ map # Absent /\ map' = Absent /\ UNCHANGED <<elements, obj>>
  <2>1. MemoryInv' /\ ReadsBack'
    BY <1>1, <1>3 DEF CInv, MemoryInv, ReadsBack
  <2>2. ListNow' = ListNow /\ EntriesNow' = EntriesNow /\ StructNow' = StructNow
    BY <1>1, <1>3 DEF ListNow, EntriesNow, StructNow, CInv, ReadsBack
  <2> QED BY <1>1, <2>1, <2>2, NowIs, NowIsNext DEF CInv
<1>4. CASE c = "struct" /\ c \notin dirty /\ obj # Absent /\ obj' = Absent /\ UNCHANGED <<elements, map>>
  <2>1. MemoryInv' /\ ReadsBack'
    BY <1>1, <1>4 DEF CInv, MemoryInv, ReadsBack
  <2>2. ListNow' = ListNow /\ EntriesNow' = EntriesNow /\ StructNow' = StructNow
    BY <1>1, <1>4 DEF ListNow, EntriesNow, StructNow, CInv, ReadsBack
  <2> QED BY <1>1, <2>1, <2>2, NowIs, NowIsNext DEF CInv
<1> QED BY <1>2, <1>3, <1>4 DEF Evict

\* After a flush the rows are what a program sees, of all containers.
LEMMA FlushSaves ==
  ASSUME CInv, NegativeZero \notin Value, Flush PROVE CInv' /\ Promised!Save
<1>1. /\ elements' = elements /\ map' = map /\ obj' = obj /\ dirty' = {}
      /\ rows' = [c \in Container |-> IF c \in dirty THEN Serialized(c) ELSE rows[c]]
  BY DEF Flush
<1>2. /\ rows'["list"] = IF "list" \in dirty THEN SerializeList(elements) ELSE rows["list"]
      /\ rows'["dictionary"] = IF "dictionary" \in dirty THEN SerializeDictionary(map)
                               ELSE rows["dictionary"]
      /\ rows'["struct"] = IF "struct" \in dirty THEN SerializeStruct(obj) ELSE rows["struct"]
  BY <1>1 DEF Container, Serialized
<1>3. /\ rows'["list"] \in Seq(Cell) /\ Len(rows'["list"]) <= MaxLength
      /\ DeserializeList(rows'["list"]) = ListNow
  <2>1. CASE "list" \in dirty
    BY <1>2, <2>1, ListReadBack DEF CInv, MemoryInv, ListNow
  <2>2. CASE "list" \notin dirty
    BY <1>2, <2>2 DEF CInv, RowsInv, ReadsBack, ListNow
  <2> QED BY <2>1, <2>2
<1>4. rows'["dictionary"] \in Seq(Key \X Cell) /\ DeserializeDictionary(rows'["dictionary"]) = EntriesNow
  <2>1. CASE "dictionary" \in dirty
    BY <1>2, <2>1, DictionaryReadBack DEF CInv, MemoryInv, EntriesNow
  <2>2. CASE "dictionary" \notin dirty
    BY <1>2, <2>2 DEF CInv, RowsInv, ReadsBack, EntriesNow
  <2> QED BY <2>1, <2>2
<1>5. rows'["struct"] \in [Field -> Cell] /\ DeserializeStruct(rows'["struct"]) = StructNow
  <2>1. CASE "struct" \in dirty
    BY <1>2, <2>1, StructReadBack DEF CInv, MemoryInv, StructNow
  <2>2. CASE "struct" \notin dirty
    BY <1>2, <2>2 DEF CInv, RowsInv, ReadsBack, StructNow
  <2> QED BY <2>1, <2>2
<1>6. UniqueKeys(EntriesNow)
  BY NowTypes
<1>7. RowsInv'
  <2>1. rows' = [c \in Container |-> rows'[c]]
    BY <1>1
  <2>2. UniqueKeys(DeserializeDictionary(rows'["dictionary"]))
    BY <1>4, <1>6
  <2> QED BY <1>3, <1>4, <1>5, <2>1, <2>2 DEF RowsInv, UniqueKeys, DeserializeDictionary, FromInternalValue
<1>8. MemoryInv'
  BY <1>1 DEF CInv, MemoryInv, UniqueKeys
<1>9. Len(DeserializeList(rows'["list"])) = Len(rows'["list"])
  BY <1>3, ReadList
<1>10. ReadsBack'
  BY <1>1, <1>3, <1>4, <1>5, <1>9 DEF ReadsBack, ListNow, EntriesNow, StructNow
<1>11. ListNow' = ListNow /\ EntriesNow' = EntriesNow /\ StructNow' = StructNow
  BY <1>1, <1>3, <1>4, <1>5 DEF ListNow, EntriesNow, StructNow
<1>12. Now' = Now
  BY <1>11, NowIs, NowIsNext
<1>13. Saved' = Now
  BY <1>3, <1>4, <1>5, NowIs DEF Saved, Contents
<1> QED BY <1>7, <1>8, <1>10, <1>12, <1>13 DEF CInv, Promised!Save

\* The next process sees what the rows hold.
LEMMA CrashRestores ==
  ASSUME CInv, Crash PROVE CInv' /\ Promised!Restart
<1>1. rows' = rows /\ dirty' = {} /\ elements' = Absent /\ map' = Absent /\ obj' = Absent
  BY DEF Crash
<1>2. RowsInv' /\ MemoryInv' /\ ReadsBack'
  BY <1>1 DEF CInv, RowsInv, MemoryInv, ReadsBack
<1>3. Saved' = Saved
  BY <1>1 DEF Saved
<1>4. Now' = Saved
  BY <1>1 DEF Now, Saved
<1> QED BY <1>2, <1>3, <1>4 DEF CInv, Promised!Restart

----------------------------------------------------------------------------
(* The theorems.                                                           *)

\* What a program sees is an Array, a Map whose keys stand in an order, and an object.
LEMMA NowIsContents ==
  ASSUME CInv PROVE Now \in Promised!Contents /\ ToSet(Now.order) = DOMAIN Now.map
<1>1. PICK l, m, o : l = ListNow /\ m = EntriesNow /\ o = StructNow
  OBVIOUS
<1>2. l \in Seq(Value) /\ Len(l) <= MaxLength /\ m \in Seq(Entry) /\ UniqueKeys(m) /\ o \in [Field -> Value]
  BY <1>1, NowTypes
<1>3. /\ OrderOf(m) \in Seq(Key) /\ IsInjective(OrderOf(m)) /\ ToSet(OrderOf(m)) = Keys(m)
      /\ Keys(m) \subseteq Key /\ MapOf(m) \in [Keys(m) -> Value]
  BY <1>2, MapOfFacts
<1>4. Now = [array |-> l, order |-> OrderOf(m), map |-> MapOf(m), object |-> o]
  BY <1>1, NowIs
<1>5. l \in Promised!BoundedSeq(Value, MaxLength)
  BY <1>2, BoundsAssumption DEF BoundsAssumption, Promised!BoundedSeq, Promised!SeqOf
<1>6. OrderOf(m) \in {s \in Seq(Key) : Promised!IsInjective(s)}
  BY <1>3 DEF IsInjective, Promised!IsInjective
<1>7. MapOf(m) \in UNION {[K -> Value] : K \in SUBSET Key}
  BY <1>3
<1>8. Now \in Promised!Contents
  BY <1>2, <1>4, <1>5, <1>6, <1>7 DEF Promised!Contents
<1> QED BY <1>3, <1>4, <1>8

\* The empty containers satisfy the invariant, and are as saved.
LEMMA InitCInv ==
  ASSUME NegativeZero \notin Value, Init PROVE CInv /\ Promised!Init
<1>1. PICK v \in Value : obj = [k \in Field |-> v]
  BY DEF Init
<1>2. /\ elements = <<>> /\ map = <<>> /\ obj \in [Field -> Value] /\ dirty = {}
      /\ rows = [list |-> <<>>, dictionary |-> <<>>, struct |-> SerializeStruct(obj)]
  BY <1>1 DEF Init
<1>3. elements # Absent /\ map # Absent /\ obj # Absent
  <2>1. elements \in Seq(Value) /\ map \in Seq(Entry) /\ obj \in [Field -> Value]
    BY <1>2
  <2> QED BY <2>1, Present, Zenon
<1>4. DeserializeList(<<>>) = <<>> /\ DeserializeDictionary(<<>>) = <<>>
  BY DEF DeserializeList, DeserializeDictionary
<1>5. rows["list"] = <<>> /\ rows["dictionary"] = <<>> /\ rows["struct"] = SerializeStruct(obj)
  BY <1>2
<1>6. rows["struct"] \in [Field -> Cell] /\ DeserializeStruct(rows["struct"]) = obj
  BY <1>2, <1>5, StructReadBack
<1>7. RowsInv
  <2>1. rows = [c \in Container |-> rows[c]]
    BY <1>2 DEF Container
  <2> QED BY <1>4, <1>5, <1>6, <2>1, BoundsAssumption DEF RowsInv, BoundsAssumption, UniqueKeys
<1>8. MemoryInv
  BY <1>2, BoundsAssumption DEF MemoryInv, BoundsAssumption, UniqueKeys
<1>9. ReadsBack
  BY <1>2, <1>4, <1>5, <1>6 DEF ReadsBack
<1>10. CInv
  BY <1>7, <1>8, <1>9 DEF CInv
<1>11. Saved = Now
  BY <1>2, <1>3, <1>4, <1>5, <1>6 DEF Saved, Now
<1>12. Promised!Init
  BY <1>10, <1>11, NowIsContents DEF Promised!Init, ToSet, Promised!ToSet
<1> QED BY <1>10, <1>12

\* Every step keeps the invariant and is one of a Collection, or none.
LEMMA NextCInv ==
  ASSUME MaxGap = 0, NegativeZero \notin Value, CInv, [Next]_vars
  PROVE  CInv' /\ [Promised!Next]_Promised!vars
<1>1. CASE UNCHANGED vars
  <2>1. CInv'
    BY <1>1 DEF vars, CInv, RowsInv, MemoryInv, ReadsBack, UniqueKeys
  <2>2. UNCHANGED Now /\ UNCHANGED Saved
    BY <1>1 DEF vars, Now, Saved
  <2> QED BY <2>1, <2>2 DEF Promised!vars
<1>2. CASE \E c \in Container : Load(c) \/ Evict(c)
  BY <1>2, LoadIsUnseen, EvictIsUnseen DEF Promised!vars
<1>3. CASE Flush
  BY <1>3, FlushSaves DEF Promised!Next
<1>4. CASE Crash
  BY <1>4, CrashRestores DEF Promised!Next
<1>5. CASE \/ \E values \in Batch : Push(values)
           \/ \E values \in Batch, index \in 0..(MaxLength + MaxGap) : Set(values, index)
           \/ Pop
           \/ \E key \in Key, value \in Value : DictionarySet(key, value) \/ GetOrInsert(key, value)
           \/ \E key \in Key : Delete(key)
           \/ Clear
           \/ \E key \in Field, value \in Value : StructSet(key, value)
  BY <1>5, ChangesAreChanges DEF Promised!Next
<1> QED BY <1>1, <1>2, <1>3, <1>4, <1>5 DEF Next

\* Values other than -0, and Lists without holes: the invariant holds.
THEOREM ContainersInvariant ==
  ASSUME MaxGap = 0, NegativeZero \notin Value PROVE Spec => []CInv
<1>1. Init => CInv
  BY InitCInv
<1>2. CInv /\ [Next]_vars => CInv'
  BY NextCInv
<1> QED BY <1>1, <1>2, PTL DEF Spec

\* A container in memory that has nothing to be written is what its row reads back as.
THEOREM EverythingReadsBack ==
  ASSUME MaxGap = 0, NegativeZero \notin Value PROVE Spec => []ReadsBack
<1>1. CInv => ReadsBack
  BY DEF CInv
<1> QED BY <1>1, ContainersInvariant, PTL

\* The containers have the types of the store's objects.
THEOREM ContainerTypes ==
  ASSUME MaxGap = 0, NegativeZero \notin Value PROVE Spec => []TypeOK
<1>1. CInv => TypeOK
  <2> SUFFICES ASSUME CInv PROVE TypeOK
    OBVIOUS
  <2>1. elements = Absent \/ elements \in BoundedSeq(Value \cup {Hole}, MaxLength)
    BY BoundsAssumption DEF CInv, MemoryInv, BoundsAssumption, BoundedSeq, SeqOf
  <2>2. DOMAIN rows = Container
    BY DEF CInv, RowsInv
  <2> QED BY <2>1, <2>2 DEF CInv, MemoryInv, TypeOK
<1> QED BY <1>1, ContainersInvariant, PTL

\* A List, a Dictionary and a Struct that are written, collected, read back and lost with
\* the process change like an Array, a Map in its order and an object, are saved all at
\* once, and a restart goes back to what was saved.
THEOREM ContainersAreCollections ==
  ASSUME MaxGap = 0, NegativeZero \notin Value PROVE Spec => ImplementsCollections
<1>1. Init => CInv /\ Promised!Init
  BY InitCInv
<1>2. CInv /\ [Next]_vars => CInv' /\ [Promised!Next]_Promised!vars
  BY NextCInv
<1> QED BY <1>1, <1>2, PTL DEF Spec, ImplementsCollections, Promised!Spec
=============================================================================
