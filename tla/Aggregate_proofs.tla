-------------------------- MODULE Aggregate_proofs ---------------------------
(***************************************************************************)
(* Proofs about Aggregate for any inputs and iterables of any length: the  *)
(* count of the AggregateDB is exact, and the result is what the           *)
(* combinator promises, whatever the order in which the inputs settle.     *)
(***************************************************************************)
EXTENDS Aggregate, FiniteSetTheorems, SequenceTheorems, TLAPS

----------------------------------------------------------------------------
(* Sets of indices in ascending order.                                     *)

\* InOrder lists each index of a set once.
LEMMA InOrderFacts ==
  ASSUME NEW n \in Nat, NEW S \in SUBSET (1..n)
  PROVE  /\ InOrder(S) \in Seq(S)
         /\ \A i \in S : \E k \in 1..Len(InOrder(S)) : InOrder(S)[k] = i
         /\ \A k, l \in 1..Len(InOrder(S)) : InOrder(S)[k] = InOrder(S)[l] => k = l
<1> DEFINE below(i) == {j \in S : j < i}
           c == Cardinality(S)
<1>0. \A i \in S : i \in Int
  OBVIOUS
<1>1. IsFiniteSet(S) /\ c \in Nat
  <2>1. IsFiniteSet(1..n)
    BY FS_Interval
  <2> QED BY <2>1, FS_Subset, FS_CardinalityType
<1>2. \A i \in S : Cardinality(below(i)) \in 0..c - 1
  <2> SUFFICES ASSUME NEW i \in S PROVE Cardinality(below(i)) \in 0..c - 1
    OBVIOUS
  <2>1. below(i) \in SUBSET S /\ i \notin below(i) /\ i \in S
    OBVIOUS
  <2> HIDE DEF below
  <2>2. IsFiniteSet(below(i)) /\ Cardinality(below(i)) \in Nat /\ Cardinality(below(i)) <= c
    BY <1>1, <2>1, FS_Subset, FS_CardinalityType
  <2>3. Cardinality(below(i)) # c
    BY <1>1, <2>1, FS_Subset
  <2> QED BY <1>1, <2>2, <2>3
<1>3. \A i, j \in S : i < j => Cardinality(below(i)) < Cardinality(below(j))
  <2> SUFFICES ASSUME NEW i \in S, NEW j \in S, i < j
               PROVE  Cardinality(below(i)) < Cardinality(below(j))
    OBVIOUS
  <2>1. below(i) \in SUBSET below(j) /\ i \notin below(i) /\ i \in below(j) /\ below(j) \in SUBSET S
    <3>1. \A x \in S : x < i => x < j
      BY <1>0
    <3>2. ~(i < i)
      BY <1>0
    <3> QED BY <3>1, <3>2
  <2> HIDE DEF below
  <2>2. IsFiniteSet(below(j)) /\ IsFiniteSet(below(i))
    BY <1>1, <2>1, FS_Subset
  <2>3. /\ Cardinality(below(j)) \in Nat /\ Cardinality(below(i)) \in Nat
        /\ Cardinality(below(i)) <= Cardinality(below(j))
        /\ Cardinality(below(i)) # Cardinality(below(j))
    BY <2>1, <2>2, FS_Subset, FS_CardinalityType
  <2> QED BY <2>3
<1> DEFINE rank == [i \in S |-> Cardinality(below(i))]
<1>4. rank \in Injection(S, 0..c - 1)
  <2>1. rank \in [S -> 0..c - 1]
    BY <1>2
  <2>2. \A i, j \in S : i # j => rank[i] # rank[j]
    <3> SUFFICES ASSUME NEW i \in S, NEW j \in S, i # j PROVE rank[i] # rank[j]
      OBVIOUS
    <3>1. i < j \/ j < i
      OBVIOUS
    <3>2. rank[i] = Cardinality(below(i)) /\ rank[j] = Cardinality(below(j))
      OBVIOUS
    <3>3. Cardinality(below(i)) \in Int /\ Cardinality(below(j)) \in Int
      BY <1>1, <1>2
    <3> HIDE DEF below, rank
    <3> QED BY <1>3, <3>1, <3>2, <3>3
  <2> HIDE DEF rank
  <2> QED BY <2>1, <2>2 DEF Injection, IsInjective
<1>5. rank \in Surjection(S, 0..c - 1)
  <2>1. IsFiniteSet(0..c - 1) /\ Cardinality(0..c - 1) = c
    BY <1>1, FS_Interval
  <2> HIDE DEF rank
  <2> QED BY <1>1, <1>4, <2>1, FS_Injection
<1>6. ASSUME NEW k \in 1..c PROVE \E i \in S : Cardinality(below(i)) = k - 1
  <2>1. k - 1 \in 0..c - 1
    BY <1>1
  <2>2. PICK i \in S : rank[i] = k - 1
    BY <1>5, <2>1 DEF Surjection
  <2> QED BY <2>2
<1>7. InOrder(S) = [k \in 1..c |-> CHOOSE i \in S : Cardinality(below(i)) = k - 1]
  BY DEF InOrder
<1>8. \A k \in 1..c : InOrder(S)[k] \in S /\ Cardinality(below(InOrder(S)[k])) = k - 1
  <2> HIDE DEF below
  <2> QED BY <1>6, <1>7
<1>9. InOrder(S) \in Seq(S) /\ Len(InOrder(S)) = c
  <2>1. InOrder(S) \in [1..c -> S]
    BY <1>7, <1>8
  <2> QED BY <1>1, <2>1
<1>10. \A i \in S : \E k \in 1..c : InOrder(S)[k] = i
  <2> SUFFICES ASSUME NEW i \in S PROVE \E k \in 1..c : InOrder(S)[k] = i
    OBVIOUS
  <2>1. PICK k \in 1..c : k - 1 = Cardinality(below(i))
    <3>1. Cardinality(below(i)) \in 0..c - 1
      BY <1>2
    <3> HIDE DEF below, c
    <3>2. Cardinality(below(i)) + 1 \in 1..c /\ Cardinality(below(i)) \in Int
      BY <1>1, <3>1
    <3>3. (Cardinality(below(i)) + 1) - 1 = Cardinality(below(i))
      BY <3>2
    <3> QED BY <3>2, <3>3
  <2>2. PICK q \in S : q = InOrder(S)[k] /\ Cardinality(below(q)) = Cardinality(below(i))
    BY <1>8, <2>1
  <2>3. Cardinality(below(i)) \in Int
    BY <1>1, <1>2
  <2> HIDE DEF below, rank, c
  <2>4. ~(q < i) /\ ~(i < q)
    BY <1>3, <2>2, <2>3
  <2> QED BY <1>0, <2>2, <2>4
<1>11. \A k, l \in 1..c : InOrder(S)[k] = InOrder(S)[l] => k = l
  <2> HIDE DEF below
  <2> QED BY <1>1, <1>8
<1> QED BY <1>9, <1>10, <1>11

----------------------------------------------------------------------------
(* The inductive invariant.                                                *)

Collecting == {"all", "any", "allSettled"}

\* The elements whose reaction has run.
Ran == {order[k] : k \in 1..Len(order) - Len(jobs)}

\* What settleElement is given for element i.
Kept(i) == IF kind = "allSettled" THEN outcome[elements[i]] ELSE outcome[elements[i]].value

\* Each settled element was queued once, and what is still queued was queued last.
QueueInv ==
  /\ kind \in Kind \cup {"none"}
  /\ elements \in Seq(Input) /\ Len(elements) <= MaxLength
  /\ outcome \in [Input -> Outcome \cup {Pending}]
  /\ order \in Seq(1..Len(elements)) /\ jobs \in Seq(1..Len(elements))
  /\ kind = "none" => elements = <<>>
  /\ \A k, l \in 1..Len(order) : order[k] = order[l] => k = l
  /\ \A i \in 1..Len(elements) :
       outcome[elements[i]] # Pending <=> \E k \in 1..Len(order) : order[k] = i
  /\ Len(jobs) <= Len(order)
  /\ \A k \in 1..Len(jobs) : jobs[k] = order[Len(order) - Len(jobs) + k]

\* The AggregateDB has a value for each element whose reaction has run and went through it.
ValuesInv ==
  /\ counted \in BOOLEAN
  /\ ~counted => values = <<>> /\ remaining = 0
  /\ counted =>
       /\ kind \in Collecting
       /\ values \in Seq(Element) /\ Len(values) = Len(elements)
       /\ \A i \in 1..Len(elements) :
            values[i] = IF i \in Ran /\ Collected(kind, outcome[elements[i]].type)
                        THEN Kept(i) ELSE Undefined
       /\ RemainingExact

\* As long as the result is Pending nothing has run that decides it.
ResultInv ==
  /\ result \in {Pending, Promised, ThrownResult}
  /\ result # Pending => result.type \in Settled
  /\ kind = "none" => result = Pending
  /\ result # ThrownResult /\ kind \in Collecting => counted
  /\ result = Pending => \A i \in Ran : Collected(kind, outcome[elements[i]].type)

AInv == QueueInv /\ ValuesInv /\ ResultInv

\* The types of the values.
LEMMA AInvTypes == AInv => TypeOK
<1> SUFFICES ASSUME AInv PROVE TypeOK
  OBVIOUS
<1>1. jobs \in Seq(1..MaxLength) /\ order \in Seq(1..MaxLength)
  BY AggregateAssumption DEF AInv, QueueInv
<1>2. values \in Seq(Element) /\ remaining \in Nat
  <2>1. CASE ~counted
    BY <2>1 DEF AInv, ValuesInv
  <2>2. CASE counted
    <3>1. values \in Seq(Element) /\ Len(values) \in Nat /\ DOMAIN values = 1..Len(values)
      BY <2>2 DEF AInv, ValuesInv
    <3>2. remaining = Cardinality({i \in DOMAIN values : values[i] = Undefined})
      BY <2>2 DEF AInv, ValuesInv, RemainingExact
    <3>3. IsFiniteSet({i \in DOMAIN values : values[i] = Undefined})
      <4>1. IsFiniteSet(1..Len(values))
        BY <3>1, FS_Interval
      <4> QED BY <3>1, <4>1, FS_Subset
    <3> QED BY <3>1, <3>2, <3>3, FS_CardinalityType
  <2> QED BY <2>1, <2>2
<1>3. result.type \in Settled \cup {"Pending"}
  BY DEF AInv, ResultInv, Pending
<1> QED BY <1>1, <1>2, <1>3 DEF TypeOK, AInv, QueueInv, ValuesInv

----------------------------------------------------------------------------
(* What a combinator promises.                                             *)

\* A nonempty set of naturals has a least element.
LEMMA Least ==
  ASSUME NEW T \in SUBSET Nat, T # {}
  PROVE  \E x \in T : \A y \in T : x <= y
<1>1. PICK t \in T : TRUE
  OBVIOUS
<1> DEFINE below == {0..x : x \in {x \in T : x <= t}}
<1>2. below \subseteq FiniteSubsetsOf(Nat) /\ below # {}
  <2>1. \A x \in T : 0..x \in SUBSET Nat /\ IsFiniteSet(0..x)
    BY FS_Interval
  <2> QED BY <1>1, <2>1 DEF FiniteSubsetsOf
<1>3. PICK m \in below : \A b \in below : <<b, m>> \notin StrictSubsetOrdering(Nat)
  <2> HIDE DEF below
  <2> QED BY <1>2, FS_StrictSubsetOrderingWellFounded, WFMin
<1>4. PICK x \in T : x <= t /\ m = 0..x
  OBVIOUS
<1>5. ASSUME NEW y \in T, y < x PROVE FALSE
  <2>1. 0..y \in below
    BY <1>4, <1>5
  <2>2. 0..y \subseteq m /\ 0..y # m
    BY <1>4, <1>5
  <2>3. 0..y \in SUBSET Nat /\ m \in SUBSET Nat
    BY <1>4
  <2> QED BY <1>3, <2>1, <2>2, <2>3 DEF StrictSubsetOrdering
<1> QED BY <1>4, <1>5

\* Element p of the order is the first of the types.
IsFirst(p, types) ==
  /\ p \in 1..Len(order)
  /\ OutcomeAt(p).type \in types
  /\ \A m \in 1..Len(order) : m < p => OutcomeAt(m).type \notin types

\* First is the outcome of the element that was queued before all others of the types.
LEMMA FirstFacts ==
  QueueInv => \A types \in SUBSET Settled : \A p \in Nat :
                IsFirst(p, types) => First(types) = OutcomeAt(p)
<1> SUFFICES ASSUME QueueInv, NEW types \in SUBSET Settled, NEW p \in Nat, IsFirst(p, types)
             PROVE  First(types) = OutcomeAt(p)
  OBVIOUS
<1> DEFINE found == {n \in DOMAIN order : OutcomeAt(n).type \in types}
<1>1. DOMAIN order = 1..Len(order) /\ Len(order) \in Nat
  BY DEF QueueInv
<1>2. p \in found /\ found \subseteq 1..Len(order)
  BY <1>1 DEF IsFirst
<1>3. \A n \in found : n <= p => n = p
  BY <1>1 DEF IsFirst
<1>4. \A m \in found : p <= m
  BY <1>1 DEF IsFirst
<1>5. First(types) = IF found = {} THEN Pending
                     ELSE OutcomeAt(CHOOSE n \in found : \A m \in found : n <= m)
  BY DEF First
<1> HIDE DEF found
<1>6. (CHOOSE n \in found : \A m \in found : n <= m) = p
  BY <1>2, <1>3, <1>4
<1> QED BY <1>2, <1>5, <1>6

\* If there is any there is a first one.
LEMMA FirstExists ==
  ASSUME QueueInv, NEW types, First(types) # Pending
  PROVE  \E p \in 1..Len(order) : IsFirst(p, types)
<1> DEFINE found == {n \in DOMAIN order : OutcomeAt(n).type \in types}
<1>1. DOMAIN order = 1..Len(order) /\ Len(order) \in Nat
  BY DEF QueueInv
<1>2. found # {} /\ found \in SUBSET Nat
  BY <1>1 DEF First
<1>3. PICK p \in found : \A m \in found : p <= m
  <2> HIDE DEF found
  <2> QED BY <1>2, Least
<1>4. \A m \in 1..Len(order) : m < p => OutcomeAt(m).type \notin types
  BY <1>1, <1>3
<1> QED BY <1>1, <1>3, <1>4 DEF IsFirst

\* Promised, combinator by combinator.
PromisedByKind ==
  /\ kind = "none" => Promised = Pending
  /\ kind = "race" => Promised = First(Settled)
  /\ kind = "all" =>
       /\ AllIn({"Fulfilled"}) => Promised = Collect("Fulfilled", LAMBDA o : o.value)
       /\ ~AllIn({"Fulfilled"}) => Promised = First({"Rejected"})
  /\ kind = "any" =>
       /\ AllIn({"Rejected"}) => Promised = Collect("Rejected", LAMBDA o : o.value)
       /\ ~AllIn({"Rejected"}) => Promised = First({"Fulfilled"})
  /\ kind = "allSettled" =>
       /\ AllIn(Settled) => Promised = Collect("Fulfilled", LAMBDA o : o)
       /\ ~AllIn(Settled) => Promised = Pending

\* Promised is one of these.
LEMMA PromisedFacts == PromisedByKind
BY Zenon DEF Promised, PromisedByKind

\* The outcomes of what is queued or has run.
LEMMA OutcomeFacts ==
  ASSUME QueueInv
  PROVE  /\ Len(order) \in Nat /\ Len(jobs) \in Nat /\ Len(elements) \in Nat
         /\ DOMAIN elements = 1..Len(elements)
         /\ \A i \in 1..Len(elements) : elements[i] \in Input
         /\ \A i \in 1..Len(elements) : outcome[elements[i]] # Pending =>
              /\ outcome[elements[i]] \in Outcome /\ outcome[elements[i]].type \in Settled
              /\ outcome[elements[i]].value \in Payload
         /\ \A i \in 1..Len(elements) :
              outcome[elements[i]].type \in Settled => outcome[elements[i]] # Pending
         /\ \A k \in 1..Len(order) : /\ order[k] \in 1..Len(elements)
                                     /\ OutcomeAt(k) # Pending
                                     /\ OutcomeAt(k) = outcome[elements[order[k]]]
         /\ Ran \subseteq 1..Len(elements)
<1>1. /\ Len(order) \in Nat /\ Len(jobs) \in Nat /\ Len(elements) \in Nat
      /\ DOMAIN elements = 1..Len(elements)
      /\ \A i \in 1..Len(elements) : elements[i] \in Input
      /\ \A k \in 1..Len(order) : order[k] \in 1..Len(elements)
  BY DEF QueueInv
<1>2. \A i \in 1..Len(elements) : outcome[elements[i]] \in Outcome \cup {Pending}
  BY <1>1 DEF QueueInv
<1>3. \A o \in Outcome : o.type \in Settled /\ o.value \in Payload
  BY DEF Outcome
<1>4. Pending.type \notin Settled
  BY DEF Pending, Settled
<1>5. \A k \in 1..Len(order) : OutcomeAt(k) # Pending /\ OutcomeAt(k) = outcome[elements[order[k]]]
  BY <1>1 DEF OutcomeAt, QueueInv
<1>6. Ran \subseteq 1..Len(elements)
  BY <1>1 DEF Ran
<1> QED BY <1>1, <1>2, <1>3, <1>4, <1>5, <1>6

\* What is promised stays promised: later outcomes come later in the order.
LEMMA PromisedStable ==
  ASSUME QueueInv, QueueInv', UNCHANGED <<kind, elements>>, Len(order) <= Len(order'),
         \A k \in 1..Len(order) : order'[k] = order[k],
         \A i \in 1..Len(elements) :
           outcome[elements[i]] # Pending => outcome'[elements[i]] = outcome[elements[i]],
         Promised # Pending
  PROVE  Promised' = Promised
<1>01. \A types \in SUBSET Settled : \A p \in Nat :
         IsFirst(p, types)' => First(types)' = OutcomeAt(p)'
  <2>1. (QueueInv => \A types \in SUBSET Settled : \A p \in Nat :
                       IsFirst(p, types) => First(types) = OutcomeAt(p))'
    BY FirstFacts, PTL
  <2> QED BY <2>1
<1>02. PromisedByKind /\ PromisedByKind'
  BY PromisedFacts, PTL
<1>1. ASSUME NEW types \in SUBSET Settled, First(types) # Pending
      PROVE  /\ First(types)' = First(types)
             /\ \E i \in 1..Len(elements) : outcome[elements[i]].type \in types
                                            /\ outcome'[elements[i]].type \in types
  <2>1. PICK p \in 1..Len(order) : IsFirst(p, types)
    BY <1>1, FirstExists
  <2>2. p \in 1..Len(order') /\ \A m \in 1..Len(order') : m < p => m \in 1..Len(order)
    BY OutcomeFacts, QueueInv' DEF QueueInv
  <2>3. \A k \in 1..Len(order) : OutcomeAt(k)' = OutcomeAt(k)
    BY OutcomeFacts DEF OutcomeAt
  <2>4. IsFirst(p, types)'
    BY <2>1, <2>2, <2>3 DEF IsFirst
  <2>5. First(types)' = OutcomeAt(p)'
    BY <1>01, <2>2, <2>4
  <2>6. First(types) = OutcomeAt(p)
    BY <2>1, FirstFacts
  <2>7. /\ order[p] \in 1..Len(elements) /\ OutcomeAt(p) = outcome[elements[order[p]]]
        /\ outcome'[elements[order[p]]] = outcome[elements[order[p]]]
    BY OutcomeFacts
  <2> QED BY <2>1, <2>3, <2>5, <2>6, <2>7 DEF IsFirst
<1>2. ASSUME NEW types \in SUBSET Settled, AllIn(types)
      PROVE  AllIn(types)' /\ \A i \in 1..Len(elements) : outcome'[elements[i]] = outcome[elements[i]]
  <2>1. \A i \in 1..Len(elements) : outcome[elements[i]].type \in types
    BY <1>2, OutcomeFacts DEF AllIn
  <2>2. \A i \in 1..Len(elements) : outcome'[elements[i]] = outcome[elements[i]]
    BY <2>1, OutcomeFacts
  <2> QED BY <2>1, <2>2, OutcomeFacts DEF AllIn
<1>3. ASSUME NEW types \in SUBSET Settled, NEW others \in SUBSET Settled, types \cap others = {},
             First(types) # Pending
      PROVE  ~AllIn(others)'
  <2>1. PICK i \in 1..Len(elements) : outcome'[elements[i]].type \in types
    BY <1>1, <1>3
  <2> QED BY <1>3, <2>1, OutcomeFacts DEF AllIn
<1>4. /\ {"Fulfilled"} \in SUBSET Settled /\ {"Rejected"} \in SUBSET Settled
      /\ {"Fulfilled"} \cap {"Rejected"} = {} /\ {"Rejected"} \cap {"Fulfilled"} = {}
      /\ Settled \in SUBSET Settled
  BY DEF Settled
<1>5. CASE kind = "race"
  <2>1. Promised = First(Settled) /\ Promised' = First(Settled)'
    BY <1>5, <1>02 DEF PromisedByKind
  <2> QED BY <1>1, <1>4, <2>1
<1>6. CASE kind = "all"
  <2>1. CASE AllIn({"Fulfilled"})
    <3>1. AllIn({"Fulfilled"})' /\ \A i \in 1..Len(elements) : outcome'[elements[i]] = outcome[elements[i]]
      BY <1>2, <1>4, <2>1
    <3>2. Promised = [type |-> "Fulfilled", value |-> [i \in DOMAIN elements |-> outcome[elements[i]].value]]
      BY <1>6, <2>1, <1>02 DEF Collect, PromisedByKind
    <3>3. Promised' = [type |-> "Fulfilled", value |-> [i \in DOMAIN elements |-> outcome'[elements[i]].value]]
      BY <1>6, <3>1, <1>02 DEF Collect, PromisedByKind
    <3> QED BY <3>1, <3>2, <3>3, OutcomeFacts
  <2>2. CASE ~AllIn({"Fulfilled"})
    <3>1. Promised = First({"Rejected"})
      BY <1>6, <2>2, <1>02 DEF PromisedByKind
    <3>2. ~AllIn({"Fulfilled"})'
      BY <1>3, <1>4, <3>1
    <3>3. Promised' = First({"Rejected"})'
      BY <1>6, <3>2, <1>02 DEF PromisedByKind
    <3> QED BY <1>1, <1>4, <3>1, <3>3
  <2> QED BY <2>1, <2>2
<1>7. CASE kind = "any"
  <2>1. CASE AllIn({"Rejected"})
    <3>1. AllIn({"Rejected"})' /\ \A i \in 1..Len(elements) : outcome'[elements[i]] = outcome[elements[i]]
      BY <1>2, <1>4, <2>1
    <3>2. Promised = [type |-> "Rejected", value |-> [i \in DOMAIN elements |-> outcome[elements[i]].value]]
      BY <1>7, <2>1, <1>02 DEF Collect, PromisedByKind
    <3>3. Promised' = [type |-> "Rejected", value |-> [i \in DOMAIN elements |-> outcome'[elements[i]].value]]
      BY <1>7, <3>1, <1>02 DEF Collect, PromisedByKind
    <3> QED BY <3>1, <3>2, <3>3, OutcomeFacts
  <2>2. CASE ~AllIn({"Rejected"})
    <3>1. Promised = First({"Fulfilled"})
      BY <1>7, <2>2, <1>02 DEF PromisedByKind
    <3>2. ~AllIn({"Rejected"})'
      BY <1>3, <1>4, <3>1
    <3>3. Promised' = First({"Fulfilled"})'
      BY <1>7, <3>2, <1>02 DEF PromisedByKind
    <3> QED BY <1>1, <1>4, <3>1, <3>3
  <2> QED BY <2>1, <2>2
<1>8. CASE kind = "allSettled"
  <2>1. AllIn(Settled)
    BY <1>8, <1>02 DEF PromisedByKind
  <2>2. AllIn(Settled)' /\ \A i \in 1..Len(elements) : outcome'[elements[i]] = outcome[elements[i]]
    BY <1>2, <1>4, <2>1
  <2>3. Promised = [type |-> "Fulfilled", value |-> [i \in DOMAIN elements |-> outcome[elements[i]]]]
    BY <1>8, <2>1, <1>02 DEF Collect, PromisedByKind
  <2>4. Promised' = [type |-> "Fulfilled", value |-> [i \in DOMAIN elements |-> outcome'[elements[i]]]]
    BY <1>8, <2>2, <1>02 DEF Collect, PromisedByKind
  <2> QED BY <2>2, <2>3, <2>4, OutcomeFacts
<1>9. kind # "none"
  BY <1>02 DEF PromisedByKind
<1> QED BY <1>5, <1>6, <1>7, <1>8, <1>9 DEF QueueInv, Kind

----------------------------------------------------------------------------
(* An input settles.                                                       *)

\* c is a with b behind it.
Behind(c, a, b) ==
  /\ Len(c) = Len(a) + Len(b)
  /\ Len(a) \in Nat /\ Len(b) \in Nat
  /\ \A k \in 1..Len(a) : k \in 1..Len(c) /\ c[k] = a[k]
  /\ \A k \in 1..Len(b) : \E p \in 1..Len(c) : p = Len(a) + k /\ c[p] = b[k]
  /\ \A k \in 1..Len(c) : k \in 1..Len(a) \/ \E m \in 1..Len(b) : k = Len(a) + m /\ c[k] = b[m]

\* The positions of one sequence behind another.
LEMMA Appended ==
  ASSUME NEW S, NEW a \in Seq(S), NEW b \in Seq(S)
  PROVE  a \o b \in Seq(S) /\ Behind(a \o b, a, b)
<1>1. /\ Len(a) \in Nat /\ Len(b) \in Nat
  OBVIOUS
<1>2. PICK c : c = a \o b
  OBVIOUS
<1>3. /\ c \in Seq(S) /\ Len(c) = Len(a) + Len(b)
      /\ \A k \in 1..Len(a) + Len(b) : c[k] = IF k <= Len(a) THEN a[k] ELSE b[k - Len(a)]
  BY <1>2, ConcatProperties
<1>4. \A k \in 1..Len(a) : k \in 1..Len(c) /\ c[k] = a[k]
  BY <1>1, <1>3
<1>5. ASSUME NEW k \in 1..Len(b) PROVE \E p \in 1..Len(c) : p = Len(a) + k /\ c[p] = b[k]
  <2>1. PICK p : p = Len(a) + k
    OBVIOUS
  <2>2. p \in 1..Len(a) + Len(b) /\ ~(p <= Len(a)) /\ p - Len(a) = k
    BY <1>1, <2>1
  <2> QED BY <1>3, <2>1, <2>2
<1>6. ASSUME NEW k \in 1..Len(c), k \notin 1..Len(a)
      PROVE  \E m \in 1..Len(b) : k = Len(a) + m /\ c[k] = b[m]
  <2>1. PICK m : m = k - Len(a)
    OBVIOUS
  <2>2. m \in 1..Len(b) /\ k = Len(a) + m /\ ~(k <= Len(a)) /\ k \in 1..Len(a) + Len(b)
    BY <1>1, <1>3, <1>6, <2>1
  <2> QED BY <1>3, <2>1, <2>2
<1> QED BY <1>1, <1>2, <1>3, <1>4, <1>5, <1>6 DEF Behind

\* Its elements are queued behind the others.
LEMMA SettleInputQueue ==
  ASSUME QueueInv, NEW s \in Input, SettleInput(s)
  PROVE  /\ QueueInv' /\ Ran' = Ran /\ UNCHANGED <<kind, elements>>
         /\ Len(order) <= Len(order') /\ \A k \in 1..Len(order) : order'[k] = order[k]
         /\ \A i \in 1..Len(elements) :
              outcome[elements[i]] # Pending => outcome'[elements[i]] = outcome[elements[i]]
<1> DEFINE waiting == {i \in DOMAIN elements : elements[i] = s}
<1>1. PICK o \in Outcome : outcome' = [outcome EXCEPT ![s] = o]
  BY DEF SettleInput
<1>2. PICK new : new = InOrder(waiting)
  OBVIOUS
<1>3. /\ outcome[s] = Pending /\ jobs' = jobs \o new /\ order' = order \o new
      /\ UNCHANGED <<kind, elements, values, counted, remaining, result>>
  BY <1>2 DEF SettleInput
<1>4. waiting \in SUBSET (1..Len(elements)) /\ Len(elements) \in Nat
  BY OutcomeFacts
<1>5. /\ new \in Seq(waiting)
      /\ \A i \in waiting : \E k \in 1..Len(new) : new[k] = i
      /\ \A k, l \in 1..Len(new) : new[k] = new[l] => k = l
  <2> HIDE DEF waiting
  <2> QED BY <1>2, <1>4, InOrderFacts
<1>6. /\ Len(new) \in Nat
      /\ \A k \in 1..Len(new) : new[k] \in 1..Len(elements) /\ elements[new[k]] = s
  BY <1>4, <1>5
<1>7. \A i \in 1..Len(elements) : elements[i] = s => \E k \in 1..Len(new) : new[k] = i
  BY <1>5, OutcomeFacts
<1>8. new \in Seq(1..Len(elements))
  BY <1>4, <1>5
<1> HIDE DEF waiting
<1>9. order' \in Seq(1..Len(elements)) /\ Behind(order', order, new)
  <2>1. order \in Seq(1..Len(elements))
    BY DEF QueueInv
  <2> QED BY <1>3, <1>8, <2>1, Appended
<1>10. jobs' \in Seq(1..Len(elements)) /\ Behind(jobs', jobs, new)
  <2>1. jobs \in Seq(1..Len(elements))
    BY DEF QueueInv
  <2> QED BY <1>3, <1>8, <2>1, Appended
<1>11. Len(order) <= Len(order') /\ \A k \in 1..Len(order) : order'[k] = order[k]
  <2>1. Len(order) \in Nat /\ Len(new) \in Nat /\ Len(order') = Len(order) + Len(new)
    BY <1>9 DEF Behind
  <2>2. \A k \in 1..Len(order) : order'[k] = order[k]
    BY <1>9 DEF Behind
  <2>3. Len(order) <= Len(order')
    BY <2>1
  <2> QED BY <2>2, <2>3
<1>12. /\ Pending \notin Outcome
       /\ outcome' \in [Input -> Outcome \cup {Pending}]
       /\ \A i \in 1..Len(elements) :
            outcome'[elements[i]] = IF elements[i] = s THEN o ELSE outcome[elements[i]]
  BY <1>1, OutcomeFacts DEF QueueInv, Pending, Outcome, Settled
<1>13. \A k \in 1..Len(order) : elements[order[k]] # s
  BY <1>3, OutcomeFacts
<1>14. QueueInv'
  <2>1. ASSUME NEW k \in 1..Len(order'), NEW l \in 1..Len(order'), order'[k] = order'[l]
        PROVE  k = l
    <3>1. CASE k \in 1..Len(order) /\ l \in 1..Len(order)
      BY <1>11, <2>1, <3>1 DEF QueueInv
    <3>2. ASSUME NEW a \in 1..Len(new), NEW b \in 1..Len(new), k = Len(order) + a, order'[k] = new[a],
                 l = Len(order) + b, order'[l] = new[b]
          PROVE  k = l
      <4>1. a = b
        BY <1>5, <2>1, <3>2
      <4> QED BY <3>2, <4>1
    <3>3. ASSUME NEW a \in 1..Len(order), NEW b \in 1..Len(new) PROVE order[a] # new[b]
      BY <1>6, <1>13
    <3>4. \/ k \in 1..Len(order) /\ order'[k] = order[k]
          \/ \E a \in 1..Len(new) : k = Len(order) + a /\ order'[k] = new[a]
      BY <1>9 DEF Behind
    <3>5. \/ l \in 1..Len(order) /\ order'[l] = order[l]
          \/ \E b \in 1..Len(new) : l = Len(order) + b /\ order'[l] = new[b]
      BY <1>9 DEF Behind
    <3> QED BY <2>1, <3>1, <3>2, <3>3, <3>4, <3>5
  <2>2. ASSUME NEW i \in 1..Len(elements)
        PROVE  outcome'[elements[i]] # Pending <=> \E k \in 1..Len(order') : order'[k] = i
    <3>1. CASE elements[i] = s
      <4>1. PICK k \in 1..Len(new) : new[k] = i
        BY <1>7, <3>1
      <4>2. \E p \in 1..Len(order') : order'[p] = i
        BY <1>9, <4>1 DEF Behind
      <4> QED BY <1>12, <3>1, <4>2
    <3>2. CASE elements[i] # s
      <4>1. (\E k \in 1..Len(order') : order'[k] = i) <=> (\E k \in 1..Len(order) : order[k] = i)
        <5>1. \A k \in 1..Len(order') : order'[k] = i => k \in 1..Len(order)
          <6> SUFFICES ASSUME NEW k \in 1..Len(order'), order'[k] = i, k \notin 1..Len(order)
                       PROVE  FALSE
            OBVIOUS
          <6>1. PICK m \in 1..Len(new) : order'[k] = new[m]
            BY <1>9 DEF Behind
          <6> QED BY <1>6, <3>2, <6>1
        <5>2. \A k \in 1..Len(order) : k \in 1..Len(order')
          BY <1>9 DEF Behind
        <5> QED BY <1>11, <5>1, <5>2
      <4> QED BY <1>12, <3>2, <4>1 DEF QueueInv
    <3> QED BY <3>1, <3>2
  <2>3. ASSUME NEW k \in 1..Len(jobs') PROVE jobs'[k] = order'[Len(order') - Len(jobs') + k]
    <3>1. PICK p : p = Len(order) - Len(jobs) + k
      OBVIOUS
    <3>2. p = Len(order') - Len(jobs') + k /\ Len(jobs) <= Len(order)
      BY <1>9, <1>10, <3>1 DEF Behind, QueueInv
    <3>3. CASE k \in 1..Len(jobs)
      <4>1. p \in 1..Len(order)
        BY <1>9, <1>10, <3>1, <3>2, <3>3 DEF Behind
      <4>2. jobs[k] = order[p]
        BY <3>1, <3>3 DEF QueueInv
      <4>3. jobs'[k] = jobs[k]
        BY <1>10, <3>3 DEF Behind
      <4> QED BY <1>11, <3>2, <4>1, <4>2, <4>3
    <3>4. ASSUME NEW m \in 1..Len(new), k = Len(jobs) + m, jobs'[k] = new[m]
          PROVE  jobs'[k] = order'[Len(order') - Len(jobs') + k]
      <4>1. PICK q \in 1..Len(order') : q = Len(order) + m /\ order'[q] = new[m]
        BY <1>9 DEF Behind
      <4>2. p = q
        BY <1>9, <1>10, <3>1, <3>4, <4>1 DEF Behind
      <4> QED BY <3>2, <3>4, <4>1, <4>2
    <3> QED BY <1>10, <3>3, <3>4 DEF Behind
  <2>4. kind' = "none" => elements' = <<>>
    BY <1>3 DEF QueueInv
  <2>5. Len(jobs') <= Len(order')
    BY <1>9, <1>10 DEF Behind, QueueInv
  <2> QED BY <1>3, <1>9, <1>10, <1>12, <2>1, <2>2, <2>3, <2>4, <2>5 DEF QueueInv
<1>15. Ran' = Ran
  <2>1. Len(order') - Len(jobs') = Len(order) - Len(jobs)
    BY <1>9, <1>10 DEF Behind
  <2>2. \A k \in 1..Len(order) - Len(jobs) : order'[k] = order[k]
    <3>1. \A k \in 1..Len(order) - Len(jobs) : k \in 1..Len(order)
      BY <1>9, <1>10 DEF Behind
    <3> QED BY <1>11, <3>1
  <2> QED BY <2>1, <2>2 DEF Ran
<1>16. \A i \in 1..Len(elements) :
         outcome[elements[i]] # Pending => outcome'[elements[i]] = outcome[elements[i]]
  BY <1>3, <1>12
<1> QED BY <1>3, <1>11, <1>14, <1>15, <1>16

\* What has run is settled.
LEMMA RanFacts ==
  ASSUME QueueInv
  PROVE  \A i \in Ran : i \in 1..Len(elements) /\ outcome[elements[i]] # Pending
BY OutcomeFacts DEF Ran

\* Nothing that has run changes, and what was promised stays promised.
LEMMA SettleInputInv == ASSUME AInv, NEW s \in Input, SettleInput(s) PROVE AInv'
<1>1. /\ QueueInv' /\ Ran' = Ran /\ UNCHANGED <<kind, elements>>
      /\ \A i \in Ran : outcome'[elements[i]] = outcome[elements[i]]
      /\ Promised # Pending => Promised' = Promised
  BY SettleInputQueue, RanFacts, PromisedStable DEF AInv
<1>2. UNCHANGED <<values, counted, remaining, result>>
  BY DEF SettleInput
<1>3. ValuesInv'
  <2>1. \A i \in Ran : Kept(i)' = Kept(i)
    BY <1>1 DEF Kept
  <2>2. ASSUME counted, NEW i \in 1..Len(elements)
        PROVE  values'[i] = IF i \in Ran' /\ Collected(kind', outcome'[elements'[i]].type)
                            THEN Kept(i)' ELSE Undefined
    BY <1>1, <1>2, <2>1, <2>2 DEF AInv, ValuesInv
  <2>3. RemainingExact' <=> RemainingExact
    BY <1>2 DEF RemainingExact
  <2> QED BY <1>1, <1>2, <2>2, <2>3 DEF AInv, ValuesInv
<1>4. ResultInv'
  BY <1>1, <1>2 DEF AInv, ResultInv
<1> QED BY <1>1, <1>3, <1>4 DEF AInv

----------------------------------------------------------------------------
(* The call.                                                               *)

\* The elements that are settled already are queued, and nothing has run.
LEMMA CallQueue ==
  ASSUME QueueInv, NEW k \in Kind, NEW n \in 0..MaxLength, NEW e \in [1..n -> Input],
         NEW throws \in BOOLEAN, Call(k, e, throws)
  PROVE  QueueInv' /\ Ran' = {} /\ kind' = k /\ elements' = e /\ Len(elements') = n
<1> DEFINE settled == {i \in DOMAIN e : outcome[e[i]] # Pending}
<1>1. PICK queued : queued = InOrder(settled)
  OBVIOUS
<1>2. kind' = k /\ elements' = e /\ jobs' = queued /\ order' = queued /\ outcome' = outcome
  BY <1>1 DEF Call
<1>3. n \in Nat /\ e \in Seq(Input) /\ Len(e) = n /\ DOMAIN e = 1..n /\ n <= MaxLength
  BY AggregateAssumption DEF AggregateAssumption
<1>4. settled \in SUBSET (1..n)
  BY <1>3
<1>5. /\ queued \in Seq(settled)
      /\ \A i \in settled : \E j \in 1..Len(queued) : queued[j] = i
      /\ \A j, l \in 1..Len(queued) : queued[j] = queued[l] => j = l
  <2> HIDE DEF settled
  <2> QED BY <1>1, <1>3, <1>4, InOrderFacts
<1>6. Len(queued) \in Nat /\ queued \in Seq(1..n)
  BY <1>4, <1>5
<1>7. \A i \in 1..n : outcome[e[i]] # Pending <=> \E j \in 1..Len(queued) : queued[j] = i
  <2>1. \A j \in 1..Len(queued) : queued[j] \in settled
    BY <1>5
  <2>2. \A i \in 1..n : i \in settled <=> outcome[e[i]] # Pending
    BY <1>3
  <2> HIDE DEF settled
  <2> QED BY <1>5, <2>1, <2>2
<1> HIDE DEF settled
<1>8. \A j \in 1..Len(queued) : Len(queued) - Len(queued) + j = j
  BY <1>6
<1>9. Ran' = {}
  <2>1. 1..Len(queued) - Len(queued) = {}
    BY <1>6
  <2> QED BY <1>2, <2>1 DEF Ran
<1>10. QueueInv'
  <2>1. k # "none"
    BY DEF Kind
  <2> QED BY <1>2, <1>3, <1>5, <1>6, <1>7, <1>8, <2>1 DEF QueueInv
<1> QED BY <1>2, <1>3, <1>9, <1>10

\* The AggregateDB is made with no element settled, and no elements are all elements.
LEMMA CallInv ==
  ASSUME AInv, NEW k \in Kind, NEW n \in 0..MaxLength, NEW e \in [1..n -> Input],
         NEW throws \in BOOLEAN, Call(k, e, throws)
  PROVE  AInv'
<1>1. QueueInv' /\ Ran' = {} /\ kind' = k /\ elements' = e /\ Len(elements') = n
  BY CallQueue DEF AInv
<1>2. n \in Nat /\ Len(e) = n /\ DOMAIN e = 1..n
  OBVIOUS
<1>3. kind = "none" /\ ~counted /\ values = <<>> /\ remaining = 0 /\ result = Pending
  BY DEF Call, AInv, ValuesInv, ResultInv, Collecting
<1>4. /\ throws => SettleResult("Rejected", Thrown) /\ UNCHANGED <<values, counted, remaining>>
      /\ ~throws /\ k = "race" => UNCHANGED <<result, values, counted, remaining>>
      /\ ~throws /\ k # "race" => Count(k, n)
  BY <1>2, Zenon DEF Call
<1>5. PromisedByKind'
  BY PromisedFacts, PTL
<1>6. CASE throws
  <2>1. result' = ThrownResult /\ UNCHANGED <<values, counted, remaining>>
    BY <1>3, <1>4, <1>6 DEF SettleResult, ThrownResult
  <2>2. ThrownResult.type \in Settled /\ ThrownResult # Pending
    BY DEF ThrownResult, Settled, Pending
  <2> QED BY <1>1, <1>3, <2>1, <2>2 DEF AInv, ValuesInv, ResultInv, Kind
<1>7. CASE ~throws /\ k = "race"
  <2>1. UNCHANGED <<result, values, counted, remaining>>
    BY <1>4, <1>7
  <2>2. ValuesInv'
    BY <1>1, <1>3, <2>1 DEF AInv, ValuesInv
  <2>3. ResultInv'
    BY <1>1, <1>3, <1>7, <2>1 DEF ResultInv, Collecting
  <2> QED BY <1>1, <2>2, <2>3 DEF AInv
<1>8. CASE ~throws /\ k # "race"
  <2>1. k \in Collecting /\ values' = [i \in 1..n |-> Undefined] /\ counted' = TRUE /\ remaining' = n
    BY <1>4, <1>8 DEF Count, Kind, Collecting
  <2>2. /\ n = 0 /\ k \in {"all", "allSettled"} => SettleResult("Fulfilled", <<>>)
        /\ n = 0 /\ k = "any" => SettleResult("Rejected", <<>>)
        /\ n # 0 => UNCHANGED result
    BY <1>4, <1>8, Zenon DEF Count
  <2>3. ValuesInv'
    <3>1. values' \in Seq(Element) /\ Len(values') = n /\ DOMAIN values' = 1..n
      BY <1>2, <2>1 DEF Element
    <3>2. \A i \in 1..n : values'[i] = Undefined
      BY <2>1
    <3>3. {i \in DOMAIN values' : values'[i] = Undefined} = 1..n
      BY <3>1, <3>2
    <3>4. Cardinality(1..n) = n
      BY <1>2, FS_Interval
    <3>5. RemainingExact'
      BY <2>1, <3>3, <3>4 DEF RemainingExact
    <3> QED BY <1>1, <2>1, <3>1, <3>2, <3>5 DEF ValuesInv
  <2>4. result' \in {Pending, Promised'} /\ (result' # Pending => result'.type \in Settled)
    <3>1. CASE n # 0
      BY <1>3, <2>2, <3>1
    <3>2. CASE n = 0
      <4>1. DOMAIN e = {} /\ elements' = e
        BY <1>1, <1>2, <3>2
      <4>2. AllIn({"Fulfilled"})' /\ AllIn({"Rejected"})' /\ AllIn(Settled)'
        BY <4>1 DEF AllIn
      <4>3. CASE k = "all"
        <5>1. Promised' = [type |-> "Fulfilled", value |-> [i \in DOMAIN elements' |-> outcome'[elements'[i]].value]]
          BY <1>1, <1>5, <4>2, <4>3 DEF PromisedByKind, Collect
        <5>2. [i \in DOMAIN elements' |-> outcome'[elements'[i]].value] = <<>>
          BY <4>1
        <5>3. result' = [type |-> "Fulfilled", value |-> <<>>]
          BY <1>3, <2>2, <3>2, <4>3 DEF SettleResult
        <5> QED BY <5>1, <5>2, <5>3 DEF Settled
      <4>4. CASE k = "allSettled"
        <5>1. Promised' = [type |-> "Fulfilled", value |-> [i \in DOMAIN elements' |-> outcome'[elements'[i]]]]
          BY <1>1, <1>5, <4>2, <4>4 DEF PromisedByKind, Collect
        <5>2. [i \in DOMAIN elements' |-> outcome'[elements'[i]]] = <<>>
          BY <4>1
        <5>3. result' = [type |-> "Fulfilled", value |-> <<>>]
          BY <1>3, <2>2, <3>2, <4>4 DEF SettleResult
        <5> QED BY <5>1, <5>2, <5>3 DEF Settled
      <4>5. CASE k = "any"
        <5>1. Promised' = [type |-> "Rejected", value |-> [i \in DOMAIN elements' |-> outcome'[elements'[i]].value]]
          BY <1>1, <1>5, <4>2, <4>5 DEF PromisedByKind, Collect
        <5>2. [i \in DOMAIN elements' |-> outcome'[elements'[i]].value] = <<>>
          BY <4>1
        <5>3. result' = [type |-> "Rejected", value |-> <<>>]
          BY <1>3, <2>2, <3>2, <4>5 DEF SettleResult
        <5> QED BY <5>1, <5>2, <5>3 DEF Settled
      <4> QED BY <2>1, <4>3, <4>4, <4>5 DEF Collecting
    <3> QED BY <3>1, <3>2
  <2>5. ResultInv'
    BY <1>1, <2>1, <2>4 DEF ResultInv, Collecting
  <2> QED BY <1>1, <2>3, <2>5 DEF AInv
<1> QED BY <1>6, <1>7, <1>8

----------------------------------------------------------------------------
(* A reaction runs.                                                        *)

\* The element at the head has run after the step, and had not before.
LEMMA RunElementQueue ==
  ASSUME QueueInv, RunElement
  PROVE  /\ QueueInv' /\ Head(jobs) \in 1..Len(elements) \ Ran /\ Ran' = Ran \cup {Head(jobs)}
         /\ \E p \in 1..Len(order) : order[p] = Head(jobs)
                                     /\ \A m \in 1..Len(order) : m < p => order[m] \in Ran
<1>1. jobs # <<>> /\ jobs' = Tail(jobs) /\ UNCHANGED <<kind, elements, outcome, order>>
  BY DEF RunElement
<1>2. /\ Len(order) \in Nat /\ Len(jobs) \in Nat /\ Len(jobs) <= Len(order) /\ Len(jobs) > 0
      /\ jobs \in Seq(1..Len(elements)) /\ Head(jobs) = jobs[1]
      /\ jobs' \in Seq(1..Len(elements)) /\ Len(jobs') = Len(jobs) - 1
      /\ \A k \in 1..Len(jobs) - 1 : jobs'[k] = jobs[k + 1]
  BY <1>1 DEF QueueInv
<1>3. PICK ran : ran = Len(order) - Len(jobs)
  OBVIOUS
<1>4. \A k \in 1..Len(jobs) : jobs[k] = order[ran + k]
  BY <1>3 DEF QueueInv
<1>5. PICK p : p = ran + 1 /\ p \in 1..Len(order) /\ ran \in Nat
  BY <1>2, <1>3
<1>6. order[p] = Head(jobs) /\ order[p] \in 1..Len(elements)
  BY <1>2, <1>4, <1>5 DEF QueueInv
<1>7. Ran = {order[k] : k \in 1..ran}
  BY <1>3 DEF Ran
<1>8. Len(order') - Len(jobs') = p
  BY <1>1, <1>2, <1>3, <1>5
<1>9. Ran' = {order[k] : k \in 1..p}
  BY <1>1, <1>8 DEF Ran
<1>10. 1..p = 1..ran \cup {p} /\ p \notin 1..ran
  BY <1>5
<1>11. Ran' = Ran \cup {order[p]}
  BY <1>7, <1>9, <1>10
<1>12. order[p] \notin Ran
  <2>1. \A k \in 1..ran : k \in 1..Len(order) /\ k # p
    BY <1>2, <1>3, <1>5
  <2>2. \A k \in 1..ran : order[k] # order[p]
    BY <1>5, <2>1 DEF QueueInv
  <2> QED BY <1>7, <2>2
<1>13. \A m \in 1..Len(order) : m < p => order[m] \in Ran
  BY <1>5, <1>7
<1>14. QueueInv'
  <2>1. ASSUME NEW k \in 1..Len(jobs') PROVE jobs'[k] = order'[Len(order') - Len(jobs') + k]
    <3>1. k + 1 \in 1..Len(jobs) /\ ran + (k + 1) = p + k /\ k \in 1..Len(jobs) - 1
      BY <1>2, <1>5
    <3> QED BY <1>1, <1>2, <1>4, <1>8, <3>1
  <2>2. Len(jobs') <= Len(order')
    BY <1>1, <1>2
  <2> QED BY <1>1, <1>2, <2>1, <2>2 DEF QueueInv
<1> QED BY <1>5, <1>6, <1>11, <1>12, <1>13, <1>14

\* One place fewer is left; when none is left, this was the only one.
LEMMA OneFewer ==
  ASSUME NEW n \in Nat, NEW U \in SUBSET (1..n), NEW i \in U
  PROVE  /\ Cardinality(U) \in Nat /\ Cardinality(U \ {i}) = Cardinality(U) - 1
         /\ Cardinality(U \ {i}) = 0 => U \ {i} = {}
<1>1. IsFiniteSet(1..n)
  BY FS_Interval
<1>2. IsFiniteSet(U)
  BY <1>1, FS_Subset
<1>3. Cardinality(U) \in Nat /\ IsFiniteSet(U \ {i}) /\ Cardinality(U \ {i}) = Cardinality(U) - 1
  BY <1>2, FS_CardinalityType, FS_RemoveElement
<1> QED BY <1>3, FS_EmptySet

\* Which outcomes are collected, and which decide.
LEMMA CollectedFacts ==
  ASSUME NEW type \in Settled
  PROVE  /\ Collected("all", type) <=> type = "Fulfilled"
         /\ Collected("any", type) <=> type = "Rejected"
         /\ Collected("allSettled", type)
         /\ ~Collected("race", type)
BY DEF Collected, Settled

\* The value that fills the last place completes the list, and one that goes past the
\* AggregateDB decides the result if nothing before it did.
LEMMA RunElementInv == ASSUME AInv, RunElement PROVE AInv'
<1>1. PICK i \in 1..Len(elements) \ Ran : i = Head(jobs)
  BY RunElementQueue DEF AInv
<1>2. /\ QueueInv' /\ Ran' = Ran \cup {i} /\ UNCHANGED <<kind, elements, outcome, counted, order>>
      /\ i \in Ran'
  BY <1>1, RunElementQueue DEF AInv, RunElement
<1>3. PICK o : o = outcome[elements[i]]
  OBVIOUS
<1>4. /\ o \in Outcome /\ o.type \in Settled /\ o.value \in Payload
      /\ \A j \in Ran : j \in 1..Len(elements) /\ outcome[elements[j]].type \in Settled
      /\ DOMAIN elements = 1..Len(elements)
  <2>1. QueueInv /\ outcome[elements[i]] # Pending
    <3>1. QueueInv /\ \E p \in 1..Len(order) : order[p] = i
      BY <1>1, RunElementQueue DEF AInv
    <3> QED BY <3>1 DEF QueueInv
  <2> QED BY <1>3, <2>1, RanFacts, OutcomeFacts
<1>5. Promised' = Promised
  BY <1>2 DEF Promised, First, AllIn, Collect, OutcomeAt
<1>6. kind \in Kind
  BY <1>1 DEF AInv, QueueInv
<1>7. \A j \in 1..Len(elements) : Kept(j)' = Kept(j)
  BY <1>2 DEF Kept
<1>8. CASE ~Collected(kind, o.type)
  <2>1. SettleResult(o.type, o.value) /\ UNCHANGED <<values, remaining>>
    BY <1>1, <1>3, <1>8 DEF RunElement
  <2>2. ValuesInv'
    <3>1. ASSUME counted, NEW j \in 1..Len(elements)
          PROVE  values'[j] = IF j \in Ran' /\ Collected(kind', outcome'[elements'[j]].type)
                              THEN Kept(j)' ELSE Undefined
      <4>1. CASE j = i
        BY <1>1, <1>2, <1>3, <1>8, <2>1, <3>1, <4>1 DEF AInv, ValuesInv
      <4>2. CASE j # i
        BY <1>2, <1>7, <2>1, <3>1, <4>2 DEF AInv, ValuesInv
      <4> QED BY <4>1, <4>2
    <3>2. RemainingExact' <=> RemainingExact
      BY <1>2, <2>1 DEF RemainingExact
    <3> QED BY <1>2, <2>1, <3>1, <3>2 DEF AInv, ValuesInv
  <2>3. CASE result # Pending
    <3>1. result' = result
      BY <2>1, <2>3 DEF SettleResult
    <3> QED BY <1>2, <1>5, <2>2, <2>3, <3>1 DEF AInv, ResultInv
  <2>4. CASE result = Pending
    <3>1. result' = o /\ o # Pending
      <4>1. o = [type |-> o.type, value |-> o.value]
        BY <1>4 DEF Outcome
      <4>2. o.type # "Pending"
        BY <1>4 DEF Settled
      <4> QED BY <2>1, <2>4, <4>1, <4>2 DEF SettleResult, Pending
    <3>2. \A j \in Ran : Collected(kind, outcome[elements[j]].type)
      BY <2>4 DEF AInv, ResultInv
    <3>3. PICK p \in 1..Len(order) : order[p] = i /\ \A m \in 1..Len(order) : m < p => order[m] \in Ran
      BY <1>1, RunElementQueue DEF AInv
    <3>4. /\ OutcomeAt(p) = o
          /\ \A m \in 1..Len(order) : m < p =>
               Collected(kind, OutcomeAt(m).type) /\ OutcomeAt(m).type \in Settled
      BY <1>3, <1>4, <3>2, <3>3 DEF OutcomeAt
    <3>5. ASSUME NEW types \in SUBSET Settled, o.type \in types,
                 \A type \in Settled : Collected(kind, type) => type \notin types
          PROVE  First(types) = o
      <4>1. IsFirst(p, types) /\ p \in Nat
        BY <3>4, <3>5 DEF IsFirst
      <4> QED BY <3>4, <4>1, FirstFacts DEF AInv
    <3>6. {"Fulfilled"} \in SUBSET Settled /\ {"Rejected"} \in SUBSET Settled /\ Settled = {"Fulfilled", "Rejected"}
      BY DEF Settled
    <3>7. Promised = o
      <4>1. CASE kind = "race"
        <5>1. First(Settled) = o
          BY <1>4, <3>5, <4>1, CollectedFacts
        <5> QED BY <4>1, <5>1, PromisedFacts DEF PromisedByKind
      <4>2. CASE kind = "all"
        <5>1. o.type = "Rejected"
          BY <1>4, <1>8, <3>6, <4>2, CollectedFacts
        <5>2. First({"Rejected"}) = o
          BY <3>5, <3>6, <4>2, <5>1, CollectedFacts
        <5>3. ~AllIn({"Fulfilled"})
          BY <1>3, <1>4, <5>1 DEF AllIn
        <5> QED BY <4>2, <5>2, <5>3, PromisedFacts DEF PromisedByKind
      <4>3. CASE kind = "any"
        <5>1. o.type = "Fulfilled"
          BY <1>4, <1>8, <3>6, <4>3, CollectedFacts
        <5>2. First({"Fulfilled"}) = o
          BY <3>5, <3>6, <4>3, <5>1, CollectedFacts
        <5>3. ~AllIn({"Rejected"})
          BY <1>3, <1>4, <5>1 DEF AllIn
        <5> QED BY <4>3, <5>2, <5>3, PromisedFacts DEF PromisedByKind
      <4>4. kind # "allSettled"
        BY <1>4, <1>8, CollectedFacts
      <4> QED BY <1>6, <4>1, <4>2, <4>3, <4>4 DEF Kind
    <3>8. kind \in Collecting => counted
      <4>1. result # ThrownResult
        BY <2>4 DEF ThrownResult, Pending
      <4> QED BY <4>1 DEF AInv, ResultInv
    <3>9. ResultInv'
      BY <1>2, <1>4, <1>5, <1>6, <3>1, <3>7, <3>8 DEF ResultInv, Kind
    <3> QED BY <1>2, <2>2, <3>9 DEF AInv
  <2> QED BY <2>3, <2>4
<1>9. CASE Collected(kind, o.type) /\ ~counted
  <2>1. UNCHANGED <<values, remaining, result>>
    BY <1>1, <1>3, <1>9 DEF RunElement, SettleElement
  <2>2. kind \in Collecting
    BY <1>9 DEF Collected, Collecting
  <2>3. result = ThrownResult
    BY <1>9, <2>2 DEF AInv, ResultInv
  <2>4. result # Pending
    BY <2>3 DEF ThrownResult, Pending
  <2>5. ResultInv' /\ ValuesInv'
    BY <1>2, <1>6, <1>9, <2>1, <2>3, <2>4 DEF AInv, ResultInv, ValuesInv, Kind
  <2> QED BY <1>2, <2>5 DEF AInv
<1>10. CASE Collected(kind, o.type) /\ counted
  <2>1. PICK v : v = Kept(i)
    OBVIOUS
  <2>2. PICK last : last = IF kind = "any" THEN "Rejected" ELSE "Fulfilled"
    OBVIOUS
  <2>3. /\ values' = [values EXCEPT ![i] = v] /\ remaining' = remaining - 1
        /\ remaining' = 0 => SettleResult(last, values')
        /\ remaining' # 0 => UNCHANGED result
    BY <1>1, <1>3, <1>10, <2>1, <2>2 DEF RunElement, SettleElement, Kept
  <2>4. /\ kind \in Collecting /\ values \in Seq(Element) /\ Len(values) = Len(elements)
        /\ \A j \in 1..Len(elements) :
             values[j] = IF j \in Ran /\ Collected(kind, outcome[elements[j]].type)
                         THEN Kept(j) ELSE Undefined
        /\ remaining = Cardinality({j \in DOMAIN values : values[j] = Undefined})
    BY <1>10 DEF AInv, ValuesInv, RemainingExact
  <2>5. i \in 1..Len(values) /\ values[i] = Undefined
    BY <1>1, <2>4
  <2>6. v \in Element \ {Undefined}
    BY <1>3, <1>4, <2>1, AggregateAssumption DEF Kept, Element, AggregateAssumption
  <2>7. /\ remaining \in Nat /\ RemainingExact'
        /\ remaining' = 0 => \A j \in 1..Len(values) : j # i => values[j] # Undefined
    <3>1. PICK w, U, W : /\ w = [values EXCEPT ![i] = v]
                         /\ U = {j \in DOMAIN values : values[j] = Undefined}
                         /\ W = {j \in DOMAIN w : w[j] = Undefined}
      OBVIOUS
    <3>2. /\ Cardinality(U) \in Nat /\ Cardinality(W) = Cardinality(U) - 1
          /\ Cardinality(W) = 0 => \A j \in 1..Len(values) : j # i => values[j] # Undefined
      <4>1. /\ Len(values) \in Nat /\ U \in SUBSET (1..Len(values)) /\ i \in U
            /\ \A j \in 1..Len(values) : j \in U <=> values[j] = Undefined
        BY <2>4, <2>5, <3>1
      <4>2. W = U \ {i}
        BY <2>4, <2>5, <2>6, <3>1
      <4>3. /\ Cardinality(U) \in Nat /\ Cardinality(U \ {i}) = Cardinality(U) - 1
            /\ Cardinality(U \ {i}) = 0 => U \ {i} = {}
        BY <4>1, OneFewer
      <4> QED BY <4>1, <4>2, <4>3
    <3>3. remaining = Cardinality(U) /\ {j \in DOMAIN values' : values'[j] = Undefined} = W
      BY <2>3, <2>4, <3>1
    <3>4. remaining' = remaining - 1
      BY <2>3
    <3>5. remaining' = Cardinality(W)
      BY <3>2, <3>3, <3>4
    <3> QED BY <3>2, <3>3, <3>4, <3>5 DEF RemainingExact
  <2>8. \A j \in 1..Len(elements) :
          values'[j] = IF j \in Ran' /\ Collected(kind', outcome'[elements'[j]].type)
                       THEN Kept(j)' ELSE Undefined
    <3> SUFFICES ASSUME NEW j \in 1..Len(elements)
                 PROVE  values'[j] = IF j \in Ran' /\ Collected(kind', outcome'[elements'[j]].type)
                                     THEN Kept(j)' ELSE Undefined
      OBVIOUS
    <3>1. CASE j = i
      BY <1>2, <1>3, <1>7, <1>10, <2>1, <2>3, <2>4, <2>5, <3>1
    <3>2. CASE j # i
      BY <1>2, <1>7, <2>3, <2>4, <2>5, <3>2
    <3> QED BY <3>1, <3>2
  <2>9. values' \in Seq(Element) /\ Len(values') = Len(elements) /\ DOMAIN values' = 1..Len(elements)
    BY <2>3, <2>4, <2>5, <2>6
  <2>10. ValuesInv'
    BY <1>2, <1>10, <2>4, <2>7, <2>8, <2>9 DEF ValuesInv
  <2>11. CASE result # Pending \/ remaining' # 0
    <3>1. result' = result
      BY <2>3, <2>11 DEF SettleResult
    <3>2. result = Pending => \A j \in Ran' : Collected(kind, outcome[elements[j]].type)
      BY <1>2, <1>3, <1>10 DEF AInv, ResultInv
    <3> QED BY <1>2, <1>5, <2>10, <3>1, <3>2 DEF AInv, ResultInv
  <2>12. CASE result = Pending /\ remaining' = 0
    <3>1. result' = [type |-> last, value |-> values']
      BY <2>3, <2>12 DEF SettleResult
    <3>2. \A j \in 1..Len(elements) :
            Collected(kind, outcome[elements[j]].type) /\ values'[j] = Kept(j) /\ j \in Ran'
      <4> SUFFICES ASSUME NEW j \in 1..Len(elements)
                   PROVE  Collected(kind, outcome[elements[j]].type) /\ values'[j] = Kept(j) /\ j \in Ran'
        OBVIOUS
      <4>1. CASE j = i
        BY <1>2, <1>3, <1>10, <2>1, <2>3, <2>4, <2>5, <4>1
      <4>2. CASE j # i
        <5>1. values[j] # Undefined
          BY <2>4, <2>7, <2>12, <4>2
        <5> QED BY <1>2, <2>3, <2>4, <2>5, <4>2, <5>1
      <4> QED BY <4>1, <4>2
    <3>3. \A j \in 1..Len(elements) : outcome[elements[j]].type \in Settled
      BY <1>2, <1>3, <1>4, <3>2
    <3>4. values' = [j \in DOMAIN elements |-> Kept(j)]
      BY <1>4, <2>9, <3>2
    <3>5. Promised = [type |-> last, value |-> values']
      <4>1. CASE kind = "all"
        <5>1. AllIn({"Fulfilled"})
          BY <1>4, <3>2, <3>3, <4>1, CollectedFacts DEF AllIn
        <5>2. Promised = [type |-> "Fulfilled", value |-> [j \in DOMAIN elements |-> outcome[elements[j]].value]]
          BY <4>1, <5>1, PromisedFacts DEF PromisedByKind, Collect
        <5>3. values' = [j \in DOMAIN elements |-> outcome[elements[j]].value]
          BY <3>4, <4>1 DEF Kept
        <5> QED BY <2>2, <4>1, <5>2, <5>3
      <4>2. CASE kind = "any"
        <5>1. AllIn({"Rejected"})
          BY <1>4, <3>2, <3>3, <4>2, CollectedFacts DEF AllIn
        <5>2. Promised = [type |-> "Rejected", value |-> [j \in DOMAIN elements |-> outcome[elements[j]].value]]
          BY <4>2, <5>1, PromisedFacts DEF PromisedByKind, Collect
        <5>3. values' = [j \in DOMAIN elements |-> outcome[elements[j]].value]
          BY <3>4, <4>2 DEF Kept
        <5> QED BY <2>2, <4>2, <5>2, <5>3
      <4>3. CASE kind = "allSettled"
        <5>1. AllIn(Settled)
          BY <1>4, <3>3 DEF AllIn
        <5>2. Promised = [type |-> "Fulfilled", value |-> [j \in DOMAIN elements |-> outcome[elements[j]]]]
          BY <4>3, <5>1, PromisedFacts DEF PromisedByKind, Collect
        <5>3. values' = [j \in DOMAIN elements |-> outcome[elements[j]]]
          BY <3>4, <4>3 DEF Kept
        <5> QED BY <2>2, <4>3, <5>2, <5>3
      <4> QED BY <2>4, <4>1, <4>2, <4>3 DEF Collecting
    <3>6. last \in Settled /\ result' # Pending /\ kind # "none"
      BY <1>6, <2>2, <3>1 DEF Settled, Pending, Kind
    <3>7. ResultInv'
      BY <1>2, <1>5, <1>10, <3>1, <3>5, <3>6 DEF ResultInv
    <3> QED BY <1>2, <2>10, <3>7 DEF AInv
  <2> QED BY <2>11, <2>12
<1> QED BY <1>8, <1>9, <1>10

----------------------------------------------------------------------------
(* The invariant holds.                                                    *)

\* Before the call there is nothing.
LEMMA InitAInv == Init => AInv
<1> SUFFICES ASSUME Init PROVE AInv
  OBVIOUS
<1>1. QueueInv
  BY AggregateAssumption DEF Init, QueueInv, AggregateAssumption
<1>2. Ran = {}
  BY DEF Init, Ran
<1>3. ValuesInv /\ ResultInv
  BY <1>2 DEF Init, ValuesInv, ResultInv, Collecting, Kind
<1> QED BY <1>1, <1>3 DEF AInv

\* Every step keeps it.
LEMMA NextAInv == AInv /\ [Next]_vars => AInv'
<1> SUFFICES ASSUME AInv, [Next]_vars PROVE AInv'
  OBVIOUS
<1>1. CASE UNCHANGED vars
  <2>1. Promised' = Promised
    BY <1>1 DEF vars, Promised, First, AllIn, Collect, OutcomeAt
  <2>2. Ran' = Ran /\ \A i \in 1..Len(elements) : Kept(i)' = Kept(i)
    BY <1>1 DEF vars, Ran, Kept
  <2>3. QueueInv' /\ ResultInv'
    BY <1>1, <2>1, <2>2 DEF vars, AInv, QueueInv, ResultInv
  <2>4. ValuesInv'
    BY <1>1, <2>2 DEF vars, AInv, ValuesInv, RemainingExact
  <2> QED BY <2>3, <2>4 DEF AInv
<1>2. CASE Next
  BY <1>2, CallInv, SettleInputInv, RunElementInv DEF Next
<1> QED BY <1>1, <1>2

\* AInv is an invariant: what has run, what is queued and what the AggregateDB holds agree.
THEOREM AggregateInvariant == Spec => []AInv
BY InitAInv, NextAInv, PTL DEF Spec

\* The types of the variables.
THEOREM AggregateTypes == Spec => []TypeOK
BY AInvTypes, AggregateInvariant, PTL

\* remainingElementCount is the number of places that have no value, at every moment.
THEOREM CountExact == Spec => []RemainingExact
<1>1. AInv => RemainingExact
  BY DEF AInv, ValuesInv, RemainingExact
<1> QED BY <1>1, AggregateInvariant, PTL

\* The result is Pending, what the combinator promises, or what the iterable threw.
THEOREM AsPromised == Spec => []ResultAsPromised
<1>1. AInv => ResultAsPromised
  BY DEF AInv, ResultInv, ResultAsPromised
<1> QED BY <1>1, AggregateInvariant, PTL

=============================================================================
