----------------------------- MODULE Aggregate -----------------------------
(***************************************************************************)
(* One call of all, any, allSettled or race: an element per value of the   *)
(* iterable, a reaction per element, the AggregateDB the reactions share,  *)
(* and the result Future.  The inputs are Futures that user code settles;  *)
(* the microtask queue is the engine's, reduced to this call's reactions.  *)
(***************************************************************************)
EXTENDS Integers, Sequences, FiniteSets

CONSTANTS Input,      \* Futures the iterable may yield, some more than once
          Payload,    \* results and reasons of the inputs
          Undefined,  \* an element that has no value yet
          Thrown,     \* what the iterable throws, if it does
          MaxLength   \* bound: how many values an iterable yields

VARIABLES
  kind,      \* which combinator was called; "none" before the call
  elements,  \* what the iterable yielded, in order
  outcome,   \* per input, its type and its result or reason
  jobs,      \* indices of the elements whose reaction is queued, oldest first
  values,    \* AggregateDB.values; <<>> until setElementCount
  counted,   \* whether setElementCount was called
  remaining, \* AggregateDB.remainingElementCount
  result,    \* the returned Future: its type and its result or reason
  order      \* history: elements in the order in which their inputs were settled

vars == <<kind, elements, outcome, jobs, values, counted, remaining, result, order>>

Kind == {"all", "any", "allSettled", "race"}
Settled == {"Fulfilled", "Rejected"}
Pending == [type |-> "Pending", value |-> Undefined]
Outcome == [type : Settled, value : Payload]

ASSUME AggregateAssumption ==
  /\ MaxLength \in Nat
  /\ Undefined \notin Payload \cup Outcome

\* What settleElement stores: allSettled keeps the whole outcome.
Element == Payload \cup Outcome \cup {Undefined}

TypeOK ==
  /\ kind \in Kind \cup {"none"}
  /\ elements \in Seq(Input)
  /\ outcome \in [Input -> Outcome \cup {Pending}]
  /\ jobs \in Seq(1..MaxLength)
  /\ values \in Seq(Element)
  /\ counted \in BOOLEAN
  /\ remaining \in Nat
  /\ result.type \in Settled \cup {"Pending"}
  /\ order \in Seq(1..MaxLength)

Init ==
  /\ kind = "none"
  /\ elements = <<>>
  /\ outcome = [s \in Input |-> Pending]
  /\ jobs = <<>>
  /\ values = <<>>
  /\ counted = FALSE
  /\ remaining = 0
  /\ result = Pending
  /\ order = <<>>

----------------------------------------------------------------------------
\* resolveFutureById and rejectFutureById on the result: only the first counts.
SettleResult(type, v) ==
  result' = IF result = Pending THEN [type |-> type, value |-> v] ELSE result

\* Indices of elements in ascending order: the order their reactions are queued in,
\* whether next() queues them or fulfill and reject do.
InOrder(indices) ==
  [k \in 1..Cardinality(indices) |->
     CHOOSE i \in indices : Cardinality({j \in indices : j < i}) = k - 1]

\* Mutant: the count is the last index.
CountLastIndex(k, n) ==
  /\ values' = [i \in 1..n |-> Undefined]
  /\ counted' = TRUE
  /\ remaining' = IF n = 0 THEN 0 ELSE n - 1
  /\ CASE n = 0 /\ k \in {"all", "allSettled"} -> SettleResult("Fulfilled", <<>>)
       [] n = 0 /\ k = "any" -> SettleResult("Rejected", <<>>)
       [] OTHER -> UNCHANGED result

\* setElementCount, and the result of a call with no elements.
Count(k, n) ==
  /\ values' = [i \in 1..n |-> Undefined]
  /\ counted' = TRUE
  /\ remaining' = n
  /\ CASE n = 0 /\ k \in {"all", "allSettled"} -> SettleResult("Fulfilled", <<>>)
       [] n = 0 /\ k = "any" -> SettleResult("Rejected", <<>>)
       [] OTHER -> UNCHANGED result

\* The iteration: next() on each value, in order, until the iterable ends or
\* throws.  race has no AggregateDB.
Call(k, e, throws) ==
  /\ kind = "none"
  /\ kind' = k
  /\ elements' = e
  /\ LET queued == InOrder({i \in DOMAIN e : outcome[e[i]] # Pending})
     IN jobs' = queued /\ order' = queued
  /\ CASE throws -> /\ SettleResult("Rejected", Thrown)
                    /\ UNCHANGED <<values, counted, remaining>>
       [] ~throws /\ k = "race" -> UNCHANGED <<result, values, counted, remaining>>
       [] OTHER -> Count(k, Len(e))
  /\ UNCHANGED outcome

\* User code settles an input; that queues its reactions.
SettleInput(s) ==
  /\ outcome[s] = Pending
  /\ \E o \in Outcome : outcome' = [outcome EXCEPT ![s] = o]
  /\ LET queued == InOrder({i \in DOMAIN elements : elements[i] = s})
     IN jobs' = jobs \o queued /\ order' = order \o queued
  /\ UNCHANGED <<kind, elements, values, counted, remaining, result>>

\* Mutants: the last element is not counted; the count is compared before it is
\* decremented; an element that is written is counted again when it is settled.
SettleElementUncounted(i, v, last) ==
  IF counted
  THEN /\ values' = [values EXCEPT ![i] = v]
       /\ remaining' = IF remaining = 1 THEN 1 ELSE remaining - 1
       /\ IF remaining = 1 THEN SettleResult(last, values') ELSE UNCHANGED result
  ELSE UNCHANGED <<values, remaining, result>>

SettleElementTestsFirst(i, v, last) ==
  IF counted
  THEN /\ values' = [values EXCEPT ![i] = v]
       /\ remaining' = remaining - 1
       /\ IF remaining = 0 THEN SettleResult(last, values') ELSE UNCHANGED result
  ELSE UNCHANGED <<values, remaining, result>>

SettleElementCountsTwice(i, v, last) ==
  IF counted
  THEN /\ values' = [values EXCEPT ![i] = v]
       /\ remaining' = remaining - 2
       /\ IF remaining' = 0 THEN SettleResult(last, values') ELSE UNCHANGED result
  ELSE UNCHANGED <<values, remaining, result>>

\* settleElement; `last` is the type the result gets once every element has a value.
\* Before setElementCount it throws, which rejects a Future nobody holds.
SettleElement(i, v, last) ==
  IF counted
  THEN /\ values' = [values EXCEPT ![i] = v]
       /\ remaining' = remaining - 1
       /\ IF remaining' = 0 THEN SettleResult(last, values') ELSE UNCHANGED result
  ELSE UNCHANGED <<values, remaining, result>>

\* Which outcomes of an element go through the AggregateDB.
Collected(k, type) ==
  \/ k = "all" /\ type = "Fulfilled"
  \/ k = "any" /\ type = "Rejected"
  \/ k = "allSettled"

\* The reaction of the oldest queued element.
RunElement ==
  /\ jobs # <<>>
  /\ LET i == Head(jobs)
         o == outcome[elements[i]]
     IN IF Collected(kind, o.type)
        THEN SettleElement(i, IF kind = "allSettled" THEN o ELSE o.value,
                           IF kind = "any" THEN "Rejected" ELSE "Fulfilled")
        ELSE SettleResult(o.type, o.value) /\ UNCHANGED <<values, remaining>>
  /\ jobs' = Tail(jobs)
  /\ UNCHANGED <<kind, elements, outcome, counted, order>>

Next ==
  \/ \E k \in Kind, n \in 0..MaxLength : \E e \in [1..n -> Input], throws \in BOOLEAN :
       Call(k, e, throws)
  \/ \E s \in Input : SettleInput(s)
  \/ RunElement

\* The host drains its microtask queue; users owe nothing.
Spec == Init /\ [][Next]_vars /\ WF_vars(RunElement)
----------------------------------------------------------------------------
\* The definition of each combinator over the elements settled so far, in the order
\* in which they were settled: Pending, or the outcome the result must have.
OutcomeAt(n) == outcome[elements[order[n]]]
First(types) ==
  LET found == {n \in DOMAIN order : OutcomeAt(n).type \in types}
  IN IF found = {} THEN Pending ELSE OutcomeAt(CHOOSE n \in found : \A m \in found : n <= m)
AllIn(types) ==
  \A i \in DOMAIN elements : outcome[elements[i]].type \in types
Collect(type, Of(_)) == [type |-> type, value |-> [i \in DOMAIN elements |-> Of(outcome[elements[i]])]]

Promised ==
  CASE kind = "race" -> First(Settled)
    [] kind = "all" -> IF AllIn({"Fulfilled"}) THEN Collect("Fulfilled", LAMBDA o : o.value)
                                               ELSE First({"Rejected"})
    [] kind = "any" -> IF AllIn({"Rejected"}) THEN Collect("Rejected", LAMBDA o : o.value)
                                              ELSE First({"Fulfilled"})
    [] kind = "allSettled" -> IF AllIn(Settled) THEN Collect("Fulfilled", LAMBDA o : o)
                                                ELSE Pending
    [] kind = "none" -> Pending

\* The result never settles with anything but what the combinator promises, whatever
\* the order, the repetitions and what was settled before the call.
ThrownResult == [type |-> "Rejected", value |-> Thrown]
ResultAsPromised == result \in {Pending, Promised, ThrownResult}

\* The count that decides when the list is complete is exact.
RemainingExact ==
  counted => remaining = Cardinality({i \in DOMAIN values : values[i] = Undefined})

\* The result settles in the end when the combinator promises an outcome.
ResultArrives == Promised # Pending ~> result # Pending
=============================================================================
