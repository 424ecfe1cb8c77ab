--------------------------- MODULE Promises_proofs ---------------------------
(***************************************************************************)
(* Proof that the engine takes the steps of native promises, job by job,   *)
(* for every number of Futures and every set of payloads: the refinement   *)
(* of Promises that the fuzzer relies on when it compares the two.         *)
(***************************************************************************)
EXTENDS FutureMachine_proofs

----------------------------------------------------------------------------
(* Sequences that are mapped element by element.                           *)

Mapped(s) == [i \in DOMAIN s |-> NativeJob(s[i])]

\* Mapping the queue and changing it can be done in either order.
LEMMA MappedQueue ==
  ASSUME TypeOK, NEW new \in Seq(Job), NEW done \in BOOLEAN, done => jobs # <<>>,
         Enqueue(new, done)
  PROVE  Native!Queue(done, Mapped(new))
<1> DEFINE kept == IF done THEN Tail(jobs) ELSE jobs
<1>1. kept \in Seq(Job) /\ jobs' = kept \o new
  BY DEF TypeOK, Enqueue
<1>2. (IF done THEN Tail(Mapped(jobs)) ELSE Mapped(jobs)) = Mapped(kept)
  <2>1. CASE done
    <3>1. jobs \in Seq(Job) /\ jobs # <<>> /\ Len(jobs) \in Nat
      BY <2>1 DEF TypeOK
    <3>2. Mapped(jobs) = [i \in 1..Len(jobs) |-> NativeJob(jobs[i])] /\ Len(Mapped(jobs)) = Len(jobs)
      BY <3>1 DEF Mapped
    <3>3. Tail(Mapped(jobs)) = [i \in 1..Len(jobs) - 1 |-> NativeJob(jobs[i + 1])]
      BY <3>1, <3>2
    <3>4. Mapped(Tail(jobs)) = [i \in 1..Len(jobs) - 1 |-> NativeJob(jobs[i + 1])]
      BY <3>1 DEF Mapped
    <3> QED BY <2>1, <3>3, <3>4
  <2>2. CASE ~done
    BY <2>2
  <2> QED BY <2>1, <2>2
<1> HIDE DEF kept
<1>3. Mapped(kept \o new) = Mapped(kept) \o Mapped(new)
  <2>1. Len(kept) \in Nat /\ Len(new) \in Nat
    BY <1>1
  <2>2. /\ kept \o new \in Seq(Job)
        /\ Len(kept \o new) = Len(kept) + Len(new)
        /\ \A i \in 1..Len(kept) + Len(new) :
             (kept \o new)[i] = IF i <= Len(kept) THEN kept[i] ELSE new[i - Len(kept)]
    BY <1>1, ConcatProperties, Zenon
  <2>3. /\ Mapped(kept) = [i \in 1..Len(kept) |-> NativeJob(kept[i])] /\ Len(Mapped(kept)) = Len(kept)
        /\ Mapped(new) = [i \in 1..Len(new) |-> NativeJob(new[i])] /\ Len(Mapped(new)) = Len(new)
    BY <1>1 DEF Mapped
  <2>4. Mapped(kept) \o Mapped(new) =
          [i \in 1..Len(kept) + Len(new) |->
             IF i <= Len(kept) THEN NativeJob(kept[i]) ELSE NativeJob(new[i - Len(kept)])]
    BY <1>1, <2>1, <2>3
  <2>5. Mapped(kept \o new) =
          [i \in 1..Len(kept) + Len(new) |->
             IF i <= Len(kept) THEN NativeJob(kept[i]) ELSE NativeJob(new[i - Len(kept)])]
    BY <2>1, <2>2 DEF Mapped
  <2> QED BY <2>4, <2>5
<1>4. Mapped(jobs)' = (IF done THEN Tail(Mapped(jobs)) ELSE Mapped(jobs)) \o Mapped(new)
  BY <1>1, <1>2, <1>3 DEF Mapped
<1> QED BY <1>4 DEF Native!Queue, Mapped

----------------------------------------------------------------------------
(* The reaction lists.                                                     *)

\* A Future's pairs, seen as the two lists of a promise.
LEMMA Lists ==
  ASSUME TypeOK
  PROVE  /\ NativeReactions(OnFulfilled) = [f \in Future |-> [i \in 1..Len(reactions[f]) |->
              [derived |-> reactions[f][i].next, callback |-> Callback(reactions[f][i].onFulfilled)]]]
         /\ NativeReactions(OnRejected) = [f \in Future |-> [i \in 1..Len(reactions[f]) |->
              [derived |-> reactions[f][i].next, callback |-> Callback(reactions[f][i].onRejected)]]]
         /\ \A f \in Future : reactions[f] \in Seq(Reaction) /\ Len(reactions[f]) \in Nat
<1>1. \A f \in Future : /\ reactions[f] \in Seq(Reaction) /\ Len(reactions[f]) \in Nat
                        /\ DOMAIN reactions[f] = 1..Len(reactions[f])
  BY DEF TypeOK
<1> QED BY <1>1 DEF NativeReactions, OnFulfilled, OnRejected

\* Emptying a Future's pairs empties both lists.
LEMMA ListsEmptied ==
  ASSUME TypeOK, NEW f \in Future, reactions' = [reactions EXCEPT ![f] = <<>>]
  PROVE  /\ NativeReactions(OnFulfilled)' = [NativeReactions(OnFulfilled) EXCEPT ![f] = <<>>]
         /\ NativeReactions(OnRejected)' = [NativeReactions(OnRejected) EXCEPT ![f] = <<>>]
<1>1. reactions \in [Future -> Seq(Reaction)]
  BY DEF TypeOK
<1>2. reactions'[f] = <<>> /\ \A g \in Future : g # f => reactions'[g] = reactions[g]
  BY <1>1
<1>3. /\ NativeReactions(OnFulfilled)' = [g \in Future |-> [i \in DOMAIN reactions'[g] |->
           [derived |-> reactions'[g][i].next, callback |-> Callback(reactions'[g][i].onFulfilled)]]]
      /\ NativeReactions(OnRejected)' = [g \in Future |-> [i \in DOMAIN reactions'[g] |->
           [derived |-> reactions'[g][i].next, callback |-> Callback(reactions'[g][i].onRejected)]]]
  BY DEF NativeReactions, OnFulfilled, OnRejected
<1>4. /\ NativeReactions(OnFulfilled)'[f] = <<>> /\ NativeReactions(OnRejected)'[f] = <<>>
  BY <1>2, <1>3
<1>5. \A g \in Future : g # f =>
        /\ NativeReactions(OnFulfilled)'[g] = NativeReactions(OnFulfilled)[g]
        /\ NativeReactions(OnRejected)'[g] = NativeReactions(OnRejected)[g]
  BY <1>2, <1>3 DEF NativeReactions, OnFulfilled, OnRejected
<1>6. /\ NativeReactions(OnFulfilled) = [g \in Future |-> NativeReactions(OnFulfilled)[g]]
      /\ NativeReactions(OnRejected) = [g \in Future |-> NativeReactions(OnRejected)[g]]
      /\ NativeReactions(OnFulfilled)' = [g \in Future |-> NativeReactions(OnFulfilled)'[g]]
      /\ NativeReactions(OnRejected)' = [g \in Future |-> NativeReactions(OnRejected)'[g]]
  BY DEF NativeReactions, OnFulfilled, OnRejected
<1> QED BY <1>4, <1>5, <1>6

\* A pair that is added is added to both lists.
LEMMA ListsAppended ==
  ASSUME TypeOK, NEW f \in Future, NEW r \in Reaction,
         reactions' = [reactions EXCEPT ![f] = Append(@, r)]
  PROVE  /\ NativeReactions(OnFulfilled)' = [NativeReactions(OnFulfilled) EXCEPT ![f] =
              Append(@, [derived |-> r.next, callback |-> Callback(r.onFulfilled)])]
         /\ NativeReactions(OnRejected)' = [NativeReactions(OnRejected) EXCEPT ![f] =
              Append(@, [derived |-> r.next, callback |-> Callback(r.onRejected)])]
<1>1. reactions \in [Future -> Seq(Reaction)]
  BY DEF TypeOK
<1>2. reactions'[f] = Append(reactions[f], r) /\ \A g \in Future : g # f => reactions'[g] = reactions[g]
  BY <1>1
<1>3. /\ Len(reactions[f]) \in Nat /\ reactions[f] \in Seq(Reaction)
      /\ DOMAIN reactions'[f] = 1..Len(reactions[f]) + 1
      /\ reactions'[f][Len(reactions[f]) + 1] = r
      /\ \A i \in 1..Len(reactions[f]) : reactions'[f][i] = reactions[f][i]
  BY <1>1, <1>2
<1>4. /\ NativeReactions(OnFulfilled)' = [g \in Future |-> [i \in DOMAIN reactions'[g] |->
           [derived |-> reactions'[g][i].next, callback |-> Callback(reactions'[g][i].onFulfilled)]]]
      /\ NativeReactions(OnRejected)' = [g \in Future |-> [i \in DOMAIN reactions'[g] |->
           [derived |-> reactions'[g][i].next, callback |-> Callback(reactions'[g][i].onRejected)]]]
  BY DEF NativeReactions, OnFulfilled, OnRejected
<1>5. \A g \in Future : g # f =>
        /\ NativeReactions(OnFulfilled)'[g] = NativeReactions(OnFulfilled)[g]
        /\ NativeReactions(OnRejected)'[g] = NativeReactions(OnRejected)[g]
  BY <1>2, <1>4 DEF NativeReactions, OnFulfilled, OnRejected
<1>6. NativeReactions(OnFulfilled)'[f] =
        Append(NativeReactions(OnFulfilled)[f], [derived |-> r.next, callback |-> Callback(r.onFulfilled)])
  BY <1>3, <1>4, Lists
<1>7. NativeReactions(OnRejected)'[f] =
        Append(NativeReactions(OnRejected)[f], [derived |-> r.next, callback |-> Callback(r.onRejected)])
  BY <1>3, <1>4, Lists
<1>8. /\ NativeReactions(OnFulfilled) = [g \in Future |-> NativeReactions(OnFulfilled)[g]]
      /\ NativeReactions(OnRejected) = [g \in Future |-> NativeReactions(OnRejected)[g]]
      /\ NativeReactions(OnFulfilled)' = [g \in Future |-> NativeReactions(OnFulfilled)'[g]]
      /\ NativeReactions(OnRejected)' = [g \in Future |-> NativeReactions(OnRejected)'[g]]
  BY DEF NativeReactions, OnFulfilled, OnRejected
<1> QED BY <1>5, <1>6, <1>7, <1>8

----------------------------------------------------------------------------
(* The steps that settle or lock one Future.                               *)

\* fulfill and reject are FulfillPromise and RejectPromise.
LEMMA TriggerIsSettle ==
  ASSUME IInv, NEW f \in Future, NEW type \in Settled, NEW v \in Value, NEW done \in BOOLEAN,
         done => jobs # <<>>, Trigger(f, type, v, done)
  PROVE  Native!Settle(f, type, v, done)
<1> USE DEF IInv
<1> DEFINE tj == TriggeredJobs(f, type, v)
<1> DEFINE list == IF type = "Fulfilled" THEN NativeReactions(OnFulfilled)[f]
                                         ELSE NativeReactions(OnRejected)[f]
<1>1. /\ reactions[f] \in Seq(Reaction) /\ Len(reactions[f]) \in Nat
      /\ NativeReactions(OnFulfilled)[f] = [i \in 1..Len(reactions[f]) |->
           [derived |-> reactions[f][i].next, callback |-> Callback(reactions[f][i].onFulfilled)]]
      /\ NativeReactions(OnRejected)[f] = [i \in 1..Len(reactions[f]) |->
           [derived |-> reactions[f][i].next, callback |-> Callback(reactions[f][i].onRejected)]]
  BY Lists
<1>2. tj \in Seq(Job)
  BY TriggeredJobsFacts
<1>3. DOMAIN list = 1..Len(reactions[f]) /\ DOMAIN tj = 1..Len(reactions[f])
  BY <1>1 DEF TriggeredJobs
<1>4. ASSUME NEW i \in 1..Len(reactions[f])
      PROVE  NativeJob(tj[i]) = Native!ReactionJob(list[i].derived, list[i].callback, type, v)
  <2> DEFINE h == IF type = "Fulfilled" THEN reactions[f][i].onFulfilled
                                        ELSE reactions[f][i].onRejected
  <2>1. tj[i] = ReactionJob(reactions[f][i].next, f, h, type, v)
    BY DEF TriggeredJobs
  <2>2. list[i].derived = reactions[f][i].next /\ list[i].callback = Callback(h)
    BY <1>1
  <2> HIDE DEF h, tj, list
  <2> QED BY <2>1, <2>2 DEF ReactionJob, NativeJob, Native!ReactionJob
<1>5. Mapped(tj) = [i \in DOMAIN list |-> Native!ReactionJob(list[i].derived, list[i].callback, type, v)]
  BY <1>3, <1>4 DEF Mapped
<1>6. Native!Queue(done, Mapped(tj))
  BY <1>2, MappedQueue DEF Trigger
<1>7. /\ NativeReactions(OnFulfilled)' = [NativeReactions(OnFulfilled) EXCEPT ![f] = <<>>]
      /\ NativeReactions(OnRejected)' = [NativeReactions(OnRejected) EXCEPT ![f] = <<>>]
  BY ListsEmptied DEF Trigger
<1> HIDE DEF tj
<1> QED BY <1>5, <1>6, <1>7 DEF Native!Settle, Trigger

\* Resolution with something that is not settled is that of ECMAScript.
LEMMA ResolveWithIsNative ==
  ASSUME IInv, NEW f \in Future, NEW source \in Future \cup {Outside}, NEW done \in BOOLEAN,
         done => jobs # <<>>, ResolveWith(f, source, done)
  PROVE  Native!ResolveWith(f, source, done)
<1>1. CASE source = f
  <2>1. TypeException \in Value /\ "Rejected" \in Settled
    BY DEF Value, Settled
  <2> QED BY <1>1, <2>1, TriggerIsSettle DEF ResolveWith, Native!ResolveWith
<1>2. CASE source # f
  <2> DEFINE job == IF source = Outside THEN SubscribeJob(f) ELSE AdoptJob(f, source)
  <2>1. Lock(f, source, job, done)
    BY <1>2 DEF ResolveWith
  <2>2. job \in Job /\ NativeJob(job) = Native!ThenableJob(f, source)
    <3>1. NoValue \in Value \cup {NoValue} /\ "none" \in Handler /\ "Fulfilled" \in Settled
      BY DEF Handler, Settled
    <3>2. job \in Job
      BY <3>1, JobTypes
    <3> QED BY <3>2 DEF SubscribeJob, AdoptJob, NativeJob, Native!ThenableJob, Outside
  <2> HIDE DEF job
  <2>3. <<job>> \in Seq(Job) /\ Mapped(<<job>>) = <<Native!ThenableJob(f, source)>>
    BY <2>2 DEF Mapped
  <2>4. Native!Queue(done, <<Native!ThenableJob(f, source)>>)
    BY <2>1, <2>3, MappedQueue DEF Lock, IInv
  <2>5. UNCHANGED <<NativeReactions(OnFulfilled), NativeReactions(OnRejected)>>
    BY <2>1 DEF Lock, NativeReactions, OnFulfilled, OnRejected
  <2> QED BY <1>2, <2>1, <2>4, <2>5 DEF Lock, Native!ResolveWith
<1> QED BY <1>1, <1>2

\* Whatever a Future is resolved with, a promise would be resolved with it.
LEMMA ResolveIsNative ==
  ASSUME IInv, NEW f \in Future, NEW sources \in SUBSET (Future \cup {Outside}),
         NEW done \in BOOLEAN, done => jobs # <<>>,
         ResolveFutureByDBNoSettledCheck(f, sources, done)
  PROVE  Native!Resolve(f, sources, done)
<1>1. ASSUME NEW v \in Payload, NEW type \in Settled, Trigger(f, type, v, done)
      PROVE  Native!Resolve(f, sources, done)
  <2>1. v \in Value
    BY DEF Value
  <2>2. Native!Settle(f, type, v, done)
    BY <1>1, <2>1, TriggerIsSettle
  <2> QED BY <2>2 DEF Native!Resolve, Settled
<1>2. ASSUME NEW source \in sources, ResolveWith(f, source, done)
      PROVE  Native!Resolve(f, sources, done)
  BY <1>2, ResolveWithIsNative DEF Native!Resolve
<1> QED BY <1>1, <1>2 DEF ResolveFutureByDBNoSettledCheck

----------------------------------------------------------------------------
(* The actions.                                                            *)

NativeStep == [Native!Next]_(Native!vars)

\* What only the engine has is no step of a promise.
LEMMA StutterIsNative ==
  ASSUME UNCHANGED <<idCounter, state, value, alreadySettled, resolvable, reactions, subscribed, jobs>>
  PROVE  NativeStep
<1>1. /\ UNCHANGED <<NativeReactions(OnFulfilled), NativeReactions(OnRejected)>>
      /\ [i \in DOMAIN jobs |-> NativeJob(jobs[i])]' = [i \in DOMAIN jobs |-> NativeJob(jobs[i])]
  BY DEF NativeReactions, OnFulfilled, OnRejected
<1> QED BY <1>1 DEF NativeStep, Native!vars

\* A new Future has no value and no reactions yet.
LEMMA FreshFacts ==
  ASSUME IInv, Fresh \in Future
  PROVE  value[Fresh] = NoValue /\ reactions[Fresh] = <<>> /\ [value EXCEPT ![Fresh] = NoValue] = value
<1>1. Fresh > idCounter
  BY DEF IInv, TypeOK, Fresh, Future
<1>2. state[Fresh] = "Unborn"
  BY <1>1 DEF IInv, BirthInv
<1> QED BY <1>2 DEF IInv, BirthInv, TypeOK

\* withResolvers, and what returns a Future that is settled at once.
LEMMA CreateIsNative == ASSUME IInv, CreateFuture \/ CreateSettled PROVE NativeStep
<1>1. /\ Fresh \in Future /\ UNCHANGED <<reactions, jobs, subscribed>>
      /\ idCounter' = idCounter + 1 /\ Fresh = idCounter + 1
  BY DEF CreateFuture, CreateSettled, NewFuture, queue, Fresh
<1>2. idCounter < MaxFutures
  BY <1>1, ConstantsAssumption DEF Future, IInv, TypeOK, ConstantsAssumption
<1>3. /\ UNCHANGED <<NativeReactions(OnFulfilled), NativeReactions(OnRejected)>>
      /\ [i \in DOMAIN jobs |-> NativeJob(jobs[i])]' = [i \in DOMAIN jobs |-> NativeJob(jobs[i])]
  BY <1>1 DEF NativeReactions, OnFulfilled, OnRejected
<1>4. CASE CreateFuture
  <2>1. value' = value
    BY <1>1, <1>4, FreshFacts DEF CreateFuture, NewFuture
  <2>2. Native!CreateFuture
    BY <1>1, <1>2, <1>3, <1>4, <2>1 DEF CreateFuture, NewFuture, Native!CreateFuture
  <2> QED BY <2>2 DEF NativeStep, Native!Next
<1>5. CASE CreateSettled
  <2>1. Native!CreateSettledFuture
    BY <1>1, <1>2, <1>3, <1>5 DEF CreateSettled, NewFuture, Settled, Native!CreateSettledFuture
  <2> QED BY <2>1 DEF NativeStep, Native!Next
<1> QED BY <1>4, <1>5

\* A reaction of a Future that is settled, queued for next.
LEMMA QueuedIsNative ==
  ASSUME IInv, NEW f \in Future, state[f] \in Settled, NEW next \in Future,
         NEW onFulfilled \in Handler, NEW onRejected \in Handler, NEW done \in BOOLEAN,
         done => jobs # <<>>,
         Enqueue(<<ReactionJob(next, f, IF state[f] = "Fulfilled" THEN onFulfilled ELSE onRejected,
                               state[f], value[f])>>, done),
         UNCHANGED reactions
  PROVE  Native!PerformThen(f, next, <<Callback(onFulfilled), Callback(onRejected)>>, done)
<1> DEFINE h == IF state[f] = "Fulfilled" THEN onFulfilled ELSE onRejected
<1> DEFINE job == ReactionJob(next, f, h, state[f], value[f])
<1>1. job \in Job
  <2>1. h \in Handler /\ value[f] \in Value \cup {NoValue}
    BY DEF IInv, TypeOK
  <2> HIDE DEF h
  <2> QED BY <2>1, JobTypes
<1>2. NativeJob(job) = Native!ReactionJob(next,
        IF state[f] = "Fulfilled" THEN Callback(onFulfilled) ELSE Callback(onRejected), state[f], value[f])
  BY DEF ReactionJob, NativeJob, Native!ReactionJob
<1> HIDE DEF job
<1>3. <<job>> \in Seq(Job) /\ Mapped(<<job>>) = <<NativeJob(job)>>
  BY <1>1 DEF Mapped
<1>4. Native!Queue(done, <<NativeJob(job)>>)
  BY <1>3, MappedQueue DEF IInv, job
<1>5. UNCHANGED <<NativeReactions(OnFulfilled), NativeReactions(OnRejected)>>
  BY DEF NativeReactions, OnFulfilled, OnRejected
<1>6. state[f] # "Pending"
  BY DEF Settled
<1> QED BY <1>2, <1>4, <1>5, <1>6 DEF Native!PerformThen

\* A reaction pair stored with a Future that is Pending.
LEMMA StoredIsNative ==
  ASSUME IInv, NEW f \in Future, state[f] = "Pending", NEW r \in Reaction, NEW done \in BOOLEAN,
         done => jobs # <<>>,
         reactions' = [reactions EXCEPT ![f] = Append(@, r)],
         Native!Queue(done, <<>>)
  PROVE  Native!PerformThen(f, r.next, <<Callback(r.onFulfilled), Callback(r.onRejected)>>, done)
BY ListsAppended DEF IInv, Native!PerformThen

\* next is then.
LEMMA NextIsNative ==
  ASSUME IInv, NEW f \in Born, NEW h \in Handlers, FutureNext(f, h) PROVE NativeStep
<1>1. /\ Fresh \in Future /\ idCounter' = idCounter + 1 /\ Fresh = idCounter + 1
      /\ state' = [state EXCEPT ![Fresh] = "Pending"]
      /\ UNCHANGED <<subscribed, resolvable, alreadySettled>>
      /\ value' = [value EXCEPT ![Fresh] = NoValue]
      /\ f \in Future
  BY BornFacts DEF FutureNext, NewFuture, Fresh
<1>2. idCounter < MaxFutures /\ value' = value
  <2>1. [value EXCEPT ![Fresh] = NoValue] = value
    BY <1>1, FreshFacts
  <2>2. idCounter \in 0..MaxFutures /\ MaxFutures \in Nat
    BY ConstantsAssumption DEF IInv, TypeOK, ConstantsAssumption
  <2>3. idCounter + 1 \in 1..MaxFutures
    BY <1>1 DEF Future
  <2> QED BY <1>1, <2>1, <2>2, <2>3
<1>3. h[1] \in Handler /\ h[2] \in Handler
  BY ConstantsAssumption DEF ConstantsAssumption
<1> DEFINE pair == <<Callback(h[1]), Callback(h[2])>>
<1>4. Native!PerformThen(f, Fresh, pair, FALSE)
  <2>1. CASE AddNext(f, h)
    <3> DEFINE r == [next |-> Fresh, onFulfilled |-> h[1], onRejected |-> h[2]]
    <3>1. r \in Reaction /\ r.next = Fresh /\ r.onFulfilled = h[1] /\ r.onRejected = h[2]
      BY <1>1, <1>3 DEF Reaction
    <3>2. state[f] = "Pending" /\ reactions' = [reactions EXCEPT ![f] = Append(@, r)] /\ jobs' = jobs
      BY <2>1 DEF AddNext, queue
    <3> HIDE DEF r
    <3>3. Native!Queue(FALSE, <<>>)
      <4>1. Mapped(jobs) \o <<>> = Mapped(jobs)
        <5>1. jobs \in Seq(Job) /\ \A i \in 1..Len(jobs) : NativeJob(jobs[i]) \in {NativeJob(j) : j \in Job}
          BY DEF IInv, TypeOK
        <5>2. Mapped(jobs) \in Seq({NativeJob(j) : j \in Job})
          BY <5>1 DEF Mapped
        <5> QED BY <5>2
      <4> QED BY <3>2, <4>1 DEF Native!Queue, Mapped
    <3> QED BY <1>1, <3>1, <3>2, <3>3, StoredIsNative
  <2>2. CASE SettledNext(f, h)
    BY <1>1, <1>3, <2>2, QueuedIsNative DEF SettledNext
  <2> QED BY <2>1, <2>2 DEF FutureNext
<1>5. pair \in {<<Callback(k[1]), Callback(k[2])>> : k \in Handlers}
  OBVIOUS
<1> HIDE DEF pair
<1>6. Native!NextFuture(f, pair)
  BY <1>1, <1>2, <1>4 DEF Native!NextFuture
<1>7. f \in Native!Created
  BY DEF Native!Created, Born
<1> QED BY <1>5, <1>6, <1>7 DEF NativeStep, Native!Next

----------------------------------------------------------------------------
(* Resolving a Future from outside.                                        *)

\* The second resolution of a Future is ignored on both sides.
LEMMA ResolveByIdIsNative ==
  ASSUME IInv, NEW f \in resolvable, ResolveFutureById(f) \/ RejectFutureById(f)
  PROVE  NativeStep
<1>1. CASE f \in alreadySettled
  BY <1>1, StutterIsNative DEF ResolveFutureById, RejectFutureById, db, queue
<1>2. CASE f \notin alreadySettled
  <2>1. f \in Future /\ UNCHANGED <<idCounter, resolvable, subscribed>>
    BY DEF ResolveFutureById, RejectFutureById, IInv, TypeOK
  <2>2. Sources = Native!Created \cup {Native!Outside}
    BY DEF Sources, Born, Outside, Native!Created, Native!Outside
  <2>3. ASSUME ResolveFutureByDBNoSettledCheck(f, Sources, FALSE)
        PROVE  Native!Resolve(f, Native!Created \cup {Native!Outside}, FALSE)
    <3>1. Sources \in SUBSET (Future \cup {Outside})
      BY BornFacts
    <3> DEFINE done == FALSE
    <3>2. done \in BOOLEAN /\ (done => jobs # <<>>) /\ ResolveFutureByDBNoSettledCheck(f, Sources, done)
      BY <2>3
    <3>3. Native!Resolve(f, Sources, done)
      <4> HIDE DEF done
      <4> QED BY <2>1, <3>1, <3>2, ResolveIsNative
    <3> QED BY <2>2, <3>3
  <2>4. ASSUME NEW v \in Payload, Trigger(f, "Rejected", v, FALSE)
        PROVE  Native!Settle(f, "Rejected", v, FALSE)
    BY <2>1, <2>4, TriggerIsSettle DEF Value, Settled
  <2>5. Native!ResolveFuture(f)
    BY <1>2, <2>1, <2>3, <2>4 DEF ResolveFutureById, RejectFutureById, Native!ResolveFuture
  <2> QED BY <2>5 DEF NativeStep, Native!Next
<1> QED BY <1>1, <1>2

\* An outside promise calls back as it would call a native promise's functions.
LEMMA PromiseCallbackIsNative ==
  ASSUME IInv, NEW f \in subscribed, PromiseCallback(f) PROVE NativeStep
<1>1. f \in Future /\ UNCHANGED <<idCounter, resolvable>> /\ subscribed' = subscribed \ {f}
  BY DEF PromiseCallback, IInv, TypeOK
<1>2. ASSUME ResolveFutureByDBNoSettledCheck(f, Born \cup NestedPromises, FALSE)
      PROVE  Native!Resolve(f, Native!Created \cup NestedPromises, FALSE)
  <2>1. Born \cup NestedPromises \in SUBSET (Future \cup {Outside}) /\ Native!Created = Born
    BY BornFacts, ConstantsAssumption DEF ConstantsAssumption, Born, Native!Created
  <2> QED BY <1>1, <1>2, <2>1, ResolveIsNative
<1>3. ASSUME NEW v \in Payload, Trigger(f, "Rejected", v, FALSE)
      PROVE  Native!Settle(f, "Rejected", v, FALSE)
  BY <1>1, <1>3, TriggerIsSettle DEF Value, Settled
<1>4. Native!OutsideSettles(f)
  BY <1>1, <1>2, <1>3 DEF PromiseCallback, Native!OutsideSettles
<1> QED BY <1>4 DEF NativeStep, Native!Next

----------------------------------------------------------------------------
(* The microtasks.                                                         *)

\* The oldest microtask and the oldest job are the same.
LEMMA HeadIsNative ==
  ASSUME IInv, jobs # <<>>
  PROVE  /\ Mapped(jobs) # <<>> /\ Head(Mapped(jobs)) = NativeJob(Head(jobs))
         /\ Mapped(jobs) \in Seq({NativeJob(j) : j \in Job})
<1>1. jobs \in Seq(Job) /\ Len(jobs) \in Nat /\ Len(jobs) > 0
  BY DEF IInv, TypeOK
<1>2. Mapped(jobs) = [i \in 1..Len(jobs) |-> NativeJob(jobs[i])]
  BY <1>1 DEF Mapped
<1>3. \A i \in 1..Len(jobs) : NativeJob(jobs[i]) \in {NativeJob(j) : j \in Job}
  BY <1>1
<1>4. Mapped(jobs) \in Seq({NativeJob(j) : j \in Job}) /\ Len(Mapped(jobs)) = Len(jobs)
  BY <1>1, <1>2, <1>3
<1>5. Mapped(jobs)[1] = NativeJob(jobs[1])
  BY <1>1, <1>2
<1> QED BY <1>1, <1>4, <1>5

\* A microtask that queues nothing only ends.
LEMMA EndedIsNative ==
  ASSUME IInv, jobs # <<>>, Enqueue(<<>>, TRUE) PROVE Native!Queue(TRUE, <<>>)
<1>1. <<>> \in Seq(Job) /\ Mapped(<<>>) = <<>>
  BY DEF Mapped
<1> QED BY <1>1, MappedQueue DEF IInv

\* A reaction: nothing, a Method, or a name that is not registered.
LEMMA RunReactionIsNative ==
  ASSUME IInv, jobs # <<>>, Head(jobs).kind = "reaction", RunReaction(Head(jobs)),
         UNCHANGED <<idCounter, resolvable>>
  PROVE  Native!RunReactionJob(NativeJob(Head(jobs)))
<1> DEFINE job == Head(jobs)
<1> DEFINE f == job.next
<1>1. /\ job \in Job /\ f \in Future /\ job.from \in Future /\ job.handler \in Handler
      /\ job.type \in Settled /\ JobOK(job) /\ job.kind = "reaction" /\ RunReaction(job)
  BY HeadFacts DEF Job
<1> HIDE DEF job
<1>2. NativeJob(job) = [kind |-> "reaction", promise |-> f, callback |-> Callback(job.handler),
                        type |-> job.type, arg |-> job.arg]
  BY <1>1 DEF NativeJob
<1> DEFINE native == NativeJob(job)
<1>3. /\ native.promise = f /\ native.callback = Callback(job.handler)
      /\ native.type = job.type /\ native.arg = job.arg
  BY <1>2
<1> DEFINE done == TRUE
<1>4. done \in BOOLEAN /\ (done => jobs # <<>>) /\ done = TRUE
  OBVIOUS
<1> HIDE DEF f, native, done
<1>5. UNCHANGED <<idCounter, resolvable, subscribed>>
  BY <1>1 DEF RunReaction
<1>6. ASSUME job.handler = "none" PROVE Native!RunReactionJob(native)
  <2>1. Trigger(f, job.type, job.arg, done)
    BY <1>1, <1>4, <1>6 DEF RunReaction, f
  <2>2. job.arg \in Value
    BY <1>1 DEF JobOK, IInv, BirthInv
  <2>3. Native!Settle(f, job.type, job.arg, done)
    BY <1>1, <1>4, <2>1, <2>2, TriggerIsSettle
  <2>4. native.callback = "none"
    BY <1>3, <1>6 DEF Callback
  <2> QED BY <1>3, <1>4, <1>5, <2>3, <2>4 DEF Native!RunReactionJob
<1>7. ASSUME job.handler = "missing" PROVE Native!RunReactionJob(native)
  <2>1. Trigger(f, "Rejected", NotFound, done) /\ NotFound \in Value /\ "Rejected" \in Settled
    BY <1>1, <1>4, <1>7 DEF RunReaction, f, Value, Settled
  <2>2. Native!Settle(f, "Rejected", NotFound, done)
    BY <1>1, <1>4, <2>1, TriggerIsSettle
  <2>3. native.callback = "throws"
    BY <1>3, <1>7 DEF Callback
  <2> QED BY <1>3, <1>4, <1>5, <2>2, <2>3 DEF Native!RunReactionJob
<1>8. ASSUME job.handler = "method" PROVE Native!RunReactionJob(native)
  <2>1. ResolveFutureByDBNoSettledCheck(f, Sources, done)
    BY <1>1, <1>4, <1>8 DEF RunReaction, f
  <2>2. Sources \in SUBSET (Future \cup {Outside})
    BY BornFacts
  <2>3. Native!Resolve(f, Sources, done)
    BY <1>1, <1>4, <2>1, <2>2, ResolveIsNative
  <2>4. Sources = Native!Created \cup {Native!Outside}
    BY DEF Sources, Born, Outside, Native!Created, Native!Outside
  <2>5. native.callback = "any"
    BY <1>3, <1>8 DEF Callback
  <2> QED BY <1>3, <1>4, <1>5, <2>3, <2>4, <2>5 DEF Native!RunReactionJob
<1>9. Native!RunReactionJob(native)
  BY <1>1, <1>6, <1>7, <1>8 DEF Handler
<1> QED BY <1>9 DEF job, native

\* Following a Future is calling its `then` with the resolving functions.
LEMMA RunAdoptIsNative ==
  ASSUME IInv, jobs # <<>>, Head(jobs).kind = "adopt", RunAdopt(Head(jobs)),
         UNCHANGED <<idCounter, resolvable>>
  PROVE  Native!RunThenableJob(NativeJob(Head(jobs)))
<1> DEFINE job == Head(jobs)
<1>1. /\ job \in Job /\ job.next \in Future /\ job.from \in Future
      /\ JobOK(job) /\ job.kind = "adopt" /\ RunAdopt(job)
  BY HeadFacts
<1> HIDE DEF job
<1> DEFINE native == NativeJob(job)
<1>2. native.promise = job.next /\ native.thenable = job.from /\ native.kind = "thenable"
  BY <1>1 DEF NativeJob
<1> HIDE DEF native
<1>3. native.thenable # Native!Outside
  BY <1>1, <1>2, BornFacts DEF Outside, Native!Outside
<1>4. "none" \in Handler /\ Callback("none") = "none"
  BY DEF Handler, Callback
<1> DEFINE done == TRUE
<1>5. done \in BOOLEAN /\ (done => jobs # <<>>) /\ done = TRUE
  OBVIOUS
<1> HIDE DEF done
<1>6. state[job.from] \in {"Pending"} \cup Settled
  BY <1>1 DEF JobOK, IInv, LockInv, TypeOK
<1>7. ASSUME state[job.from] = "Pending"
      PROVE  Native!PerformThen(job.from, job.next, <<"none", "none">>, TRUE)
  <2> DEFINE r == [next |-> job.next, onFulfilled |-> "none", onRejected |-> "none"]
  <2>1. r \in Reaction /\ r.next = job.next /\ r.onFulfilled = "none" /\ r.onRejected = "none"
    BY <1>1, <1>4 DEF Reaction
  <2>2. reactions' = [reactions EXCEPT ![job.from] = Append(@, r)] /\ Enqueue(<<>>, TRUE)
    BY <1>1, <1>7 DEF RunAdopt
  <2>3. Native!Queue(done, <<>>)
    BY <1>5, <2>2, EndedIsNative
  <2> HIDE DEF r
  <2>4. Native!PerformThen(job.from, r.next, <<Callback(r.onFulfilled), Callback(r.onRejected)>>, done)
    BY <1>1, <1>5, <1>7, <2>1, <2>2, <2>3, StoredIsNative
  <2> QED BY <1>4, <1>5, <2>1, <2>4
<1>8. ASSUME state[job.from] \in Settled
      PROVE  Native!PerformThen(job.from, job.next, <<"none", "none">>, TRUE)
  <2>1. /\ Enqueue(<<ReactionJob(job.next, job.from, "none", state[job.from], value[job.from])>>, done)
        /\ UNCHANGED reactions
    BY <1>1, <1>5, <1>8 DEF RunAdopt, Settled
  <2>2. Native!PerformThen(job.from, job.next, <<Callback("none"), Callback("none")>>, done)
    BY <1>1, <1>4, <1>5, <1>8, <2>1, QueuedIsNative
  <2> QED BY <1>4, <1>5, <2>2
<1>9. Native!PerformThen(job.from, job.next, <<"none", "none">>, TRUE)
  BY <1>4, <1>5, <1>6, <1>7, <1>8
<1>10. UNCHANGED <<idCounter, resolvable, state, value, alreadySettled, subscribed>>
  BY <1>1 DEF RunAdopt
<1>11. Native!RunThenableJob(native)
  BY <1>2, <1>3, <1>9, <1>10 DEF Native!RunThenableJob
<1> QED BY <1>11 DEF native, job

\* An outside promise keeps the resolving functions it is given.
LEMMA RunSubscribeIsNative ==
  ASSUME IInv, jobs # <<>>, Head(jobs).kind = "subscribe", RunSubscribe(Head(jobs)),
         UNCHANGED <<idCounter, resolvable>>
  PROVE  Native!RunThenableJob(NativeJob(Head(jobs)))
<1> DEFINE native == NativeJob(Head(jobs))
<1>1. native.promise = Head(jobs).next /\ native.thenable = Native!Outside
  BY DEF NativeJob, Outside, Native!Outside
<1> HIDE DEF native
<1>2. /\ Native!Queue(TRUE, <<>>) /\ subscribed' = subscribed \cup {native.promise}
      /\ UNCHANGED <<state, value, alreadySettled, reactions>>
  BY <1>1, EndedIsNative DEF RunSubscribe, db
<1>3. UNCHANGED <<NativeReactions(OnFulfilled), NativeReactions(OnRejected)>>
  BY <1>2 DEF NativeReactions, OnFulfilled, OnRejected
<1>4. Native!RunThenableJob(native)
  BY <1>1, <1>2, <1>3 DEF Native!RunThenableJob
<1> QED BY <1>4 DEF native

\* The engine's queue and the host's are run alike.
LEMMA RunMicrotaskIsNative == ASSUME IInv, RunMicrotask PROVE NativeStep
<1>1. jobs # <<>> /\ UNCHANGED <<idCounter, resolvable>>
  BY DEF RunMicrotask
<1>2. Mapped(jobs) # <<>> /\ Head(Mapped(jobs)) = NativeJob(Head(jobs))
  BY <1>1, HeadIsNative
<1>3. CASE Head(jobs).kind = "reaction" /\ RunReaction(Head(jobs))
  <2>1. Native!RunReactionJob(NativeJob(Head(jobs)))
    BY <1>1, <1>3, RunReactionIsNative
  <2>2. NativeJob(Head(jobs)).kind = "reaction"
    BY <1>3 DEF NativeJob
  <2> QED BY <1>2, <2>1, <2>2 DEF NativeStep, Native!Next, Native!RunJob, Mapped
<1>4. CASE \/ Head(jobs).kind = "adopt" /\ RunAdopt(Head(jobs))
           \/ Head(jobs).kind = "subscribe" /\ RunSubscribe(Head(jobs))
  <2>1. Native!RunThenableJob(NativeJob(Head(jobs)))
    BY <1>1, <1>4, RunAdoptIsNative, RunSubscribeIsNative
  <2>2. NativeJob(Head(jobs)).kind = "thenable"
    BY <1>4 DEF NativeJob
  <2> QED BY <1>2, <2>1, <2>2 DEF NativeStep, Native!Next, Native!RunJob, Mapped
<1> QED BY <1>3, <1>4 DEF RunMicrotask

----------------------------------------------------------------------------
(* The theorem.                                                            *)

\* Before anything was created there is nothing on either side.
LEMMA InitIsNative == Init => Native!Init
BY DEF Init, Native!Init, Native!Empty, Native!Promise, Future, NativeReactions, OnFulfilled, OnRejected

\* Every step of the engine is one step of native promises, or none.
LEMMA StepIsNative == ASSUME IInv, [Next]_vars PROVE NativeStep
<1>1. CASE CreateFuture \/ CreateSettled
  BY <1>1, CreateIsNative
<1>2. ASSUME NEW f \in Born, NEW h \in Handlers, FutureNext(f, h) PROVE NativeStep
  BY <1>2, NextIsNative
<1>3. ASSUME NEW f \in resolvable, ResolveFutureById(f) \/ RejectFutureById(f) PROVE NativeStep
  BY <1>3, ResolveByIdIsNative
<1>4. ASSUME NEW f \in Born \cap Observed, GetPromise(f) PROVE NativeStep
  BY <1>4, StutterIsNative DEF GetPromise, queue
<1>5. CASE OnActivitySettled \/ Resume
  BY <1>5, StutterIsNative DEF OnActivitySettled, Resume, db
<1>6. ASSUME NEW f \in subscribed, PromiseCallback(f) PROVE NativeStep
  BY <1>6, PromiseCallbackIsNative
<1>7. CASE RunMicrotask
  BY <1>7, RunMicrotaskIsNative
<1>8. CASE UNCHANGED vars
  BY <1>8, StutterIsNative DEF vars, db, queue
<1> QED BY <1>1, <1>2, <1>3, <1>4, <1>5, <1>6, <1>7, <1>8 DEF Next

\* The engine calls the user's Methods with the outcomes and in the order in which
\* native promises would: the equality of events that fuzz() asserts, for any number
\* of Futures, any payloads and any plan.
THEOREM RefinesPromises == Spec => ImplementsPromises
<1>1. Init => Native!Init
  BY InitIsNative
<1>2. IInv /\ [Next]_vars => [Native!Next]_(Native!vars)
  BY StepIsNative DEF NativeStep
<1> QED BY <1>1, <1>2, Invariance, PTL DEF Spec, ImplementsPromises, Native!Spec
=============================================================================
