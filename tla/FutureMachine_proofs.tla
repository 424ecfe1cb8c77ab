------------------------ MODULE FutureMachine_proofs ------------------------
(***************************************************************************)
(* Proofs about FutureMachine for every number of Futures and every set of *)
(* payloads: type correctness, the inductive invariant behind the safety   *)
(* properties, that a settled Future never changes, the step simulation of *)
(* FutureLifecycle, and the order of reactions.                            *)
(***************************************************************************)
EXTENDS FutureMachine, SequenceTheorems, TLAPS

----------------------------------------------------------------------------
(* The microtask queue.                                                    *)

\* How many microtasks a step drops from the front: the one that it ends.
Ended(done) == IF done THEN 1 ELSE 0

\* What Enqueue does to the queue: microtasks that were queued stay, in order,
\* and the new ones come behind them.
QueueStep(new, done) ==
  /\ jobs' \in Seq(Job)
  /\ Len(jobs') = Len(jobs) - Ended(done) + Len(new)
  /\ \A i \in 1..Len(jobs') :
       \/ /\ i <= Len(jobs) - Ended(done)
          /\ i + Ended(done) \in 1..Len(jobs)
          /\ jobs'[i] = jobs[i + Ended(done)]
       \/ /\ i > Len(jobs) - Ended(done)
          /\ i - (Len(jobs) - Ended(done)) \in 1..Len(new)
          /\ jobs'[i] = new[i - (Len(jobs) - Ended(done))]
  /\ \A m \in 1..Len(jobs) :
       m > Ended(done) => m - Ended(done) \in 1..Len(jobs') /\ jobs'[m - Ended(done)] = jobs[m]
  /\ \A k \in 1..Len(new) :
       /\ Len(jobs) - Ended(done) + k \in 1..Len(jobs')
       /\ jobs'[Len(jobs) - Ended(done) + k] = new[k]

\* The shape of the queue after Enqueue; no counting argument is needed.
LEMMA EnqueueQueue ==
  ASSUME jobs \in Seq(Job), NEW new \in Seq(Job), NEW done \in BOOLEAN,
         done => jobs # <<>>, Enqueue(new, done)
  PROVE  QueueStep(new, done)
<1> DEFINE kept == IF done THEN Tail(jobs) ELSE jobs
<1>1. /\ kept \in Seq(Job)
      /\ Len(kept) = Len(jobs) - Ended(done)
      /\ \A m \in 1..Len(jobs) :
           m > Ended(done) => m - Ended(done) \in 1..Len(kept) /\ kept[m - Ended(done)] = jobs[m]
      /\ \A i \in 1..Len(kept) : i + Ended(done) \in 1..Len(jobs) /\ kept[i] = jobs[i + Ended(done)]
  <2>1. CASE done
    BY <2>1 DEF Ended
  <2>2. CASE ~done
    BY <2>2 DEF Ended
  <2> QED BY <2>1, <2>2
<1>2. jobs' = kept \o new
  BY DEF Enqueue
<1> HIDE DEF kept
<1>3. /\ jobs' \in Seq(Job)
      /\ Len(jobs') = Len(kept) + Len(new)
      /\ \A i \in 1..Len(jobs') :
           jobs'[i] = IF i <= Len(kept) THEN kept[i] ELSE new[i - Len(kept)]
  <2>1. /\ kept \o new \in Seq(Job)
        /\ Len(kept \o new) = Len(kept) + Len(new)
        /\ \A i \in 1..Len(kept) + Len(new) :
             (kept \o new)[i] = IF i <= Len(kept) THEN kept[i] ELSE new[i - Len(kept)]
    BY <1>1, ConcatProperties, Zenon
  <2> QED BY <2>1, <1>2
<1>4. Ended(done) \in {0, 1} /\ Len(jobs) \in Nat /\ Len(kept) \in Nat /\ Len(new) \in Nat
  BY <1>1 DEF Ended
<1>5. \A m \in 1..Len(jobs) :
        m > Ended(done) => m - Ended(done) \in 1..Len(jobs') /\ jobs'[m - Ended(done)] = jobs[m]
  BY <1>1, <1>3, <1>4
<1>6. \A k \in 1..Len(new) :
        /\ Len(kept) + k \in 1..Len(jobs')
        /\ jobs'[Len(kept) + k] = new[k]
  <2> TAKE k \in 1..Len(new)
  <2>1. Len(kept) + k \in 1..Len(jobs') /\ ~(Len(kept) + k <= Len(kept)) /\ Len(kept) + k - Len(kept) = k
    BY <1>3, <1>4
  <2> QED BY <2>1, <1>3
<1> QED BY <1>1, <1>3, <1>4, <1>5, <1>6 DEF QueueStep

\* endCall keeps the counter equal to the queue's length, and resolves the
\* promise of onActivitySettled no later than with the last microtask.
LEMMA EnqueueCounts ==
  ASSUME jobs \in Seq(Job), ongoingCalls \in Int, onDone \in BOOLEAN, resumed \in BOOLEAN,
         NEW new \in Seq(Job), NEW done \in BOOLEAN,
         done => jobs # <<>>, Enqueue(new, done),
         CallsCounted, NoForgottenWaiter
  PROVE  /\ ongoingCalls' \in Int /\ onDone' \in BOOLEAN /\ resumed' \in BOOLEAN
         /\ CallsCounted' /\ NoForgottenWaiter'
<1>1. QueueStep(new, done)
  BY EnqueueQueue
<1>2. ongoingCalls' = Len(jobs')
  BY <1>1 DEF Enqueue, QueueStep, Ended, CallsCounted
<1>3. jobs' = <<>> => ongoingCalls' = 0
  BY <1>2
<1>4. onDone' => jobs' # <<>>
  <2> SUFFICES ASSUME onDone', jobs' = <<>> PROVE FALSE
    OBVIOUS
  <2>1. onDone /\ ~done
    BY <1>3 DEF Enqueue
  <2>2. jobs # <<>>
    BY <2>1 DEF NoForgottenWaiter
  <2>3. Len(jobs') >= Len(jobs) /\ Len(jobs) > 0
    BY <2>1, <2>2, <1>1 DEF QueueStep, Ended
  <2> QED BY <2>3
<1>5. onDone' \in BOOLEAN /\ resumed' \in BOOLEAN
  BY DEF Enqueue
<1> QED BY <1>1, <1>2, <1>4, <1>5 DEF CallsCounted, NoForgottenWaiter, QueueStep

----------------------------------------------------------------------------
(* The inductive invariant.                                                *)

\* f waits for an outcome that does not come from its resolvers.
Awaiting(f) == state[f] = "Pending" /\ (f \in resolvable => f \in alreadySettled)

BirthInv ==
  \A f \in Future :
    /\ state[f] = "Unborn" <=> f > idCounter
    /\ state[f] = "Unborn" =>
         f \notin alreadySettled /\ f \notin resolvable /\ value[f] = NoValue
    /\ state[f] \in Settled => f \in alreadySettled /\ value[f] \in Value
    /\ state[f] # "Pending" => reactions[f] = <<>>

LockInv ==
  \A f \in Future :
    /\ follows[f] # Nobody => f \in alreadySettled
    /\ state[f] = "Pending" /\ f \in alreadySettled => follows[f] # Nobody
    /\ follows[f] \in Future => follows[f] # f /\ state[follows[f]] # "Unborn"

\* A reaction's microtask carries the outcome of the Future it reacts to.  A Future
\* that is locked receives nothing but the outcome of what it follows.
JobOK(job) ==
  /\ Awaiting(job.next)
  /\ job.kind = "reaction" =>
       /\ state[job.from] = job.type /\ value[job.from] = job.arg
       /\ job.next \in alreadySettled => job.handler = "none" /\ follows[job.next] = job.from
  /\ job.kind = "adopt" => follows[job.next] = job.from
  /\ job.kind = "subscribe" => follows[job.next] = Outside

ReactionOK(g, r) ==
  /\ Awaiting(r.next)
  /\ r.next \in alreadySettled =>
       r.onFulfilled = "none" /\ r.onRejected = "none" /\ follows[r.next] = g

JobsInv == \A i \in 1..Len(jobs) : JobOK(jobs[i])
ReactionsInv == \A g \in Future : \A k \in 1..Len(reactions[g]) : ReactionOK(g, reactions[g][k])
SubscribedInv == \A f \in subscribed : Awaiting(f) /\ follows[f] = Outside

\* NoTwoSettlers, without the sets.
QueueOnce == \A i, j \in 1..Len(jobs) : jobs[i].next = jobs[j].next => i = j
StoredOnce ==
  \A f, g \in Future : \A i \in 1..Len(reactions[f]), j \in 1..Len(reactions[g]) :
    reactions[f][i].next = reactions[g][j].next => f = g /\ i = j
QueuedNotStored ==
  \A i \in 1..Len(jobs) : \A g \in Future : \A k \in 1..Len(reactions[g]) :
    jobs[i].next # reactions[g][k].next
QueuedNotSubscribed == \A i \in 1..Len(jobs) : jobs[i].next \notin subscribed
StoredNotSubscribed ==
  \A g \in Future : \A k \in 1..Len(reactions[g]) : reactions[g][k].next \notin subscribed
OnceInv ==
  QueueOnce /\ StoredOnce /\ QueuedNotStored /\ QueuedNotSubscribed /\ StoredNotSubscribed

\* PendingIffOwed, left to right, without the sets.
Owed(f) ==
  \/ \E i \in 1..Len(jobs) : jobs[i].next = f
  \/ \E g \in Future : \E k \in 1..Len(reactions[g]) : reactions[g][k].next = f
  \/ f \in subscribed
  \/ f \in resolvable /\ f \notin alreadySettled
OwedInv == \A f \in Future : state[f] = "Pending" => Owed(f)

IInv ==
  /\ TypeOK /\ BirthInv /\ LockInv
  /\ JobsInv /\ ReactionsInv /\ SubscribedInv
  /\ OnceInv /\ OwedInv
  /\ CallsCounted /\ NoForgottenWaiter
  /\ FollowersAgree /\ PromiseAgrees

\* The invariant holds before anything was created.
LEMMA InitIInv == Init => IInv
<1> SUFFICES ASSUME Init PROVE IInv
  OBVIOUS
<1> USE DEF Init
<1>1. TypeOK
  <2>1. <<>> \in Seq(Reaction) /\ <<>> \in Seq(Job)
    OBVIOUS
  <2>2. 0 \in 0..MaxFutures
    BY ConstantsAssumption DEF ConstantsAssumption
  <2>3. /\ state \in [Future -> {"Unborn", "Pending"} \cup Settled]
        /\ value \in [Future -> Value \cup {NoValue}]
        /\ promise \in [Future -> {"none", "Pending"} \cup Settled]
        /\ parent \in [Future -> Future \cup {Nobody}]
        /\ follows \in [Future -> Future \cup {Nobody, Outside}]
    OBVIOUS
  <2>4. reactions \in [Future -> Seq(Reaction)]
    BY <2>1
  <2>5. onDone \in BOOLEAN /\ resumed \in BOOLEAN
    BY Zenon
  <2>6. /\ idCounter \in 0..MaxFutures
        /\ jobs \in Seq(Job)
        /\ ongoingCalls \in Int
        /\ alreadySettled \subseteq Future
        /\ resolvable \subseteq Future
        /\ subscribed \subseteq Future
    BY <2>1, <2>2
  <2> HIDE DEF Init
  <2> QED BY <2>3, <2>4, <2>5, <2>6 DEF TypeOK
<1>2. BirthInv /\ LockInv
  BY DEF BirthInv, LockInv, Settled, Future, Nobody
<1>3. JobsInv /\ ReactionsInv /\ SubscribedInv
  BY DEF JobsInv, ReactionsInv, SubscribedInv
<1>4. OnceInv /\ OwedInv
  BY DEF OnceInv, QueueOnce, StoredOnce, QueuedNotStored, QueuedNotSubscribed,
         StoredNotSubscribed, OwedInv
<1>5. CallsCounted /\ NoForgottenWaiter /\ FollowersAgree /\ PromiseAgrees
  BY DEF CallsCounted, NoForgottenWaiter, FollowersAgree, PromiseAgrees, Settled
<1> QED BY <1>1, <1>2, <1>3, <1>4, <1>5 DEF IInv

----------------------------------------------------------------------------
(* Taking a Future away from whoever was to settle it.                     *)

\* This step is f's settler acting: the oldest microtask, an outside promise, or
\* user code that holds its resolvers.
SettlerActs(f, done) ==
  /\ state[f] = "Pending"
  /\ done => jobs # <<>> /\ Head(jobs).next = f
  /\ ~done => f \in subscribed \/ (f \in resolvable /\ f \notin alreadySettled)
  /\ subscribed' = subscribed \ {f}
  /\ UNCHANGED <<idCounter, resolvable, parent>>

\* Nobody else holds f, and f is all that its settler held.
LEMMA SettlerIsAlone ==
  ASSUME IInv, NEW f \in Future, NEW done \in BOOLEAN, SettlerActs(f, done)
  PROVE  /\ \A i \in 1..Len(jobs) : i > Ended(done) <=> jobs[i].next # f
         /\ \A g \in Future : \A k \in 1..Len(reactions[g]) : reactions[g][k].next # f
<1> USE DEF IInv, TypeOK
<1>1. CASE done
  <2>1. jobs # <<>> /\ jobs[1].next = f /\ 1 \in 1..Len(jobs) /\ Len(jobs) \in Nat
    BY <1>1 DEF SettlerActs
  <2>2. \A i \in 1..Len(jobs) : i > 1 <=> jobs[i].next # f
    BY <2>1 DEF OnceInv, QueueOnce
  <2>3. \A g \in Future : \A k \in 1..Len(reactions[g]) : reactions[g][k].next # f
    BY <2>1 DEF OnceInv, QueuedNotStored
  <2> QED BY <1>1, <2>2, <2>3 DEF Ended
<1>2. CASE ~done
  <2>1. f \in subscribed \/ (f \in resolvable /\ f \notin alreadySettled)
    BY <1>2 DEF SettlerActs
  <2>2. \A i \in 1..Len(jobs) : jobs[i].next # f
    BY <2>1 DEF OnceInv, QueuedNotSubscribed, JobsInv, JobOK, Awaiting
  <2>3. \A g \in Future : \A k \in 1..Len(reactions[g]) : reactions[g][k].next # f
    BY <2>1 DEF OnceInv, StoredNotSubscribed, ReactionsInv, ReactionOK, Awaiting
  <2>4. \A i \in 1..Len(jobs) : i > 0
    OBVIOUS
  <2> QED BY <1>2, <2>2, <2>3, <2>4 DEF Ended
<1> QED BY <1>1, <1>2

----------------------------------------------------------------------------
(* Steps that settle or lock one Future.                                   *)

\* The microtasks are well formed.
LEMMA JobTypes ==
  ASSUME NEW next \in Future, NEW from \in Future, NEW handler \in Handler,
         NEW type \in Settled, NEW arg \in Value \cup {NoValue}
  PROVE  /\ ReactionJob(next, from, handler, type, arg) \in Job
         /\ AdoptJob(next, from) \in Job
         /\ SubscribeJob(next) \in Job
BY DEF ReactionJob, AdoptJob, SubscribeJob, Job, Handler, Settled

\* What a settled Future's reactions become.
LEMMA TriggeredJobsFacts ==
  ASSUME TypeOK, NEW f \in Future, NEW type \in Settled, NEW v \in Value
  PROVE  /\ TriggeredJobs(f, type, v) \in Seq(Job)
         /\ Len(TriggeredJobs(f, type, v)) = Len(reactions[f])
         /\ \A k \in 1..Len(reactions[f]) :
              /\ TriggeredJobs(f, type, v)[k].kind = "reaction"
              /\ TriggeredJobs(f, type, v)[k].next = reactions[f][k].next
              /\ TriggeredJobs(f, type, v)[k].from = f
              /\ TriggeredJobs(f, type, v)[k].type = type
              /\ TriggeredJobs(f, type, v)[k].arg = v
              /\ reactions[f][k].onFulfilled = "none" /\ reactions[f][k].onRejected = "none"
                   => TriggeredJobs(f, type, v)[k].handler = "none"
<1>1. reactions[f] \in Seq(Reaction) /\ Len(reactions[f]) \in Nat
  BY DEF TypeOK
<1>2. ASSUME NEW k \in 1..Len(reactions[f])
      PROVE  ReactionJob(reactions[f][k].next, f,
                         IF type = "Fulfilled" THEN reactions[f][k].onFulfilled
                                               ELSE reactions[f][k].onRejected,
                         type, v) \in Job
  <2>1. reactions[f][k] \in Reaction
    BY <1>1
  <2>2. /\ reactions[f][k].next \in Future
        /\ reactions[f][k].onFulfilled \in Handler
        /\ reactions[f][k].onRejected \in Handler
    BY <2>1 DEF Reaction
  <2> QED BY <2>2, JobTypes
<1>3. TriggeredJobs(f, type, v) \in Seq(Job)
  BY <1>1, <1>2 DEF TriggeredJobs
<1>4. Len(TriggeredJobs(f, type, v)) = Len(reactions[f])
  BY <1>1 DEF TriggeredJobs
<1>5. \A k \in 1..Len(reactions[f]) :
        TriggeredJobs(f, type, v)[k] =
          ReactionJob(reactions[f][k].next, f,
                      IF type = "Fulfilled" THEN reactions[f][k].onFulfilled
                                            ELSE reactions[f][k].onRejected,
                      type, v)
  BY DEF TriggeredJobs
<1>6. ASSUME NEW k \in 1..Len(reactions[f])
      PROVE  /\ TriggeredJobs(f, type, v)[k].kind = "reaction"
             /\ TriggeredJobs(f, type, v)[k].next = reactions[f][k].next
             /\ TriggeredJobs(f, type, v)[k].from = f
             /\ TriggeredJobs(f, type, v)[k].type = type
             /\ TriggeredJobs(f, type, v)[k].arg = v
             /\ reactions[f][k].onFulfilled = "none" /\ reactions[f][k].onRejected = "none"
                  => TriggeredJobs(f, type, v)[k].handler = "none"
  <2> DEFINE h == IF type = "Fulfilled" THEN reactions[f][k].onFulfilled
                                        ELSE reactions[f][k].onRejected
  <2>1. TriggeredJobs(f, type, v)[k] = ReactionJob(reactions[f][k].next, f, h, type, v)
    BY <1>5
  <2>2. reactions[f][k].onFulfilled = "none" /\ reactions[f][k].onRejected = "none" => h = "none"
    OBVIOUS
  <2> HIDE DEF h
  <2>3. /\ ReactionJob(reactions[f][k].next, f, h, type, v).kind = "reaction"
        /\ ReactionJob(reactions[f][k].next, f, h, type, v).next = reactions[f][k].next
        /\ ReactionJob(reactions[f][k].next, f, h, type, v).from = f
        /\ ReactionJob(reactions[f][k].next, f, h, type, v).handler = h
        /\ ReactionJob(reactions[f][k].next, f, h, type, v).type = type
        /\ ReactionJob(reactions[f][k].next, f, h, type, v).arg = v
    BY DEF ReactionJob
  <2> QED BY <2>1, <2>2, <2>3
<1> QED BY <1>3, <1>4, <1>6

\* Settling a Future that nobody else can settle keeps the invariant.
LEMMA TriggerIInv ==
  ASSUME IInv, NEW f \in Future, NEW type \in Settled, NEW v \in Value, NEW done \in BOOLEAN,
         SettlerActs(f, done), Trigger(f, type, v, done),
         follows[f] \in Future => state[follows[f]] = type /\ value[follows[f]] = v
  PROVE  IInv'
<1> DEFINE new == TriggeredJobs(f, type, v)
<1>0. TypeOK /\ (done => jobs # <<>>)
  BY DEF IInv, SettlerActs
<1>1. /\ new \in Seq(Job)
      /\ Len(new) = Len(reactions[f])
      /\ \A k \in 1..Len(reactions[f]) :
           /\ new[k].kind = "reaction" /\ new[k].next = reactions[f][k].next /\ new[k].from = f
           /\ new[k].type = type /\ new[k].arg = v
           /\ reactions[f][k].onFulfilled = "none" /\ reactions[f][k].onRejected = "none"
                => new[k].handler = "none"
  BY <1>0, TriggeredJobsFacts
<1>2. Enqueue(new, done)
  BY DEF Trigger
<1> HIDE DEF new
<1>3. QueueStep(new, done)
  BY <1>0, <1>1, <1>2, EnqueueQueue DEF TypeOK
<1>4. /\ \A i \in 1..Len(jobs) : i > Ended(done) <=> jobs[i].next # f
      /\ \A g \in Future : \A k \in 1..Len(reactions[g]) : reactions[g][k].next # f
  BY SettlerIsAlone
<1>5. /\ state[f] = "Pending"
      /\ state' = [state EXCEPT ![f] = type]
      /\ value' = [value EXCEPT ![f] = v]
      /\ alreadySettled' = alreadySettled \cup {f}
      /\ reactions' = [reactions EXCEPT ![f] = <<>>]
      /\ promise' = [promise EXCEPT ![f] = IF @ = "Pending" THEN type ELSE @]
      /\ subscribed' = subscribed \ {f}
      /\ UNCHANGED <<idCounter, resolvable, parent, follows>>
  BY DEF Trigger, SettlerActs
\* Where a microtask of the new queue comes from.
<1>6. \A i \in 1..Len(jobs') :
        \/ \E m \in 1..Len(jobs) : m = i + Ended(done) /\ jobs'[i] = jobs[m] /\ jobs[m].next # f
        \/ \E k \in 1..Len(reactions[f]) :
             k = i - (Len(jobs) - Ended(done)) /\ jobs'[i] = new[k]
  <2> TAKE i \in 1..Len(jobs')
  <2>1. Ended(done) \in {0, 1} /\ Len(jobs) \in Nat /\ i \in Nat /\ i > 0
    BY <1>0, <1>3 DEF Ended, TypeOK, QueueStep
  <2>2. i + Ended(done) > Ended(done)
    BY <2>1
  <2>3. i + Ended(done) \in 1..Len(jobs) => jobs[i + Ended(done)].next # f
    BY <1>4, <2>2
  <2> QED BY <1>1, <1>3, <2>3 DEF QueueStep
<1>7. TypeOK'
  <2>1. ongoingCalls' \in Int /\ onDone' \in BOOLEAN /\ resumed' \in BOOLEAN
    BY <1>0, <1>1, <1>2, EnqueueCounts DEF IInv, TypeOK
  <2>2. reactions' \in [Future -> Seq(Reaction)]
    BY <1>0, <1>5 DEF TypeOK
  <2>3. /\ state' \in [Future -> {"Unborn", "Pending"} \cup Settled]
        /\ value' \in [Future -> Value \cup {NoValue}]
        /\ promise' \in [Future -> {"none", "Pending"} \cup Settled]
    BY <1>0, <1>5 DEF TypeOK
  <2>4. /\ jobs' \in Seq(Job)
        /\ alreadySettled' \subseteq Future
        /\ subscribed' \subseteq Future
        /\ idCounter' \in 0..MaxFutures
        /\ resolvable' \subseteq Future
        /\ parent' \in [Future -> Future \cup {Nobody}]
        /\ follows' \in [Future -> Future \cup {Nobody, Outside}]
    BY <1>0, <1>3, <1>5 DEF TypeOK, QueueStep
  <2> QED BY <2>1, <2>2, <2>3, <2>4 DEF TypeOK
<1>8. BirthInv'
  BY <1>0, <1>5 DEF TypeOK, BirthInv, IInv, Settled
<1>9. LockInv'
  BY <1>0, <1>5 DEF TypeOK, LockInv, IInv, Settled
<1>10. JobsInv'
  <2> SUFFICES ASSUME NEW i \in 1..Len(jobs') PROVE JobOK(jobs[i])'
    BY DEF JobsInv
  <2>1. CASE \E m \in 1..Len(jobs) : jobs'[i] = jobs[m] /\ jobs[m].next # f
    <3> PICK m \in 1..Len(jobs) : jobs'[i] = jobs[m] /\ jobs[m].next # f
      BY <2>1
    <3>1. JobOK(jobs[m]) /\ jobs[m] \in Job
      BY <1>0 DEF IInv, JobsInv, TypeOK
    <3> QED BY <1>0, <1>5, <3>1 DEF JobOK, Job, Awaiting, TypeOK, Settled
  <2>2. CASE \E k \in 1..Len(reactions[f]) : jobs'[i] = new[k]
    <3> PICK k \in 1..Len(reactions[f]) : jobs'[i] = new[k]
      BY <2>2
    <3>1. ReactionOK(f, reactions[f][k]) /\ reactions[f][k].next # f /\ reactions[f][k] \in Reaction
      BY <1>0, <1>4 DEF IInv, ReactionsInv, TypeOK
    <3> QED BY <1>0, <1>1, <1>5, <3>1 DEF JobOK, ReactionOK, Reaction, Awaiting, TypeOK, Settled
  <2> QED BY <1>6, <2>1, <2>2
<1>11. ReactionsInv'
  <2> SUFFICES ASSUME NEW g \in Future, NEW k \in 1..Len(reactions'[g])
               PROVE  ReactionOK(g, reactions[g][k])'
    BY DEF ReactionsInv
  <2>1. g # f /\ reactions'[g] = reactions[g]
    BY <1>0, <1>5 DEF TypeOK
  <2>2. ReactionOK(g, reactions[g][k]) /\ reactions[g][k].next # f /\ reactions[g][k] \in Reaction
    BY <1>0, <1>4, <2>1 DEF IInv, ReactionsInv, TypeOK
  <2> QED BY <1>0, <1>5, <2>1, <2>2 DEF ReactionOK, Reaction, Awaiting, TypeOK
<1>12. SubscribedInv'
  BY <1>0, <1>5 DEF IInv, SubscribedInv, Awaiting, TypeOK
<1>13. OnceInv'
  <2> USE <1>0 DEF IInv, TypeOK
  <2>0. Ended(done) \in {0, 1} /\ Len(jobs) \in Nat
    BY DEF Ended
  <2>1. QueueOnce'
    <3> SUFFICES ASSUME NEW i \in 1..Len(jobs'), NEW j \in 1..Len(jobs'),
                        jobs'[i].next = jobs'[j].next
                 PROVE  i = j
      BY DEF QueueOnce
    <3>1. CASE /\ \E m \in 1..Len(jobs) : m = i + Ended(done) /\ jobs'[i] = jobs[m]
               /\ \E m \in 1..Len(jobs) : m = j + Ended(done) /\ jobs'[j] = jobs[m]
      <4>1. QueueOnce
        BY DEF OnceInv
      <4>2. PICK m \in 1..Len(jobs) : m = i + Ended(done) /\ jobs'[i] = jobs[m]
        BY <3>1
      <4>3. PICK n \in 1..Len(jobs) : n = j + Ended(done) /\ jobs'[j] = jobs[n]
        BY <3>1
      <4>4. m = n
        BY <4>1, <4>2, <4>3 DEF QueueOnce
      <4> HIDE DEF IInv, TypeOK
      <4> QED BY <2>0, <4>2, <4>3, <4>4
    <3>2. CASE /\ \E k \in 1..Len(reactions[f]) :
                    k = i - (Len(jobs) - Ended(done)) /\ jobs'[i] = new[k]
               /\ \E k \in 1..Len(reactions[f]) :
                    k = j - (Len(jobs) - Ended(done)) /\ jobs'[j] = new[k]
      BY <1>1, <2>0, <3>2 DEF OnceInv, StoredOnce
    <3>3. ASSUME NEW m \in 1..Len(jobs), NEW k \in 1..Len(reactions[f]) PROVE jobs[m].next # new[k].next
      BY <1>1 DEF OnceInv, QueuedNotStored
    <3> QED BY <1>6, <3>1, <3>2, <3>3
  <2>2. StoredOnce'
    <3>1. \A g \in Future : \A k \in 1..Len(reactions'[g]) : reactions'[g] = reactions[g]
      BY <1>5
    <3> QED BY <3>1 DEF OnceInv, StoredOnce
  <2>3. QueuedNotStored'
    <3> SUFFICES ASSUME NEW i \in 1..Len(jobs'), NEW g \in Future, NEW k \in 1..Len(reactions'[g])
                 PROVE  jobs'[i].next # reactions'[g][k].next
      BY DEF QueuedNotStored
    <3>1. g # f /\ reactions'[g] = reactions[g]
      BY <1>5
    <3>2. CASE \E m \in 1..Len(jobs) : jobs'[i] = jobs[m]
      BY <3>1, <3>2 DEF OnceInv, QueuedNotStored
    <3>3. CASE \E l \in 1..Len(reactions[f]) : jobs'[i] = new[l]
      BY <1>1, <3>1, <3>3 DEF OnceInv, StoredOnce
    <3> QED BY <1>6, <3>2, <3>3
  <2>4. QueuedNotSubscribed'
    <3> SUFFICES ASSUME NEW i \in 1..Len(jobs') PROVE jobs'[i].next \notin subscribed
      BY <1>5 DEF QueuedNotSubscribed
    <3>1. CASE \E m \in 1..Len(jobs) : jobs'[i] = jobs[m]
      BY <3>1 DEF OnceInv, QueuedNotSubscribed
    <3>2. CASE \E l \in 1..Len(reactions[f]) : jobs'[i] = new[l]
      BY <1>1, <3>2 DEF OnceInv, StoredNotSubscribed
    <3> QED BY <1>6, <3>1, <3>2
  <2>5. StoredNotSubscribed'
    BY <1>5 DEF OnceInv, StoredNotSubscribed
  <2> QED BY <2>1, <2>2, <2>3, <2>4, <2>5 DEF OnceInv
<1>14. OwedInv'
  <2> SUFFICES ASSUME NEW h \in Future, state'[h] = "Pending" PROVE Owed(h)'
    BY DEF OwedInv
  <2>1. h # f /\ Owed(h)
    BY <1>0, <1>5 DEF IInv, OwedInv, TypeOK, Settled
  <2>2. CASE \E m \in 1..Len(jobs) : jobs[m].next = h
    BY <1>3, <1>4, <2>1, <2>2 DEF QueueStep, Owed
  <2>3. CASE \E g \in Future : \E k \in 1..Len(reactions[g]) : reactions[g][k].next = h
    <3> PICK g \in Future : \E k \in 1..Len(reactions[g]) : reactions[g][k].next = h
      BY <2>3
    <3> PICK k \in 1..Len(reactions[g]) : reactions[g][k].next = h
      OBVIOUS
    <3>1. CASE g = f
      <4>1. k \in 1..Len(new) /\ new[k].next = h
        BY <1>1, <3>1
      <4>2. \E i \in 1..Len(jobs') : jobs'[i] = new[k]
        BY <1>3, <4>1 DEF QueueStep
      <4> QED BY <4>1, <4>2 DEF Owed
    <3>2. CASE g # f
      <4>1. reactions'[g] = reactions[g]
        BY <1>0, <1>5, <3>2 DEF TypeOK
      <4> QED BY <4>1 DEF Owed
    <3> QED BY <3>1, <3>2
  <2>4. CASE h \in subscribed \/ (h \in resolvable /\ h \notin alreadySettled)
    BY <1>5, <2>1, <2>4 DEF Owed
  <2> QED BY <2>1, <2>2, <2>3, <2>4 DEF Owed
<1>15. CallsCounted' /\ NoForgottenWaiter'
  BY <1>0, <1>1, <1>2, EnqueueCounts DEF IInv, TypeOK
<1>16. FollowersAgree'
  <2> SUFFICES ASSUME NEW h \in Future, NEW g \in Future, follows[h] = g, state'[h] \in Settled
               PROVE  state'[g] = state'[h] /\ value'[g] = value'[h]
    BY <1>5 DEF FollowersAgree
  <2>1. CASE h = f
    BY <1>0, <1>5, <2>1 DEF IInv, LockInv, TypeOK
  <2>2. CASE h # f
    BY <1>0, <1>5, <2>2 DEF IInv, FollowersAgree, TypeOK, Settled
  <2> QED BY <2>1, <2>2
<1>17. PromiseAgrees'
  BY <1>0, <1>5 DEF IInv, PromiseAgrees, TypeOK, Settled
<1> QED BY <1>7, <1>8, <1>9, <1>10, <1>11, <1>12, <1>13, <1>14, <1>15, <1>16, <1>17 DEF IInv

\* Locking a Future that nobody else can settle to what it was resolved with keeps
\* the invariant: the new microtask is its only settler.
LEMMA LockIInv ==
  ASSUME IInv, NEW f \in Future, NEW source \in Future \cup {Outside}, NEW done \in BOOLEAN,
         SettlerActs(f, done), source # f,
         source \in Future => state[source] # "Unborn",
         Lock(f, source, IF source = Outside THEN SubscribeJob(f) ELSE AdoptJob(f, source), done)
  PROVE  IInv'
<1> DEFINE job == IF source = Outside THEN SubscribeJob(f) ELSE AdoptJob(f, source)
<1>0. TypeOK /\ (done => jobs # <<>>) /\ Outside \notin Future /\ Nobody \notin Future
      /\ Outside # Nobody
  BY DEF IInv, SettlerActs, Outside, Nobody, Future
<1>1. /\ job \in Job
      /\ job.next = f
      /\ \/ job.kind = "adopt" /\ job.from = source /\ source \in Future
         \/ job.kind = "subscribe" /\ source = Outside
  <2>1. CASE source = Outside
    <3>1. SubscribeJob(f) \in Job
      BY JobTypes, <1>0 DEF Handler, Settled, SubscribeJob, Job
    <3>2. SubscribeJob(f).next = f /\ SubscribeJob(f).kind = "subscribe"
      BY DEF SubscribeJob
    <3> QED BY <2>1, <3>1, <3>2
  <2>2. CASE source # Outside
    <3>1. AdoptJob(f, source) \in Job
      BY <2>2 DEF Handler, Settled, AdoptJob, Job
    <3>2. AdoptJob(f, source).next = f /\ AdoptJob(f, source).kind = "adopt"
          /\ AdoptJob(f, source).from = source
      BY DEF AdoptJob
    <3>3. job = AdoptJob(f, source) /\ source \in Future
      BY <2>2
    <3> HIDE DEF job
    <3> QED BY <3>1, <3>2, <3>3
  <2> QED BY <2>1, <2>2
<1>2. Enqueue(<<job>>, done)
  BY DEF Lock
<1>5. /\ state[f] = "Pending"
      /\ alreadySettled' = alreadySettled \cup {f}
      /\ follows' = [follows EXCEPT ![f] = source]
      /\ subscribed' = subscribed \ {f}
      /\ UNCHANGED <<state, value, reactions, promise, idCounter, resolvable, parent>>
  BY DEF Lock, SettlerActs
<1> HIDE DEF job
<1> DEFINE new == <<job>>
<1>a. new \in Seq(Job) /\ Len(new) = 1 /\ new[1] = job
  BY <1>1
<1>b. Enqueue(new, done)
  BY <1>2
<1> HIDE DEF new
<1>3. QueueStep(new, done)
  BY <1>0, <1>a, <1>b, EnqueueQueue DEF TypeOK
<1>4. /\ \A i \in 1..Len(jobs) : i > Ended(done) <=> jobs[i].next # f
      /\ \A g \in Future : \A k \in 1..Len(reactions[g]) : reactions[g][k].next # f
  BY SettlerIsAlone
\* Where a microtask of the new queue comes from.
<1>6. \A i \in 1..Len(jobs') :
        \/ \E m \in 1..Len(jobs) : m = i + Ended(done) /\ jobs'[i] = jobs[m] /\ jobs[m].next # f
        \/ i = Len(jobs) - Ended(done) + 1 /\ jobs'[i] = job
  <2> TAKE i \in 1..Len(jobs')
  <2>1. Ended(done) \in {0, 1} /\ Len(jobs) \in Nat /\ i \in Nat /\ i > 0
    BY <1>0, <1>3 DEF Ended, TypeOK, QueueStep
  <2>2. i + Ended(done) > Ended(done)
    BY <2>1
  <2>3. i + Ended(done) \in 1..Len(jobs) => jobs[i + Ended(done)].next # f
    BY <1>4, <2>2
  <2>4. i - (Len(jobs) - Ended(done)) \in 1..1 =>
          i - (Len(jobs) - Ended(done)) = 1 /\ i = Len(jobs) - Ended(done) + 1
    BY <2>1
  <2> QED BY <1>a, <1>3, <2>3, <2>4 DEF QueueStep
<1>7. TypeOK'
  <2>1. ongoingCalls' \in Int /\ onDone' \in BOOLEAN /\ resumed' \in BOOLEAN
    BY <1>0, <1>a, <1>b, EnqueueCounts DEF IInv, TypeOK
  <2>2. jobs' \in Seq(Job)
    BY <1>3 DEF QueueStep
  <2>3. follows' \in [Future -> Future \cup {Nobody, Outside}]
    BY <1>0, <1>5 DEF TypeOK
  <2> QED BY <1>0, <1>5, <2>1, <2>2, <2>3 DEF TypeOK
<1>8. BirthInv'
  BY <1>0, <1>5 DEF TypeOK, BirthInv, IInv, Settled
<1>9. LockInv'
  BY <1>0, <1>5 DEF TypeOK, LockInv, IInv, Settled
<1>10. JobsInv'
  <2> SUFFICES ASSUME NEW i \in 1..Len(jobs') PROVE JobOK(jobs[i])'
    BY DEF JobsInv
  <2>1. CASE \E m \in 1..Len(jobs) : jobs'[i] = jobs[m] /\ jobs[m].next # f
    <3> PICK m \in 1..Len(jobs) : jobs'[i] = jobs[m] /\ jobs[m].next # f
      BY <2>1
    <3>1. JobOK(jobs[m]) /\ jobs[m] \in Job
      BY <1>0 DEF IInv, JobsInv, TypeOK
    <3> QED BY <1>0, <1>5, <3>1 DEF JobOK, Job, Awaiting, TypeOK
  <2>2. CASE jobs'[i] = job
    BY <1>0, <1>1, <1>5, <2>2 DEF JobOK, Awaiting, TypeOK
  <2> QED BY <1>6, <2>1, <2>2
<1>11. ReactionsInv'
  <2> SUFFICES ASSUME NEW g \in Future, NEW k \in 1..Len(reactions[g])
               PROVE  ReactionOK(g, reactions[g][k])'
    BY <1>5 DEF ReactionsInv
  <2>1. ReactionOK(g, reactions[g][k]) /\ reactions[g][k].next # f /\ reactions[g][k] \in Reaction
    BY <1>0, <1>4 DEF IInv, ReactionsInv, TypeOK
  <2> QED BY <1>0, <1>5, <2>1 DEF ReactionOK, Reaction, Awaiting, TypeOK
<1>12. SubscribedInv'
  BY <1>0, <1>5 DEF IInv, SubscribedInv, Awaiting, TypeOK
<1>13. OnceInv'
  <2> USE <1>0 DEF IInv, TypeOK
  <2>0. Ended(done) \in {0, 1} /\ Len(jobs) \in Nat
    BY DEF Ended
  <2>1. QueueOnce'
    <3> SUFFICES ASSUME NEW i \in 1..Len(jobs'), NEW j \in 1..Len(jobs'),
                        jobs'[i].next = jobs'[j].next
                 PROVE  i = j
      BY DEF QueueOnce
    <3>1. CASE /\ \E m \in 1..Len(jobs) : m = i + Ended(done) /\ jobs'[i] = jobs[m]
               /\ \E m \in 1..Len(jobs) : m = j + Ended(done) /\ jobs'[j] = jobs[m]
      <4>1. QueueOnce
        BY DEF OnceInv
      <4>2. PICK m \in 1..Len(jobs) : m = i + Ended(done) /\ jobs'[i] = jobs[m]
        BY <3>1
      <4>3. PICK n \in 1..Len(jobs) : n = j + Ended(done) /\ jobs'[j] = jobs[n]
        BY <3>1
      <4>4. m = n
        BY <4>1, <4>2, <4>3 DEF QueueOnce
      <4> HIDE DEF IInv, TypeOK
      <4> QED BY <2>0, <4>2, <4>3, <4>4
    <3>2. CASE jobs'[i] = job /\ jobs'[j] = job
      <4>1. jobs'[i].next = f /\ jobs'[j].next = f
        BY <1>1, <3>2
      <4> QED BY <1>6, <4>1
    <3> QED BY <1>1, <1>6, <3>1, <3>2
  <2>2. StoredOnce'
    BY <1>5 DEF OnceInv, StoredOnce
  <2>3. QueuedNotStored'
    <3> SUFFICES ASSUME NEW i \in 1..Len(jobs'), NEW g \in Future, NEW k \in 1..Len(reactions[g])
                 PROVE  jobs'[i].next # reactions[g][k].next
      BY <1>5 DEF QueuedNotStored
    <3>1. CASE \E m \in 1..Len(jobs) : jobs'[i] = jobs[m]
      BY <3>1 DEF OnceInv, QueuedNotStored
    <3>2. CASE jobs'[i] = job
      BY <1>1, <1>4, <3>2
    <3> QED BY <1>6, <3>1, <3>2
  <2>4. QueuedNotSubscribed'
    BY <1>1, <1>5, <1>6 DEF OnceInv, QueuedNotSubscribed
  <2>5. StoredNotSubscribed'
    BY <1>5 DEF OnceInv, StoredNotSubscribed
  <2> QED BY <2>1, <2>2, <2>3, <2>4, <2>5 DEF OnceInv
<1>14. OwedInv'
  <2> SUFFICES ASSUME NEW h \in Future, state[h] = "Pending" PROVE Owed(h)'
    BY <1>5 DEF OwedInv
  <2>0. Owed(h)
    BY DEF IInv, OwedInv
  <2>1. CASE h = f
    BY <1>a, <1>1, <1>3, <2>1 DEF QueueStep, Owed
  <2>2. CASE h # f /\ \E m \in 1..Len(jobs) : jobs[m].next = h
    BY <1>3, <1>4, <2>2 DEF QueueStep, Owed
  <2>3. CASE h # f /\ ~\E m \in 1..Len(jobs) : jobs[m].next = h
    BY <1>5, <2>0, <2>3 DEF Owed
  <2> QED BY <2>1, <2>2, <2>3
<1>15. CallsCounted' /\ NoForgottenWaiter'
  BY <1>0, <1>a, <1>b, EnqueueCounts DEF IInv, TypeOK
<1>16. FollowersAgree'
  BY <1>0, <1>5 DEF IInv, FollowersAgree, TypeOK, Settled
<1>17. PromiseAgrees'
  BY <1>5 DEF IInv, PromiseAgrees
<1> QED BY <1>7, <1>8, <1>9, <1>10, <1>11, <1>12, <1>13, <1>14, <1>15, <1>16, <1>17 DEF IInv

\* Born Futures are those that are not Unborn.
LEMMA BornFacts ==
  ASSUME IInv
  PROVE  /\ Born \subseteq Future
         /\ \A f \in Future : f \in Born <=> state[f] # "Unborn"
         /\ Sources \in SUBSET (Future \cup {Outside})
         /\ Nobody \notin Future /\ Outside \notin Future /\ Nobody # Outside
<1>1. idCounter \in 0..MaxFutures /\ MaxFutures \in Nat
  BY ConstantsAssumption DEF IInv, TypeOK, ConstantsAssumption
<1>2. Born \subseteq Future
  BY <1>1 DEF Born, Future
<1>3. \A f \in Future : f \in Born <=> state[f] # "Unborn"
  BY <1>1 DEF IInv, BirthInv, Born, Future
<1> QED BY <1>2, <1>3 DEF Sources, Future, Nobody, Outside

----------------------------------------------------------------------------
(* The same steps, seen through the refinement mapping.                    *)

\* What every step is to FutureLifecycle.
Maps == [Lifecycle!Next]_(Lifecycle!vars)

\* A step that touches no state, no flag and no outcome is a stutter.
LEMMA StutterMaps ==
  ASSUME UNCHANGED <<state, value, alreadySettled, follows>>
  PROVE  Maps
<1>1. status' = status
  BY DEF status
<1> QED BY <1>1 DEF Maps, Lifecycle!vars

\* Settling a Future that is open, locked to an outside promise, or follows a
\* Future with that very outcome.
LEMMA TriggerMaps ==
  ASSUME IInv, NEW f \in Future, NEW type \in Settled, NEW v \in Value, NEW done \in BOOLEAN,
         state[f] = "Pending", Trigger(f, type, v, done),
         follows[f] \in Future => state[follows[f]] = type /\ value[follows[f]] = v
  PROVE  Maps
<1>1. /\ state' = [state EXCEPT ![f] = type]
      /\ value' = [value EXCEPT ![f] = v]
      /\ alreadySettled' = alreadySettled \cup {f}
      /\ follows' = follows
  BY DEF Trigger
<1>2. status' = [status EXCEPT ![f] = type]
  BY <1>1 DEF status, IInv, TypeOK, Settled
<1>3. Lifecycle!Become(f, type, v)
  BY <1>1, <1>2 DEF Lifecycle!Become
<1>4. status[f] = IF f \in alreadySettled THEN "locked" ELSE "open"
  BY DEF status
<1>5. CASE follows[f] \in Future
  <2> DEFINE g == follows[f]
  <2>1. g \in Future /\ state[g] = type /\ value[g] = v /\ status[f] = "locked"
    BY <1>4, <1>5, BornFacts DEF IInv, LockInv
  <2>2. status[g] = type
    BY <2>1 DEF status, Settled
  <2>3. type \in Lifecycle!Outcome
    BY DEF Lifecycle!Outcome, Settled
  <2>4. Lifecycle!SettleFollower(f)
    BY <1>3, <2>1, <2>2, <2>3 DEF Lifecycle!SettleFollower
  <2> QED BY <2>4 DEF Maps, Lifecycle!Next
<1>6. CASE follows[f] \notin Future
  <2>1. \/ status[f] \in {"unborn", "open"}
        \/ status[f] = "locked" /\ follows[f] = Outside
    BY <1>4, <1>6 DEF IInv, LockInv, TypeOK
  <2>2. type \in Lifecycle!Outcome
    BY DEF Lifecycle!Outcome, Settled
  <2>3. Lifecycle!Settle(f)
    BY <1>3, <2>1, <2>2 DEF Lifecycle!Settle
  <2> QED BY <2>3 DEF Maps, Lifecycle!Next
<1> QED BY <1>5, <1>6

\* Locking a Future that is open, or that an outside promise hands on.
LEMMA LockMaps ==
  ASSUME IInv, NEW f \in Future, NEW source \in Future \cup {Outside}, NEW job,
         NEW done \in BOOLEAN, state[f] = "Pending", follows[f] \notin Future, source # f,
         source \in Future => state[source] # "Unborn",
         Lock(f, source, job, done)
  PROVE  Maps
<1>1. /\ alreadySettled' = alreadySettled \cup {f}
      /\ follows' = [follows EXCEPT ![f] = source]
      /\ UNCHANGED <<state, value>>
  BY DEF Lock
<1>2. status' = [status EXCEPT ![f] = "locked"]
  BY <1>1 DEF status
<1>3. \/ status[f] = "open"
      \/ status[f] = "locked" /\ follows[f] = Outside
  BY DEF status, IInv, LockInv, TypeOK
<1>4. \/ source = Outside
      \/ source \in Future \ {f} /\ status[source] # "unborn"
  BY DEF status, IInv, TypeOK, Settled
<1>5. Lifecycle!LockTo(f, source)
  BY <1>1, <1>2, <1>3, <1>4 DEF Lifecycle!LockTo
<1> QED BY <1>5 DEF Maps, Lifecycle!Next

\* A new Future is open, or settled from the start.
LEMMA BirthMaps ==
  ASSUME IInv, NEW type \in {"Pending"} \cup Settled, NEW v \in Value \cup {NoValue},
         NEW source \in Future \cup {Nobody}, NewFuture(type, v, source),
         type = "Pending" => v = NoValue, type \in Settled => v \in Value,
         alreadySettled' = IF type = "Pending" THEN alreadySettled ELSE alreadySettled \cup {Fresh},
         value[Fresh] = NoValue, state[Fresh] = "Unborn", Fresh \notin alreadySettled
  PROVE  Maps
<1>1. PICK n \in Future : n = Fresh
  BY DEF NewFuture
<1>2. /\ state' = [state EXCEPT ![n] = type]
      /\ value' = [value EXCEPT ![n] = v]
      /\ follows' = follows
  BY <1>1 DEF NewFuture
<1>3. status[n] = "unborn"
  BY <1>1 DEF status
<1>4. CASE type = "Pending"
  <2>1. status' = [status EXCEPT ![n] = "open"]
    BY <1>1, <1>2, <1>4 DEF status, IInv, TypeOK, Settled
  <2>2. value' = value
    BY <1>1, <1>2, <1>4 DEF IInv, TypeOK
  <2>3. Lifecycle!Create(n)
    BY <1>2, <1>3, <2>1, <2>2 DEF Lifecycle!Create
  <2> QED BY <2>3 DEF Maps, Lifecycle!Next
<1>5. CASE type \in Settled
  <2>1. status' = [status EXCEPT ![n] = type]
    BY <1>1, <1>2, <1>5 DEF status, IInv, TypeOK, Settled
  <2>2. Lifecycle!Become(n, type, v)
    BY <1>2, <2>1 DEF Lifecycle!Become
  <2>3. type \in Lifecycle!Outcome /\ v \in Value
    BY <1>5 DEF Lifecycle!Outcome, Settled
  <2>4. Lifecycle!Settle(n)
    BY <1>3, <2>2, <2>3 DEF Lifecycle!Settle
  <2> QED BY <2>4 DEF Maps, Lifecycle!Next
<1> QED BY <1>4, <1>5

\* Resolution by whatever may be handed over keeps the invariant, provided that
\* the Future does not follow another one already.
LEMMA ResolveIInv ==
  ASSUME IInv, NEW f \in Future, NEW sources \in SUBSET (Future \cup {Outside}),
         NEW done \in BOOLEAN, SettlerActs(f, done), follows[f] \notin Future,
         \A source \in sources \cap Future : state[source] # "Unborn",
         ResolveFutureByDBNoSettledCheck(f, sources, done)
  PROVE  IInv' /\ Maps
<1>1. ASSUME NEW v \in Value, NEW type \in Settled, Trigger(f, type, v, done)
      PROVE  IInv' /\ Maps
  BY <1>1, TriggerIInv, TriggerMaps DEF SettlerActs
<1>2. ASSUME NEW source \in sources, ResolveWith(f, source, done)
      PROVE  IInv' /\ Maps
  <2>1. CASE source = f
    <3>1. TypeException \in Value /\ "Rejected" \in Settled
      BY DEF Value, Settled
    <3> QED BY <1>1, <1>2, <2>1, <3>1 DEF ResolveWith
  <2>2. CASE source # f
    <3>1. Lock(f, source, IF source = Outside THEN SubscribeJob(f) ELSE AdoptJob(f, source), done)
      BY <1>2, <2>2 DEF ResolveWith
    <3>2. source \in Future \cup {Outside} /\ (source \in Future => state[source] # "Unborn")
      BY <1>2
    <3>3. IInv'
      BY <2>2, <3>1, <3>2, LockIInv
    <3>4. Maps
      BY <2>2, <3>1, <3>2, LockMaps DEF SettlerActs
    <3> QED BY <3>3, <3>4
  <2> QED BY <2>1, <2>2
<1>3. Payload \subseteq Value
  BY DEF Value
<1> QED BY <1>1, <1>2, <1>3 DEF ResolveFutureByDBNoSettledCheck

----------------------------------------------------------------------------
(* The actions, one by one.                                                *)

\* Where the claims stay as they are, they stay exclusive and complete.
LEMMA ClaimsUnchanged ==
  ASSUME OnceInv, OwedInv, UNCHANGED <<jobs, reactions, subscribed, resolvable, alreadySettled, state>>
  PROVE  OnceInv' /\ OwedInv'
<1>1. OnceInv'
  BY DEF OnceInv, QueueOnce, StoredOnce, QueuedNotStored, QueuedNotSubscribed, StoredNotSubscribed
<1>2. OwedInv'
  BY DEF OwedInv, Owed
<1> QED BY <1>1, <1>2

\* A step that changes no variable of the engine changes nothing.
LEMMA StutterIInv == ASSUME IInv, UNCHANGED vars PROVE IInv'
<1> USE DEF vars, db, queue
<1>1. TypeOK' /\ BirthInv' /\ LockInv'
  BY DEF IInv, TypeOK, BirthInv, LockInv
<1>2. JobsInv' /\ ReactionsInv' /\ SubscribedInv'
  BY DEF IInv, JobsInv, ReactionsInv, SubscribedInv, JobOK, ReactionOK, Awaiting
<1>3. OnceInv' /\ OwedInv'
  <2>1. OnceInv /\ OwedInv
    BY DEF IInv
  <2> QED BY <2>1, ClaimsUnchanged
<1>4. CallsCounted' /\ NoForgottenWaiter' /\ FollowersAgree' /\ PromiseAgrees'
  BY DEF IInv, CallsCounted, NoForgottenWaiter, FollowersAgree, PromiseAgrees
<1> QED BY <1>1, <1>2, <1>3, <1>4 DEF IInv

\* User code that holds the resolvers of an open Future is its settler.
LEMMA UserIsSettler ==
  ASSUME IInv, NEW f \in resolvable, f \notin alreadySettled,
         UNCHANGED <<idCounter, resolvable, parent, subscribed>>
  PROVE  f \in Future /\ SettlerActs(f, FALSE) /\ follows[f] = Nobody
<1>1. f \in Future /\ state[f] = "Pending" /\ follows[f] = Nobody
  BY DEF IInv, TypeOK, BirthInv, LockInv
<1>2. f \notin subscribed
  BY DEF IInv, SubscribedInv, Awaiting
<1> QED BY <1>1, <1>2 DEF SettlerActs

\* The resolvers a user holds keep the invariant.
LEMMA ResolveByIdIInv ==
  ASSUME IInv, NEW f \in resolvable, ResolveFutureById(f) PROVE IInv' /\ Maps
<1>1. CASE f \in alreadySettled
  BY <1>1, StutterIInv, StutterMaps DEF ResolveFutureById, vars, db
<1>2. CASE f \notin alreadySettled
  <2>1. f \in Future /\ SettlerActs(f, FALSE) /\ follows[f] = Nobody
    BY <1>2, UserIsSettler DEF ResolveFutureById
  <2>2. ResolveFutureByDBNoSettledCheck(f, Sources, FALSE)
    BY <1>2 DEF ResolveFutureById
  <2>3. /\ Sources \in SUBSET (Future \cup {Outside}) /\ follows[f] \notin Future
        /\ \A source \in Sources \cap Future : state[source] # "Unborn"
    BY <2>1, BornFacts DEF Sources
  <2> QED BY <2>1, <2>2, <2>3, ResolveIInv
<1> QED BY <1>1, <1>2

LEMMA RejectByIdIInv ==
  ASSUME IInv, NEW f \in resolvable, RejectFutureById(f) PROVE IInv' /\ Maps
<1>1. CASE f \in alreadySettled
  BY <1>1, StutterIInv, StutterMaps DEF RejectFutureById, vars, db
<1>2. CASE f \notin alreadySettled
  <2>1. f \in Future /\ SettlerActs(f, FALSE) /\ follows[f] = Nobody
    BY <1>2, UserIsSettler DEF RejectFutureById
  <2>2. PICK v \in Payload : Trigger(f, "Rejected", v, FALSE)
    BY <1>2 DEF RejectFutureById
  <2>3. v \in Value /\ "Rejected" \in Settled /\ follows[f] \notin Future
    BY <2>1, BornFacts DEF Value, Settled
  <2> QED BY <2>1, <2>2, <2>3, TriggerIInv, TriggerMaps DEF SettlerActs
<1> QED BY <1>1, <1>2

\* An outside promise settles only Futures that are locked to it.
LEMMA PromiseCallbackIInv ==
  ASSUME IInv, NEW f \in subscribed, PromiseCallback(f) PROVE IInv' /\ Maps
<1>1. f \in Future /\ SettlerActs(f, FALSE) /\ follows[f] \notin Future
  BY BornFacts DEF PromiseCallback, SettlerActs, IInv, TypeOK, SubscribedInv, Awaiting
<1>2. ASSUME ResolveFutureByDBNoSettledCheck(f, Born \cup NestedPromises, FALSE)
      PROVE  IInv' /\ Maps
  <2>1. /\ Born \cup NestedPromises \in SUBSET (Future \cup {Outside})
        /\ \A source \in (Born \cup NestedPromises) \cap Future : state[source] # "Unborn"
    BY BornFacts, ConstantsAssumption DEF ConstantsAssumption
  <2> QED BY <1>1, <1>2, <2>1, ResolveIInv
<1>3. ASSUME NEW v \in Payload, Trigger(f, "Rejected", v, FALSE) PROVE IInv' /\ Maps
  <2>1. v \in Value /\ "Rejected" \in Settled
    BY DEF Value, Settled
  <2> QED BY <1>1, <1>3, <2>1, TriggerIInv, TriggerMaps DEF SettlerActs
<1> QED BY <1>2, <1>3 DEF PromiseCallback

\* The oldest microtask, when it settles the Future it is for.
LEMMA HeadFacts ==
  ASSUME IInv, jobs # <<>>
  PROVE  /\ Head(jobs) \in Job /\ Head(jobs) = jobs[1] /\ 1 \in 1..Len(jobs)
         /\ Head(jobs).next \in Future /\ Head(jobs).from \in Future
         /\ Head(jobs).next \notin subscribed
         /\ JobOK(Head(jobs))
<1>1. jobs \in Seq(Job) /\ Len(jobs) \in Nat /\ Len(jobs) > 0
  BY DEF IInv, TypeOK
<1>2. Head(jobs) = jobs[1] /\ 1 \in 1..Len(jobs) /\ Head(jobs) \in Job
  BY <1>1
<1>3. Head(jobs).next \in Future /\ Head(jobs).from \in Future
  BY <1>2 DEF Job
<1>4. Head(jobs).next \notin subscribed
  BY <1>2 DEF IInv, OnceInv, QueuedNotSubscribed
<1>5. JobOK(Head(jobs))
  BY <1>2 DEF IInv, JobsInv
<1> QED BY <1>2, <1>3, <1>4, <1>5

LEMMA RunReactionIInv ==
  ASSUME IInv, jobs # <<>>, Head(jobs).kind = "reaction", RunReaction(Head(jobs)),
         UNCHANGED <<idCounter, resolvable, parent>>
  PROVE  IInv' /\ Maps
<1> DEFINE job == Head(jobs)
<1> DEFINE f == job.next
<1>1. /\ job \in Job /\ f \in Future /\ job.from \in Future /\ job.handler \in Handler
      /\ job.type \in Settled /\ f \notin subscribed /\ JobOK(job) /\ job.kind = "reaction"
  BY HeadFacts DEF Job
<1>2. RunReaction(job) /\ subscribed' = subscribed
  BY DEF RunReaction
<1>3. SettlerActs(f, TRUE)
  BY <1>1, <1>2 DEF SettlerActs, JobOK, Awaiting
<1> HIDE DEF job
<1>4. CASE job.handler = "none"
  <2>1. Trigger(f, job.type, job.arg, TRUE)
    BY <1>2, <1>4 DEF RunReaction
  <2>2. job.arg = value[job.from] /\ state[job.from] = job.type /\ job.arg \in Value
    BY <1>1 DEF JobOK, IInv, BirthInv
  <2>3. follows[f] \in Future => follows[f] = job.from
    BY <1>1, BornFacts DEF JobOK, IInv, LockInv
  <2> HIDE DEF f
  <2> QED BY <1>1, <1>3, <2>1, <2>2, <2>3, TriggerIInv, TriggerMaps DEF SettlerActs
<1>5. CASE job.handler # "none"
  <2>1. follows[f] \notin Future
    BY <1>1, <1>5, BornFacts DEF JobOK, IInv, LockInv
  <2>2. CASE job.handler = "missing"
    <3>1. Trigger(f, "Rejected", NotFound, TRUE) /\ NotFound \in Value /\ "Rejected" \in Settled
      BY <1>2, <1>5, <2>2 DEF RunReaction, Value, Settled
    <3> HIDE DEF f
    <3> QED BY <1>1, <1>3, <2>1, <3>1, TriggerIInv, TriggerMaps DEF SettlerActs
  <2>3. CASE job.handler = "method"
    <3>1. ResolveFutureByDBNoSettledCheck(f, Sources, TRUE)
      BY <1>2, <1>5, <2>3 DEF RunReaction
    <3>2. /\ Sources \in SUBSET (Future \cup {Outside})
          /\ \A source \in Sources \cap Future : state[source] # "Unborn"
      BY BornFacts DEF Sources
    <3> HIDE DEF f
    <3> QED BY <1>1, <1>3, <2>1, <3>1, <3>2, ResolveIInv
  <2> QED BY <1>1, <1>5, <2>2, <2>3 DEF Handler
<1> QED BY <1>4, <1>5

----------------------------------------------------------------------------
(* Steps that hand a Future from the queue to another settler.             *)

\* The oldest microtask ends; f, the Future it was for, goes to a new microtask
\* `job`, to a reaction or to a promise, and nothing else changes hands.
HandOver(new, f) ==
  /\ jobs # <<>> /\ f = Head(jobs).next
  /\ Enqueue(new, TRUE)
  /\ UNCHANGED <<idCounter, resolvable, parent, state, value, alreadySettled, promise, follows>>

\* What the hand over of f does to the queue and to everything but the new settler.
LEMMA HandOverFacts ==
  ASSUME IInv, NEW f, NEW new \in Seq(Job), Len(new) \in {0, 1}, HandOver(new, f),
         \A k \in 1..Len(new) : new[k].next = f
  PROVE  /\ f \in Future
         /\ QueueStep(new, TRUE)
         /\ \A i \in 1..Len(jobs') :
              \/ i + 1 \in 1..Len(jobs) /\ jobs'[i] = jobs[i + 1] /\ jobs[i + 1].next # f
              \/ Len(new) = 1 /\ jobs'[i] = new[1]
         /\ QueueOnce'
         /\ \A g \in Future : \A k \in 1..Len(reactions[g]) : reactions[g][k].next # f
         /\ BirthInv /\ (reactions' = reactions => BirthInv') /\ LockInv'
         /\ FollowersAgree' /\ PromiseAgrees' /\ CallsCounted' /\ NoForgottenWaiter'
         /\ ongoingCalls' \in Int /\ onDone' \in BOOLEAN /\ resumed' \in BOOLEAN
         /\ \A h \in Future : Awaiting(h)' <=> Awaiting(h)
<1>1. /\ jobs \in Seq(Job) /\ jobs # <<>> /\ jobs[1].next = f /\ 1 \in 1..Len(jobs)
      /\ Len(jobs) \in Nat /\ f \in Future
  <2>1. jobs # <<>> /\ f = Head(jobs).next
    BY DEF HandOver
  <2>2. jobs \in Seq(Job)
    BY DEF IInv, TypeOK
  <2> QED BY <2>1, <2>2, HeadFacts
<1>2. QueueStep(new, TRUE)
  BY <1>1, EnqueueQueue DEF HandOver
<1>3. \A m \in 1..Len(jobs) : jobs[m].next = f => m = 1
  BY <1>1 DEF IInv, OnceInv, QueueOnce
<1>4. \A i \in 1..Len(jobs') :
        \/ i + 1 \in 1..Len(jobs) /\ jobs'[i] = jobs[i + 1] /\ jobs[i + 1].next # f
        \/ Len(new) = 1 /\ jobs'[i] = new[1] /\ i = Len(jobs) /\ jobs'[i].next = f
  <2> TAKE i \in 1..Len(jobs')
  <2>1. CASE i + 1 \in 1..Len(jobs) /\ jobs'[i] = jobs[i + 1]
    BY <1>3, <2>1
  <2>2. CASE i - (Len(jobs) - 1) \in 1..Len(new) /\ jobs'[i] = new[i - (Len(jobs) - 1)]
    <3>1. Len(new) = 1 /\ i - (Len(jobs) - 1) = 1 /\ i = Len(jobs)
      BY <1>1, <1>2, <2>2 DEF QueueStep
    <3> QED BY <2>2, <3>1
  <2> QED BY <1>2, <2>1, <2>2 DEF QueueStep, Ended
<1>5. QueueOnce'
  <2> SUFFICES ASSUME NEW i \in 1..Len(jobs'), NEW j \in 1..Len(jobs'),
                      jobs'[i].next = jobs'[j].next
               PROVE  i = j
    BY DEF QueueOnce
  <2>1. CASE jobs'[i].next = f
    BY <1>4, <2>1
  <2>2. CASE jobs'[i].next # f
    <3>1. /\ i + 1 \in 1..Len(jobs) /\ jobs'[i] = jobs[i + 1]
          /\ j + 1 \in 1..Len(jobs) /\ jobs'[j] = jobs[j + 1]
      BY <1>4, <2>2
    <3>2. i + 1 = j + 1
      BY <3>1 DEF IInv, OnceInv, QueueOnce
    <3>3. i \in Nat /\ j \in Nat
      BY <1>2 DEF QueueStep
    <3> QED BY <3>2, <3>3
  <2> QED BY <2>1, <2>2
<1>6. \A g \in Future : \A k \in 1..Len(reactions[g]) : reactions[g][k].next # f
  BY <1>1 DEF IInv, OnceInv, QueuedNotStored
<1>7. BirthInv /\ (reactions' = reactions => BirthInv') /\ LockInv'
  BY DEF HandOver, IInv, BirthInv, LockInv
<1>8. FollowersAgree' /\ PromiseAgrees'
  BY DEF HandOver, IInv, FollowersAgree, PromiseAgrees
<1>9. /\ CallsCounted' /\ NoForgottenWaiter'
      /\ ongoingCalls' \in Int /\ onDone' \in BOOLEAN /\ resumed' \in BOOLEAN
  BY EnqueueCounts DEF HandOver, IInv, TypeOK
<1>10. \A h \in Future : Awaiting(h)' <=> Awaiting(h)
  BY DEF HandOver, Awaiting
<1> QED BY <1>1, <1>2, <1>4, <1>5, <1>6, <1>7, <1>8, <1>9, <1>10

\* Following a settled Future: the outcome is queued for f at once.
LEMMA AdoptSettledIInv ==
  ASSUME IInv, NEW f, NEW job \in Job, HandOver(<<job>>, f), UNCHANGED <<reactions, subscribed>>,
         job.next = f, JobOK(job)
  PROVE  IInv'
<1> DEFINE new == <<job>>
<1>1. new \in Seq(Job) /\ Len(new) = 1 /\ new[1] = job /\ HandOver(new, f)
      /\ \A k \in 1..Len(new) : new[k].next = f
  OBVIOUS
<1> HIDE DEF new
<1>2. /\ f \in Future
      /\ QueueStep(new, TRUE)
      /\ \A i \in 1..Len(jobs') :
           \/ i + 1 \in 1..Len(jobs) /\ jobs'[i] = jobs[i + 1] /\ jobs[i + 1].next # f
           \/ jobs'[i] = job
      /\ QueueOnce'
      /\ \A g \in Future : \A k \in 1..Len(reactions[g]) : reactions[g][k].next # f
      /\ BirthInv' /\ LockInv'
      /\ FollowersAgree' /\ PromiseAgrees' /\ CallsCounted' /\ NoForgottenWaiter'
      /\ ongoingCalls' \in Int /\ onDone' \in BOOLEAN /\ resumed' \in BOOLEAN
      /\ \A h \in Future : Awaiting(h)' <=> Awaiting(h)
  BY <1>1, HandOverFacts
<1>3. TypeOK'
  BY <1>2 DEF IInv, TypeOK, HandOver, QueueStep
<1>4. JobsInv'
  <2> SUFFICES ASSUME NEW i \in 1..Len(jobs') PROVE JobOK(jobs[i])'
    BY DEF JobsInv
  <2>1. \A m \in 1..Len(jobs) : jobs[m] \in Job /\ JobOK(jobs[m])
    BY DEF IInv, JobsInv, TypeOK
  <2>2. jobs'[i] \in Job /\ JobOK(jobs'[i])
    BY <1>2, <2>1
  <2> QED BY <1>2, <2>2 DEF JobOK, HandOver, Job
<1>5. ReactionsInv'
  <2> SUFFICES ASSUME NEW g \in Future, NEW k \in 1..Len(reactions[g])
               PROVE  ReactionOK(g, reactions[g][k])'
    BY DEF ReactionsInv
  <2>1. ReactionOK(g, reactions[g][k]) /\ reactions[g][k] \in Reaction
    BY DEF IInv, ReactionsInv, TypeOK
  <2> QED BY <1>2, <2>1 DEF ReactionOK, HandOver, Reaction
<1>6. SubscribedInv'
  BY <1>2 DEF IInv, TypeOK, SubscribedInv, HandOver
<1>7. OnceInv'
  <2>1. StoredOnce' /\ StoredNotSubscribed'
    BY DEF IInv, OnceInv, StoredOnce, StoredNotSubscribed
  <2>2. QueuedNotStored'
    BY <1>2 DEF IInv, OnceInv, QueuedNotStored
  <2>3. f \notin subscribed
    BY HeadFacts DEF HandOver
  <2>4. QueuedNotSubscribed'
    BY <1>2, <2>3 DEF IInv, OnceInv, QueuedNotSubscribed
  <2> QED BY <1>2, <2>1, <2>2, <2>4 DEF OnceInv
<1>8. OwedInv'
  <2> SUFFICES ASSUME NEW h \in Future, state[h] = "Pending" PROVE Owed(h)'
    BY DEF OwedInv, HandOver
  <2>0. Owed(h)
    BY DEF IInv, OwedInv
  <2>1. CASE h = f
    <3>1. 1 \in 1..Len(new)
      BY <1>1
    <3>2. \E i \in 1..Len(jobs') : jobs'[i] = new[1]
      BY <1>2, <3>1 DEF QueueStep
    <3> QED BY <1>1, <2>1, <3>2 DEF Owed
  <2>2. ASSUME h # f, NEW m \in 1..Len(jobs), jobs[m].next = h PROVE Owed(h)'
    <3>1. m # 1
      BY <2>2, HeadFacts DEF HandOver
    <3>2. \E i \in 1..Len(jobs') : jobs'[i] = jobs[m]
      BY <1>2, <3>1 DEF QueueStep, Ended
    <3> QED BY <2>2, <3>2 DEF Owed
  <2>3. CASE ~\E m \in 1..Len(jobs) : jobs[m].next = h
    BY <2>0, <2>3 DEF Owed, HandOver
  <2> QED BY <2>1, <2>2, <2>3
<1> QED BY <1>2, <1>3, <1>4, <1>5, <1>6, <1>7, <1>8 DEF IInv

\* Storing one more reaction leaves those that were stored where they are.
LEMMA AppendFacts ==
  ASSUME TypeOK, StoredOnce, NEW g \in Future, NEW r \in Reaction,
         reactions' = [reactions EXCEPT ![g] = Append(@, r)],
         \A h \in Future : \A k \in 1..Len(reactions[h]) : reactions[h][k].next # r.next
  PROVE  /\ reactions' \in [Future -> Seq(Reaction)]
         /\ \A h \in Future : \A k \in 1..Len(reactions'[h]) :
              \/ k \in 1..Len(reactions[h]) /\ reactions'[h][k] = reactions[h][k]
              \/ h = g /\ k = Len(reactions[g]) + 1 /\ reactions'[h][k] = r
         /\ \A h \in Future : \A k \in 1..Len(reactions[h]) :
              k \in 1..Len(reactions'[h]) /\ reactions'[h][k] = reactions[h][k]
         /\ \E k \in 1..Len(reactions'[g]) : reactions'[g][k] = r
         /\ \A h \in Future : h # g => reactions'[h] = reactions[h]
         /\ StoredOnce'
<1>1. reactions \in [Future -> Seq(Reaction)]
  BY DEF TypeOK
<1>2. /\ reactions' \in [Future -> Seq(Reaction)]
      /\ reactions'[g] = Append(reactions[g], r)
      /\ \A h \in Future : h # g => reactions'[h] = reactions[h]
  BY <1>1
<1>3. /\ Len(reactions[g]) \in Nat
      /\ Len(reactions'[g]) = Len(reactions[g]) + 1
      /\ reactions'[g][Len(reactions[g]) + 1] = r
      /\ \A k \in 1..Len(reactions[g]) : reactions'[g][k] = reactions[g][k]
  BY <1>1, <1>2
<1>4. \A h \in Future : \A k \in 1..Len(reactions'[h]) :
        \/ k \in 1..Len(reactions[h]) /\ reactions'[h][k] = reactions[h][k]
        \/ h = g /\ k = Len(reactions[g]) + 1 /\ reactions'[h][k] = r
  BY <1>2, <1>3
<1>5. \A h \in Future : \A k \in 1..Len(reactions[h]) :
        k \in 1..Len(reactions'[h]) /\ reactions'[h][k] = reactions[h][k]
  BY <1>2, <1>3
<1>6. \E k \in 1..Len(reactions'[g]) : reactions'[g][k] = r
  BY <1>3
<1>7. StoredOnce'
  <2> SUFFICES ASSUME NEW a \in Future, NEW b \in Future,
                      NEW i \in 1..Len(reactions'[a]), NEW j \in 1..Len(reactions'[b]),
                      reactions'[a][i].next = reactions'[b][j].next
               PROVE  a = b /\ i = j
    BY DEF StoredOnce
  <2>1. CASE reactions'[a][i].next = r.next
    BY <1>4, <2>1
  <2>2. CASE reactions'[a][i].next # r.next
    <3>1. /\ i \in 1..Len(reactions[a]) /\ reactions'[a][i] = reactions[a][i]
          /\ j \in 1..Len(reactions[b]) /\ reactions'[b][j] = reactions[b][j]
      BY <1>4, <2>2
    <3> QED BY <3>1 DEF StoredOnce
  <2> QED BY <2>1, <2>2
<1> QED BY <1>2, <1>4, <1>5, <1>6, <1>7

\* Following a Pending Future: f becomes the next of a reaction stored on g.
LEMMA AdoptPendingIInv ==
  ASSUME IInv, NEW f, NEW g \in Future, NEW r \in Reaction, HandOver(<<>>, f),
         state[g] = "Pending", r.next = f, ReactionOK(g, r),
         reactions' = [reactions EXCEPT ![g] = Append(@, r)], UNCHANGED subscribed
  PROVE  IInv'
<1> DEFINE new == <<>>
<1>1. new \in Seq(Job) /\ Len(new) \in {0, 1} /\ Len(new) # 1 /\ HandOver(new, f)
      /\ \A k \in 1..Len(new) : new[k].next = f
  OBVIOUS
<1> HIDE DEF new
<1>2. /\ f \in Future
      /\ QueueStep(new, TRUE)
      /\ \A i \in 1..Len(jobs') :
           i + 1 \in 1..Len(jobs) /\ jobs'[i] = jobs[i + 1] /\ jobs[i + 1].next # f
      /\ QueueOnce'
      /\ \A h \in Future : \A k \in 1..Len(reactions[h]) : reactions[h][k].next # f
      /\ BirthInv /\ LockInv'
      /\ FollowersAgree' /\ PromiseAgrees' /\ CallsCounted' /\ NoForgottenWaiter'
      /\ ongoingCalls' \in Int /\ onDone' \in BOOLEAN /\ resumed' \in BOOLEAN
      /\ \A h \in Future : Awaiting(h)' <=> Awaiting(h)
  BY <1>1, HandOverFacts
<1>3. /\ reactions' \in [Future -> Seq(Reaction)]
      /\ \A h \in Future : \A k \in 1..Len(reactions'[h]) :
           \/ k \in 1..Len(reactions[h]) /\ reactions'[h][k] = reactions[h][k]
           \/ h = g /\ k = Len(reactions[g]) + 1 /\ reactions'[h][k] = r
      /\ \A h \in Future : \A k \in 1..Len(reactions[h]) :
           k \in 1..Len(reactions'[h]) /\ reactions'[h][k] = reactions[h][k]
      /\ \E k \in 1..Len(reactions'[g]) : reactions'[g][k] = r
      /\ \A h \in Future : h # g => reactions'[h] = reactions[h]
      /\ StoredOnce'
  BY <1>2, AppendFacts DEF IInv, OnceInv
<1>4. TypeOK'
  BY <1>2, <1>3 DEF IInv, TypeOK, HandOver, QueueStep
<1>5. BirthInv'
  BY <1>2, <1>3 DEF HandOver, BirthInv
<1>6. JobsInv'
  <2> SUFFICES ASSUME NEW i \in 1..Len(jobs') PROVE JobOK(jobs[i])'
    BY DEF JobsInv
  <2>1. \A m \in 1..Len(jobs) : jobs[m] \in Job /\ JobOK(jobs[m])
    BY DEF IInv, JobsInv, TypeOK
  <2>2. jobs'[i] \in Job /\ JobOK(jobs'[i])
    BY <1>2, <2>1
  <2> QED BY <1>2, <2>2 DEF JobOK, HandOver, Job
<1>7. ReactionsInv'
  <2> SUFFICES ASSUME NEW h \in Future, NEW k \in 1..Len(reactions'[h])
               PROVE  ReactionOK(h, reactions[h][k])'
    BY DEF ReactionsInv
  <2>1. ReactionOK(h, reactions'[h][k]) /\ reactions'[h][k] \in Reaction
    BY <1>3 DEF IInv, ReactionsInv, TypeOK
  <2> QED BY <1>2, <2>1 DEF ReactionOK, HandOver, Reaction
<1>8. SubscribedInv'
  BY <1>2 DEF IInv, TypeOK, SubscribedInv, HandOver
<1>9. OnceInv'
  <2>0. f \notin subscribed
    BY HeadFacts DEF HandOver
  <2>1. QueuedNotStored'
    <3> SUFFICES ASSUME NEW i \in 1..Len(jobs'), NEW h \in Future, NEW k \in 1..Len(reactions'[h])
                 PROVE  jobs'[i].next # reactions'[h][k].next
      BY DEF QueuedNotStored
    <3> QED BY <1>2, <1>3 DEF IInv, OnceInv, QueuedNotStored
  <2>2. QueuedNotSubscribed'
    BY <1>2 DEF IInv, OnceInv, QueuedNotSubscribed
  <2>3. StoredNotSubscribed'
    BY <1>3, <2>0 DEF IInv, OnceInv, StoredNotSubscribed
  <2> QED BY <1>2, <1>3, <2>1, <2>2, <2>3 DEF OnceInv
<1>10. OwedInv'
  <2> SUFFICES ASSUME NEW h \in Future, state[h] = "Pending" PROVE Owed(h)'
    BY DEF OwedInv, HandOver
  <2>0. Owed(h)
    BY DEF IInv, OwedInv
  <2>1. CASE h = f
    BY <1>3, <2>1 DEF Owed
  <2>2. ASSUME h # f, NEW m \in 1..Len(jobs), jobs[m].next = h PROVE Owed(h)'
    <3>1. m # 1
      BY <2>2, HeadFacts DEF HandOver
    <3>2. \E i \in 1..Len(jobs') : jobs'[i] = jobs[m]
      BY <1>2, <3>1 DEF QueueStep, Ended
    <3> QED BY <2>2, <3>2 DEF Owed
  <2>3. ASSUME NEW e \in Future, NEW k \in 1..Len(reactions[e]), reactions[e][k].next = h
        PROVE  Owed(h)'
    BY <1>3, <2>3 DEF Owed
  <2>4. CASE h \in subscribed \/ (h \in resolvable /\ h \notin alreadySettled)
    BY <2>4 DEF Owed, HandOver
  <2> QED BY <2>0, <2>1, <2>2, <2>3, <2>4 DEF Owed
<1> QED BY <1>2, <1>4, <1>5, <1>6, <1>7, <1>8, <1>9, <1>10 DEF IInv

\* Waiting for an outside promise.
LEMMA RunSubscribeIInv ==
  ASSUME IInv, NEW f, HandOver(<<>>, f), UNCHANGED reactions, Awaiting(f), follows[f] = Outside,
         subscribed' = subscribed \cup {f}
  PROVE  IInv'
<1> DEFINE new == <<>>
<1>1. new \in Seq(Job) /\ Len(new) \in {0, 1} /\ Len(new) # 1 /\ HandOver(new, f)
      /\ \A k \in 1..Len(new) : new[k].next = f
  OBVIOUS
<1> HIDE DEF new
<1>2. /\ f \in Future
      /\ QueueStep(new, TRUE)
      /\ \A i \in 1..Len(jobs') :
           i + 1 \in 1..Len(jobs) /\ jobs'[i] = jobs[i + 1] /\ jobs[i + 1].next # f
      /\ QueueOnce'
      /\ \A h \in Future : \A k \in 1..Len(reactions[h]) : reactions[h][k].next # f
      /\ BirthInv' /\ LockInv'
      /\ FollowersAgree' /\ PromiseAgrees' /\ CallsCounted' /\ NoForgottenWaiter'
      /\ ongoingCalls' \in Int /\ onDone' \in BOOLEAN /\ resumed' \in BOOLEAN
      /\ \A h \in Future : Awaiting(h)' <=> Awaiting(h)
  BY <1>1, HandOverFacts
<1>3. TypeOK'
  BY <1>2 DEF IInv, TypeOK, HandOver, QueueStep
<1>4. JobsInv'
  <2> SUFFICES ASSUME NEW i \in 1..Len(jobs') PROVE JobOK(jobs[i])'
    BY DEF JobsInv
  <2>1. \A m \in 1..Len(jobs) : jobs[m] \in Job /\ JobOK(jobs[m])
    BY DEF IInv, JobsInv, TypeOK
  <2>2. jobs'[i] \in Job /\ JobOK(jobs'[i])
    BY <1>2, <2>1
  <2> QED BY <1>2, <2>2 DEF JobOK, HandOver, Job
<1>5. ReactionsInv'
  <2> SUFFICES ASSUME NEW h \in Future, NEW k \in 1..Len(reactions[h])
               PROVE  ReactionOK(h, reactions[h][k])'
    BY DEF ReactionsInv
  <2>1. ReactionOK(h, reactions[h][k]) /\ reactions[h][k] \in Reaction
    BY DEF IInv, ReactionsInv, TypeOK
  <2> QED BY <1>2, <2>1 DEF ReactionOK, HandOver, Reaction
<1>6. SubscribedInv'
  BY <1>2 DEF IInv, TypeOK, SubscribedInv, HandOver
<1>7. OnceInv'
  <2>1. StoredOnce' /\ StoredNotSubscribed'
    BY <1>2 DEF IInv, OnceInv, StoredOnce, StoredNotSubscribed
  <2>2. QueuedNotStored'
    <3>1. QueuedNotStored
      BY DEF IInv, OnceInv
    <3>2. ASSUME NEW i \in 1..Len(jobs'), NEW h \in Future, NEW k \in 1..Len(reactions[h])
          PROVE  jobs'[i].next # reactions[h][k].next
      <4>1. \/ i + 1 \in 1..Len(jobs) /\ jobs'[i] = jobs[i + 1]
            \/ jobs'[i].next = f
        BY <1>2
      <4>2. reactions[h][k].next # f
        BY <1>2
      <4> QED BY <3>1, <4>1, <4>2 DEF QueuedNotStored
    <3> QED BY <3>2, reactions' = reactions DEF QueuedNotStored
  <2>3. QueuedNotSubscribed'
    BY <1>2 DEF IInv, OnceInv, QueuedNotSubscribed
  <2> QED BY <1>2, <2>1, <2>2, <2>3 DEF OnceInv
<1>8. OwedInv'
  <2> SUFFICES ASSUME NEW h \in Future, state[h] = "Pending" PROVE Owed(h)'
    BY DEF OwedInv, HandOver
  <2>0. Owed(h)
    BY DEF IInv, OwedInv
  <2>1. CASE h = f
    BY <2>1 DEF Owed
  <2>2. ASSUME h # f, NEW m \in 1..Len(jobs), jobs[m].next = h PROVE Owed(h)'
    <3>1. m # 1
      BY <2>2, HeadFacts DEF HandOver
    <3>2. \E i \in 1..Len(jobs') : jobs'[i] = jobs[m]
      BY <1>2, <3>1 DEF QueueStep, Ended
    <3> QED BY <2>2, <3>2 DEF Owed
  <2>3. CASE ~\E m \in 1..Len(jobs) : jobs[m].next = h
    BY <2>0, <2>3 DEF Owed, HandOver
  <2> QED BY <2>1, <2>2, <2>3
<1> QED BY <1>2, <1>3, <1>4, <1>5, <1>6, <1>7, <1>8 DEF IInv

\* A microtask of any kind keeps the invariant.
LEMMA RunMicrotaskIInv == ASSUME IInv, RunMicrotask PROVE IInv' /\ Maps
<1> DEFINE job == Head(jobs)
<1> DEFINE f == job.next
<1>1. /\ jobs # <<>> /\ UNCHANGED <<idCounter, resolvable, parent>>
      /\ \/ job.kind = "reaction" /\ RunReaction(job)
         \/ job.kind = "adopt" /\ RunAdopt(job)
         \/ job.kind = "subscribe" /\ RunSubscribe(job)
  BY DEF RunMicrotask
<1>2. /\ job \in Job /\ f \in Future /\ job.from \in Future /\ JobOK(job) /\ Awaiting(f)
  BY <1>1, HeadFacts DEF JobOK
<1>3. CASE job.kind = "reaction" /\ RunReaction(job)
  BY <1>1, <1>3, RunReactionIInv
<1>4. CASE job.kind = "adopt" /\ RunAdopt(job)
  <2>1. /\ f \in alreadySettled /\ follows[f] = job.from /\ state[job.from] # "Unborn"
        /\ UNCHANGED <<subscribed, state, value, alreadySettled, promise, follows>>
    BY <1>2, <1>4, BornFacts DEF JobOK, IInv, LockInv, RunAdopt
  <2>a. Maps
    BY <2>1, StutterMaps
  <2>2. CASE state[job.from] = "Pending"
    <3> DEFINE r == [next |-> f, onFulfilled |-> "none", onRejected |-> "none"]
    <3>1. /\ reactions' = [reactions EXCEPT ![job.from] = Append(@, r)]
          /\ HandOver(<<>>, f)
      BY <1>1, <1>4, <2>1, <2>2 DEF RunAdopt, HandOver
    <3>2. r \in Reaction /\ r.next = f /\ ReactionOK(job.from, r)
      BY <1>2, <2>1 DEF Reaction, Handler, ReactionOK
    <3> HIDE DEF r, f, job
    <3> QED BY <1>2, <2>1, <2>a, <2>2, <3>1, <3>2, AdoptPendingIInv
  <2>3. CASE state[job.from] # "Pending"
    <3> DEFINE new == ReactionJob(f, job.from, "none", state[job.from], value[job.from])
    <3>1. /\ UNCHANGED reactions /\ HandOver(<<new>>, f)
      BY <1>1, <1>4, <2>1, <2>3 DEF RunAdopt, HandOver
    <3>2. state[job.from] \in Settled /\ value[job.from] \in Value
      BY <1>2, <2>1, <2>3 DEF IInv, TypeOK, BirthInv
    <3>3. new \in Job
      BY <1>2, <3>2, JobTypes DEF Handler
    <3>4. /\ new.next = f /\ new.kind = "reaction" /\ new.from = job.from /\ new.handler = "none"
          /\ new.type = state[job.from] /\ new.arg = value[job.from]
      BY DEF ReactionJob
    <3> HIDE DEF new
    <3>5. JobOK(new)
      BY <1>2, <2>1, <3>4 DEF JobOK
    <3> HIDE DEF f, job
    <3> QED BY <2>1, <2>a, <3>1, <3>3, <3>4, <3>5, AdoptSettledIInv
  <2> QED BY <2>2, <2>3
<1>5. CASE job.kind = "subscribe" /\ RunSubscribe(job)
  <2>1. HandOver(<<>>, f) /\ UNCHANGED reactions /\ subscribed' = subscribed \cup {f}
    BY <1>1, <1>5 DEF RunSubscribe, HandOver, db
  <2>2. follows[f] = Outside
    BY <1>2, <1>5 DEF JobOK
  <2>3. Maps
    BY <1>5, StutterMaps DEF RunSubscribe, db
  <2> HIDE DEF f, job
  <2> QED BY <1>2, <2>1, <2>2, <2>3, RunSubscribeIInv
<1> QED BY <1>1, <1>3, <1>4, <1>5

----------------------------------------------------------------------------
(* Steps that create a Future.                                             *)

\* Nothing refers to a Future before it exists, so creating one changes nothing
\* for the others.
LEMMA BirthFacts ==
  ASSUME IInv, NEW type \in {"Pending"} \cup Settled, NEW v \in Value \cup {NoValue},
         NEW source \in Future \cup {Nobody}, NewFuture(type, v, source),
         type \in Settled => v \in Value,
         alreadySettled' = IF type = "Pending" THEN alreadySettled ELSE alreadySettled \cup {Fresh},
         resolvable' \in {resolvable, resolvable \cup {Fresh}},
         type \in Settled => resolvable' = resolvable
  PROVE  /\ Fresh \in Future /\ state[Fresh] = "Unborn" /\ Fresh \notin alreadySettled
         /\ Fresh \notin resolvable /\ reactions[Fresh] = <<>> /\ follows[Fresh] = Nobody
         /\ state' = [state EXCEPT ![Fresh] = type]
         /\ \A i \in 1..Len(jobs) : jobs[i].next # Fresh
         /\ \A g \in Future : \A k \in 1..Len(reactions[g]) : reactions[g][k].next # Fresh
         /\ Fresh \notin subscribed
         /\ idCounter' \in 0..MaxFutures
         /\ state' \in [Future -> {"Unborn", "Pending"} \cup Settled]
         /\ value' \in [Future -> Value \cup {NoValue}]
         /\ parent' \in [Future -> Future \cup {Nobody}]
         /\ alreadySettled' \subseteq Future /\ resolvable' \subseteq Future
         /\ \A h \in Future : state'[h] = "Unborn" <=> h > idCounter'
         /\ \A h \in Future : state'[h] = "Unborn" =>
              h \notin alreadySettled' /\ h \notin resolvable' /\ value'[h] = NoValue
         /\ \A h \in Future : state'[h] \in Settled => h \in alreadySettled' /\ value'[h] \in Value
         /\ LockInv' /\ SubscribedInv' /\ FollowersAgree' /\ PromiseAgrees'
         /\ \A h \in Future : Awaiting(h) => Awaiting(h)'
         /\ \A job \in Job : JobOK(job) => JobOK(job)'
         /\ \A g \in Future, r \in Reaction : ReactionOK(g, r) => ReactionOK(g, r)'
<1> USE DEF IInv, TypeOK
<1>1. /\ Fresh \in Future /\ idCounter' = Fresh
      /\ state' = [state EXCEPT ![Fresh] = type]
      /\ value' = [value EXCEPT ![Fresh] = v]
      /\ parent' = [parent EXCEPT ![Fresh] = source]
      /\ UNCHANGED <<promise, subscribed, follows>>
  BY DEF NewFuture
<1>2. /\ idCounter \in Nat /\ Fresh = idCounter + 1 /\ Future = 1..MaxFutures /\ MaxFutures \in Nat
  BY ConstantsAssumption DEF ConstantsAssumption, Fresh, Future
<1>3. /\ state[Fresh] = "Unborn" /\ Fresh \notin alreadySettled /\ Fresh \notin resolvable
      /\ reactions[Fresh] = <<>>
  BY <1>1, <1>2 DEF BirthInv
<1>4. follows[Fresh] = Nobody /\ \A h \in Future : follows[h] # Fresh
  BY <1>1, <1>3 DEF LockInv
<1>5. /\ \A i \in 1..Len(jobs) : jobs[i].next # Fresh
      /\ \A g \in Future : \A k \in 1..Len(reactions[g]) : reactions[g][k].next # Fresh
      /\ Fresh \notin subscribed
  BY <1>3 DEF JobsInv, JobOK, ReactionsInv, ReactionOK, SubscribedInv, Awaiting
<1>6. /\ idCounter' \in 0..MaxFutures
      /\ state' \in [Future -> {"Unborn", "Pending"} \cup Settled]
      /\ value' \in [Future -> Value \cup {NoValue}]
      /\ parent' \in [Future -> Future \cup {Nobody}]
      /\ alreadySettled' \subseteq Future /\ resolvable' \subseteq Future
  BY <1>1, <1>2
<1> DEFINE n == Fresh
<1>7. /\ state'[n] = type /\ value'[n] = v
      /\ \A h \in Future : h # n => state'[h] = state[h] /\ value'[h] = value[h]
      /\ \A h \in Future : h # n => (h \in alreadySettled' <=> h \in alreadySettled)
      /\ \A h \in Future : h # n => (h \in resolvable' <=> h \in resolvable)
      /\ type \in Settled <=> type # "Pending"
      /\ n \in alreadySettled' <=> type \in Settled
      /\ type \in Settled => n \notin resolvable'
  BY <1>1, <1>3 DEF Settled
<1>8. \A h \in Future : state'[h] = "Unborn" <=> h > idCounter'
  <2> SUFFICES ASSUME NEW h \in Future PROVE state'[h] = "Unborn" <=> h > idCounter'
    OBVIOUS
  <2>1. CASE h = n
    BY <1>1, <1>2, <1>7, <2>1 DEF Settled
  <2>2. CASE h # n
    <3>1. state'[h] = state[h] /\ (state[h] = "Unborn" <=> h > idCounter)
      BY <1>7, <2>2 DEF BirthInv
    <3>2. h \in Nat /\ (h > idCounter <=> h > idCounter')
      BY <1>1, <1>2, <2>2
    <3> QED BY <3>1, <3>2
  <2> QED BY <2>1, <2>2
<1>9. \A h \in Future : state'[h] = "Unborn" =>
        h \notin alreadySettled' /\ h \notin resolvable' /\ value'[h] = NoValue
  BY <1>7 DEF BirthInv, Settled
<1>10. \A h \in Future : state'[h] \in Settled => h \in alreadySettled' /\ value'[h] \in Value
  BY <1>7 DEF BirthInv
<1> HIDE DEF n
<1>11. \A h \in Future : h # n => (Awaiting(h)' <=> Awaiting(h))
  BY <1>7 DEF Awaiting
<1>12. \A h \in Future : Awaiting(h) => h # n
  BY <1>3 DEF Awaiting, n
<1>13. LockInv'
  <2> SUFFICES ASSUME NEW h \in Future
               PROVE  /\ follows[h] # Nobody => h \in alreadySettled'
                      /\ state'[h] = "Pending" /\ h \in alreadySettled' => follows[h] # Nobody
                      /\ follows[h] \in Future => follows[h] # h /\ state'[follows[h]] # "Unborn"
    BY <1>1 DEF LockInv
  <2>1. CASE h = n
    BY <1>4, <1>7, <1>2, <2>1 DEF n, Nobody, Settled
  <2>2. CASE h # n
    BY <1>4, <1>7, <2>2 DEF LockInv, n
  <2> QED BY <2>1, <2>2
<1>14. SubscribedInv'
  BY <1>1, <1>11, <1>12 DEF SubscribedInv
<1>15. FollowersAgree'
  <2> SUFFICES ASSUME NEW h \in Future, NEW g \in Future, follows[h] = g, state'[h] \in Settled
               PROVE  state'[g] = state'[h] /\ value'[g] = value'[h]
    BY <1>1 DEF FollowersAgree
  <2>1. h # n /\ g # n
    BY <1>4, BornFacts DEF n
  <2> QED BY <1>7, <2>1 DEF FollowersAgree
<1>16. PromiseAgrees'
  <2> SUFFICES ASSUME NEW h \in Future PROVE promise[h] \in {"none", state'[h]}
    BY <1>1 DEF PromiseAgrees
  <2>1. promise[h] \in {"none", state[h]} /\ promise[h] # "Unborn"
    BY DEF PromiseAgrees, Settled
  <2> QED BY <1>3, <1>7, <2>1 DEF n
<1>17. \A job \in Job : JobOK(job) => JobOK(job)'
  <2> SUFFICES ASSUME NEW job \in Job, JobOK(job) PROVE JobOK(job)'
    OBVIOUS
  <2>1. job.next \in Future /\ job.from \in Future /\ job.next # n /\ job.type \in Settled
    BY <1>12 DEF Job, JobOK
  <2>2. job.kind = "reaction" => job.from # n
    BY <1>3, <2>1 DEF JobOK, n, Settled
  <2> QED BY <1>1, <1>7, <1>11, <2>1, <2>2 DEF JobOK
<1>18. \A g \in Future, r \in Reaction : ReactionOK(g, r) => ReactionOK(g, r)'
  <2> SUFFICES ASSUME NEW g \in Future, NEW r \in Reaction, ReactionOK(g, r)
               PROVE  ReactionOK(g, r)'
    OBVIOUS
  <2>1. r.next \in Future /\ r.next # n
    BY <1>12 DEF Reaction, ReactionOK
  <2> QED BY <1>1, <1>7, <1>11, <2>1 DEF ReactionOK
<1>19. \A h \in Future : Awaiting(h) => Awaiting(h)'
  BY <1>11, <1>12
<1> QED BY <1>1, <1>3, <1>4, <1>5, <1>6, <1>8, <1>9, <1>10, <1>13, <1>14, <1>15, <1>16, <1>17,
           <1>18, <1>19

\* create, withResolvers, resolve and reject: a Future nobody reacts to yet.
LEMMA CreateIInv == ASSUME IInv, CreateFuture \/ CreateSettled PROVE IInv' /\ Maps
<1>1. PICK type \in {"Pending"} \cup Settled, v \in Value \cup {NoValue} :
        /\ NewFuture(type, v, Nobody)
        /\ type \in Settled => v \in Value
        /\ type = "Pending" => v = NoValue
        /\ alreadySettled' = IF type = "Pending" THEN alreadySettled ELSE alreadySettled \cup {Fresh}
        /\ resolvable' = IF type = "Pending" THEN resolvable \cup {Fresh} ELSE resolvable
  BY DEF CreateFuture, CreateSettled, Value, Settled
<1>2. UNCHANGED <<reactions, jobs, ongoingCalls, onDone, resumed, subscribed, promise, follows>>
  BY DEF CreateFuture, CreateSettled, NewFuture, queue
<1> DEFINE source == Nobody
<1>3. /\ source \in Future \cup {Nobody} /\ NewFuture(type, v, source)
      /\ resolvable' \in {resolvable, resolvable \cup {Fresh}}
      /\ type \in Settled => resolvable' = resolvable
  BY <1>1 DEF Settled
<1> HIDE DEF source
<1>4. /\ Fresh \in Future /\ state[Fresh] = "Unborn" /\ Fresh \notin alreadySettled
      /\ Fresh \notin resolvable /\ reactions[Fresh] = <<>>
      /\ state' = [state EXCEPT ![Fresh] = type]
      /\ idCounter' \in 0..MaxFutures
      /\ state' \in [Future -> {"Unborn", "Pending"} \cup Settled]
      /\ value' \in [Future -> Value \cup {NoValue}]
      /\ parent' \in [Future -> Future \cup {Nobody}]
      /\ alreadySettled' \subseteq Future /\ resolvable' \subseteq Future
      /\ \A h \in Future : state'[h] = "Unborn" <=> h > idCounter'
      /\ \A h \in Future : state'[h] = "Unborn" =>
           h \notin alreadySettled' /\ h \notin resolvable' /\ value'[h] = NoValue
      /\ \A h \in Future : state'[h] \in Settled => h \in alreadySettled' /\ value'[h] \in Value
      /\ LockInv' /\ SubscribedInv' /\ FollowersAgree' /\ PromiseAgrees'
      /\ \A h \in Future : Awaiting(h) => Awaiting(h)'
      /\ \A job \in Job : JobOK(job) => JobOK(job)'
      /\ \A g \in Future, r \in Reaction : ReactionOK(g, r) => ReactionOK(g, r)'
  BY <1>1, <1>3, BirthFacts
<1>5. TypeOK'
  BY <1>2, <1>4 DEF IInv, TypeOK
<1>6. BirthInv'
  <2>1. \A h \in Future : state'[h] # "Pending" => reactions[h] = <<>>
    BY <1>4 DEF IInv, BirthInv, TypeOK
  <2> QED BY <1>2, <1>4, <2>1 DEF BirthInv
<1>7. JobsInv' /\ ReactionsInv'
  BY <1>2, <1>4 DEF IInv, TypeOK, JobsInv, ReactionsInv
<1>8. OnceInv'
  BY <1>2 DEF IInv, OnceInv, QueueOnce, StoredOnce, QueuedNotStored, QueuedNotSubscribed,
              StoredNotSubscribed
<1>9. OwedInv'
  <2> SUFFICES ASSUME NEW h \in Future, state'[h] = "Pending" PROVE Owed(h)'
    BY DEF OwedInv
  <2>1. CASE h = Fresh
    <3>1. type = "Pending"
      BY <1>4, <2>1 DEF IInv, TypeOK
    <3> QED BY <1>1, <1>4, <2>1, <3>1 DEF Owed
  <2>2. CASE h # Fresh
    <3>1. Owed(h)
      BY <1>4, <2>2 DEF IInv, OwedInv, TypeOK
    <3>2. /\ h \in resolvable => h \in resolvable'
          /\ h \notin alreadySettled => h \notin alreadySettled'
      BY <1>1, <2>2
    <3> QED BY <1>2, <3>1, <3>2 DEF Owed
  <2> QED BY <2>1, <2>2
<1>10. CallsCounted' /\ NoForgottenWaiter'
  BY <1>2 DEF IInv, CallsCounted, NoForgottenWaiter
<1>11. Maps
  BY <1>1, <1>3, <1>4, BirthMaps DEF IInv, BirthInv
<1> QED BY <1>4, <1>5, <1>6, <1>7, <1>8, <1>9, <1>10, <1>11 DEF IInv

\* next: the new Future belongs to one reaction, stored or queued.
LEMMA FutureNextIInv ==
  ASSUME IInv, NEW f \in Born, NEW h \in Handlers, FutureNext(f, h)
  PROVE  IInv' /\ Maps
<1>0. PICK n \in Future : n = Fresh
  BY DEF FutureNext, NewFuture
<1>1. /\ f \in Future /\ state[f] # "Unborn" /\ h[1] \in Handler /\ h[2] \in Handler
  BY BornFacts, ConstantsAssumption DEF ConstantsAssumption
<1> DEFINE type == "Pending"
<1>2. /\ NewFuture(type, NoValue, f)
      /\ AddNext(f, h) \/ SettledNext(f, h)
      /\ UNCHANGED <<resolvable, alreadySettled, subscribed, promise, follows>>
  BY DEF FutureNext, NewFuture
<1>3. /\ type \in {"Pending"} \cup Settled /\ (type \in Settled => NoValue \in Value)
      /\ alreadySettled' = IF type = "Pending" THEN alreadySettled ELSE alreadySettled \cup {Fresh}
      /\ resolvable' \in {resolvable, resolvable \cup {Fresh}}
      /\ (type \in Settled => resolvable' = resolvable)
  BY <1>2 DEF Settled
<1>4. NewFuture(type, NoValue, f)
  BY <1>2
<1> HIDE DEF type
<1>5. /\ n \in Future /\ state[n] = "Unborn" /\ n \notin alreadySettled
      /\ n \notin resolvable /\ reactions[n] = <<>> /\ follows[n] = Nobody
      /\ state' = [state EXCEPT ![n] = type]
      /\ \A i \in 1..Len(jobs) : jobs[i].next # n
      /\ \A g \in Future : \A k \in 1..Len(reactions[g]) : reactions[g][k].next # n
      /\ n \notin subscribed
      /\ idCounter' \in 0..MaxFutures
      /\ state' \in [Future -> {"Unborn", "Pending"} \cup Settled]
      /\ value' \in [Future -> Value \cup {NoValue}]
      /\ parent' \in [Future -> Future \cup {Nobody}]
      /\ alreadySettled' \subseteq Future /\ resolvable' \subseteq Future
      /\ \A g \in Future : state'[g] = "Unborn" <=> g > idCounter'
      /\ \A g \in Future : state'[g] = "Unborn" =>
           g \notin alreadySettled' /\ g \notin resolvable' /\ value'[g] = NoValue
      /\ \A g \in Future : state'[g] \in Settled => g \in alreadySettled' /\ value'[g] \in Value
      /\ LockInv' /\ SubscribedInv' /\ FollowersAgree' /\ PromiseAgrees'
      /\ \A g \in Future : Awaiting(g) => Awaiting(g)'
      /\ \A job \in Job : JobOK(job) => JobOK(job)'
      /\ \A g \in Future, r \in Reaction : ReactionOK(g, r) => ReactionOK(g, r)'
  BY <1>0, <1>1, <1>3, <1>4, BirthFacts
<1>6. state'[n] = "Pending" /\ Awaiting(n)' /\ n \notin alreadySettled'
  <2>1. state'[n] = "Pending"
    BY <1>5 DEF type, IInv, TypeOK
  <2>2. n \notin alreadySettled' /\ n \notin resolvable'
    BY <1>2, <1>5
  <2> QED BY <2>1, <2>2 DEF Awaiting
<1>a. Maps
  BY <1>0, <1>1, <1>3, <1>4, <1>5, BirthMaps DEF IInv, BirthInv, type, Settled
<1>7. /\ f # n /\ state'[f] = state[f] /\ value'[f] = value[f]
  BY <1>1, <1>2, <1>5 DEF NewFuture, IInv, TypeOK
<1>8. CASE AddNext(f, h)
  <2>0. PICK r \in Reaction : r = [next |-> n, onFulfilled |-> h[1], onRejected |-> h[2]]
    <3>1. [next |-> n, onFulfilled |-> h[1], onRejected |-> h[2]] \in Reaction
      BY <1>1, <1>5 DEF Reaction
    <3> QED BY <3>1
  <2>1. /\ state[f] = "Pending" /\ UNCHANGED <<jobs, ongoingCalls, onDone, resumed>>
        /\ reactions' = [reactions EXCEPT ![f] = Append(@, r)]
    BY <1>0, <1>8, <2>0 DEF AddNext, queue
  <2>2. /\ r.next = n
        /\ \A g \in Future : \A k \in 1..Len(reactions[g]) : reactions[g][k].next # r.next
    BY <1>5, <2>0
  <2>3. ReactionOK(f, r)'
    BY <1>6, <2>2 DEF ReactionOK
  <2>4. /\ reactions' \in [Future -> Seq(Reaction)]
        /\ \A g \in Future : \A k \in 1..Len(reactions'[g]) :
             \/ k \in 1..Len(reactions[g]) /\ reactions'[g][k] = reactions[g][k]
             \/ g = f /\ k = Len(reactions[f]) + 1 /\ reactions'[g][k] = r
        /\ \A g \in Future : \A k \in 1..Len(reactions[g]) :
             k \in 1..Len(reactions'[g]) /\ reactions'[g][k] = reactions[g][k]
        /\ \E k \in 1..Len(reactions'[f]) : reactions'[f][k] = r
        /\ \A g \in Future : g # f => reactions'[g] = reactions[g]
        /\ StoredOnce'
    BY <1>1, <1>5, <2>1, <2>2, AppendFacts DEF IInv, OnceInv
  <2>5. TypeOK'
    BY <1>2, <1>5, <2>1, <2>4 DEF IInv, TypeOK
  <2>6. BirthInv'
    <3>1. \A g \in Future : state'[g] # "Pending" => reactions'[g] = <<>>
      BY <1>5, <1>6, <1>7, <2>1, <2>4 DEF IInv, BirthInv, TypeOK
    <3> QED BY <1>5, <3>1 DEF BirthInv
  <2>7. JobsInv'
    BY <1>5, <2>1 DEF IInv, TypeOK, JobsInv
  <2>8. ReactionsInv'
    <3> SUFFICES ASSUME NEW g \in Future, NEW k \in 1..Len(reactions'[g])
                 PROVE  ReactionOK(g, reactions[g][k])'
      BY DEF ReactionsInv
    <3>1. CASE k \in 1..Len(reactions[g]) /\ reactions'[g][k] = reactions[g][k]
      <4>1. ReactionOK(g, reactions[g][k]) /\ reactions[g][k] \in Reaction
        BY <3>1 DEF IInv, ReactionsInv, TypeOK
      <4>2. PICK q \in Reaction : q = reactions[g][k]
        BY <4>1
      <4>3. ReactionOK(g, q)'
        BY <1>5, <4>1, <4>2
      <4> QED BY <3>1, <4>2, <4>3 DEF ReactionOK, Awaiting
    <3>2. CASE g = f /\ reactions'[g][k] = r
      BY <2>3, <3>2 DEF ReactionOK, Awaiting
    <3> QED BY <2>4, <3>1, <3>2
  <2>9. OnceInv'
    <3>1. QueueOnce' /\ QueuedNotSubscribed'
      BY <1>2, <2>1 DEF IInv, OnceInv, QueueOnce, QueuedNotSubscribed
    <3>2. QueuedNotStored'
      <4> SUFFICES ASSUME NEW i \in 1..Len(jobs), NEW g \in Future, NEW k \in 1..Len(reactions'[g])
                   PROVE  jobs[i].next # reactions'[g][k].next
        BY <2>1 DEF QueuedNotStored
      <4>1. CASE k \in 1..Len(reactions[g]) /\ reactions'[g][k] = reactions[g][k]
        BY <4>1 DEF IInv, OnceInv, QueuedNotStored
      <4>2. CASE reactions'[g][k] = r
        BY <1>5, <2>2, <4>2
      <4> QED BY <2>4, <4>1, <4>2
    <3>3. StoredNotSubscribed'
      BY <1>2, <1>5, <2>2, <2>4 DEF IInv, OnceInv, StoredNotSubscribed
    <3> QED BY <2>4, <3>1, <3>2, <3>3 DEF OnceInv
  <2>10. OwedInv'
    <3> SUFFICES ASSUME NEW g \in Future, state'[g] = "Pending" PROVE Owed(g)'
      BY DEF OwedInv
    <3>1. CASE g = n
      BY <1>1, <2>2, <2>4, <3>1 DEF Owed
    <3>2. CASE g # n
      <4>1. Owed(g)
        BY <1>5, <3>2 DEF IInv, OwedInv, TypeOK
      <4>2. ASSUME NEW e \in Future, NEW k \in 1..Len(reactions[e]), reactions[e][k].next = g
            PROVE  Owed(g)'
        BY <2>4, <4>2 DEF Owed
      <4>3. ASSUME ~\E e \in Future : \E k \in 1..Len(reactions[e]) : reactions[e][k].next = g
            PROVE  Owed(g)'
        BY <1>2, <2>1, <4>1, <4>3 DEF Owed
      <4> QED BY <4>2, <4>3
    <3> QED BY <3>1, <3>2
  <2>11. CallsCounted' /\ NoForgottenWaiter'
    BY <2>1 DEF IInv, CallsCounted, NoForgottenWaiter
  <2> QED BY <1>5, <1>a, <2>5, <2>6, <2>7, <2>8, <2>9, <2>10, <2>11 DEF IInv
<1>9. CASE SettledNext(f, h)
  <2>0. PICK handler \in Handler :
          handler = IF state[f] = "Fulfilled" THEN h[1] ELSE h[2]
    BY <1>1
  <2>1. /\ state[f] \in Settled /\ UNCHANGED reactions
        /\ Enqueue(<<ReactionJob(n, f, handler, state[f], value[f])>>, FALSE)
    BY <1>0, <1>9, <2>0 DEF SettledNext
  <2>2. ReactionJob(n, f, handler, state[f], value[f]) \in Job
    BY <1>1, <1>5, <2>1, JobTypes DEF IInv, TypeOK
  <2>3. PICK job \in Job : job = ReactionJob(n, f, handler, state[f], value[f])
    BY <2>2
  <2>4. /\ job.next = n /\ job.kind = "reaction" /\ job.from = f
        /\ job.type = state[f] /\ job.arg = value[f]
    BY <2>3 DEF ReactionJob
  <2>5. JobOK(job)'
    BY <1>6, <1>7, <2>4 DEF JobOK
  <2> DEFINE new == <<job>>
  <2>6. /\ new \in Seq(Job) /\ Len(new) = 1 /\ new[1] = job
        /\ Enqueue(new, FALSE)
    <3>1. Enqueue(new, FALSE)
      BY <2>1, <2>3
    <3>2. new \in Seq(Job) /\ Len(new) = 1 /\ new[1] = job
      OBVIOUS
    <3> QED BY <3>1, <3>2
  <2> HIDE DEF new
  <2> DEFINE done == FALSE
  <2>7. done \in BOOLEAN /\ (done => jobs # <<>>) /\ Enqueue(new, done) /\ Ended(done) = 0
    BY <2>6 DEF Ended
  <2> HIDE DEF done
  <2>8. QueueStep(new, done)
    BY <2>6, <2>7, EnqueueQueue DEF IInv, TypeOK
  <2>9. /\ CallsCounted' /\ NoForgottenWaiter'
        /\ ongoingCalls' \in Int /\ onDone' \in BOOLEAN /\ resumed' \in BOOLEAN
    BY <2>6, <2>7, EnqueueCounts DEF IInv, TypeOK
  <2>10. \A i \in 1..Len(jobs') :
           \/ i \in 1..Len(jobs) /\ jobs'[i] = jobs[i]
           \/ i = Len(jobs) + 1 /\ jobs'[i] = job
    <3> TAKE i \in 1..Len(jobs')
    <3>0. Len(jobs) \in Nat /\ i \in Nat
      BY <2>8 DEF IInv, TypeOK, QueueStep
    <3>1. i + Ended(done) = i /\ i - (Len(jobs) - Ended(done)) = i - Len(jobs)
      BY <2>7, <3>0
    <3>2. i - Len(jobs) \in 1..Len(new) => i - Len(jobs) = 1 /\ i = Len(jobs) + 1
      BY <2>6, <3>0
    <3>3. CASE i <= Len(jobs) - Ended(done) /\ jobs'[i] = jobs[i + Ended(done)]
      BY <2>7, <3>0, <3>1, <3>3
    <3>4. CASE i - Len(jobs) \in 1..Len(new) /\ jobs'[i] = new[i - Len(jobs)]
      BY <2>6, <3>2, <3>4
    <3> QED BY <2>8, <3>1, <3>3, <3>4 DEF QueueStep
  <2>11. /\ \A m \in 1..Len(jobs) : m \in 1..Len(jobs') /\ jobs'[m] = jobs[m]
         /\ \E i \in 1..Len(jobs') : jobs'[i] = job
    <3>1. \A m \in 1..Len(jobs) : m > Ended(done) /\ m - Ended(done) = m
      BY <2>7 DEF IInv, TypeOK
    <3>2. \A m \in 1..Len(jobs) : m \in 1..Len(jobs') /\ jobs'[m] = jobs[m]
      BY <2>8, <3>1 DEF QueueStep
    <3>3. \E i \in 1..Len(jobs') : jobs'[i] = new[1]
      <4>1. 1 \in 1..Len(new)
        BY <2>6
      <4> QED BY <4>1, <2>8 DEF QueueStep
    <3> QED BY <2>6, <3>2, <3>3
  <2>12. TypeOK'
    <3>1. jobs' \in Seq(Job)
      BY <2>8 DEF QueueStep
    <3> QED BY <1>2, <1>5, <2>1, <2>9, <3>1 DEF IInv, TypeOK
  <2>13. BirthInv'
    <3>1. \A g \in Future : state'[g] # "Pending" => reactions[g] = <<>>
      BY <1>5 DEF IInv, BirthInv, TypeOK
    <3> QED BY <1>5, <2>1, <3>1 DEF BirthInv
  <2>14. JobsInv'
    <3> SUFFICES ASSUME NEW i \in 1..Len(jobs') PROVE JobOK(jobs[i])'
      BY DEF JobsInv
    <3>1. CASE i \in 1..Len(jobs) /\ jobs'[i] = jobs[i]
      <4>1. JobOK(jobs[i]) /\ jobs[i] \in Job
        BY <3>1 DEF IInv, JobsInv, TypeOK
      <4>2. PICK q \in Job : q = jobs[i]
        BY <4>1
      <4>3. JobOK(q)'
        BY <1>5, <4>1, <4>2
      <4> QED BY <3>1, <4>2, <4>3 DEF JobOK, Awaiting
    <3>2. CASE jobs'[i] = job
      BY <2>5, <3>2 DEF JobOK, Awaiting
    <3> QED BY <2>10, <3>1, <3>2
  <2>15. ReactionsInv'
    BY <1>5, <2>1 DEF IInv, TypeOK, ReactionsInv
  <2>16. OnceInv'
    <3>1. QueueOnce'
      <4> SUFFICES ASSUME NEW i \in 1..Len(jobs'), NEW j \in 1..Len(jobs'),
                          jobs'[i].next = jobs'[j].next
                   PROVE  i = j
        BY DEF QueueOnce
      <4>1. CASE jobs'[i].next = n
        <5>1. \A m \in 1..Len(jobs') : jobs'[m].next = n => m = Len(jobs) + 1
          BY <1>5, <2>10
        <5> QED BY <4>1, <5>1
      <4>2. CASE jobs'[i].next # n
        <5>1. i \in 1..Len(jobs) /\ jobs'[i] = jobs[i] /\ j \in 1..Len(jobs) /\ jobs'[j] = jobs[j]
          BY <2>4, <2>10, <4>2
        <5> QED BY <5>1 DEF IInv, OnceInv, QueueOnce
      <4> QED BY <4>1, <4>2
    <3>2. QueuedNotStored'
      <4> SUFFICES ASSUME NEW i \in 1..Len(jobs'), NEW g \in Future, NEW k \in 1..Len(reactions[g])
                   PROVE  jobs'[i].next # reactions[g][k].next
        BY <2>1 DEF QueuedNotStored
      <4> QED BY <1>5, <2>4, <2>10 DEF IInv, OnceInv, QueuedNotStored
    <3>3. QueuedNotSubscribed'
      <4> SUFFICES ASSUME NEW i \in 1..Len(jobs') PROVE jobs'[i].next \notin subscribed
        BY <1>2 DEF QueuedNotSubscribed
      <4> QED BY <1>5, <2>4, <2>10 DEF IInv, OnceInv, QueuedNotSubscribed
    <3>4. StoredOnce' /\ StoredNotSubscribed'
      BY <1>2, <2>1 DEF IInv, OnceInv, StoredOnce, StoredNotSubscribed
    <3> QED BY <3>1, <3>2, <3>3, <3>4 DEF OnceInv
  <2>17. OwedInv'
    <3> SUFFICES ASSUME NEW g \in Future, state'[g] = "Pending" PROVE Owed(g)'
      BY DEF OwedInv
    <3>1. CASE g = n
      BY <2>4, <2>11, <3>1 DEF Owed
    <3>2. CASE g # n
      <4>1. Owed(g)
        BY <1>5, <3>2 DEF IInv, OwedInv, TypeOK
      <4>2. ASSUME NEW m \in 1..Len(jobs), jobs[m].next = g PROVE Owed(g)'
        BY <2>11, <4>2 DEF Owed
      <4>3. ASSUME ~\E m \in 1..Len(jobs) : jobs[m].next = g PROVE Owed(g)'
        BY <1>2, <2>1, <4>1, <4>3 DEF Owed
      <4> QED BY <4>2, <4>3
    <3> QED BY <3>1, <3>2
  <2> QED BY <1>5, <1>a, <2>9, <2>12, <2>13, <2>14, <2>15, <2>16, <2>17 DEF IInv
<1> QED BY <1>2, <1>8, <1>9

----------------------------------------------------------------------------
(* The theorems.                                                           *)

\* getPromise hands out a promise that already shows the Future's state.
LEMMA GetPromiseIInv == ASSUME IInv, NEW f \in Future, GetPromise(f), f \in Born PROVE IInv' /\ Maps
<1> USE DEF GetPromise, queue
<1>1. promise' \in [Future -> {"none", "Pending"} \cup Settled] /\ PromiseAgrees'
  BY BornFacts DEF IInv, TypeOK, PromiseAgrees
<1>2. TypeOK' /\ BirthInv' /\ LockInv'
  BY <1>1 DEF IInv, TypeOK, BirthInv, LockInv
<1>3. JobsInv' /\ ReactionsInv' /\ SubscribedInv'
  BY DEF IInv, JobsInv, ReactionsInv, SubscribedInv, JobOK, ReactionOK, Awaiting
<1>4. OnceInv' /\ OwedInv'
  BY ClaimsUnchanged DEF IInv
<1>5. CallsCounted' /\ NoForgottenWaiter' /\ FollowersAgree'
  BY DEF IInv, CallsCounted, NoForgottenWaiter, FollowersAgree
<1>6. Maps
  BY StutterMaps
<1> QED BY <1>1, <1>2, <1>3, <1>4, <1>5, <1>6 DEF IInv

\* Waiting and going on touch no Future; whoever waits does so while a microtask is queued.
LEMMA WaitIInv == ASSUME IInv, OnActivitySettled \/ Resume PROVE IInv' /\ Maps
<1>1. UNCHANGED <<idCounter, resolvable, parent, subscribed, db, jobs, ongoingCalls>>
  BY DEF OnActivitySettled, Resume
<1>2. onDone' \in BOOLEAN /\ resumed' \in BOOLEAN /\ NoForgottenWaiter'
  <2>1. CASE OnActivitySettled
    <3>1. ongoingCalls # 0 => jobs # <<>>
      BY DEF IInv, CallsCounted
    <3> QED BY <1>1, <2>1, <3>1 DEF OnActivitySettled, IInv, TypeOK, NoForgottenWaiter
  <2>2. CASE Resume
    BY <1>1, <2>2 DEF Resume, IInv, TypeOK, NoForgottenWaiter
  <2> QED BY <2>1, <2>2
<1> USE DEF db
<1>3. TypeOK' /\ BirthInv' /\ LockInv'
  BY <1>1, <1>2 DEF IInv, TypeOK, BirthInv, LockInv
<1>4. JobsInv' /\ ReactionsInv' /\ SubscribedInv'
  BY <1>1 DEF IInv, JobsInv, ReactionsInv, SubscribedInv, JobOK, ReactionOK, Awaiting
<1>5. OnceInv' /\ OwedInv'
  BY <1>1, ClaimsUnchanged DEF IInv
<1>6. CallsCounted' /\ FollowersAgree' /\ PromiseAgrees'
  BY <1>1 DEF IInv, CallsCounted, FollowersAgree, PromiseAgrees
<1>7. Maps
  BY <1>1, StutterMaps
<1> QED BY <1>2, <1>3, <1>4, <1>5, <1>6, <1>7 DEF IInv

\* The invariant is inductive, and every step is one of FutureLifecycle.
LEMMA NextIInv == ASSUME IInv, [Next]_vars PROVE IInv' /\ Maps
<1>1. CASE CreateFuture \/ CreateSettled
  BY <1>1, CreateIInv
<1>2. ASSUME NEW f \in Born, NEW h \in Handlers, FutureNext(f, h) PROVE IInv' /\ Maps
  BY <1>2, FutureNextIInv
<1>3. ASSUME NEW f \in resolvable, ResolveFutureById(f) PROVE IInv' /\ Maps
  BY <1>3, ResolveByIdIInv
<1>4. ASSUME NEW f \in resolvable, RejectFutureById(f) PROVE IInv' /\ Maps
  BY <1>4, RejectByIdIInv
<1>5. ASSUME NEW f \in Born \cap Observed, GetPromise(f) PROVE IInv' /\ Maps
  BY <1>5, BornFacts, GetPromiseIInv
<1>6. CASE OnActivitySettled \/ Resume
  BY <1>6, WaitIInv
<1>7. ASSUME NEW f \in subscribed, PromiseCallback(f) PROVE IInv' /\ Maps
  BY <1>7, PromiseCallbackIInv
<1>8. CASE RunMicrotask
  BY <1>8, RunMicrotaskIInv
<1>9. CASE UNCHANGED vars
  BY <1>9, StutterIInv, StutterMaps DEF vars, db
<1> QED BY <1>1, <1>2, <1>3, <1>4, <1>5, <1>6, <1>7, <1>8, <1>9 DEF Next

\* What the proofs rest on holds in every state the machine can reach.
THEOREM Invariance == Spec => []IInv
<1>1. Init => IInv
  BY InitIInv
<1>2. IInv /\ [Next]_vars => IInv'
  BY NextIInv
<1> QED BY <1>1, <1>2, PTL DEF Spec

\* Every variable keeps its type.
THEOREM TypeCorrect == Spec => []TypeOK
<1>1. IInv => TypeOK
  BY DEF IInv
<1> QED BY <1>1, Invariance, PTL

\* No two parties race to settle the same Future.
THEOREM SettlersExclusive == Spec => []NoTwoSettlers
<1>1. ASSUME IInv PROVE NoTwoSettlers
  <2> USE <1>1 DEF IInv
  <2>1. DOMAIN jobs = 1..Len(jobs) /\ \A f \in Future : DOMAIN reactions[f] = 1..Len(reactions[f])
    BY DEF TypeOK
  <2>2. \A i, j \in DOMAIN jobs : jobs[i].next = jobs[j].next => i = j
    BY <2>1 DEF OnceInv, QueueOnce
  <2>3. \A f, g \in Future : \A i \in DOMAIN reactions[f], j \in DOMAIN reactions[g] :
          reactions[f][i].next = reactions[g][j].next => f = g /\ i = j
    BY <2>1 DEF OnceInv, StoredOnce
  <2>4. \A f \in QueuedNext : Awaiting(f) /\ f \notin subscribed
    BY <2>1 DEF QueuedNext, OnceInv, QueuedNotSubscribed, JobsInv, JobOK
  <2>5. \A f \in StoredNext : Awaiting(f) /\ f \notin subscribed
    BY <2>1 DEF StoredNext, OnceInv, StoredNotSubscribed, ReactionsInv, ReactionOK
  <2>6. QueuedNext \cap StoredNext = {}
    BY <2>1 DEF QueuedNext, StoredNext, OnceInv, QueuedNotStored
  <2>7. \A f \in UserOwned : ~Awaiting(f)
    BY DEF UserOwned, Awaiting
  <2>8. subscribed \cap UserOwned = {}
    BY <2>7 DEF SubscribedInv
  <2> QED BY <2>2, <2>3, <2>4, <2>5, <2>6, <2>7, <2>8 DEF NoTwoSettlers
<1> QED BY <1>1, Invariance, PTL

\* A Future is Pending exactly as long as somebody owes it an outcome.
THEOREM NothingForgotten == Spec => []PendingIffOwed
<1>1. ASSUME IInv PROVE PendingIffOwed
  <2> USE <1>1 DEF IInv
  <2>0. DOMAIN jobs = 1..Len(jobs) /\ \A f \in Future : DOMAIN reactions[f] = 1..Len(reactions[f])
    BY DEF TypeOK
  <2> SUFFICES ASSUME NEW f \in Future
               PROVE  state[f] = "Pending" <=>
                        f \in QueuedNext \cup StoredNext \cup subscribed \cup UserOwned
    BY DEF PendingIffOwed
  <2>1. f \in QueuedNext <=> \E i \in 1..Len(jobs) : jobs[i].next = f
    BY <2>0 DEF QueuedNext
  <2>2. f \in StoredNext <=>
          \E g \in Future : \E k \in 1..Len(reactions[g]) : reactions[g][k].next = f
    BY <2>0 DEF StoredNext
  <2>3. state[f] = "Pending" => f \in QueuedNext \cup StoredNext \cup subscribed \cup UserOwned
    BY <2>1, <2>2 DEF OwedInv, Owed, UserOwned
  <2>4. f \in QueuedNext \cup StoredNext \cup subscribed => state[f] = "Pending"
    BY <2>1, <2>2 DEF JobsInv, JobOK, ReactionsInv, ReactionOK, SubscribedInv, Awaiting
  <2>5. f \in UserOwned => state[f] = "Pending"
    BY DEF UserOwned, BirthInv, TypeOK
  <2> QED BY <2>3, <2>4, <2>5
<1> QED BY <1>1, Invariance, PTL

\* The counter behind onActivitySettled is exact: ongoingCalls counts the queued microtasks.
THEOREM CallsAreCounted == Spec => []CallsCounted
<1>1. IInv => CallsCounted
  BY DEF IInv
<1> QED BY <1>1, Invariance, PTL

\* The promise of onActivitySettled is resolved when the last counted microtask returns
\* and never left behind.
THEOREM WaitersAreResumed == Spec => []NoForgottenWaiter
<1>1. IInv => NoForgottenWaiter
  BY DEF IInv
<1> QED BY <1>1, Invariance, PTL

\* A Future that was resolved with another one takes over its outcome, unchanged.
THEOREM Followers == Spec => []FollowersAgree
<1>1. IInv => FollowersAgree
  BY DEF IInv
<1> QED BY <1>1, Invariance, PTL

\* Promises handed out by getPromise show their Future's state.
THEOREM Promises == Spec => []PromiseAgrees
<1>1. IInv => PromiseAgrees
  BY DEF IInv
<1> QED BY <1>1, Invariance, PTL

\* The engine implements the safety part of the abstract lifecycle.
THEOREM RefinesLifecycle == Spec => Lifecycle!Safety
<1>1. Init => Lifecycle!Init
  BY DEF Init, Lifecycle!Init, status
<1>2. IInv /\ [Next]_vars => [Lifecycle!Next]_(Lifecycle!vars)
  BY NextIInv DEF Maps
<1> QED BY <1>1, <1>2, Invariance, PTL DEF Spec, Lifecycle!Safety

\* Settling is for good: no later resolution, rejection, reaction or callback changes
\* a Future's state or value.
THEOREM SettlementIsFinal == Spec => SettledForGood
<1> DEFINE Keep == \A f \in Future : state[f] \in Settled =>
                     state'[f] = state[f] /\ value'[f] = value[f] /\ f \in alreadySettled'
<1>1. ASSUME IInv, IInv', [Next]_vars PROVE [Keep]_vars
  <2> SUFFICES ASSUME NEW f \in Future, state[f] \in Settled
               PROVE  state'[f] = state[f] /\ value'[f] = value[f] /\ f \in alreadySettled'
    BY DEF Keep
  <2>1. status[f] = state[f] /\ status[f] \notin {"unborn", "open", "locked"}
    BY DEF status, Settled
  <2>2. [Lifecycle!Next]_(Lifecycle!vars)
    BY <1>1, NextIInv DEF Maps
  <2>3. status'[f] = status[f] /\ value'[f] = value[f]
    <3>1. CASE UNCHANGED Lifecycle!vars
      BY <3>1 DEF Lifecycle!vars
    <3>2. ASSUME NEW g \in Future, Lifecycle!Create(g) PROVE status'[f] = status[f] /\ value'[f] = value[f]
      BY <2>1, <3>2 DEF Lifecycle!Create
    <3>3. ASSUME NEW g \in Future, Lifecycle!Settle(g) PROVE status'[f] = status[f] /\ value'[f] = value[f]
      <4>1. g # f
        BY <2>1, <3>3 DEF Lifecycle!Settle
      <4> QED BY <1>1, <3>3, <4>1 DEF Lifecycle!Settle, Lifecycle!Become, IInv, TypeOK
    <3>4. ASSUME NEW g \in Future, NEW source, Lifecycle!LockTo(g, source)
          PROVE  status'[f] = status[f] /\ value'[f] = value[f]
      BY <2>1, <3>4 DEF Lifecycle!LockTo
    <3>5. ASSUME NEW g \in Future, Lifecycle!SettleFollower(g)
          PROVE  status'[f] = status[f] /\ value'[f] = value[f]
      <4>1. g # f
        BY <2>1, <3>5 DEF Lifecycle!SettleFollower
      <4> QED BY <1>1, <3>5, <4>1 DEF Lifecycle!SettleFollower, Lifecycle!Become, IInv, TypeOK
    <3> QED BY <2>2, <3>1, <3>2, <3>3, <3>4, <3>5 DEF Lifecycle!Next
  <2>4. status'[f] = state[f] => state'[f] = state[f]
    BY DEF status, Settled
  <2>5. state'[f] = state[f]
    BY <2>1, <2>3, <2>4
  <2>6. f \in alreadySettled'
    BY <1>1, <2>5 DEF IInv, BirthInv, Settled
  <2> QED BY <2>3, <2>5, <2>6
<1> QED BY <1>1, Invariance, PTL DEF Spec, SettledForGood
----------------------------------------------------------------------------
(* The reactions of one Future run in the order in which next() added      *)
(* them: also when some were added before the Future settled and some      *)
(* after, and whatever is settled, adopted or awaited meanwhile.  A Future *)
(* that is locked may wait in a list or in the queue again, for what it    *)
(* follows; only those that are not locked are there for the next() that   *)
(* created them.                                                           *)

\* A stored reaction is for a child of the Future it is stored with, and the
\* younger children come later.
StoredOrder ==
  \A g \in Future : \A k \in 1..Len(reactions[g]) :
    reactions[g][k].next \notin alreadySettled =>
      /\ parent[reactions[g][k].next] = g
      /\ \A i \in 1..Len(reactions[g]) :
           i < k /\ reactions[g][i].next \notin alreadySettled
             => reactions[g][i].next < reactions[g][k].next

\* A queued reaction is for a child of the Future it reacts to, and of the children
\* of one Future the younger ones come later.
QueuedOrder ==
  \A k \in 1..Len(jobs) :
    jobs[k].next \notin alreadySettled =>
      /\ jobs[k].kind = "reaction"
      /\ parent[jobs[k].next] = jobs[k].from
      /\ \A i \in 1..Len(jobs) :
           i < k /\ jobs[i].next \notin alreadySettled /\ jobs[i].from = jobs[k].from
             => jobs[i].next < jobs[k].next

\* User code never holds the resolvers of what next() returned.
ParentInv == \A n \in Future : parent[n] # Nobody => state[n] # "Unborn" /\ n \notin resolvable

OrderInv == ParentInv /\ StoredOrder /\ QueuedOrder /\ ReactionsInOrder

----------------------------------------------------------------------------
(* What becomes of the order in the queue and of who was settled.          *)

\* New microtasks come last, so they have to be for younger children.
LEMMA QueuedOrderKept ==
  ASSUME IInv, QueuedOrder, NEW new \in Seq(Job), NEW done \in BOOLEAN, QueueStep(new, done),
         alreadySettled \subseteq alreadySettled',
         \A n \in Future : state[n] # "Unborn" => parent'[n] = parent[n],
         \A k \in 1..Len(new) : new[k].next \notin alreadySettled' =>
           /\ new[k].kind = "reaction"
           /\ parent'[new[k].next] = new[k].from
           /\ \A i \in 1..Len(jobs) :
                jobs[i].next \notin alreadySettled' /\ jobs[i].from = new[k].from
                  => jobs[i].next < new[k].next
           /\ \A i \in 1..Len(new) :
                i < k /\ new[i].next \notin alreadySettled' => new[i].next < new[k].next
  PROVE  QueuedOrder'
<1>1. /\ jobs \in Seq(Job) /\ Len(jobs) \in Nat /\ Len(new) \in Nat /\ Ended(done) \in {0, 1}
      /\ Len(jobs') \in Nat
  BY DEF IInv, TypeOK, Ended, QueueStep
<1>2. \A i \in 1..Len(jobs) : jobs[i].next \in Future /\ parent'[jobs[i].next] = parent[jobs[i].next]
  <2> TAKE i \in 1..Len(jobs)
  <2>1. jobs[i] \in Job /\ JobOK(jobs[i])
    BY <1>1 DEF IInv, JobsInv
  <2>2. jobs[i].next \in Future /\ state[jobs[i].next] = "Pending"
    BY <2>1 DEF Job, JobOK, Awaiting
  <2> QED BY <2>2
<1> DEFINE old(i) == i <= Len(jobs) - Ended(done)
<1>3. ASSUME NEW i \in 1..Len(jobs')
      PROVE  \/ old(i) /\ i + Ended(done) \in 1..Len(jobs) /\ jobs'[i] = jobs[i + Ended(done)]
             \/ /\ ~old(i) /\ i - (Len(jobs) - Ended(done)) \in 1..Len(new)
                /\ jobs'[i] = new[i - (Len(jobs) - Ended(done))]
  BY <1>1 DEF QueueStep
<1> SUFFICES ASSUME NEW k \in 1..Len(jobs'), jobs'[k].next \notin alreadySettled'
             PROVE  /\ jobs'[k].kind = "reaction"
                    /\ parent'[jobs'[k].next] = jobs'[k].from
                    /\ \A i \in 1..Len(jobs') :
                         i < k /\ jobs'[i].next \notin alreadySettled' /\ jobs'[i].from = jobs'[k].from
                           => jobs'[i].next < jobs'[k].next
  BY DEF QueuedOrder
<1>4. CASE old(k)
  <2> DEFINE p == k + Ended(done)
  <2>1. p \in 1..Len(jobs) /\ jobs'[k] = jobs[p]
    BY <1>3, <1>4
  <2>2. /\ jobs[p].kind = "reaction" /\ parent[jobs[p].next] = jobs[p].from
        /\ \A i \in 1..Len(jobs) :
             i < p /\ jobs[i].next \notin alreadySettled /\ jobs[i].from = jobs[p].from
               => jobs[i].next < jobs[p].next
    BY <2>1 DEF QueuedOrder
  <2>3. ASSUME NEW i \in 1..Len(jobs'), i < k, jobs'[i].next \notin alreadySettled',
               jobs'[i].from = jobs'[k].from
        PROVE  jobs'[i].next < jobs'[k].next
    <3>1. old(i) /\ i + Ended(done) < p
      BY <1>1, <1>4, <2>3
    <3>2. i + Ended(done) \in 1..Len(jobs) /\ jobs'[i] = jobs[i + Ended(done)]
      BY <1>3, <3>1
    <3> HIDE DEF p
    <3> QED BY <2>1, <2>2, <2>3, <3>1, <3>2
  <2> HIDE DEF p
  <2> QED BY <1>2, <2>1, <2>2, <2>3
<1>5. CASE ~old(k)
  <2> DEFINE p == k - (Len(jobs) - Ended(done))
  <2>1. p \in 1..Len(new) /\ jobs'[k] = new[p]
    BY <1>3, <1>5
  <2>2. ASSUME NEW i \in 1..Len(jobs'), i < k, jobs'[i].next \notin alreadySettled',
               jobs'[i].from = jobs'[k].from
        PROVE  jobs'[i].next < jobs'[k].next
    <3>1. CASE old(i)
      <4>1. i + Ended(done) \in 1..Len(jobs) /\ jobs'[i] = jobs[i + Ended(done)]
        BY <1>3, <3>1
      <4> HIDE DEF p
      <4> QED BY <2>1, <2>2, <4>1
    <3>2. CASE ~old(i)
      <4> DEFINE q == i - (Len(jobs) - Ended(done))
      <4>1. q \in 1..Len(new) /\ jobs'[i] = new[q]
        BY <1>3, <3>2
      <4>2. q < p
        BY <1>1, <2>2
      <4> HIDE DEF p, q
      <4> QED BY <2>1, <2>2, <4>1, <4>2
    <3> QED BY <3>1, <3>2
  <2> HIDE DEF p
  <2> QED BY <2>1, <2>2
<1> QED BY <1>4, <1>5

\* A Future that its settler settles or locks is the oldest child that was waiting.
LEMMA OldestFirst ==
  ASSUME IInv, OrderInv, NEW f \in Future, NEW done \in BOOLEAN, SettlerActs(f, done),
         alreadySettled' = alreadySettled \cup {f}
  PROVE  ReactionsInOrder'
<1> SUFFICES ASSUME NEW m \in Future, NEW n \in Future, m < n, parent[m] = parent[n],
                    parent[m] # Nobody, n = f, f \notin alreadySettled,
                    m \notin alreadySettled
             PROVE  FALSE
  BY DEF ReactionsInOrder, OrderInv, SettlerActs
<1> DEFINE g == parent[f]
<1>1. f \notin resolvable /\ m \notin resolvable /\ state[m] # "Unborn"
  BY DEF OrderInv, ParentInv
<1>2. \A h \in subscribed : h \in alreadySettled
  BY BornFacts DEF IInv, SubscribedInv, LockInv, TypeOK
<1>3. done /\ jobs # <<>> /\ Head(jobs).next = f
  BY <1>1, <1>2 DEF SettlerActs
<1>4. jobs[1].next = f /\ 1 \in 1..Len(jobs) /\ JobOK(jobs[1]) /\ jobs[1] \in Job
  BY <1>3, HeadFacts
<1>5. jobs[1].kind = "reaction" /\ jobs[1].from = g
  BY <1>4 DEF OrderInv, QueuedOrder
<1>6. g \in Future /\ state[g] \in Settled
  BY <1>4, <1>5 DEF JobOK, Job
<1>7. state[m] = "Pending"
  BY <1>1 DEF IInv, BirthInv, TypeOK
<1>8. Owed(m)
  BY <1>7 DEF IInv, OwedInv
<1>9. ASSUME NEW i \in 1..Len(jobs), jobs[i].next = m PROVE FALSE
  <2>1. i # 1 /\ 1 < i
    <3>1. m # f
      BY DEF Future
    <3> QED BY <1>4, <1>9, <3>1
  <2>2. jobs[i].from = g
    BY <1>9 DEF OrderInv, QueuedOrder
  <2>3. jobs[1].next < jobs[i].next
    BY <1>4, <1>5, <1>9, <2>1, <2>2 DEF OrderInv, QueuedOrder
  <2> QED BY <1>4, <1>9, <2>3 DEF Future
<1>10. ASSUME NEW h \in Future, NEW k \in 1..Len(reactions[h]), reactions[h][k].next = m PROVE FALSE
  <2>1. h = g
    BY <1>10 DEF OrderInv, StoredOrder
  <2>2. reactions[g] = <<>>
    BY <1>6 DEF IInv, BirthInv, Settled
  <2> QED BY <1>10, <2>1, <2>2
<1> QED BY <1>1, <1>2, <1>8, <1>9, <1>10 DEF Owed

----------------------------------------------------------------------------
(* Steps that settle or lock one Future.                                   *)

\* Settling queues the children in the order in which they were stored.
LEMMA TriggerOrder ==
  ASSUME IInv, OrderInv, NEW f \in Future, NEW type \in Settled, NEW v \in Value,
         NEW done \in BOOLEAN, SettlerActs(f, done), Trigger(f, type, v, done)
  PROVE  OrderInv'
<1> DEFINE new == TriggeredJobs(f, type, v)
<1>1. /\ new \in Seq(Job) /\ Len(new) = Len(reactions[f])
      /\ \A k \in 1..Len(reactions[f]) :
           new[k].kind = "reaction" /\ new[k].next = reactions[f][k].next /\ new[k].from = f
  BY TriggeredJobsFacts DEF IInv
<1>2. Enqueue(new, done) /\ (done => jobs # <<>>)
  BY DEF Trigger, SettlerActs
<1> HIDE DEF new
<1>3. QueueStep(new, done)
  BY <1>1, <1>2, EnqueueQueue DEF IInv, TypeOK
<1>4. /\ alreadySettled' = alreadySettled \cup {f} /\ UNCHANGED <<resolvable, parent>>
      /\ state' = [state EXCEPT ![f] = type] /\ state \in [Future -> {"Unborn", "Pending"} \cup Settled]
      /\ reactions' = [reactions EXCEPT ![f] = <<>>] /\ reactions \in [Future -> Seq(Reaction)]
      /\ state[f] = "Pending"
  BY DEF Trigger, SettlerActs, IInv, TypeOK
<1>5. ReactionsInOrder'
  BY <1>4, OldestFirst
<1>6. ParentInv'
  <2>1. \A n \in Future : state[n] # "Unborn" => state'[n] # "Unborn"
    BY <1>4 DEF Settled
  <2> QED BY <1>4, <2>1 DEF OrderInv, ParentInv
<1>7. StoredOrder'
  <2>1. reactions'[f] = <<>> /\ \A g \in Future : g # f => reactions'[g] = reactions[g]
    BY <1>4
  <2>2. \A g \in Future : \A k \in 1..Len(reactions'[g]) : g # f
    BY <2>1
  <2> QED BY <1>4, <2>1, <2>2 DEF OrderInv, StoredOrder
<1>8. QueuedOrder'
  <2> SUFFICES ASSUME NEW k \in 1..Len(new), new[k].next \notin alreadySettled'
               PROVE  /\ new[k].kind = "reaction"
                      /\ parent'[new[k].next] = new[k].from
                      /\ \A i \in 1..Len(jobs) :
                           jobs[i].next \notin alreadySettled' /\ jobs[i].from = new[k].from
                             => jobs[i].next < new[k].next
                      /\ \A i \in 1..Len(new) :
                           i < k /\ new[i].next \notin alreadySettled' => new[i].next < new[k].next
    BY <1>1, <1>3, <1>4, QueuedOrderKept DEF OrderInv
  <2>1. new[k].kind = "reaction" /\ new[k].from = f /\ new[k].next = reactions[f][k].next
    BY <1>1
  <2>2. parent[reactions[f][k].next] = f
    BY <1>1, <1>4, <2>1 DEF OrderInv, StoredOrder
  <2>3. ASSUME NEW i \in 1..Len(jobs), jobs[i].next \notin alreadySettled', jobs[i].from = f
        PROVE  FALSE
    <3>1. jobs[i] \in Job /\ JobOK(jobs[i]) /\ jobs[i].kind = "reaction"
      <4>1. jobs[i].next \notin alreadySettled
        BY <1>4, <2>3
      <4>2. jobs[i] \in Job /\ JobOK(jobs[i])
        BY DEF IInv, TypeOK, JobsInv
      <4> QED BY <4>1, <4>2 DEF OrderInv, QueuedOrder
    <3> QED BY <1>4, <2>3, <3>1 DEF JobOK, Job, Settled
  <2>4. ASSUME NEW i \in 1..Len(new), i < k, new[i].next \notin alreadySettled'
        PROVE  new[i].next < new[k].next
    BY <1>1, <1>4, <2>1, <2>4 DEF OrderInv, StoredOrder
  <2> QED BY <1>4, <2>1, <2>2, <2>3, <2>4
<1> QED BY <1>5, <1>6, <1>7, <1>8 DEF OrderInv

\* What a Future is locked to queues it again, but no longer for its parent.
LEMMA LockOrder ==
  ASSUME IInv, OrderInv, NEW f \in Future, NEW source \in Future \cup {Outside},
         NEW done \in BOOLEAN, SettlerActs(f, done),
         Lock(f, source, IF source = Outside THEN SubscribeJob(f) ELSE AdoptJob(f, source), done)
  PROVE  OrderInv'
<1> DEFINE job == IF source = Outside THEN SubscribeJob(f) ELSE AdoptJob(f, source)
<1>1. job \in Job /\ job.next = f
  <2>1. NoValue \in Value \cup {NoValue} /\ "none" \in Handler /\ "Fulfilled" \in Settled
    BY DEF Handler, Settled
  <2>2. SubscribeJob(f) \in Job /\ (source \in Future => AdoptJob(f, source) \in Job)
    BY <2>1, JobTypes
  <2> QED BY <2>2 DEF SubscribeJob, AdoptJob
<1>2. Enqueue(<<job>>, done) /\ (done => jobs # <<>>)
  BY DEF Lock, SettlerActs
<1> HIDE DEF job
<1> DEFINE new == <<job>>
<1>3. new \in Seq(Job) /\ \A k \in 1..Len(new) : new[k].next = f
  BY <1>1
<1>4. Enqueue(new, done)
  BY <1>2
<1> HIDE DEF new
<1>5. QueueStep(new, done)
  BY <1>2, <1>3, <1>4, EnqueueQueue DEF IInv, TypeOK
<1>6. alreadySettled' = alreadySettled \cup {f} /\ UNCHANGED <<resolvable, parent, state, reactions>>
  BY DEF Lock, SettlerActs
<1>7. ReactionsInOrder'
  BY <1>6, OldestFirst
<1>8. ParentInv' /\ StoredOrder'
  BY <1>6 DEF OrderInv, ParentInv, StoredOrder
<1>9. QueuedOrder'
  BY <1>3, <1>5, <1>6, QueuedOrderKept DEF OrderInv
<1> QED BY <1>7, <1>8, <1>9 DEF OrderInv

\* Resolution by whatever may be handed over keeps the order.
LEMMA ResolveOrder ==
  ASSUME IInv, OrderInv, NEW f \in Future, NEW sources \in SUBSET (Future \cup {Outside}),
         NEW done \in BOOLEAN, SettlerActs(f, done),
         ResolveFutureByDBNoSettledCheck(f, sources, done)
  PROVE  OrderInv'
<1>1. ASSUME NEW v \in Value, NEW type \in Settled, Trigger(f, type, v, done) PROVE OrderInv'
  BY <1>1, TriggerOrder
<1>2. ASSUME NEW source \in sources, ResolveWith(f, source, done) PROVE OrderInv'
  <2>1. CASE source = f
    BY <1>1, <1>2, <2>1 DEF ResolveWith, Value, Settled
  <2>2. CASE source # f
    <3>1. Lock(f, source, IF source = Outside THEN SubscribeJob(f) ELSE AdoptJob(f, source), done)
      BY <1>2, <2>2 DEF ResolveWith
    <3> QED BY <3>1, LockOrder
  <2> QED BY <2>1, <2>2
<1>3. Payload \subseteq Value
  BY DEF Value
<1> QED BY <1>1, <1>2, <1>3 DEF ResolveFutureByDBNoSettledCheck

----------------------------------------------------------------------------
(* Steps that hand a locked Future on.                                     *)

\* Following and awaiting are for Futures that are locked, which have no turn.
LEMMA HandOverOrder ==
  ASSUME IInv, OrderInv, NEW f \in alreadySettled, NEW new \in Seq(Job), HandOver(new, f),
         \A k \in 1..Len(new) : new[k].next = f,
         \/ UNCHANGED reactions
         \/ \E g \in Future, r \in Reaction :
              r.next = f /\ reactions' = [reactions EXCEPT ![g] = Append(@, r)]
  PROVE  OrderInv'
<1>1. UNCHANGED <<resolvable, parent, state, alreadySettled>> /\ Enqueue(new, TRUE) /\ jobs # <<>>
  BY DEF HandOver
<1>2. QueueStep(new, TRUE)
  BY <1>1, EnqueueQueue DEF IInv, TypeOK
<1>3. QueuedOrder'
  BY <1>1, <1>2, QueuedOrderKept DEF OrderInv
<1>4. ParentInv' /\ ReactionsInOrder'
  BY <1>1 DEF OrderInv, ParentInv, ReactionsInOrder
<1>5. StoredOrder'
  <2>1. CASE UNCHANGED reactions
    BY <1>1, <2>1 DEF OrderInv, StoredOrder
  <2>2. ASSUME NEW g \in Future, NEW r \in Reaction, r.next = f,
               reactions' = [reactions EXCEPT ![g] = Append(@, r)]
        PROVE  StoredOrder'
    <3>1. \A h \in Future : \A k \in 1..Len(reactions'[h]) :
            \/ k \in 1..Len(reactions[h]) /\ reactions'[h][k] = reactions[h][k]
            \/ reactions'[h][k].next = f
      BY <2>2 DEF IInv, TypeOK
    <3> QED BY <1>1, <3>1 DEF OrderInv, StoredOrder
  <2> QED BY <2>1, <2>2
<1> QED BY <1>3, <1>4, <1>5 DEF OrderInv

\* A microtask of any kind keeps the order.
LEMMA RunMicrotaskOrder == ASSUME IInv, OrderInv, RunMicrotask PROVE OrderInv'
<1> DEFINE job == Head(jobs)
<1> DEFINE f == job.next
<1>1. /\ jobs # <<>> /\ UNCHANGED <<idCounter, resolvable, parent>>
      /\ \/ job.kind = "reaction" /\ RunReaction(job)
         \/ job.kind = "adopt" /\ RunAdopt(job)
         \/ job.kind = "subscribe" /\ RunSubscribe(job)
  BY DEF RunMicrotask
<1>2. /\ job \in Job /\ f \in Future /\ job.from \in Future /\ JobOK(job) /\ Awaiting(f)
      /\ f \notin subscribed /\ job.type \in Settled /\ job.handler \in Handler
  BY <1>1, HeadFacts DEF JobOK, Job
<1>3. CASE job.kind = "reaction" /\ RunReaction(job)
  <2>1. SettlerActs(f, TRUE)
    BY <1>1, <1>2, <1>3 DEF SettlerActs, JobOK, Awaiting, RunReaction
  <2>2. \/ Trigger(f, job.type, job.arg, TRUE)
        \/ Trigger(f, "Rejected", NotFound, TRUE)
        \/ ResolveFutureByDBNoSettledCheck(f, Sources, TRUE)
    BY <1>3 DEF RunReaction
  <2>3. /\ job.arg \in Value /\ NotFound \in Value /\ "Rejected" \in Settled
        /\ Sources \in SUBSET (Future \cup {Outside})
    BY <1>2, <1>3, BornFacts DEF JobOK, IInv, BirthInv, Value, Settled
  <2> HIDE DEF f, job
  <2> QED BY <1>2, <2>1, <2>2, <2>3, TriggerOrder, ResolveOrder
<1>4. CASE job.kind = "adopt" /\ RunAdopt(job)
  <2>1. /\ f \in alreadySettled /\ follows[f] = job.from /\ state[job.from] # "Unborn"
        /\ UNCHANGED <<subscribed, state, value, alreadySettled, promise, follows>>
    BY <1>2, <1>4, BornFacts DEF JobOK, IInv, LockInv, RunAdopt
  <2>2. CASE state[job.from] = "Pending"
    <3> DEFINE r == [next |-> f, onFulfilled |-> "none", onRejected |-> "none"]
    <3> DEFINE new == <<>>
    <3>1. reactions' = [reactions EXCEPT ![job.from] = Append(@, r)] /\ HandOver(new, f)
      BY <1>1, <1>4, <2>1, <2>2 DEF RunAdopt, HandOver
    <3>2. r \in Reaction /\ r.next = f /\ new \in Seq(Job) /\ \A k \in 1..Len(new) : new[k].next = f
      BY <1>2 DEF Reaction, Handler
    <3> HIDE DEF r, f, job, new
    <3> QED BY <1>2, <2>1, <3>1, <3>2, HandOverOrder
  <2>3. CASE state[job.from] # "Pending"
    <3> DEFINE one == ReactionJob(f, job.from, "none", state[job.from], value[job.from])
    <3>1. UNCHANGED reactions /\ HandOver(<<one>>, f)
      BY <1>1, <1>4, <2>1, <2>3 DEF RunAdopt, HandOver
    <3>2. state[job.from] \in Settled /\ value[job.from] \in Value
      BY <1>2, <2>1, <2>3 DEF IInv, TypeOK, BirthInv
    <3>3. one \in Job /\ one.next = f
      BY <1>2, <3>2, JobTypes DEF Handler, ReactionJob
    <3> HIDE DEF one
    <3> DEFINE new == <<one>>
    <3>4. new \in Seq(Job) /\ HandOver(new, f) /\ \A k \in 1..Len(new) : new[k].next = f
      BY <3>1, <3>3
    <3> HIDE DEF f, job, new
    <3> QED BY <2>1, <3>1, <3>4, HandOverOrder
  <2> QED BY <2>2, <2>3
<1>5. CASE job.kind = "subscribe" /\ RunSubscribe(job)
  <2> DEFINE new == <<>>
  <2>1. HandOver(new, f) /\ UNCHANGED reactions
    BY <1>1, <1>5 DEF RunSubscribe, HandOver, db
  <2>2. f \in alreadySettled
    BY <1>2, <1>5, BornFacts DEF JobOK, IInv, LockInv
  <2>3. new \in Seq(Job) /\ \A k \in 1..Len(new) : new[k].next = f
    OBVIOUS
  <2> HIDE DEF f, job, new
  <2> QED BY <2>1, <2>2, <2>3, HandOverOrder
<1> QED BY <1>1, <1>3, <1>4, <1>5

----------------------------------------------------------------------------
(* Steps that create a Future.                                             *)

\* What is created is younger than all that wait.
LEMMA Youngest ==
  ASSUME IInv, NEW type, NEW v, NEW source, NewFuture(type, v, source)
  PROVE  /\ Fresh \in Future /\ state[Fresh] = "Unborn" /\ reactions[Fresh] = <<>>
         /\ \A n \in Future : state[n] # "Unborn" => n < Fresh /\ parent'[n] = parent[n]
         /\ \A i \in 1..Len(jobs) : jobs[i].next \in Future /\ jobs[i].next < Fresh
         /\ \A g \in Future : \A k \in 1..Len(reactions[g]) :
              reactions[g][k].next \in Future /\ reactions[g][k].next < Fresh
         /\ parent'[Fresh] = source /\ \A n \in Future : n # Fresh => parent'[n] = parent[n]
         /\ state'[Fresh] = type /\ \A n \in Future : n # Fresh => state'[n] = state[n]
<1>1. /\ Fresh \in Future /\ state' = [state EXCEPT ![Fresh] = type]
      /\ parent' = [parent EXCEPT ![Fresh] = source]
  BY DEF NewFuture
<1>2. idCounter \in Nat /\ Fresh = idCounter + 1
  BY ConstantsAssumption DEF ConstantsAssumption, Fresh, IInv, TypeOK
<1>3. state[Fresh] = "Unborn" /\ reactions[Fresh] = <<>>
  <2>1. Fresh > idCounter
    BY <1>2
  <2>2. state[Fresh] = "Unborn"
    BY <1>1, <2>1 DEF IInv, BirthInv
  <2> QED BY <1>1, <2>2 DEF IInv, BirthInv
<1>4. \A n \in Future : state[n] # "Unborn" => n < Fresh
  <2> TAKE n \in Future
  <2>1. state[n] # "Unborn" => ~(n > idCounter)
    BY DEF IInv, BirthInv
  <2> QED BY <1>2, <2>1 DEF Future
<1>5. \A i \in 1..Len(jobs) : jobs[i].next \in Future /\ jobs[i].next < Fresh
  <2> TAKE i \in 1..Len(jobs)
  <2>1. jobs[i] \in Job /\ JobOK(jobs[i])
    BY DEF IInv, TypeOK, JobsInv
  <2> QED BY <1>4, <2>1 DEF JobOK, Awaiting, Job
<1>6. \A g \in Future : \A k \in 1..Len(reactions[g]) :
        reactions[g][k].next \in Future /\ reactions[g][k].next < Fresh
  <2> TAKE g \in Future
  <2> TAKE k \in 1..Len(reactions[g])
  <2>1. reactions[g][k] \in Reaction /\ ReactionOK(g, reactions[g][k])
    BY DEF IInv, TypeOK, ReactionsInv
  <2> QED BY <1>4, <2>1 DEF ReactionOK, Awaiting, Reaction
<1> QED BY <1>1, <1>3, <1>4, <1>5, <1>6 DEF IInv, TypeOK

\* A Future that no next() created is nobody's child.
LEMMA CreateOrder == ASSUME IInv, OrderInv, CreateFuture \/ CreateSettled PROVE OrderInv'
<1>1. PICK type \in {"Pending"} \cup Settled, v \in Value \cup {NoValue} : NewFuture(type, v, Nobody)
  BY DEF CreateFuture, CreateSettled, Value
<1>2. /\ alreadySettled' \in {alreadySettled, alreadySettled \cup {Fresh}}
      /\ resolvable' \in {resolvable, resolvable \cup {Fresh}} /\ UNCHANGED <<reactions, jobs>>
  BY DEF CreateFuture, CreateSettled, queue
<1>3. /\ Fresh \in Future /\ state[Fresh] = "Unborn" /\ reactions[Fresh] = <<>>
      /\ \A n \in Future : state[n] # "Unborn" => n < Fresh /\ parent'[n] = parent[n]
      /\ \A i \in 1..Len(jobs) : jobs[i].next \in Future /\ jobs[i].next < Fresh
      /\ \A g \in Future : \A k \in 1..Len(reactions[g]) :
           reactions[g][k].next \in Future /\ reactions[g][k].next < Fresh
      /\ parent'[Fresh] = Nobody /\ \A n \in Future : n # Fresh => parent'[n] = parent[n]
      /\ \A n \in Future : n # Fresh => state'[n] = state[n]
  BY <1>1, Youngest
<1>4. ParentInv'
  BY <1>2, <1>3 DEF OrderInv, ParentInv
<1>5. ReactionsInOrder'
  BY <1>2, <1>3 DEF OrderInv, ReactionsInOrder
<1>6. \A i \in 1..Len(jobs) : jobs[i].next # Fresh
  BY <1>3 DEF Future
<1>7. \A g \in Future : \A k \in 1..Len(reactions[g]) : reactions[g][k].next # Fresh
  BY <1>3 DEF Future
<1>8. QueuedOrder'
  BY <1>2, <1>3, <1>6 DEF OrderInv, QueuedOrder
<1>9. StoredOrder'
  BY <1>2, <1>3, <1>7 DEF OrderInv, StoredOrder
<1> QED BY <1>4, <1>5, <1>8, <1>9 DEF OrderInv

\* A child is stored, or queued, behind the older ones.
LEMMA FutureNextOrder ==
  ASSUME IInv, OrderInv, NEW f \in Born, NEW h \in Handlers, FutureNext(f, h)
  PROVE  OrderInv'
<1>0. NewFuture("Pending", NoValue, f) /\ UNCHANGED <<resolvable, alreadySettled>> /\ f \in Future
  BY BornFacts DEF FutureNext
<1>1. PICK n \in Future : n = Fresh
  BY <1>0 DEF NewFuture
<1>2. /\ state[n] = "Unborn" /\ reactions[n] = <<>>
      /\ \A m \in Future : state[m] # "Unborn" => m < n /\ parent'[m] = parent[m]
      /\ \A i \in 1..Len(jobs) : jobs[i].next \in Future /\ jobs[i].next < n
      /\ \A g \in Future : \A k \in 1..Len(reactions[g]) :
           reactions[g][k].next \in Future /\ reactions[g][k].next < n
      /\ parent'[n] = f /\ \A m \in Future : m # n => parent'[m] = parent[m]
      /\ state'[n] = "Pending" /\ \A m \in Future : m # n => state'[m] = state[m]
  BY <1>0, <1>1, Youngest
<1>3. n \notin alreadySettled /\ n \notin resolvable
  BY <1>2 DEF IInv, BirthInv
<1>4. ParentInv'
  BY <1>0, <1>2, <1>3 DEF OrderInv, ParentInv
<1>5. ReactionsInOrder'
  <2> SUFFICES ASSUME NEW a \in Future, NEW b \in Future, a < b, parent'[a] = parent'[b],
                      parent'[a] # Nobody, b \in alreadySettled
               PROVE  a \in alreadySettled
    BY <1>0 DEF ReactionsInOrder
  <2>1. b # n /\ state[b] # "Unborn"
    BY <1>3 DEF IInv, BirthInv
  <2>2. a # n
    BY <1>2, <2>1 DEF Future
  <2> QED BY <1>2, <2>1, <2>2 DEF OrderInv, ReactionsInOrder
<1>6. CASE AddNext(f, h)
  <2> DEFINE r == [next |-> n, onFulfilled |-> h[1], onRejected |-> h[2]]
  <2>1. reactions' = [reactions EXCEPT ![f] = Append(@, r)] /\ UNCHANGED jobs /\ r.next = n
    BY <1>1, <1>6 DEF AddNext, queue
  <2> HIDE DEF r
  <2>2. \A i \in 1..Len(jobs) : jobs[i].next # n
    BY <1>2 DEF Future
  <2>3. QueuedOrder'
    BY <1>0, <1>2, <2>1, <2>2 DEF OrderInv, QueuedOrder
  <2>4. \A g \in Future : g # f => reactions'[g] = reactions[g]
    BY <2>1 DEF IInv, TypeOK
  <2>5. /\ Len(reactions[f]) \in Nat /\ Len(reactions'[f]) = Len(reactions[f]) + 1
        /\ \A k \in 1..Len(reactions[f]) : reactions'[f][k] = reactions[f][k]
        /\ reactions'[f][Len(reactions[f]) + 1] = r
    BY <1>0, <2>1 DEF IInv, TypeOK
  <2>6. \A g \in Future : \A k \in 1..Len(reactions[g]) :
          parent'[reactions[g][k].next] = parent[reactions[g][k].next]
    BY <1>2 DEF Future
  <2>7. ASSUME NEW g \in Future, NEW k \in 1..Len(reactions'[g]),
               reactions'[g][k].next \notin alreadySettled
        PROVE  /\ parent'[reactions'[g][k].next] = g
               /\ \A i \in 1..Len(reactions'[g]) :
                    i < k /\ reactions'[g][i].next \notin alreadySettled
                      => reactions'[g][i].next < reactions'[g][k].next
    <3>1. CASE g = f /\ k = Len(reactions[f]) + 1
      BY <1>2, <2>1, <2>5, <3>1
    <3>2. CASE ~(g = f /\ k = Len(reactions[f]) + 1)
      <4>1. /\ k \in 1..Len(reactions[g]) /\ reactions'[g][k] = reactions[g][k]
            /\ \A i \in 1..Len(reactions'[g]) : i < k =>
                 i \in 1..Len(reactions[g]) /\ reactions'[g][i] = reactions[g][i]
        BY <2>4, <2>5, <3>2
      <4> QED BY <2>6, <2>7, <4>1 DEF OrderInv, StoredOrder
    <3> QED BY <3>1, <3>2
  <2>8. StoredOrder'
    BY <1>0, <2>7 DEF StoredOrder
  <2> QED BY <1>4, <1>5, <2>3, <2>8 DEF OrderInv
<1>7. CASE SettledNext(f, h)
  <2> DEFINE one == ReactionJob(n, f, IF state[f] = "Fulfilled" THEN h[1] ELSE h[2],
                                state[f], value[f])
  <2>1. Enqueue(<<one>>, FALSE) /\ UNCHANGED reactions /\ state[f] \in Settled
    BY <1>1, <1>7 DEF SettledNext
  <2>2. one \in Job /\ one.kind = "reaction" /\ one.next = n /\ one.from = f
    <3>1. PICK handler \in Handler : handler = IF state[f] = "Fulfilled" THEN h[1] ELSE h[2]
      BY ConstantsAssumption DEF ConstantsAssumption
    <3>2. value[f] \in Value \cup {NoValue}
      BY <1>0 DEF IInv, TypeOK
    <3> QED BY <1>0, <2>1, <3>1, <3>2, JobTypes DEF ReactionJob
  <2> HIDE DEF one
  <2> DEFINE new == <<one>>
  <2> DEFINE done == FALSE
  <2>3. /\ new \in Seq(Job) /\ done \in BOOLEAN /\ (done => jobs # <<>>) /\ Enqueue(new, done)
        /\ Len(new) = 1 /\ new[1] = one
    <3>1. Enqueue(new, done)
      BY <2>1
    <3>2. new \in Seq(Job) /\ Len(new) = 1 /\ new[1] = one
      BY <2>2
    <3> QED BY <3>1, <3>2
  <2> HIDE DEF new, done
  <2>4. QueueStep(new, done)
    BY <2>3, EnqueueQueue DEF IInv, TypeOK
  <2>5. ASSUME NEW k \in 1..Len(new)
        PROVE  /\ new[k].kind = "reaction" /\ parent'[new[k].next] = new[k].from
               /\ \A i \in 1..Len(jobs) : jobs[i].next < new[k].next
               /\ \A i \in 1..Len(new) : ~(i < k)
    <3>1. k = 1 /\ new[k] = one
      BY <2>3
    <3> QED BY <1>2, <2>2, <2>3, <3>1
  <2>6. QueuedOrder'
    BY <1>0, <1>2, <2>3, <2>4, <2>5, QueuedOrderKept DEF OrderInv
  <2>7. \A g \in Future : \A k \in 1..Len(reactions[g]) : reactions[g][k].next # n
    BY <1>2 DEF Future
  <2>8. StoredOrder'
    BY <1>0, <1>2, <2>1, <2>7 DEF OrderInv, StoredOrder
  <2> QED BY <1>4, <1>5, <2>6, <2>8 DEF OrderInv
<1> QED BY <1>6, <1>7 DEF FutureNext

----------------------------------------------------------------------------
(* The theorem.                                                            *)

\* The order is there from the start.
LEMMA InitOrder == Init => OrderInv
BY DEF Init, OrderInv, ParentInv, StoredOrder, QueuedOrder, ReactionsInOrder

\* Steps that leave all of this alone.
LEMMA StutterOrder ==
  ASSUME OrderInv, UNCHANGED <<state, parent, resolvable, alreadySettled, reactions, jobs>>
  PROVE  OrderInv'
BY DEF OrderInv, ParentInv, StoredOrder, QueuedOrder, ReactionsInOrder

\* With the invariant of the settlers, the order is inductive.
LEMMA NextOrder == ASSUME IInv, OrderInv, [Next]_vars PROVE OrderInv'
<1>1. CASE CreateFuture \/ CreateSettled
  BY <1>1, CreateOrder
<1>2. ASSUME NEW f \in Born, NEW h \in Handlers, FutureNext(f, h) PROVE OrderInv'
  BY <1>2, FutureNextOrder
<1>3. ASSUME NEW f \in resolvable, ResolveFutureById(f) \/ RejectFutureById(f) PROVE OrderInv'
  <2>1. CASE f \in alreadySettled
    BY <1>3, <2>1, StutterOrder DEF ResolveFutureById, RejectFutureById, db, queue
  <2>2. CASE f \notin alreadySettled
    <3>1. f \in Future /\ SettlerActs(f, FALSE)
      BY <1>3, <2>2, UserIsSettler DEF ResolveFutureById, RejectFutureById
    <3>2. \/ ResolveFutureByDBNoSettledCheck(f, Sources, FALSE)
          \/ \E v \in Value, type \in Settled : Trigger(f, type, v, FALSE)
      BY <1>3, <2>2 DEF ResolveFutureById, RejectFutureById, Value, Settled
    <3> QED BY <3>1, <3>2, BornFacts, TriggerOrder, ResolveOrder
  <2> QED BY <2>1, <2>2
<1>4. ASSUME NEW f \in Born \cap Observed, GetPromise(f) PROVE OrderInv'
  BY <1>4, StutterOrder DEF GetPromise, queue
<1>5. CASE OnActivitySettled \/ Resume
  BY <1>5, StutterOrder DEF OnActivitySettled, Resume, db
<1>6. ASSUME NEW f \in subscribed, PromiseCallback(f) PROVE OrderInv'
  <2>1. f \in Future /\ SettlerActs(f, FALSE)
    BY <1>6 DEF PromiseCallback, SettlerActs, IInv, TypeOK, SubscribedInv, Awaiting
  <2>2. Born \cup NestedPromises \in SUBSET (Future \cup {Outside})
    BY BornFacts, ConstantsAssumption DEF ConstantsAssumption
  <2>3. \/ ResolveFutureByDBNoSettledCheck(f, Born \cup NestedPromises, FALSE)
        \/ \E v \in Value, type \in Settled : Trigger(f, type, v, FALSE)
    BY <1>6 DEF PromiseCallback, Value, Settled
  <2> QED BY <2>1, <2>2, <2>3, TriggerOrder, ResolveOrder
<1>7. CASE RunMicrotask
  BY <1>7, RunMicrotaskOrder
<1>8. CASE UNCHANGED vars
  BY <1>8, StutterOrder DEF vars, db, queue
<1> QED BY <1>1, <1>2, <1>3, <1>4, <1>5, <1>6, <1>7, <1>8 DEF Next

\* The reactions of one Future run in the order in which next() added them.
THEOREM Ordered == Spec => []ReactionsInOrder
<1>1. Init => OrderInv
  BY InitOrder
<1>2. IInv /\ OrderInv /\ [Next]_vars => OrderInv'
  BY NextOrder
<1>3. OrderInv => ReactionsInOrder
  BY DEF OrderInv
<1> QED BY <1>1, <1>2, <1>3, Invariance, PTL DEF Spec
=============================================================================
