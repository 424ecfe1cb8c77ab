--------------------------- MODULE FutureMachine ---------------------------
(***************************************************************************)
(* The settlement engine of FutureMachineImpl: Futures, their reactions,   *)
(* the microtasks that run them, adoption of other Futures and of outside  *)
(* promises, and the ongoingCalls counter that onActivitySettled waits on. *)
(*                                                                         *)
(* A Future is named by the number generateId hands out.  Payloads are     *)
(* opaque.  User code acts between two microtasks; what a Method does to   *)
(* other Futures while it runs is a user step taken just before its        *)
(* microtask, because both leave the microtask queue the same.             *)
(***************************************************************************)
EXTENDS Integers, Sequences

CONSTANTS MaxFutures,     \* bound: how many Futures a behaviour creates
          Payload,        \* results and reasons that user code supplies
          TypeException,  \* reason of a Future that was resolved with itself
          NotFound,       \* reason given when a Method's name is not registered
          NoValue,        \* result and reason of a Future that is not settled
          Handlers,       \* bound: (onFulfilled, onRejected) pairs given to next
          NestedPromises, \* {Outside} if a promise's result may be a promise, else {}
          Observed        \* bound: the Futures whose getPromise is called

Value == Payload \cup {TypeException, NotFound}
Future == 1..MaxFutures
Settled == {"Fulfilled", "Rejected"}

\* What a reaction runs: nothing (forward the outcome), a registered Method, or
\* a Method whose name this session did not register.
Handler == {"none", "method", "missing"}

Nobody == 0      \* follows[f] of a Future that follows nothing
Outside == -1    \* follows[f] of a Future that follows an outside promise

ASSUME ConstantsAssumption ==
  /\ MaxFutures \in Nat
  /\ NoValue \notin Value
  /\ NestedPromises \subseteq {Outside}
  /\ Handlers \subseteq Handler \X Handler

VARIABLES
  idCounter,       \* how many Futures exist: they are 1 .. idCounter
  state,           \* FutureDB.state; "Unborn" before the Future exists
  value,           \* FutureDB.result or FutureDB.reason
  alreadySettled,  \* Futures whose alreadySettled flag is set
  resolvable,      \* Futures whose id or resolvers user code holds
  reactions,       \* per Future, its reaction pairs in the order they were added
  promise,         \* FutureDB.promiseWithResolvers: "none" or the promise's state
  jobs,            \* the microtasks that beginCall counted, oldest first
  ongoingCalls,    \* FutureMachineImpl.ongoingCalls
  onDone,          \* whether onDonePromiseWithResolvers is defined
  resumed,         \* whether code awaiting onActivitySettled is queued to go on
  subscribed,      \* Futures registered with an outside promise's then
  parent,          \* history: the Future whose next() created this one, or Nobody
  follows          \* history: what the Future was resolved with, or Nobody

db == <<state, value, alreadySettled, reactions, promise, follows>>
queue == <<jobs, ongoingCalls, onDone, resumed>>
vars == <<idCounter, resolvable, parent, subscribed, db, queue>>

Born == 1..idCounter
Reaction == [next : Future, onFulfilled : Handler, onRejected : Handler]
Job == [kind : {"reaction", "adopt", "subscribe"}, next : Future, from : Future,
        handler : Handler, type : Settled, arg : Value \cup {NoValue}]

\* One field per variable: nothing here depends on another variable.
TypeOK ==
  /\ idCounter \in 0..MaxFutures
  /\ state \in [Future -> {"Unborn", "Pending"} \cup Settled]
  /\ value \in [Future -> Value \cup {NoValue}]
  /\ alreadySettled \subseteq Future
  /\ resolvable \subseteq Future
  /\ reactions \in [Future -> Seq(Reaction)]
  /\ promise \in [Future -> {"none", "Pending"} \cup Settled]
  /\ jobs \in Seq(Job)
  /\ ongoingCalls \in Int
  /\ onDone \in BOOLEAN
  /\ resumed \in BOOLEAN
  /\ subscribed \subseteq Future
  /\ parent \in [Future -> Future \cup {Nobody}]
  /\ follows \in [Future -> Future \cup {Nobody, Outside}]

Init ==
  /\ idCounter = 0
  /\ state = [f \in Future |-> "Unborn"]
  /\ value = [f \in Future |-> NoValue]
  /\ alreadySettled = {}
  /\ resolvable = {}
  /\ reactions = [f \in Future |-> <<>>]
  /\ promise = [f \in Future |-> "none"]
  /\ jobs = <<>>
  /\ ongoingCalls = 0
  /\ onDone = FALSE
  /\ resumed = FALSE
  /\ subscribed = {}
  /\ parent = [f \in Future |-> Nobody]
  /\ follows = [f \in Future |-> Nobody]

----------------------------------------------------------------------------
(* Microtasks.  `done` says whether the step is the end of the oldest one. *)

ReactionJob(next, from, handler, type, arg) ==
  [kind |-> "reaction", next |-> next, from |-> from,
   handler |-> handler, type |-> type, arg |-> arg]

AdoptJob(next, from) ==
  [kind |-> "adopt", next |-> next, from |-> from,
   handler |-> "none", type |-> "Fulfilled", arg |-> NoValue]

SubscribeJob(next) ==
  [kind |-> "subscribe", next |-> next, from |-> next,
   handler |-> "none", type |-> "Fulfilled", arg |-> NoValue]

\* Mutant: endCall compares the counter before it decrements it.
EnqueueCheckedEarly(new, done) ==
  /\ jobs' = (IF done THEN Tail(jobs) ELSE jobs) \o new
  /\ ongoingCalls' = ongoingCalls + Len(new) - (IF done THEN 1 ELSE 0)
  /\ IF done /\ onDone /\ ongoingCalls = 0
     THEN onDone' = FALSE /\ resumed' = TRUE
     ELSE UNCHANGED <<onDone, resumed>>

\* Mutant: a microtask that queued another one does not call endCall.
EnqueueUnbalanced(new, done) ==
  /\ jobs' = (IF done THEN Tail(jobs) ELSE jobs) \o new
  /\ ongoingCalls' = ongoingCalls + Len(new) - (IF done /\ new = <<>> THEN 1 ELSE 0)
  /\ IF done /\ onDone /\ ongoingCalls' = 0
     THEN onDone' = FALSE /\ resumed' = TRUE
     ELSE UNCHANGED <<onDone, resumed>>

\* beginCall once per new microtask; endCall when the running one returns, which
\* resolves the promise onActivitySettled handed out if nothing is left.
Enqueue(new, done) ==
  /\ jobs' = (IF done THEN Tail(jobs) ELSE jobs) \o new
  /\ ongoingCalls' = ongoingCalls + Len(new) - (IF done THEN 1 ELSE 0)
  /\ IF done /\ onDone /\ ongoingCalls' = 0
     THEN onDone' = FALSE /\ resumed' = TRUE
     ELSE UNCHANGED <<onDone, resumed>>

----------------------------------------------------------------------------
(* Settlement of one Future.                                               *)

\* Mutant: the reactions are taken from the end of the list.
TriggeredJobsLastFirst(f, type, v) ==
  [i \in 1..Len(reactions[f]) |->
     LET r == reactions[f][Len(reactions[f]) + 1 - i]
     IN ReactionJob(r.next, f, IF type = "Fulfilled" THEN r.onFulfilled ELSE r.onRejected,
                    type, v)]

\* The reactions of f that apply to its outcome, in the order they were added.
TriggeredJobs(f, type, v) ==
  [i \in 1..Len(reactions[f]) |->
     ReactionJob(reactions[f][i].next, f,
                 IF type = "Fulfilled" THEN reactions[f][i].onFulfilled
                                       ELSE reactions[f][i].onRejected,
                 type, v)]

\* Mutant: only fulfill settles the promise that getPromise handed out.
TriggerPromiseLate(f, type, v, done) ==
  /\ state' = [state EXCEPT ![f] = type]
  /\ value' = [value EXCEPT ![f] = v]
  /\ alreadySettled' = alreadySettled \cup {f}
  /\ reactions' = [reactions EXCEPT ![f] = <<>>]
  /\ promise' = [promise EXCEPT ![f] =
       IF @ = "Pending" /\ type = "Fulfilled" THEN type ELSE @]
  /\ Enqueue(TriggeredJobs(f, type, v), done)
  /\ UNCHANGED follows

\* fulfill or reject: the state, the reactions of both kinds and the promise.
Trigger(f, type, v, done) ==
  /\ state' = [state EXCEPT ![f] = type]
  /\ value' = [value EXCEPT ![f] = v]
  /\ alreadySettled' = alreadySettled \cup {f}
  /\ reactions' = [reactions EXCEPT ![f] = <<>>]
  /\ promise' = [promise EXCEPT ![f] = IF @ = "Pending" THEN type ELSE @]
  /\ Enqueue(TriggeredJobs(f, type, v), done)
  /\ UNCHANGED follows

\* The Future is resolved with something that is not settled yet: it can no
\* longer be resolved by anyone else, but stays Pending.
Lock(f, source, job, done) ==
  /\ alreadySettled' = alreadySettled \cup {f}
  /\ follows' = [follows EXCEPT ![f] = source]
  /\ Enqueue(<<job>>, done)
  /\ UNCHANGED <<state, value, reactions, promise>>

\* Resolution with something unsettled: an outside promise or another Future.
ResolveWith(f, source, done) ==
  IF source = f THEN Trigger(f, "Rejected", TypeException, done)
  ELSE Lock(f, source, IF source = Outside THEN SubscribeJob(f) ELSE AdoptJob(f, source),
            done)

\* Resolution by any result that can be handed over: a plain value, an object
\* whose `then` throws when it is read, or one of `sources`.  The code asserts
\* that f is Pending on entry.
ResolveFutureByDBNoSettledCheck(f, sources, done) ==
  /\ state[f] = "Pending"
  /\ \/ \E v \in Payload, type \in Settled : Trigger(f, type, v, done)
     \/ \E source \in sources : ResolveWith(f, source, done)

----------------------------------------------------------------------------
(* Operations of user code.                                                *)

Fresh == idCounter + 1

\* What user code can resolve a Future with, beside plain values.
Sources == Born \cup {Outside}

\* The part of creating a Future every way of creating one shares.
NewFuture(type, v, source) ==
  /\ Fresh \in Future
  /\ idCounter' = Fresh
  /\ state' = [state EXCEPT ![Fresh] = type]
  /\ value' = [value EXCEPT ![Fresh] = v]
  /\ parent' = [parent EXCEPT ![Fresh] = source]
  /\ UNCHANGED <<promise, subscribed, follows>>

\* Mutant: the resolvers are given the identifier before it is incremented.
CreateFutureOffByOne ==
  /\ NewFuture("Pending", NoValue, Nobody)
  /\ resolvable' = resolvable \cup {idCounter}
  /\ UNCHANGED <<alreadySettled, reactions, queue>>

\* create and withResolvers: the caller gets the Future and its resolvers.
CreateFuture ==
  /\ NewFuture("Pending", NoValue, Nobody)
  /\ resolvable' = resolvable \cup {Fresh}
  /\ UNCHANGED <<alreadySettled, reactions, queue>>

\* resolve(value) and reject(reason) return a Future that is settled at once.
CreateSettled ==
  /\ \E type \in Settled, v \in Payload : NewFuture(type, v, Nobody)
  /\ alreadySettled' = alreadySettled \cup {Fresh}
  /\ UNCHANGED <<resolvable, reactions, queue>>

\* Mutant: the reaction pair is stored whatever the Future's state.
AddNextUnchecked(f, h) ==
  /\ reactions' = [reactions EXCEPT ![f] =
       Append(@, [next |-> Fresh, onFulfilled |-> h[1], onRejected |-> h[2]])]
  /\ UNCHANGED queue

\* next on a Pending Future stores the reaction pair.
AddNext(f, h) ==
  /\ state[f] = "Pending"
  /\ reactions' = [reactions EXCEPT ![f] =
       Append(@, [next |-> Fresh, onFulfilled |-> h[1], onRejected |-> h[2]])]
  /\ UNCHANGED queue

\* next on a settled Future queues the reaction at once.
SettledNext(f, h) ==
  /\ state[f] \in Settled
  /\ Enqueue(<<ReactionJob(Fresh, f, IF state[f] = "Fulfilled" THEN h[1] ELSE h[2],
                           state[f], value[f])>>, FALSE)
  /\ UNCHANGED reactions

\* Either way the new Future's resolvers do not leave the machine.
FutureNext(f, h) ==
  /\ NewFuture("Pending", NoValue, f)
  /\ AddNext(f, h) \/ SettledNext(f, h)
  /\ UNCHANGED <<resolvable, alreadySettled>>

\* Mutant: the alreadySettled flag is not looked at.
ResolveFutureByIdUnchecked(f) ==
  /\ ResolveFutureByDBNoSettledCheck(f, Sources, FALSE)
  /\ UNCHANGED <<idCounter, resolvable, parent, subscribed>>

\* Mutant: as above, for rejectFutureById.
RejectFutureByIdUnchecked(f) ==
  /\ \E v \in Payload : Trigger(f, "Rejected", v, FALSE)
  /\ UNCHANGED <<idCounter, resolvable, parent, subscribed>>

\* resolve, and reject, of withResolvers, or resolveFutureById, rejectFutureById.
ResolveFutureById(f) ==
  /\ IF f \in alreadySettled
     THEN UNCHANGED <<db, queue>>
     ELSE ResolveFutureByDBNoSettledCheck(f, Sources, FALSE)
  /\ UNCHANGED <<idCounter, resolvable, parent, subscribed>>

RejectFutureById(f) ==
  /\ IF f \in alreadySettled
     THEN UNCHANGED <<db, queue>>
     ELSE \E v \in Payload : Trigger(f, "Rejected", v, FALSE)
  /\ UNCHANGED <<idCounter, resolvable, parent, subscribed>>

GetPromise(f) ==
  /\ promise[f] = "none"
  /\ promise' = [promise EXCEPT ![f] = state[f]]
  /\ UNCHANGED <<idCounter, resolvable, parent, subscribed, state, value,
                 alreadySettled, reactions, follows, queue>>

\* A resolved promise when nothing is queued, else the shared pending one.
OnActivitySettled ==
  /\ IF ongoingCalls = 0 THEN resumed' = TRUE /\ UNCHANGED onDone
                         ELSE onDone' = TRUE /\ UNCHANGED resumed
  /\ UNCHANGED <<idCounter, resolvable, parent, subscribed, db, jobs, ongoingCalls>>

----------------------------------------------------------------------------
(* The event loop.                                                         *)

\* The code that awaited onActivitySettled goes on.  It was queued when there
\* was no counted microtask, so it is ahead of all that are queued now.
Resume ==
  /\ resumed
  /\ resumed' = FALSE
  /\ UNCHANGED <<idCounter, resolvable, parent, subscribed, db, jobs, ongoingCalls,
                 onDone>>

\* An outside promise settles and calls back; nothing counts this wait.
PromiseCallback(f) ==
  /\ subscribed' = subscribed \ {f}
  /\ \/ ResolveFutureByDBNoSettledCheck(f, Born \cup NestedPromises, FALSE)
     \/ \E v \in Payload : Trigger(f, "Rejected", v, FALSE)
  /\ UNCHANGED <<idCounter, resolvable, parent>>

\* A reaction's microtask.  A Method's outcome is anything it can return, and
\* what it throws rejects the next Future as a thrown `then` would.
RunReaction(job) ==
  /\ \/ job.handler = "none" /\ Trigger(job.next, job.type, job.arg, TRUE)
     \/ job.handler = "missing" /\ Trigger(job.next, "Rejected", NotFound, TRUE)
     \/ job.handler = "method" /\ ResolveFutureByDBNoSettledCheck(job.next, Sources, TRUE)
  /\ UNCHANGED subscribed

\* Mutant: the outcome of a settled Future is passed on as a fulfilment.
RunAdoptFulfilling(job) ==
  /\ IF state[job.from] = "Pending"
     THEN /\ reactions' = [reactions EXCEPT ![job.from] =
               Append(@, [next |-> job.next, onFulfilled |-> "none",
                          onRejected |-> "none"])]
          /\ Enqueue(<<>>, TRUE)
     ELSE /\ Enqueue(<<ReactionJob(job.next, job.from, "none",
                                   "Fulfilled", value[job.from])>>, TRUE)
          /\ UNCHANGED reactions
  /\ UNCHANGED <<subscribed, state, value, alreadySettled, promise, follows>>

\* Mutant: nothing happens when the followed Future settled in the meantime.
RunAdoptPendingOnly(job) ==
  /\ IF state[job.from] = "Pending"
     THEN reactions' = [reactions EXCEPT ![job.from] =
            Append(@, [next |-> job.next, onFulfilled |-> "none", onRejected |-> "none"])]
     ELSE UNCHANGED reactions
  /\ Enqueue(<<>>, TRUE)
  /\ UNCHANGED <<subscribed, state, value, alreadySettled, promise, follows>>

\* Mutant: the outcome of a settled Future is taken over without another microtask.
RunAdoptAtOnce(job) ==
  IF state[job.from] = "Pending"
  THEN /\ reactions' = [reactions EXCEPT ![job.from] =
            Append(@, [next |-> job.next, onFulfilled |-> "none", onRejected |-> "none"])]
       /\ Enqueue(<<>>, TRUE)
       /\ UNCHANGED <<subscribed, state, value, alreadySettled, promise, follows>>
  ELSE Trigger(job.next, state[job.from], value[job.from], TRUE) /\ UNCHANGED subscribed

\* nextWithFuture: the Future job.next starts to follow job.from.
RunAdopt(job) ==
  /\ IF state[job.from] = "Pending"
     THEN /\ reactions' = [reactions EXCEPT ![job.from] =
               Append(@, [next |-> job.next, onFulfilled |-> "none",
                          onRejected |-> "none"])]
          /\ Enqueue(<<>>, TRUE)
     ELSE /\ Enqueue(<<ReactionJob(job.next, job.from, "none",
                                   state[job.from], value[job.from])>>, TRUE)
          /\ UNCHANGED reactions
  /\ UNCHANGED <<subscribed, state, value, alreadySettled, promise, follows>>

\* result.then(...): from here on the Future waits for the outside promise.
RunSubscribe(job) ==
  /\ subscribed' = subscribed \cup {job.next}
  /\ Enqueue(<<>>, TRUE)
  /\ UNCHANGED db

RunMicrotask ==
  /\ ~resumed
  /\ jobs # <<>>
  /\ \/ Head(jobs).kind = "reaction" /\ RunReaction(Head(jobs))
     \/ Head(jobs).kind = "adopt" /\ RunAdopt(Head(jobs))
     \/ Head(jobs).kind = "subscribe" /\ RunSubscribe(Head(jobs))
  /\ UNCHANGED <<idCounter, resolvable, parent>>

Next ==
  \/ CreateFuture
  \/ CreateSettled
  \/ \E f \in Born, h \in Handlers : FutureNext(f, h)
  \/ \E f \in resolvable : ResolveFutureById(f) \/ RejectFutureById(f)
  \/ \E f \in Born \cap Observed : GetPromise(f)
  \/ OnActivitySettled
  \/ Resume
  \/ \E f \in subscribed : PromiseCallback(f)
  \/ RunMicrotask

\* The host drains its microtask queue.  Users and outside promises owe nothing.
Fairness == WF_vars(RunMicrotask) /\ WF_vars(Resume)

Spec == Init /\ [][Next]_vars /\ Fairness
----------------------------------------------------------------------------
(* Properties.                                                             *)

\* Whoever may still settle f: a counted microtask, a reaction stored on a
\* Pending Future, an outside promise, or user code holding its resolvers.
QueuedNext == {jobs[i].next : i \in DOMAIN jobs}
StoredNext == UNION {{reactions[g][i].next : i \in DOMAIN reactions[g]} : g \in Future}
UserOwned == {f \in resolvable : f \notin alreadySettled}

\* No two parties race to settle the same Future, so the missing Pending check
\* in triggerRejectReactions and the assertion in resolveFutureByDBNoSettledCheck
\* are never met.
NoTwoSettlers ==
  /\ \A i, j \in DOMAIN jobs : jobs[i].next = jobs[j].next => i = j
  /\ \A f, g \in Future : \A i \in DOMAIN reactions[f], j \in DOMAIN reactions[g] :
       reactions[f][i].next = reactions[g][j].next => f = g /\ i = j
  /\ QueuedNext \cap (StoredNext \cup subscribed \cup UserOwned) = {}
  /\ StoredNext \cap (subscribed \cup UserOwned) = {}
  /\ subscribed \cap UserOwned = {}

\* Every Pending Future is still owed an outcome by somebody, and a settled one by
\* nobody: no reaction is dropped, and none is left over.
PendingIffOwed ==
  \A f \in Future :
    state[f] = "Pending" <=> f \in QueuedNext \cup StoredNext \cup subscribed \cup UserOwned

\* ongoingCalls counts the microtasks that are queued, so endCall reaches 0 exactly
\* when none is left.
CallsCounted == ongoingCalls = Len(jobs)

\* A promise of onActivitySettled stays pending only while some endCall is to come.
NoForgottenWaiter == onDone => jobs # <<>>

\* A Future resolved with another one ends with the same state and value.
FollowersAgree ==
  \A f, g \in Future :
    follows[f] = g /\ state[f] \in Settled => state[g] = state[f] /\ value[g] = value[f]

\* A promise handed out by getPromise shows the Future's state.
PromiseAgrees == \A f \in Future : promise[f] \in {"none", state[f]}

\* The reactions of one Future run in the order next() added them, also when some
\* were added before it settled and some after.
ReactionsInOrder ==
  \A m, n \in Future :
    m < n /\ parent[m] = parent[n] /\ parent[m] # Nobody /\ n \in alreadySettled
      => m \in alreadySettled

\* A settled Future never changes, whatever is resolved or rejected again.
SettledForGood ==
  [][\A f \in Future : state[f] \in Settled =>
       state'[f] = state[f] /\ value'[f] = value[f] /\ f \in alreadySettled']_vars

\* A Future that follows another settles once that one has.
AdoptionCompletes ==
  \A f, g \in Future : follows[f] = g /\ state[g] \in Settled ~> state[f] \in Settled

\* Every reaction of a settled Future runs.
ReactionsRun ==
  \A f, n \in Future : parent[n] = f /\ state[f] \in Settled ~> n \in alreadySettled

\* Whoever waits for onActivitySettled goes on.
ActivitySettles == onDone ~> resumed

----------------------------------------------------------------------------
(* The engine implements FutureLifecycle: a Pending Future is open until   *)
(* its alreadySettled flag is set and locked from then on.                 *)

status == [f \in Future |->
             IF state[f] = "Unborn" THEN "unborn"
             ELSE IF state[f] = "Pending"
                  THEN IF f \in alreadySettled THEN "locked" ELSE "open"
                  ELSE state[f]]

Lifecycle == INSTANCE FutureLifecycle

\* Each step of the engine is a step of the abstract lifecycle or changes no
\* Future's fate, and followers settle in the end.
ImplementsLifecycle == Lifecycle!Spec

----------------------------------------------------------------------------
(* The engine implements Promises, which is what the fuzzer compares it    *)
(* with: one job per counted microtask, in the same order.  The counter,   *)
(* onActivitySettled and getPromise change nothing there.                  *)

\* A Method that is not registered is a callback that throws.
Callback(h) == CASE h = "none" -> "none" [] h = "method" -> "any" [] h = "missing" -> "throws"

NativeReactions(onSettled(_)) ==
  [f \in Future |->
     [i \in DOMAIN reactions[f] |->
        [derived |-> reactions[f][i].next, callback |-> Callback(onSettled(reactions[f][i]))]]]

OnFulfilled(r) == r.onFulfilled
OnRejected(r) == r.onRejected

NativeJob(job) ==
  CASE job.kind = "reaction" -> [kind |-> "reaction", promise |-> job.next,
                                 callback |-> Callback(job.handler),
                                 type |-> job.type, arg |-> job.arg]
    [] job.kind = "adopt" -> [kind |-> "thenable", promise |-> job.next, thenable |-> job.from]
    [] job.kind = "subscribe" -> [kind |-> "thenable", promise |-> job.next,
                                  thenable |-> Outside]

Native == INSTANCE Promises
  WITH MaxPromises <- MaxFutures, TypeError <- TypeException, Thrown <- NotFound,
       Undefined <- NoValue, Callbacks <- {<<Callback(h[1]), Callback(h[2])>> : h \in Handlers},
       count <- idCounter, result <- value, alreadyResolved <- alreadySettled,
       held <- resolvable, awaiting <- subscribed,
       fulfillReactions <- NativeReactions(OnFulfilled),
       rejectReactions <- NativeReactions(OnRejected),
       jobs <- [i \in DOMAIN jobs |-> NativeJob(jobs[i])]

\* Whatever user code and outside promises do, the engine calls the user's Methods
\* with the outcomes and in the order in which native promises would have called
\* them: fuzz() asserts that the events of both executors are equal.
ImplementsPromises == Native!Spec
=============================================================================
