------------------------------ MODULE Promises ------------------------------
(***************************************************************************)
(* Native promises, as the fuzzer's PromiseExecutor runs a plan on them.   *)
(* The fuzzer runs the same plan on Futures and asserts that the user's    *)
(* Methods are called with the same outcomes in the same order, so this is *)
(* what the engine has to look like from outside: promises with their two  *)
(* reaction lists and the host's one queue of jobs, and no counter, no     *)
(* getPromise and no activity to wait for.                                 *)
(***************************************************************************)
EXTENDS Integers, Sequences

CONSTANTS MaxPromises,    \* bound: how many promises a plan creates
          Payload,        \* results and reasons a plan uses
          TypeError,      \* reason of a promise that was resolved with itself
          Thrown,         \* reason a Method that always throws throws
          Undefined,      \* result and reason of a promise that is not settled
          Callbacks,      \* bound: (onFulfilled, onRejected) pairs given to then
          NestedPromises  \* what a promise outside the plan may settle with,
                          \* beside a plain value: {Outside} or {}

Promise == 1..MaxPromises
Outside == -1    \* a promise that the plan did not create

VARIABLES
  count,             \* the promises that exist are 1 .. count
  state,             \* "Unborn", "Pending", "Fulfilled" or "Rejected"
  result,            \* its value or its reason
  alreadyResolved,   \* promises whose resolving functions do nothing any more
  held,              \* promises whose resolving functions the plan holds
  fulfillReactions,  \* per promise, what runs when it is fulfilled
  rejectReactions,   \* per promise, what runs when it is rejected
  awaiting,          \* promises whose resolving functions an outside one holds
  jobs               \* the host's queue

vars == <<count, state, result, alreadyResolved, held, fulfillReactions,
          rejectReactions, awaiting, jobs>>

Created == 1..count
Empty == [p \in Promise |-> <<>>]

Init ==
  /\ count = 0
  /\ state = [p \in Promise |-> "Unborn"]
  /\ result = [p \in Promise |-> Undefined]
  /\ alreadyResolved = {}
  /\ held = {}
  /\ fulfillReactions = Empty
  /\ rejectReactions = Empty
  /\ awaiting = {}
  /\ jobs = <<>>

\* NewPromiseReactionJob: the callback decides the fate of the derived promise.
ReactionJob(derived, callback, type, arg) ==
  [kind |-> "reaction", promise |-> derived, callback |-> callback,
   type |-> type, arg |-> arg]

\* NewPromiseResolveThenableJob: call `then` of what the promise is resolved with.
ThenableJob(p, source) == [kind |-> "thenable", promise |-> p, thenable |-> source]

\* The queue after a step: the job that ran is gone, the new ones are last.
Queue(ran, new) == jobs' = (IF ran THEN Tail(jobs) ELSE jobs) \o new

\* PerformPromiseThen without the creation of the derived promise: a pair of
\* reactions is stored, or the one that applies is queued.
PerformThen(p, derived, pair, ran) ==
  IF state[p] = "Pending"
  THEN /\ fulfillReactions' = [fulfillReactions EXCEPT ![p] =
            Append(@, [derived |-> derived, callback |-> pair[1]])]
       /\ rejectReactions' = [rejectReactions EXCEPT ![p] =
            Append(@, [derived |-> derived, callback |-> pair[2]])]
       /\ Queue(ran, <<>>)
  ELSE /\ Queue(ran, <<ReactionJob(derived, IF state[p] = "Fulfilled" THEN pair[1] ELSE pair[2],
                                   state[p], result[p])>>)
       /\ UNCHANGED <<fulfillReactions, rejectReactions>>

\* FulfillPromise and RejectPromise, which trigger one of the two lists.
Settle(p, type, v, ran) ==
  LET list == IF type = "Fulfilled" THEN fulfillReactions[p] ELSE rejectReactions[p]
  IN /\ state' = [state EXCEPT ![p] = type]
     /\ result' = [result EXCEPT ![p] = v]
     /\ alreadyResolved' = alreadyResolved \cup {p}
     /\ fulfillReactions' = [fulfillReactions EXCEPT ![p] = <<>>]
     /\ rejectReactions' = [rejectReactions EXCEPT ![p] = <<>>]
     /\ Queue(ran, [i \in DOMAIN list |-> ReactionJob(list[i].derived, list[i].callback, type, v)])

\* Promise Resolve Functions, called with another promise.
ResolveWith(p, source, ran) ==
  IF source = p
  THEN Settle(p, "Rejected", TypeError, ran)
  ELSE /\ alreadyResolved' = alreadyResolved \cup {p}
       /\ Queue(ran, <<ThenableJob(p, source)>>)
       /\ UNCHANGED <<state, result, fulfillReactions, rejectReactions>>

\* Whatever a resolving function can be called with.
Resolve(p, sources, ran) ==
  \/ \E type \in {"Fulfilled", "Rejected"}, v \in Payload : Settle(p, type, v, ran)
  \/ \E source \in sources : ResolveWith(p, source, ran)

----------------------------------------------------------------------------
(* What a plan does between two jobs.                                      *)

\* withResolvers.
CreateFuture ==
  /\ count < MaxPromises
  /\ count' = count + 1
  /\ state' = [state EXCEPT ![count + 1] = "Pending"]
  /\ held' = held \cup {count + 1}
  /\ UNCHANGED <<result, alreadyResolved, fulfillReactions, rejectReactions, awaiting, jobs>>

\* Promise.resolve and Promise.reject.
CreateSettledFuture ==
  /\ count < MaxPromises
  /\ count' = count + 1
  /\ \E type \in {"Fulfilled", "Rejected"}, v \in Payload :
       /\ state' = [state EXCEPT ![count + 1] = type]
       /\ result' = [result EXCEPT ![count + 1] = v]
  /\ alreadyResolved' = alreadyResolved \cup {count + 1}
  /\ UNCHANGED <<held, fulfillReactions, rejectReactions, awaiting, jobs>>

\* then, catch and finally.
NextFuture(p, pair) ==
  /\ count < MaxPromises
  /\ count' = count + 1
  /\ state' = [state EXCEPT ![count + 1] = "Pending"]
  /\ PerformThen(p, count + 1, pair, FALSE)
  /\ UNCHANGED <<result, alreadyResolved, held, awaiting>>

\* id.resolve(value) and id.reject(reason): only the first call counts.
ResolveFuture(p) ==
  /\ p \notin alreadyResolved
  /\ \/ Resolve(p, Created \cup {Outside}, FALSE)
     \/ \E v \in Payload : Settle(p, "Rejected", v, FALSE)
  /\ UNCHANGED <<count, held, awaiting>>

----------------------------------------------------------------------------
(* The host.                                                               *)

\* An outside promise calls the resolving functions that its `then` was given.
OutsideSettles(p) ==
  /\ awaiting' = awaiting \ {p}
  /\ \/ Resolve(p, Created \cup NestedPromises, FALSE)
     \/ \E v \in Payload : Settle(p, "Rejected", v, FALSE)
  /\ UNCHANGED <<count, held>>

\* A job that calls `then` of another promise of the plan passes it the resolving
\* functions of its own promise, which forward the outcome; an outside promise
\* keeps them.
RunThenableJob(job) ==
  /\ IF job.thenable = Outside
     THEN /\ awaiting' = awaiting \cup {job.promise}
          /\ Queue(TRUE, <<>>)
          /\ UNCHANGED <<fulfillReactions, rejectReactions>>
     ELSE /\ PerformThen(job.thenable, job.promise, <<"none", "none">>, TRUE)
          /\ UNCHANGED awaiting
  /\ UNCHANGED <<count, held, state, result, alreadyResolved>>

\* Without a callback the outcome is passed on; a callback returns or throws.
RunReactionJob(job) ==
  /\ \/ job.callback = "none" /\ Settle(job.promise, job.type, job.arg, TRUE)
     \/ job.callback = "throws" /\ Settle(job.promise, "Rejected", Thrown, TRUE)
     \/ job.callback = "any" /\ Resolve(job.promise, Created \cup {Outside}, TRUE)
  /\ UNCHANGED <<count, held, awaiting>>

RunJob ==
  /\ jobs # <<>>
  /\ \/ Head(jobs).kind = "thenable" /\ RunThenableJob(Head(jobs))
     \/ Head(jobs).kind = "reaction" /\ RunReactionJob(Head(jobs))

Next ==
  \/ CreateFuture
  \/ CreateSettledFuture
  \/ \E p \in Created, pair \in Callbacks : NextFuture(p, pair)
  \/ \E p \in held : ResolveFuture(p)
  \/ \E p \in awaiting : OutsideSettles(p)
  \/ RunJob

Spec == Init /\ [][Next]_vars
=============================================================================
