-------------------------- MODULE FutureLifecycle --------------------------
(***************************************************************************)
(* What the engine promises about each Future, with no queue, no reaction  *)
(* and no counter: a Future is created open; it is settled once and for    *)
(* good, or it is locked to what it was resolved with, and then only that  *)
(* can settle it, with that very outcome.                                  *)
(***************************************************************************)
EXTENDS Integers

CONSTANTS Future,   \* the Futures, numbered
          Value,    \* results and reasons
          NoValue,  \* result and reason of a Future that is not settled
          Nobody,   \* follows[f] while f is open
          Outside   \* follows[f] of a Future locked to an outside promise

VARIABLES status,   \* "unborn", "open", "locked", "Fulfilled" or "Rejected"
          value,    \* the result or the reason
          follows   \* what a locked Future was resolved with

vars == <<status, value, follows>>
Outcome == {"Fulfilled", "Rejected"}

Init ==
  /\ status = [f \in Future |-> "unborn"]
  /\ value = [f \in Future |-> NoValue]
  /\ follows = [f \in Future |-> Nobody]

Create(f) ==
  /\ status[f] = "unborn"
  /\ status' = [status EXCEPT ![f] = "open"]
  /\ UNCHANGED <<value, follows>>

Become(f, outcome, v) ==
  /\ status' = [status EXCEPT ![f] = outcome]
  /\ value' = [value EXCEPT ![f] = v]
  /\ UNCHANGED follows

\* A plain outcome: for a new Future, for an open one, or from the outside
\* promise the Future is locked to.
Settle(f) ==
  /\ \/ status[f] \in {"unborn", "open"}
     \/ status[f] = "locked" /\ follows[f] = Outside
  /\ \E outcome \in Outcome, v \in Value : Become(f, outcome, v)

\* Resolution with another Future or with an outside promise.  An outside
\* promise may itself hand over something that is not settled.
LockTo(f, source) ==
  /\ \/ status[f] = "open"
     \/ status[f] = "locked" /\ follows[f] = Outside
  /\ \/ source = Outside
     \/ source \in Future \ {f} /\ status[source] # "unborn"
  /\ status' = [status EXCEPT ![f] = "locked"]
  /\ follows' = [follows EXCEPT ![f] = source]
  /\ UNCHANGED value

\* A Future that follows another one takes over its outcome.
SettleFollower(f) ==
  \E g \in Future :
    /\ status[f] = "locked"
    /\ follows[f] = g
    /\ status[g] \in Outcome
    /\ Become(f, status[g], value[g])

Next ==
  \E f \in Future :
    \/ Create(f)
    \/ Settle(f)
    \/ \E source \in Future \cup {Outside} : LockTo(f, source)
    \/ SettleFollower(f)

Safety == Init /\ [][Next]_vars

\* A follower of a settled Future is settled in the end.
Spec == Safety /\ \A f \in Future : WF_vars(SettleFollower(f))
=============================================================================
