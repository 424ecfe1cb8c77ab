--------------------------- MODULE DurableFutures ---------------------------
(***************************************************************************)
(* What a store that survives restarts promises about Futures, with no     *)
(* object, no row, no list and no queue: what each Future has come to now, *)
(* and what it would have come to after a crash.  A Future that is Pending *)
(* is owed its outcome by one party: by user code, or by the Future it     *)
(* follows, whose outcome it gets and no other.  A flush saves everything  *)
(* at once; a crash goes back to the last flush.                           *)
(***************************************************************************)
CONSTANTS Future,  \* the Futures
          Type,    \* the ways to settle
          Value    \* results and reasons; one that is a Future stands for a value that holds it

VARIABLES used,    \* the Futures that were ever created
          now,     \* per Future, what it has come to
          saved    \* what it comes to if the process stops

vars == <<used, now, saved>>

Outcome == [type : Type, value : Value]

Gone == [is |-> "gone"]
Open == [is |-> "open"]                               \* user code is to settle it
Follower(g) == [is |-> "follower", of |-> g]          \* it gets the outcome of g
Due(o) == [is |-> "due", outcome |-> o]               \* it gets o before the next flush
Settled(o) == [is |-> "settled", outcome |-> o]

\* The Futures that e refers to.
Refers(e) ==
  IF e.is = "follower" THEN {e.of}
  ELSE IF e.is \in {"due", "settled"} THEN {e.outcome.value} \cap Future
  ELSE {}

\* Whatever m refers to is there.
Complete(m) == \A f \in Future : \A g \in Refers(m[f]) : m[g] # Gone

Init ==
  /\ used = {}
  /\ now = [f \in Future |-> Gone]
  /\ saved = [f \in Future |-> Gone]

\* What a Future that takes over the outcome of g has to expect.
From(g) == IF now[g].is = "settled" THEN Due(now[g].outcome) ELSE Follower(g)

Create(f) ==
  /\ f \notin used
  /\ used' = used \cup {f}
  /\ \/ now' = [now EXCEPT ![f] = Open]
     \/ \E o \in Outcome : o.value \notin Future /\ now' = [now EXCEPT ![f] = Settled(o)]
     \/ \E g \in Future \ {f} : now[g] # Gone /\ now' = [now EXCEPT ![f] = From(g)]
  /\ UNCHANGED saved

\* f settles, and its outcome is due to all that follow it.
Settle(f, o) ==
  /\ now' = [g \in Future |-> IF g = f THEN Settled(o)
                              ELSE IF now[g] = Follower(f) THEN Due(o)
                              ELSE now[g]]
  /\ UNCHANGED <<used, saved>>

Resolve(f) ==
  /\ now[f] = Open
  /\ \E o \in Outcome :
       /\ now'[f] = Settled(o)
       /\ o.value \in Future => now[o.value] # Gone
       /\ Settle(f, o)

Follow(f, g) ==
  /\ now[f] = Open
  /\ now[g] # Gone
  /\ now' = [now EXCEPT ![f] = From(g)]
  /\ UNCHANGED <<used, saved>>

Deliver(f) ==
  /\ now[f].is = "due"
  /\ Settle(f, now[f].outcome)

\* Nothing is due, and what is not saved is settled, was not saved before, and nothing
\* saved refers to it.
Flush ==
  /\ \A f \in Future : now[f].is # "due"
  /\ UNCHANGED <<used, now>>
  /\ \A f \in Future : \/ saved'[f] = now[f]
                       \/ saved'[f] = Gone /\ saved[f] = Gone /\ now[f].is = "settled"
  /\ Complete(saved')

\* Settled Futures are forgotten: those that nothing refers to, and that are not saved.
Forget ==
  /\ UNCHANGED used
  /\ \A f \in Future : \/ saved'[f] = saved[f]
                       \/ saved'[f] = Gone /\ saved[f].is = "settled"
  /\ \A f \in Future : \/ now'[f] = now[f]
                       \/ now'[f] = Gone /\ saved'[f] = Gone /\ now[f].is = "settled"
  /\ Complete(saved') /\ Complete(now')

Crash ==
  /\ now' = saved
  /\ UNCHANGED <<used, saved>>

Next ==
  \/ Crash
  \/ Forget
  \/ Flush
  \/ \E f \in Future : Create(f) \/ Resolve(f) \/ Deliver(f)
  \/ \E f \in Future : \E g \in Future \ {f} : Follow(f, g)

Spec == Init /\ [][Next]_vars
=============================================================================
