----------------------------- MODULE Thenables -----------------------------
(***************************************************************************)
(* FutureMachine with outside promises that FutureMachine's                *)
(* PromiseCallback leaves out: those whose outcome cannot be serialized.   *)
(***************************************************************************)
EXTENDS FutureMachine

\* A promise settles with something serialize() does not know, an Error say: the
\* assertion throws inside the callback, before the database is touched.
ForeignOutcome(f) ==
  /\ subscribed' = subscribed \ {f}
  /\ UNCHANGED <<idCounter, resolvable, parent, db, queue>>

NextForeign == Next \/ \E f \in subscribed : ForeignOutcome(f)
SpecForeign == Init /\ [][NextForeign]_vars

\* A promise's callback settles the Future that waits for it, or locks it to what
\* the promise handed over: what it is called with can be serialized.
CallbackSettles ==
  [][\A f \in subscribed \ subscribed' :
       state'[f] \in Settled \/ \E i \in DOMAIN jobs' : jobs'[i].next = f]_vars
=============================================================================
