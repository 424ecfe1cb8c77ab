--------------------------- MODULE Sessions_proofs ---------------------------
(***************************************************************************)
(* Proofs about Sessions for any names, any number of sessions and slots:  *)
(* what user code holds belongs to its session, and, as long as it uses no *)
(* name of the library's, what was stored runs as it was registered.       *)
(***************************************************************************)
EXTENDS Sessions, TLAPS

\* User code registers nothing under a name of the library's Methods, which the code
\* does not forbid.
NamesDiffer == UserName \cap InternalName = {}

----------------------------------------------------------------------------
(* Objects.                                                                *)

\* What a DB object is made of.
LEMMA Kinds ==
  /\ \A r \in DB :
       /\ r.made \in Session /\ r \notin {None, Plain, Missing}
       /\ \/ /\ r.kind = "method" /\ r.type \in MethodType /\ r.name \in Name
             /\ r.arg \in Argument \cup {None}
          \/ r.kind = "entity" /\ r.name \in UserName
          \/ r.kind = "container"
  /\ \A s \in Session, t \in MethodType, n \in Name, a \in Argument \cup {None} :
       /\ MethodDB(s, t, n, a) \in DB
       /\ MethodDB(s, t, n, a).kind = "method" /\ MethodDB(s, t, n, a).made = s
       /\ MethodDB(s, t, n, a).type = t /\ MethodDB(s, t, n, a).name = n
       /\ MethodDB(s, t, n, a).arg = a
  /\ \A r \in Argument : r \in DB \cup {Plain} /\ (r.kind = "method" => r.arg = None)
  /\ \A r \in UnboundedDB : r \in DB /\ r.kind = "method" /\ r.arg = None
  /\ \A s \in Session, n \in UserName :
       /\ EntityDB(s, n) \in DB /\ EntityDB(s, n).kind = "entity"
       /\ EntityDB(s, n).made = s /\ EntityDB(s, n).name = n
  /\ \A s \in Session : /\ ContainerDB(s) \in DB /\ ContainerDB(s).kind = "container"
                        /\ ContainerDB(s).made = s
<1>1. \A r \in Argument : r \in DB \cup {Plain}
  BY DEF DB
<1>2. \A r \in UnboundedDB :
        /\ r \in DB /\ r.kind = "method" /\ r.arg = None /\ r.made \in Session
        /\ r.type \in MethodType /\ r.name \in Name /\ r \notin {None, Plain, Missing}
  <2>1. UnboundedDB \subseteq Argument
    BY DEF Argument
  <2>2. \A r \in UnboundedDB : r \notin {None, Plain, Missing} /\ r.kind = "method"
    BY DEF UnboundedDB, Unbounded, MethodDB, None, Plain, Missing
  <2>3. \A r \in UnboundedDB :
          r.arg = None /\ r.made \in Session /\ r.type \in MethodType /\ r.name \in Name
    BY DEF UnboundedDB, Unbounded, MethodDB
  <2> QED BY <1>1, <2>1, <2>2, <2>3
<1>3. \A s \in Session, n \in UserName :
        /\ EntityDB(s, n) \in DB /\ EntityDB(s, n).kind = "entity"
        /\ EntityDB(s, n).made = s /\ EntityDB(s, n).name = n
        /\ EntityDB(s, n) \notin {None, Plain, Missing}
  <2>1. \A s \in Session, n \in UserName : EntityDB(s, n) \in Argument
    BY DEF Argument
  <2>2. \A s \in Session, n \in UserName : EntityDB(s, n).kind = "entity"
    BY DEF EntityDB
  <2>3. None.kind = "none" /\ Plain.kind = "plain" /\ Missing.kind = "missing"
    BY DEF None, Plain, Missing
  <2>4. \A s \in Session, n \in UserName : EntityDB(s, n).made = s /\ EntityDB(s, n).name = n
    BY DEF EntityDB
  <2> QED BY <1>1, <2>1, <2>2, <2>3, <2>4
<1>4. \A s \in Session : /\ ContainerDB(s) \in DB /\ ContainerDB(s).kind = "container"
                         /\ ContainerDB(s).made = s /\ ContainerDB(s) \notin {None, Plain, Missing}
  <2>1. \A s \in Session : ContainerDB(s) \in Argument
    BY DEF Argument
  <2>2. \A s \in Session : ContainerDB(s).kind = "container" /\ ContainerDB(s).made = s
    BY DEF ContainerDB
  <2>3. None.kind = "none" /\ Plain.kind = "plain" /\ Missing.kind = "missing"
    BY DEF None, Plain, Missing
  <2> QED BY <1>1, <2>1, <2>2, <2>3
<1>5. \A s \in Session, t \in MethodType, n \in Name, a \in Argument \cup {None} :
        /\ MethodDB(s, t, n, a) \in DB
        /\ MethodDB(s, t, n, a).kind = "method" /\ MethodDB(s, t, n, a).made = s
        /\ MethodDB(s, t, n, a).type = t /\ MethodDB(s, t, n, a).name = n
        /\ MethodDB(s, t, n, a).arg = a
        /\ MethodDB(s, t, n, a) \notin {None, Plain, Missing}
  <2> TAKE s \in Session, t \in MethodType, n \in Name, a \in Argument \cup {None}
  <2>1. MethodDB(s, t, n, a) \in DB
    <3>1. CASE a = None
      BY <1>2, <3>1 DEF UnboundedDB, Unbounded
    <3>2. CASE a \in Argument
      BY <3>2 DEF DB
    <3> QED BY <3>1, <3>2
  <2>2. None.kind = "none" /\ Plain.kind = "plain" /\ Missing.kind = "missing"
    BY DEF None, Plain, Missing
  <2>3. /\ MethodDB(s, t, n, a).kind = "method" /\ MethodDB(s, t, n, a).made = s
        /\ MethodDB(s, t, n, a).type = t /\ MethodDB(s, t, n, a).name = n
        /\ MethodDB(s, t, n, a).arg = a
    BY DEF MethodDB
  <2> QED BY <2>1, <2>2, <2>3
<1>6. \A r \in DB :
        \/ r \in UnboundedDB
        \/ \E s \in Session, n \in UserName : r = EntityDB(s, n)
        \/ \E s \in Session : r = ContainerDB(s)
        \/ \E s \in Session, t \in MethodType, n \in Name, a \in Argument : r = MethodDB(s, t, n, a)
  BY DEF DB, Argument
<1>7. \A r \in Argument : r.kind = "method" => r.arg = None
  <2> TAKE r \in Argument
  <2>1. \/ r = Plain \/ r \in UnboundedDB
        \/ \E s \in Session, n \in UserName : r = EntityDB(s, n)
        \/ \E s \in Session : r = ContainerDB(s)
    BY DEF Argument
  <2> QED BY <1>2, <1>3, <1>4, <2>1 DEF Plain
<1>8. \A r \in DB :
        /\ r.made \in Session /\ r \notin {None, Plain, Missing}
        /\ \/ /\ r.kind = "method" /\ r.type \in MethodType /\ r.name \in Name
              /\ r.arg \in Argument \cup {None}
           \/ r.kind = "entity" /\ r.name \in UserName
           \/ r.kind = "container"
  <2> TAKE r \in DB
  <2>1. CASE r \in UnboundedDB
    BY <1>2, <2>1
  <2>2. ASSUME NEW s \in Session, NEW n \in UserName, r = EntityDB(s, n)
        PROVE  r.made \in Session /\ r \notin {None, Plain, Missing} /\ r.kind = "entity" /\ r.name \in UserName
    BY <1>3, <2>2
  <2>3. ASSUME NEW s \in Session, r = ContainerDB(s)
        PROVE  r.made \in Session /\ r \notin {None, Plain, Missing} /\ r.kind = "container"
    BY <1>4, <2>3
  <2>4. ASSUME NEW s \in Session, NEW t \in MethodType, NEW n \in Name, NEW a \in Argument,
               r = MethodDB(s, t, n, a)
        PROVE  /\ r.made \in Session /\ r \notin {None, Plain, Missing} /\ r.kind = "method"
               /\ r.type \in MethodType /\ r.name \in Name /\ r.arg \in Argument
    BY <1>5, <2>4
  <2> QED BY <1>6, <2>1, <2>2, <2>3, <2>4
<1> QED BY <1>1, <1>2, <1>3, <1>4, <1>5, <1>7, <1>8

----------------------------------------------------------------------------
(* The inductive invariant.                                                *)

\* Everything else user code and the store hold.
VariablesInv ==
  /\ session \in Session /\ built \in BOOLEAN
  /\ methodMaps \in [MethodType -> SUBSET Name]
  /\ methodMaps["Internal"] = InternalName /\ methodMaps["External"] \subseteq UserName
  /\ creators \subseteq entityMap /\ entityMap \subseteq UserName
  /\ unbound \in [Name -> UnboundedDB \cup {None}]
  /\ stored \in [Slot -> DB \cup {None}]
  /\ hand \in DB \cup {None}

\* A Method that is registered is the one unboundMethodMap has under its name.
UnboundInv ==
  /\ \A n \in Name : unbound[n] # None => unbound[n].name = n
  /\ \A t \in MethodType : \A n \in methodMaps[t] : unbound[n] # None /\ unbound[n].made = session

\* If user code takes none of the library's names, a name tells the type.
TypeByName(r) ==
  NamesDiffer /\ r.kind = "method" => (r.type = "Internal" <=> r.name \in InternalName)

\* An object has a facade of this session only if the session knows what it stands for.
FacadeOK(r) ==
  /\ facade[r] \in Int /\ r.made <= facade[r] /\ facade[r] <= session
  /\ facade[r] = session => Known(r)
  /\ TypeByName(r)

FacadeInv == DOMAIN facade = Reachable /\ \A r \in Reachable : FacadeOK(r)

SInv == VariablesInv /\ UnboundInv /\ FacadeInv /\ FacadesOfThisSession

----------------------------------------------------------------------------
(* What can be reached.                                                    *)

Roots == Registered \cup {stored[s] : s \in Slot} \cup {unbound[n] : n \in Name} \cup {hand}

\* Objects, and the arguments of objects, are objects.
LEMMA ReachableFacts ==
  ASSUME VariablesInv
  PROVE  /\ Registered \subseteq UnboundedDB
         /\ \A r \in Registered : Known(r) /\ r.made = session
         /\ Roots \subseteq DB \cup {None}
         /\ \A r \in Roots : r # None => r \in Reachable
         /\ Reachable \subseteq DB
         /\ \A r \in Reachable : r \in Roots \/ \E q \in Roots : q.kind = "method" /\ r = q.arg
         /\ \A r \in Reachable : r.kind = "method" => r.arg \in Reachable \cup {None, Plain}
         /\ Held \subseteq Reachable
<1>0. None.kind = "none" /\ Plain.kind = "plain"
  BY DEF None, Plain
<1>1. Registered \subseteq UnboundedDB /\ \A r \in Registered : Known(r) /\ r.made = session
  <2> SUFFICES ASSUME NEW t \in MethodType, NEW n \in methodMaps[t]
               PROVE  /\ Unbounded(session, t, n) \in UnboundedDB
                      /\ Known(Unbounded(session, t, n)) /\ Unbounded(session, t, n).made = session
    BY DEF Registered
  <2>1. n \in Name /\ session \in Session
    BY DEF VariablesInv
  <2>2. Unbounded(session, t, n) \in UnboundedDB
    BY <2>1 DEF UnboundedDB
  <2>3. /\ Unbounded(session, t, n).kind = "method" /\ Unbounded(session, t, n).type = t
        /\ Unbounded(session, t, n).name = n /\ Unbounded(session, t, n).made = session
    BY <2>1, Kinds DEF Unbounded
  <2> QED BY <2>2, <2>3 DEF Known
<1>2. Roots \subseteq DB \cup {None}
  BY <1>1, Kinds DEF VariablesInv, Roots
<1>3. Reachable = (Roots \cup {r.arg : r \in {q \in Roots : q.kind = "method"}}) \ {None, Plain}
  BY DEF Reachable, Roots
<1>4. \A r \in Roots : r # None => r \in Reachable
  BY <1>2, <1>3, Kinds
<1>5. \A r \in Reachable : r \in Roots \/ \E q \in Roots : q.kind = "method" /\ r = q.arg
  BY <1>3
<1>6. \A r \in Roots : r.kind = "method" => r.arg \in Argument \cup {None}
  BY <1>0, <1>2, Kinds
<1>7. Reachable \subseteq DB
  <2> SUFFICES ASSUME NEW r \in Reachable PROVE r \in DB
    OBVIOUS
  <2>1. r \notin {None, Plain}
    BY <1>3
  <2>2. r \in Roots \/ r \in Argument \cup {None}
    BY <1>5, <1>6
  <2> QED BY <1>2, <2>1, <2>2, Kinds
<1>8. \A r \in Reachable : r.kind = "method" => r.arg \in Reachable \cup {None, Plain}
  <2> SUFFICES ASSUME NEW r \in Reachable, r.kind = "method" PROVE r.arg \in Reachable \cup {None, Plain}
    OBVIOUS
  <2>1. CASE r \in Roots
    BY <1>3, <2>1
  <2>2. ASSUME NEW q \in Roots, q.kind = "method", r = q.arg PROVE r.arg = None
    <3>1. r \in Argument \/ r = None
      BY <1>6, <2>2
    <3> QED BY <1>0, <3>1, Kinds
  <2> QED BY <1>5, <2>1, <2>2
<1>9. Held \subseteq Reachable
  <2>1. \A r \in Held : r \in Roots
    BY DEF Held, Roots
  <2>2. \A r \in Held : r # None
    BY <1>1, Kinds DEF Held
  <2> QED BY <1>4, <2>1, <2>2
<1> QED BY <1>1, <1>2, <1>4, <1>5, <1>7, <1>8, <1>9

\* A step reaches nothing but what was reached before and what it made.
LEMMA RootsGrow ==
  ASSUME VariablesInv, VariablesInv', NEW refs \in SUBSET DB,
         Roots' \subseteq Roots \cup refs \cup {None},
         \A q \in refs : q.kind = "method" => q.arg \in Reachable \cup refs \cup {None, Plain}
  PROVE  Reachable' \subseteq Reachable \cup refs
<1>0. None.kind = "none"
  BY DEF None
<1>1. Reachable' = (Roots' \cup {r.arg : r \in {q \in Roots' : q.kind = "method"}}) \ {None, Plain}
  BY DEF Reachable, Roots
<1>2. \A q \in Roots' : q \in Reachable \cup refs \cup {None}
  BY ReachableFacts
<1> SUFFICES ASSUME NEW r \in Reachable' PROVE r \in Reachable \cup refs
  OBVIOUS
<1>3. r \notin {None, Plain}
  BY <1>1
<1>4. CASE r \in Roots'
  BY <1>2, <1>3, <1>4
<1>5. ASSUME NEW q \in Roots', q.kind = "method", r = q.arg PROVE r \in Reachable \cup refs
  <2>1. q \in Reachable \cup refs
    BY <1>0, <1>2, <1>5
  <2>2. q.arg \in Reachable \cup refs \cup {None, Plain}
    BY <1>5, <2>1, ReachableFacts
  <2> QED BY <1>3, <1>5, <2>2
<1> QED BY <1>1, <1>4, <1>5

\* After SetFacade each object has the facade it had, or one of the session.
LEMMA Renewed ==
  ASSUME SInv, VariablesInv', NEW refs \in SUBSET DB, SetFacade(refs),
         Reachable' \subseteq Reachable \cup refs,
         session' \in {session, session + 1},
         session' = session => \A r \in DB : Known(r) => Known(r)',
         \A r \in refs : r.made <= session' /\ Known(r)' /\ TypeByName(r),
         \A r \in Held' : r \in refs \/ (session' = session /\ r \in Reachable /\ facade[r] = session)
  PROVE  FacadeInv' /\ FacadesOfThisSession'
<1>0. session \in Int /\ session' \in Int /\ \A r \in DB : r.made \in Int
  BY Kinds DEF SInv, VariablesInv, Session
<1>1. facade' = [r \in Reachable' |-> IF r \in refs THEN session' ELSE facade[r]]
  BY DEF SetFacade
<1>2. DOMAIN facade' = Reachable'
  BY <1>1
<1>3. ASSUME NEW r \in Reachable' PROVE FacadeOK(r)'
  <2>1. CASE r \in refs
    <3>1. facade'[r] = session'
      BY <1>1, <2>1
    <3> QED BY <1>0, <2>1, <3>1 DEF FacadeOK, TypeByName
  <2>2. CASE r \notin refs
    <3>1. facade'[r] = facade[r] /\ r \in Reachable /\ r \in DB
      BY <1>1, <2>2, ReachableFacts DEF SInv
    <3>2. FacadeOK(r)
      BY <3>1 DEF SInv, FacadeInv
    <3>3. facade[r] <= session'
      BY <1>0, <3>2 DEF FacadeOK
    <3>4. facade[r] = session' => Known(r)'
      BY <1>0, <3>1, <3>2 DEF FacadeOK
    <3> QED BY <3>1, <3>2, <3>3, <3>4 DEF FacadeOK, TypeByName
  <2> QED BY <2>1, <2>2
<1>4. ASSUME NEW r \in Held' PROVE facade'[r] = session'
  <2>1. r \in Reachable'
    <3>1. r \in Roots'
      BY DEF Held, Roots
    <3>2. r \in DB
      BY ReachableFacts DEF SInv
    <3>3. \A q \in Roots' : q \notin {None, Plain} => q \in Reachable'
      BY DEF Reachable, Roots
    <3> QED BY <3>1, <3>2, <3>3, Kinds
  <2>2. CASE r \in refs
    BY <1>1, <2>1, <2>2
  <2>3. CASE r \notin refs
    BY <1>1, <2>1, <2>3
  <2> QED BY <2>2, <2>3
<1> QED BY <1>2, <1>3, <1>4 DEF FacadeInv, FacadesOfThisSession

\* What is held has a facade of this session.
LEMMA HeldFacade == ASSUME SInv PROVE \A r \in Held : r \in Reachable /\ facade[r] = session
BY ReachableFacts DEF SInv, FacadesOfThisSession

----------------------------------------------------------------------------
(* Registration.                                                           *)

\* What leaves the objects alone keeps the facades right, if no class is lost.
LEMMA FacadesKept ==
  ASSUME SInv, UNCHANGED <<session, methodMaps, unbound, stored, hand, facade>>,
         entityMap \subseteq entityMap'
  PROVE  FacadeInv' /\ FacadesOfThisSession'
<1>1. Registered' = Registered /\ Held' = Held
  BY DEF Registered, Held
<1>2. Reachable' = Reachable
  BY <1>1 DEF Reachable
<1>3. \A r \in Reachable : FacadeOK(r)'
  BY DEF SInv, FacadeInv, FacadeOK, Known, TypeByName
<1> QED BY <1>1, <1>2, <1>3 DEF SInv, FacadeInv, FacadesOfThisSession

\* A new Method is the one its name leads to.
LEMMA CreateMethodImplInv ==
  ASSUME SInv, NEW n \in UserName, UNCHANGED <<session, built, stored, hand>>,
         entityMap' \in {entityMap, entityMap \cup {n}},
         creators' \in {creators, creators \cup {n}}, creators' \subseteq entityMap',
         CreateMethodImpl("External", n)
  PROVE  SInv'
<1>0. PICK method : method = Unbounded(session, "External", n)
  OBVIOUS
<1>1. /\ methodMaps' = [methodMaps EXCEPT !["External"] = @ \cup {n}]
      /\ unbound' = [unbound EXCEPT ![n] = method] /\ SetFacade({method})
  BY <1>0 DEF CreateMethodImpl
<1>2. n \in Name /\ "External" \in MethodType /\ "Internal" \in MethodType /\ session \in Session
  BY DEF Name, MethodType, SInv, VariablesInv
<1>3. method \in UnboundedDB
  BY <1>0, <1>2 DEF UnboundedDB
<1>4. /\ method \in DB /\ method.kind = "method" /\ method.made = session
      /\ method.type = "External" /\ method.name = n /\ method.arg = None
  BY <1>0, <1>2, Kinds DEF Unbounded
<1>5. VariablesInv'
  BY <1>1, <1>2, <1>3 DEF SInv, VariablesInv
<1>6. UnboundInv'
  <2>1. \A m \in Name : unbound'[m] # None => unbound'[m].name = m
    BY <1>1, <1>2, <1>4 DEF SInv, VariablesInv, UnboundInv
  <2>2. ASSUME NEW t \in MethodType, NEW m \in methodMaps'[t]
        PROVE  unbound'[m] # None /\ unbound'[m].made = session'
    <3>1. m \in Name
      BY <1>5 DEF VariablesInv
    <3>2. CASE m = n
      BY <1>1, <1>2, <1>4, <3>2, Kinds DEF SInv, VariablesInv
    <3>3. CASE m # n
      BY <1>1, <1>2, <2>2, <3>1, <3>3 DEF SInv, VariablesInv, UnboundInv
    <3> QED BY <3>2, <3>3
  <2> QED BY <2>1, <2>2 DEF UnboundInv
<1>7. Registered' \subseteq Registered \cup {method}
  <2> SUFFICES ASSUME NEW t \in MethodType, NEW m \in methodMaps'[t]
               PROVE  Unbounded(session, t, m) \in Registered \cup {method}
    BY DEF Registered
  <2>1. m \in methodMaps[t] \/ (t = "External" /\ m = n)
    BY <1>1, <1>2 DEF SInv, VariablesInv
  <2> QED BY <1>0, <2>1 DEF Registered
<1>8. FacadeInv' /\ FacadesOfThisSession'
  <2> DEFINE refs == {method}
  <2>0. refs \in SUBSET DB /\ \A r \in refs : r = method
    BY <1>4
  <2>1. Roots' \subseteq Roots \cup refs \cup {None}
    BY <1>1, <1>7 DEF Roots, SInv, VariablesInv
  <2>a. SetFacade(refs) /\ method \in refs
    BY <1>1
  <2> HIDE DEF refs
  <2>2. Reachable' \subseteq Reachable \cup refs
    BY <1>4, <1>5, <2>0, <2>1, RootsGrow DEF SInv
  <2>3. \A r \in DB : Known(r) => Known(r)'
    BY <1>1, Kinds DEF Known, SInv, VariablesInv
  <2>4. Known(method)'
    <3>1. n \in methodMaps'["External"]
      BY <1>1, <1>2 DEF SInv, VariablesInv
    <3> QED BY <1>4, <3>1 DEF Known
  <2>5. TypeByName(method) /\ method.made <= session'
    BY <1>2, <1>4 DEF TypeByName, NamesDiffer, Session
  <2>6. \A r \in Held' : r \in refs \/ r \in Held
    BY <1>7, <2>a DEF Held
  <2> QED BY <1>5, <2>0, <2>a, <2>2, <2>3, <2>4, <2>5, <2>6, HeldFacade, Renewed
<1> QED BY <1>5, <1>6, <1>8 DEF SInv

\* A class that is entered before the call throws stays, and nothing else changes.
LEMMA RegisterInv ==
  ASSUME SInv, NEW n \in UserName, CreateMethod(n) \/ RegisterEntity(n) PROVE SInv'
<1>1. CASE CreateMethod(n)
  BY <1>1, CreateMethodImplInv DEF CreateMethod, SInv, VariablesInv
<1>2. CASE RegisterEntity(n)
  <2>1. entityMap' = entityMap \cup {n} /\ UNCHANGED <<session, built, stored, hand>>
    BY <1>2 DEF RegisterEntity
  <2>2. CASE n \in methodMaps["External"]
    <3>1. UNCHANGED <<methodMaps, creators, unbound, facade>>
      BY <1>2, <2>2 DEF RegisterEntity
    <3>2. VariablesInv' /\ UnboundInv'
      BY <2>1, <3>1 DEF SInv, VariablesInv, UnboundInv
    <3> QED BY <2>1, <3>1, <3>2, FacadesKept DEF SInv
  <2>3. CASE n \notin methodMaps["External"]
    <3>1. creators' = creators \cup {n} /\ CreateMethodImpl("External", n)
      BY <1>2, <2>3 DEF RegisterEntity
    <3>2. creators' \subseteq entityMap'
      BY <2>1, <3>1 DEF SInv, VariablesInv
    <3> QED BY <2>1, <3>1, <3>2, CreateMethodImplInv
  <2> QED BY <2>2, <2>3
<1> QED BY <1>1, <1>2

\* A new session starts with the library's Methods and with no other facade.
LEMMA StartSessionInv == ASSUME SInv, StartSession PROVE SInv'
<1> DEFINE refs == Library(session + 1)
<1>1. /\ session < MaxSessions /\ session' = session + 1 /\ built' = FALSE
      /\ methodMaps' = [t \in MethodType |-> IF t = "Internal" THEN InternalName ELSE {}]
      /\ entityMap' = {} /\ creators' = {} /\ hand' = None /\ UNCHANGED stored
      /\ unbound' = [n \in Name |-> IF n \in InternalName
                                    THEN Unbounded(session + 1, "Internal", n) ELSE unbound[n]]
      /\ SetFacade(refs)
  BY DEF StartSession
<1>2. session \in Session /\ session + 1 \in Session /\ session' # session
      /\ InternalName \subseteq Name /\ MethodType = {"External", "Internal"}
  BY <1>1, NamesAssumption DEF NamesAssumption, Session, Name, MethodType, SInv, VariablesInv
<1>3. \A n \in InternalName :
        LET r == Unbounded(session + 1, "Internal", n)
        IN /\ r \in UnboundedDB /\ r \in DB /\ r \in refs /\ r # None
           /\ r.kind = "method" /\ r.made = session + 1 /\ r.type = "Internal" /\ r.name = n
           /\ r.arg = None
  <2> SUFFICES ASSUME NEW n \in InternalName
               PROVE  LET r == Unbounded(session + 1, "Internal", n)
                      IN /\ r \in UnboundedDB /\ r \in DB /\ r \in refs /\ r # None
                         /\ r.kind = "method" /\ r.made = session + 1 /\ r.type = "Internal"
                         /\ r.name = n /\ r.arg = None
    OBVIOUS
  <2> DEFINE r == Unbounded(session + 1, "Internal", n)
  <2>1. r \in UnboundedDB
    BY <1>2 DEF UnboundedDB
  <2>2. r \in refs
    BY DEF Library
  <2>3. /\ r \in DB /\ r.kind = "method" /\ r.made = session + 1 /\ r.type = "Internal"
        /\ r.name = n /\ r.arg = None
    BY <1>2, Kinds DEF Unbounded
  <2>4. r # None
    BY <2>3, Kinds
  <2> QED BY <2>1, <2>2, <2>3, <2>4
<1>4. \A r \in refs : /\ r \in DB /\ r.made = session' /\ r.kind = "method" /\ r.type = "Internal"
                      /\ r.name \in InternalName /\ r.arg = None
  BY <1>1, <1>3 DEF Library
<1>5. VariablesInv'
  <2>1. unbound' \in [Name -> UnboundedDB \cup {None}]
    BY <1>1, <1>3 DEF SInv, VariablesInv
  <2>2. methodMaps' \in [MethodType -> SUBSET Name] /\ methodMaps'["Internal"] = InternalName
        /\ methodMaps'["External"] = {}
    BY <1>1, <1>2
  <2>3. built' \in BOOLEAN
    BY <1>1, Zenon
  <2> QED BY <1>1, <1>2, <2>1, <2>2, <2>3 DEF SInv, VariablesInv
<1>6. UnboundInv'
  <2>1. ASSUME NEW n \in Name, unbound'[n] # None PROVE unbound'[n].name = n
    <3>1. CASE n \in InternalName
      BY <1>1, <1>3, <3>1
    <3>2. CASE n \notin InternalName
      BY <1>1, <2>1, <3>2 DEF SInv, UnboundInv
    <3> QED BY <3>1, <3>2
  <2>2. ASSUME NEW t \in MethodType, NEW n \in methodMaps'[t]
        PROVE  unbound'[n] # None /\ unbound'[n].made = session'
    <3>1. n \in InternalName
      BY <1>1, <2>2
    <3>2. unbound'[n] = Unbounded(session + 1, "Internal", n)
      BY <1>1, <1>2, <3>1
    <3> QED BY <1>1, <1>3, <3>1, <3>2
  <2> QED BY <2>1, <2>2 DEF UnboundInv
<1>7. Registered' \subseteq refs
  <2> SUFFICES ASSUME NEW t \in MethodType, NEW n \in methodMaps'[t]
               PROVE  Unbounded(session', t, n) \in refs
    BY DEF Registered
  <2>1. t = "Internal" /\ n \in InternalName
    BY <1>1
  <2> QED BY <1>1, <1>3, <2>1
<1>8. FacadeInv' /\ FacadesOfThisSession'
  <2>1. \A n \in Name : unbound'[n] \in refs \cup {unbound[n]}
    BY <1>1, <1>3
  <2>2. Roots' \subseteq Roots \cup refs \cup {None}
    BY <1>1, <1>7, <2>1 DEF Roots
  <2>3. refs \in SUBSET DB
    BY <1>4
  <2>4. Reachable' \subseteq Reachable \cup refs
    BY <1>4, <1>5, <2>2, <2>3, RootsGrow DEF SInv
  <2>5. \A r \in refs : Known(r)' /\ TypeByName(r) /\ r.made <= session'
    BY <1>1, <1>2, <1>4, <1>5 DEF Known, TypeByName, VariablesInv, Session
  <2>6. \A r \in Held' : r \in refs
    BY <1>1, <1>7 DEF Held
  <2> HIDE DEF refs
  <2> QED BY <1>1, <1>2, <1>5, <2>3, <2>4, <2>5, <2>6, Renewed
<1> QED BY <1>5, <1>6, <1>8 DEF SInv

----------------------------------------------------------------------------
(* Objects and slots.                                                      *)

\* Between sessions a step that registers nothing only moves objects.
LEMMA MoveInv ==
  ASSUME SInv, NEW refs \in SUBSET DB, SetFacade(refs),
         UNCHANGED <<session, built, methodMaps, entityMap, creators, unbound>>,
         stored' \in [Slot -> DB \cup {None}], hand' \in DB \cup {None},
         \A s \in Slot : stored'[s] \in Roots \cup {None},
         hand' \in refs \/ hand' = hand
           \/ (hand' \in Reachable /\ facade[hand'] = session),
         \A r \in refs : /\ r.made <= session /\ Known(r) /\ TypeByName(r)
                         /\ r.kind = "method" => r.arg \in Reachable \cup refs \cup {None, Plain}
  PROVE  SInv'
<1>1. VariablesInv' /\ UnboundInv'
  BY DEF SInv, VariablesInv, UnboundInv
<1>2. Registered' = Registered
  BY DEF Registered
<1>3. Reachable' \subseteq Reachable \cup refs
  <2>1. CASE hand' \in refs \/ hand' = hand
    <3>1. Roots' \subseteq Roots \cup refs \cup {None}
      BY <1>2, <2>1 DEF Roots
    <3> QED BY <1>1, <3>1, RootsGrow DEF SInv
  <2>2. CASE hand' \in Reachable
    <3>1. Reachable' = (Roots' \cup {r.arg : r \in {q \in Roots' : q.kind = "method"}}) \ {None, Plain}
      BY DEF Reachable, Roots
    <3>2. \A r \in Roots' : r = None \/ r \in Reachable
      <4>1. \A r \in Roots' : r \in Roots \cup {None} \/ r = hand'
        BY <1>2 DEF Roots
      <4> QED BY <2>2, <4>1, ReachableFacts DEF SInv
    <3>3. \A r \in Roots' : r.kind = "method" => r.arg \in Reachable \cup {None, Plain}
      BY <3>2, ReachableFacts DEF SInv, None
    <3> QED BY <3>1, <3>2, <3>3
  <2> QED BY <2>1, <2>2
<1>4. \A r \in Held' : r \in refs \/ (r \in Reachable /\ facade[r] = session)
  <2>1. \A r \in Held' : r \in Registered \/ (r = hand' /\ r # None)
    BY <1>2 DEF Held
  <2>2. \A r \in Registered : r \in Held
    BY DEF Held
  <2>3. hand # None => hand \in Held
    BY DEF Held
  <2> QED BY <2>1, <2>2, <2>3, HeldFacade
<1>5. \A r \in DB : Known(r) => Known(r)'
  BY DEF Known
<1>6. \A r \in refs : Known(r)'
  BY DEF Known
<1> QED BY <1>1, <1>3, <1>4, <1>5, <1>6, Renewed DEF SInv

\* A new object.
LEMMA MakeInv ==
  ASSUME SInv, NEW r \in DB, r.made = session, Known(r), TypeByName(r),
         r.kind = "method" => r.arg \in Reachable \cup {Plain}, Make(r)
  PROVE  SInv'
<1>1. PICK refs \in SUBSET DB : refs = {r}
  OBVIOUS
<1>2. /\ hand' = r /\ stored' = stored /\ SetFacade(refs)
      /\ UNCHANGED <<session, built, methodMaps, entityMap, creators, unbound>>
  BY <1>1 DEF Make
<1>3. /\ \A s \in Slot : stored'[s] \in Roots
      /\ stored' \in [Slot -> DB \cup {None}] /\ hand' \in DB \cup {None}
      /\ r.made <= session
  BY <1>2 DEF Roots, SInv, VariablesInv, Session
<1> QED BY <1>1, <1>2, <1>3, MoveInv

\* Binding keeps the type and the name; an Entity has the name of its class.
LEMMA MakersInv ==
  ASSUME SInv,
         \/ \E m \in Held, a \in (Held \cap Argument) \cup {Plain} : BindArgs(m, a)
         \/ \E n \in UserName : CreateEntity(n)
         \/ CreateContainer
  PROVE  SInv'
<1>0. session \in Session
  BY DEF SInv, VariablesInv
<1>1. ASSUME NEW m \in Held, NEW a \in (Held \cap Argument) \cup {Plain}, BindArgs(m, a) PROVE SInv'
  <2>1. m \in Reachable /\ facade[m] = session /\ m \in DB /\ m.kind = "method"
    BY <1>1, HeldFacade, ReachableFacts DEF BindArgs, SInv
  <2>2. m.type \in MethodType /\ m.name \in Name /\ Known(m) /\ TypeByName(m)
    BY <2>1, Kinds DEF SInv, FacadeInv, FacadeOK
  <2>3. PICK r : r = MethodDB(session, m.type, m.name, a)
    OBVIOUS
  <2>4. a \in Argument /\ a \in Reachable \cup {Plain}
    BY HeldFacade DEF Argument
  <2>5. /\ r \in DB /\ r.kind = "method" /\ r.made = session /\ r.type = m.type
        /\ r.name = m.name /\ r.arg = a
    BY <1>0, <2>2, <2>3, <2>4, Kinds
  <2>6. Known(r) /\ TypeByName(r)
    BY <2>1, <2>2, <2>5 DEF Known, TypeByName
  <2> QED BY <1>1, <2>3, <2>4, <2>5, <2>6, MakeInv DEF BindArgs
<1>2. ASSUME NEW n \in UserName, CreateEntity(n) PROVE SInv'
  <2>1. PICK r : r = EntityDB(session, n)
    OBVIOUS
  <2>2. r \in DB /\ r.kind = "entity" /\ r.made = session /\ r.name = n
    BY <1>0, <2>1, Kinds
  <2>3. n \in entityMap
    BY <1>2 DEF CreateEntity, SInv, VariablesInv
  <2>4. Known(r) /\ TypeByName(r)
    BY <2>2, <2>3 DEF Known, TypeByName
  <2> QED BY <1>2, <2>1, <2>2, <2>4, MakeInv DEF CreateEntity
<1>3. CASE CreateContainer
  <2>1. PICK r : r = ContainerDB(session)
    OBVIOUS
  <2>2. r \in DB /\ r.kind = "container" /\ r.made = session
    BY <1>0, <2>1, Kinds
  <2>3. Known(r) /\ TypeByName(r)
    BY <2>2 DEF Known, TypeByName
  <2> QED BY <1>3, <2>1, <2>2, <2>3, MakeInv DEF CreateContainer
<1> QED BY <1>1, <1>2, <1>3

\* What is stored was in hand.
LEMMA StoreInv == ASSUME SInv, NEW s \in Slot, NEW r \in Held, Store(s, r) PROVE SInv'
<1>1. PICK refs \in SUBSET DB : refs = {}
  OBVIOUS
<1>2. /\ stored' = [stored EXCEPT ![s] = r] /\ hand' = hand /\ SetFacade(refs)
      /\ UNCHANGED <<session, built, methodMaps, entityMap, creators, unbound>>
  BY <1>1 DEF Store
<1>3. r \in DB /\ r \in Roots
  BY HeldFacade, ReachableFacts DEF SInv, Held, Roots
<1>4. stored' \in [Slot -> DB \cup {None}] /\ hand' \in DB \cup {None}
  BY <1>2, <1>3 DEF SInv, VariablesInv
<1>5. \A q \in Slot : stored'[q] \in Roots
  BY <1>2, <1>3 DEF Roots, SInv, VariablesInv
<1> QED BY <1>1, <1>2, <1>4, <1>5, MoveInv

----------------------------------------------------------------------------
(* Reading.                                                                *)

\* A read leads to an object there is already.
LEMMA DeserializeFacts ==
  ASSUME SInv, NEW r \in Reachable \cup {None, Plain}
  PROVE  Deserialize(r) \in Reachable \cup {None, Plain}
<1>1. CASE r.kind = "method" /\ r.arg = None /\ unbound[r.name] # None
  <2>1. r \in DB /\ r.name \in Name
    BY <1>1, Kinds, ReachableFacts DEF SInv, None, Plain
  <2>2. unbound[r.name] \in Reachable
    BY <1>1, <2>1, ReachableFacts DEF SInv, Roots
  <2> QED BY <1>1, <2>2 DEF Deserialize
<1>2. CASE ~(r.kind = "method" /\ r.arg = None /\ unbound[r.name] # None)
  BY <1>2 DEF Deserialize
<1> QED BY <1>1, <1>2

\* User code gets nothing, or something this session knows or stands in for.
LEMMA ReturnedFacts ==
  ASSUME SInv, NEW r \in Reachable \cup {None, Plain}
  PROVE  \/ Returned(r) \in {None, Plain, Missing}
         \/ /\ Returned(r) \in DB /\ Returned(r).made <= session
            /\ Known(Returned(r)) /\ TypeByName(Returned(r))
            /\ Returned(r).kind = "method" => Returned(r).arg \in Reachable \cup {None, Plain}
<1>1. CASE r \in {None, Plain}
  BY <1>1 DEF Returned, None, Plain
<1>2. CASE r \in Reachable
  <2>1. /\ r \in DB /\ FacadeOK(r) /\ TypeByName(r) /\ r.made <= session
        /\ (r.kind = "method" => r.arg \in Reachable \cup {None, Plain})
    <3>1. /\ r \in DB /\ FacadeOK(r) /\ (r.kind = "method" => r.arg \in Reachable \cup {None, Plain})
      BY <1>2, ReachableFacts DEF SInv, FacadeInv
    <3>2. session \in Int /\ r.made \in Int
      BY <3>1, Kinds DEF SInv, VariablesInv, Session
    <3> QED BY <3>1, <3>2 DEF FacadeOK
  <2>2. GetFacade(r) => Known(r)
    BY <2>1 DEF GetFacade, FacadeOK
  <2>3. ASSUME r.kind = "method", ~Known(r)
        PROVE  /\ Returned(r) \in DB /\ Returned(r).made <= session
               /\ Known(Returned(r)) /\ TypeByName(Returned(r))
               /\ Returned(r).arg = Plain
    <3>1. PICK q : q = MethodDB(session, "Internal", Thrower, Plain)
      OBVIOUS
    <3>2. Returned(r) = q
      BY <2>2, <2>3, <3>1 DEF Returned, GetMethodFromMethodDB, Known
    <3>3. /\ session \in Session /\ "Internal" \in MethodType /\ Thrower \in Name
          /\ Plain \in Argument /\ Thrower \in methodMaps["Internal"] /\ Thrower \in InternalName
      BY NamesAssumption DEF NamesAssumption, SInv, VariablesInv, MethodType, Name, Argument
    <3>4. /\ q \in DB /\ q.made = session /\ q.kind = "method" /\ q.type = "Internal"
          /\ q.name = Thrower /\ q.arg = Plain
      BY <3>1, <3>3, Kinds
    <3>5. Known(q) /\ TypeByName(q) /\ q.made <= session
      BY <3>3, <3>4 DEF Known, TypeByName, Session
    <3> QED BY <3>2, <3>4, <3>5
  <2>4. ASSUME r.kind = "method", Known(r) PROVE Returned(r) = r
    BY <2>4 DEF Returned, GetMethodFromMethodDB, Known
  <2>5. ASSUME r.kind = "entity" PROVE Returned(r) = Missing \/ (Returned(r) = r /\ Known(r))
    BY <2>2, <2>5 DEF Returned, GetEntityFromEntityDB, Known
  <2>6. ASSUME r.kind = "container" PROVE Returned(r) = r /\ Known(r)
    BY <2>6 DEF Returned, Known
  <2> QED BY <2>1, <2>3, <2>4, <2>5, <2>6, Kinds
<1> QED BY <1>1, <1>2

\* What is received has its facade or gets one.
LEMMA ReceiveInv ==
  ASSUME SInv, NEW r \in Reachable \cup {None, Plain}, Receive(r),
         UNCHANGED <<session, built, methodMaps, entityMap, creators, unbound>>,
         stored' \in [Slot -> DB \cup {None}], \A s \in Slot : stored'[s] \in Roots \cup {None}
  PROVE  SInv'
<1>1. PICK got : got = Returned(r)
  OBVIOUS
<1>2. CASE got \in {None, Plain, Missing}
  <2>1. PICK refs \in SUBSET DB : refs = {}
    OBVIOUS
  <2>2. hand' = hand /\ SetFacade(refs)
    BY <1>1, <1>2, <2>1 DEF Receive
  <2>3. hand' \in DB \cup {None}
    BY <2>2 DEF SInv, VariablesInv
  <2> QED BY <2>1, <2>2, <2>3, MoveInv
<1>3. CASE got \notin {None, Plain, Missing}
  <2>1. /\ got \in DB /\ got.made <= session /\ Known(got) /\ TypeByName(got)
        /\ (got.kind = "method" => got.arg \in Reachable \cup {None, Plain})
    BY <1>1, <1>3, ReturnedFacts
  <2>2. PICK refs \in SUBSET DB : refs = IF GetFacade(got) THEN {} ELSE {got}
    BY <2>1
  <2>3. hand' = got /\ SetFacade(refs)
    BY <1>1, <1>3, <2>2 DEF Receive
  <2>4. hand' \in refs \/ (hand' \in Reachable /\ facade[hand'] = session)
    BY <2>2, <2>3 DEF GetFacade, SInv, FacadeInv
  <2> QED BY <2>1, <2>2, <2>3, <2>4, MoveInv
<1> QED BY <1>2, <1>3

\* Reads in the two ways, and the reaction that hands a Method its argument.
LEMMA ReadersInv ==
  ASSUME SInv, NEW s \in Slot, Read(s) \/ Iterate(s) \/ RunReaction(s) PROVE SInv'
<1>0. /\ stored \in [Slot -> DB \cup {None}] /\ \A q \in Slot : stored[q] \in Roots
      /\ stored[s] \in Reachable \cup {None}
  BY ReachableFacts DEF SInv, VariablesInv, Roots
<1>1. CASE Read(s) \/ Iterate(s)
  <2>1. /\ stored' = stored /\ UNCHANGED <<session, built, methodMaps, entityMap, creators, unbound>>
        /\ Receive(Deserialize(stored[s])) \/ Receive(stored[s])
    BY <1>1 DEF Read, Iterate
  <2> QED BY <1>0, <2>1, DeserializeFacts, ReceiveInv
<1>2. CASE RunReaction(s)
  <2>1. /\ stored' = [stored EXCEPT ![s] = None] /\ stored[s].kind = "method"
        /\ UNCHANGED <<session, built, methodMaps, entityMap, creators, unbound>>
        /\ \/ Receive(Deserialize(Deserialize(stored[s]).arg))
           \/ UNCHANGED hand /\ SetFacade({})
    BY <1>2 DEF RunReaction
  <2>2. /\ stored' \in [Slot -> DB \cup {None}] /\ \A q \in Slot : stored'[q] \in Roots \cup {None}
    BY <1>0, <2>1
  <2>3. CASE Receive(Deserialize(Deserialize(stored[s]).arg))
    <3>1. PICK m \in Reachable \cup {None, Plain} : m = Deserialize(stored[s])
      BY <1>0, DeserializeFacts
    <3>2. m.kind = "method"
      <4>1. m = stored[s] \/ (m = unbound[stored[s].name] /\ m # None)
        BY <3>1 DEF Deserialize
      <4>2. stored[s] \in DB /\ stored[s].name \in Name
        BY <1>0, <2>1, Kinds DEF None
      <4> QED BY <2>1, <4>1, <4>2, Kinds DEF SInv, VariablesInv
    <3>3. m.arg \in Reachable \cup {None, Plain}
      BY <3>2, ReachableFacts DEF SInv, None, Plain
    <3> QED BY <2>1, <2>2, <2>3, <3>1, <3>3, DeserializeFacts, ReceiveInv
  <2>4. CASE UNCHANGED hand /\ SetFacade({})
    <3>1. PICK refs \in SUBSET DB : refs = {}
      OBVIOUS
    <3>2. hand' \in DB \cup {None}
      BY <2>4 DEF SInv, VariablesInv
    <3> QED BY <2>1, <2>2, <2>4, <3>1, <3>2, MoveInv
  <2> QED BY <2>1, <2>3, <2>4
<1> QED BY <1>1, <1>2

----------------------------------------------------------------------------
(* The invariant holds.                                                    *)

\* At first there are the library's Methods and nothing else.
LEMMA InitSInv == Init => SInv
<1> SUFFICES ASSUME Init PROVE SInv
  OBVIOUS
<1>1. /\ session = 1 /\ built = FALSE /\ entityMap = {} /\ creators = {} /\ hand = None
      /\ methodMaps = [t \in MethodType |-> IF t = "Internal" THEN InternalName ELSE {}]
      /\ unbound = [n \in Name |-> IF n \in InternalName THEN Unbounded(1, "Internal", n) ELSE None]
      /\ facade = [r \in Library(1) |-> 1] /\ stored = [s \in Slot |-> None]
  BY DEF Init
<1>2. 1 \in Session /\ InternalName \subseteq Name /\ MethodType = {"External", "Internal"}
  BY NamesAssumption DEF NamesAssumption, Session, Name, MethodType
<1>3. \A n \in InternalName : /\ Unbounded(1, "Internal", n) \in Library(1)
                              /\ Unbounded(1, "Internal", n) \in UnboundedDB
                              /\ Unbounded(1, "Internal", n).name = n
                              /\ Unbounded(1, "Internal", n) # None
  <2> SUFFICES ASSUME NEW n \in InternalName
               PROVE  /\ Unbounded(1, "Internal", n) \in Library(1)
                      /\ Unbounded(1, "Internal", n) \in UnboundedDB
                      /\ Unbounded(1, "Internal", n).name = n
                      /\ Unbounded(1, "Internal", n) # None
    OBVIOUS
  <2>1. Unbounded(1, "Internal", n) \in Library(1)
    BY DEF Library
  <2>2. Unbounded(1, "Internal", n) \in UnboundedDB
    BY <1>2 DEF UnboundedDB
  <2>3. Unbounded(1, "Internal", n).name = n
    BY DEF Unbounded, MethodDB
  <2> QED BY <2>1, <2>2, <2>3, Kinds
<1>4. \A r \in Library(1) : /\ r \in DB /\ r \in UnboundedDB /\ r.kind = "method" /\ r.made = 1
                            /\ r.type = "Internal" /\ r.name \in InternalName /\ r.arg = None
  <2>1. \A n \in InternalName : Unbounded(1, "Internal", n).type = "Internal"
                                /\ Unbounded(1, "Internal", n).made = 1
    BY DEF Unbounded, MethodDB
  <2> QED BY <1>3, <2>1, Kinds DEF Library
<1>5. VariablesInv
  <2>1. unbound \in [Name -> UnboundedDB \cup {None}]
    BY <1>1, <1>3
  <2>2. methodMaps \in [MethodType -> SUBSET Name] /\ methodMaps["Internal"] = InternalName
        /\ methodMaps["External"] = {}
    BY <1>1, <1>2
  <2>3. built \in BOOLEAN
    BY <1>1, Zenon
  <2> QED BY <1>1, <1>2, <2>1, <2>2, <2>3 DEF VariablesInv
<1>6. \A t \in MethodType : \A n \in methodMaps[t] :
        t = "Internal" /\ n \in InternalName /\ unbound[n] = Unbounded(1, "Internal", n)
  BY <1>1, <1>2
<1>7. UnboundInv
  <2>1. \A n \in Name : unbound[n] # None => unbound[n].name = n
    BY <1>1, <1>3
  <2>2. \A n \in InternalName : Unbounded(1, "Internal", n).made = 1
    BY <1>3, <1>4
  <2> QED BY <1>1, <1>3, <1>6, <2>1, <2>2 DEF UnboundInv
<1>8. Registered \subseteq Library(1)
  <2> SUFFICES ASSUME NEW t \in MethodType, NEW n \in methodMaps[t]
               PROVE  Unbounded(session, t, n) \in Library(1)
    BY DEF Registered
  <2> QED BY <1>1, <1>3, <1>6
<1>9. Reachable = Library(1)
  <2>1. Roots \subseteq Library(1) \cup {None}
    BY <1>1, <1>3, <1>8 DEF Roots
  <2>2. \A r \in Reachable : r \in Roots \/ \E q \in Roots : q.kind = "method" /\ r = q.arg
    BY <1>5, ReachableFacts
  <2>3. None.kind = "none" /\ \A r \in Reachable : r # None
    BY Kinds, <1>5, ReachableFacts DEF None
  <2>4. Reachable \subseteq Library(1)
    BY <1>4, <2>1, <2>2, <2>3
  <2>5. \A n \in InternalName : Unbounded(1, "Internal", n) \in Roots
    BY <1>1, <1>2 DEF Roots
  <2>6. Library(1) \subseteq Reachable
    BY <1>3, <1>5, <2>5, ReachableFacts DEF Library
  <2> QED BY <2>4, <2>6
<1>10. \A r \in Library(1) : FacadeOK(r)
  <2> SUFFICES ASSUME NEW r \in Library(1) PROVE FacadeOK(r)
    OBVIOUS
  <2>1. facade[r] = 1
    BY <1>1
  <2>2. Known(r)
    BY <1>4, <1>5 DEF Known, VariablesInv
  <2> QED BY <1>1, <1>4, <2>1, <2>2 DEF FacadeOK, TypeByName
<1>11. FacadesOfThisSession
  <2>1. Held \subseteq Library(1)
    BY <1>5, <1>9, ReachableFacts
  <2> QED BY <1>1, <2>1 DEF FacadesOfThisSession
<1>12. DOMAIN facade = Library(1)
  BY <1>1
<1> QED BY <1>5, <1>7, <1>9, <1>10, <1>11, <1>12 DEF SInv, FacadeInv

\* Every step keeps it.
LEMMA NextSInv == SInv /\ [Next]_vars => SInv'
<1> SUFFICES ASSUME SInv, [Next]_vars PROVE SInv'
  OBVIOUS
<1>1. CASE \E n \in UserName : CreateMethod(n) \/ RegisterEntity(n)
  BY <1>1, RegisterInv
<1>2. CASE \/ \E m \in Held, a \in (Held \cap Argument) \cup {Plain} : BindArgs(m, a)
           \/ \E n \in UserName : CreateEntity(n)
           \/ CreateContainer
  BY <1>2, MakersInv
<1>3. CASE Build \/ UNCHANGED vars
  <2>1. /\ UNCHANGED <<session, methodMaps, entityMap, creators, unbound, facade, stored, hand>>
        /\ built' \in BOOLEAN
    <3>1. CASE Build
      BY <3>1, Zenon DEF Build
    <3>2. CASE UNCHANGED vars
      BY <3>2 DEF vars, SInv, VariablesInv
    <3> QED BY <1>3, <3>1, <3>2
  <2>2. VariablesInv' /\ UnboundInv'
    BY <2>1 DEF SInv, VariablesInv, UnboundInv
  <2> QED BY <2>1, <2>2, FacadesKept DEF SInv
<1>4. CASE StartSession
  BY <1>4, StartSessionInv
<1>5. CASE \E s \in Slot : Read(s) \/ Iterate(s) \/ RunReaction(s)
  BY <1>5, ReadersInv
<1>6. CASE \E s \in Slot, r \in Held : Store(s, r)
  BY <1>6, StoreInv
<1> QED BY <1>1, <1>2, <1>3, <1>4, <1>5, <1>6 DEF Next

\* SInv is an invariant: what the maps, the store and the facades say of each other.
THEOREM SessionsInvariant == Spec => []SInv
BY InitSInv, NextSInv, PTL DEF Spec

\* The types of the variables, and that each facade is no older than its object.
THEOREM SessionsTypes == Spec => []TypeOK
<1>1. SInv => TypeOK
  <2> SUFFICES ASSUME SInv PROVE TypeOK
    OBVIOUS
  <2>1. DOMAIN facade = Reachable /\ Reachable \subseteq DB
    BY ReachableFacts DEF SInv, FacadeInv
  <2>2. /\ \A s \in Slot : stored[s] \in DOMAIN facade \cup {None}
        /\ hand \in DOMAIN facade \cup {None}
    BY <2>1, ReachableFacts DEF SInv, Roots
  <2>3. \A r \in DOMAIN facade : r.made <= facade[r] /\ facade[r] <= session
    BY <2>1 DEF SInv, FacadeInv, FacadeOK
  <2> QED BY <2>1, <2>2, <2>3 DEF TypeOK, SInv, VariablesInv
<1> QED BY <1>1, SessionsInvariant, PTL

\* What user code holds belongs to the machine of this session.
THEOREM FacadesAreOfThisSession == Spec => []FacadesOfThisSession
<1>1. SInv => FacadesOfThisSession
  BY DEF SInv
<1> QED BY <1>1, SessionsInvariant, PTL

----------------------------------------------------------------------------
(* What is read back and run.                                              *)

\* If the user's names are not the library's, a Method is read back as one of its kind.
LEMMA ReadBack ==
  ASSUME SInv, NamesDiffer, NEW r \in Reachable, r.kind = "method"
  PROVE  LET d == Deserialize(r)
         IN /\ d \in Reachable /\ d.kind = "method" /\ d.type = r.type /\ d.name = r.name
            /\ d.arg = r.arg
            /\ r.arg = None /\ Known(r) => d = Unbounded(session, r.type, r.name)
<1>1. r \in DB /\ r.type \in MethodType /\ r.name \in Name /\ TypeByName(r)
  BY ReachableFacts, Kinds DEF SInv, FacadeInv, FacadeOK
<1>2. CASE ~(r.arg = None /\ unbound[r.name] # None)
  <2>1. Deserialize(r) = r
    BY <1>2 DEF Deserialize
  <2>2. ~(r.arg = None /\ Known(r))
    BY <1>1, <1>2 DEF SInv, UnboundInv, Known
  <2> QED BY <2>1, <2>2
<1>3. CASE r.arg = None /\ unbound[r.name] # None
  <2>1. PICK d : d = unbound[r.name]
    OBVIOUS
  <2>2. Deserialize(r) = d
    BY <1>3, <2>1 DEF Deserialize
  <2>3. d \in UnboundedDB /\ d \in Reachable /\ d.name = r.name
    BY <1>1, <1>3, <2>1, ReachableFacts DEF SInv, VariablesInv, UnboundInv, Roots
  <2>4. d.kind = "method" /\ d.arg = None /\ d \in DB /\ d.type \in MethodType /\ TypeByName(d)
    BY <2>3, Kinds DEF SInv, FacadeInv, FacadeOK
  <2>5. d.type = r.type
    BY <1>1, <2>3, <2>4 DEF TypeByName, MethodType
  <2>6. Known(r) => d.made = session
    BY <1>1, <2>1 DEF Known, SInv, UnboundInv
  <2>7. d = Unbounded(d.made, d.type, d.name)
    BY <2>3 DEF UnboundedDB, Unbounded, MethodDB
  <2> QED BY <1>3, <2>2, <2>3, <2>4, <2>5, <2>6, <2>7
<1> QED BY <1>2, <1>3

\* What an argument is handed over as.
LEMMA ArgumentRead ==
  ASSUME SInv, NamesDiffer, NEW a \in Reachable \cup {None, Plain}
  PROVE  LET got == Returned(Deserialize(a))
         IN /\ got = Missing <=> a.kind = "entity" /\ ~Known(a)
            /\ Known(a) => Alike(got, a)
<1>1. CASE a \in {None, Plain}
  BY <1>1 DEF Returned, Deserialize, Alike, None, Plain, Missing
<1>2. CASE a \in Reachable
  <2>1. a \in DB /\ a # Missing /\ (GetFacade(a) => Known(a))
    BY <1>2, ReachableFacts, Kinds DEF SInv, FacadeInv, FacadeOK, GetFacade
  <2>2. CASE a.kind = "method"
    <3>1. PICK d : d = Deserialize(a)
      OBVIOUS
    <3>2. d \in Reachable /\ d.kind = "method" /\ d.type = a.type /\ d.name = a.name
      BY <1>2, <2>2, <3>1, ReadBack
    <3>3. PICK got : got = Returned(d)
      OBVIOUS
    <3>4. got = GetMethodFromMethodDB(d)
      BY <3>2, <3>3 DEF Returned
    <3>5. Known(a) => got = d
      BY <2>2, <3>2, <3>4 DEF Known, GetMethodFromMethodDB
    <3>6. got.kind = "method"
      BY <3>2, <3>4 DEF GetMethodFromMethodDB, MethodDB
    <3>7. got # Missing
      BY <3>6 DEF Missing
    <3> QED BY <2>2, <3>1, <3>2, <3>3, <3>5, <3>7 DEF Alike
  <2>3. CASE a.kind = "entity"
    <3>1. Deserialize(a) = a /\ Returned(a) = GetEntityFromEntityDB(a)
      BY <2>3 DEF Deserialize, Returned
    <3>2. Known(a) <=> a.name \in entityMap
      BY <2>3 DEF Known
    <3> QED BY <2>1, <2>3, <3>1, <3>2 DEF GetEntityFromEntityDB, Alike
  <2>4. CASE a.kind = "container"
    BY <2>1, <2>4 DEF Deserialize, Returned, Alike
  <2> QED BY <2>1, <2>2, <2>3, <2>4, Kinds
<1> QED BY <1>1, <1>2

\* A Method that is read from the store is the one created at the start of the session.
THEOREM OriginalMethodsRead ==
  ASSUME NamesDiffer PROVE Spec => []OriginalMethods
<1>1. SInv => OriginalMethods
  <2> SUFFICES ASSUME SInv, NEW s \in Slot, stored[s].kind = "method", stored[s].arg = None,
                      Known(stored[s])
               PROVE  Deserialize(stored[s]) = Unbounded(session, stored[s].type, stored[s].name)
    BY DEF OriginalMethods
  <2>1. stored[s] \in Reachable
    BY ReachableFacts DEF SInv, Roots, None
  <2> QED BY <2>1, ReadBack
<1> QED BY <1>1, SessionsInvariant, PTL

\* A reaction runs the Method this session registered as the one that was stored, with
\* what it was bound to, or rejects.
THEOREM RunAsRegistered ==
  ASSUME NamesDiffer PROVE Spec => []RunsAsRegistered
<1>1. SInv => RunsAsRegistered
  <2> SUFFICES ASSUME SInv, NEW s \in Slot, stored[s].kind = "method"
               PROVE  LET r == stored[s]
                      IN IF ~Known(r) \/ (r.arg.kind = "entity" /\ ~Known(r.arg))
                         THEN Ran(s) = Missing
                         ELSE /\ Ran(s) # Missing
                              /\ Ran(s).type = r.type
                              /\ Ran(s).name = r.name
                              /\ Known(r.arg) => Alike(Ran(s).arg, r.arg)
    BY DEF RunsAsRegistered
  <2>1. PICK r : r = stored[s]
    OBVIOUS
  <2>2. r \in Reachable /\ r.kind = "method"
    BY <2>1, ReachableFacts DEF SInv, Roots, None
  <2>3. PICK m : m = Deserialize(r)
    OBVIOUS
  <2>4. m.type = r.type /\ m.name = r.name /\ m.arg = r.arg
    BY <2>2, <2>3, ReadBack
  <2>5. PICK arg : arg = Returned(Deserialize(r.arg))
    OBVIOUS
  <2>6. r.arg \in Reachable \cup {None, Plain}
    BY <2>2, ReachableFacts DEF SInv
  <2>7. /\ arg = Missing <=> r.arg.kind = "entity" /\ ~Known(r.arg)
        /\ Known(r.arg) => Alike(arg, r.arg)
    BY <2>5, <2>6, ArgumentRead
  <2>8. Known(r) <=> r.name \in methodMaps[r.type]
    BY <2>2 DEF Known
  <2>9. Ran(s) = IF ~Known(r) \/ arg = Missing THEN Missing
                 ELSE [type |-> r.type, name |-> r.name, arg |-> arg]
    BY <2>1, <2>3, <2>4, <2>5, <2>8 DEF Ran
  <2>10. [type |-> r.type, name |-> r.name, arg |-> arg] # Missing
    <3>1. "type" \in DOMAIN [type |-> r.type, name |-> r.name, arg |-> arg]
      OBVIOUS
    <3>2. "type" \notin DOMAIN Missing
      BY DEF Missing
    <3> QED BY <3>1, <3>2
  <2> QED BY <2>1, <2>7, <2>9, <2>10
<1> QED BY <1>1, SessionsInvariant, PTL
=============================================================================
