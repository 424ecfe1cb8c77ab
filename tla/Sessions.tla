------------------------------ MODULE Sessions ------------------------------
(***************************************************************************)
(* Methods, Entities and containers by name, over an in-memory store that  *)
(* is closed and used again by the next session.  The store keeps the      *)
(* MethodDBs, EntityDBs and container DBs; what user code gets from a read *)
(* is a facade, a Method or an instance, made for the session's machine.   *)
(*                                                                         *)
(* A DB object is a record of what it was made from.  Two objects made     *)
(* alike in one session are one record: they cannot be told apart by what  *)
(* they run.  A bound Method has one argument; two levels of binding are   *)
(* left out.                                                               *)
(***************************************************************************)
EXTENDS Integers, FiniteSets

CONSTANTS
  UserName,      \* names user code registers Methods and Entities under
  InternalName,  \* names of the library's own Methods
  Slot,          \* places on the store: reactions, elements of stored containers
  MaxSessions    \* bound: how many sessions there are

Thrower == "thrower"

ASSUME NamesAssumption ==
  /\ Thrower \in InternalName \ UserName
  /\ MaxSessions \in Nat \ {0}

Name == UserName \cup InternalName
MethodType == {"External", "Internal"}
Session == 1..MaxSessions
None == [kind |-> "none"]
Plain == [kind |-> "plain"]
Missing == [kind |-> "missing"]

VARIABLES
  session,     \* the store's instanceId
  built,       \* whether this session's machine is built
  methodMaps,  \* per type, the names of this session's Methods
  entityMap,   \* the names of this session's Entity classes
  creators,    \* the names of the Methods that create an Entity
  unbound,     \* unboundMethodMap: per name, a MethodDB without arguments
  facade,      \* per DB object there is, the session its facade was made for
  stored,      \* what is stored in each slot
  hand         \* what user code made or read last, besides the Methods it registered

vars == <<session, built, methodMaps, entityMap, creators, unbound, facade, stored, hand>>

MethodDB(made, type, name, arg) ==
  [kind |-> "method", made |-> made, type |-> type, name |-> name, arg |-> arg]
Unbounded(made, type, name) == MethodDB(made, type, name, None)
EntityDB(made, name) == [kind |-> "entity", made |-> made, name |-> name]
ContainerDB(made) == [kind |-> "container", made |-> made]

UnboundedDB == {Unbounded(s, t, n) : s \in Session, t \in MethodType, n \in Name}
Argument == {Plain} \cup UnboundedDB
            \cup {EntityDB(s, n) : s \in Session, n \in UserName}
            \cup {ContainerDB(s) : s \in Session}
DB == (Argument \ {Plain})
      \cup {MethodDB(s, t, n, a) : s \in Session, t \in MethodType, n \in Name, a \in Argument}

TypeOK ==
  /\ session \in Session
  /\ built \in BOOLEAN
  /\ methodMaps \in [MethodType -> SUBSET Name]
  /\ creators \subseteq entityMap /\ entityMap \subseteq UserName
  /\ \A n \in Name : unbound[n] \in UnboundedDB \cup {None}
  /\ DOMAIN facade \subseteq DB
  /\ \A r \in DOMAIN facade : r.made <= facade[r] /\ facade[r] <= session
  /\ \A s \in Slot : stored[s] \in DOMAIN facade \cup {None}
  /\ hand \in DOMAIN facade \cup {None}

\* The MethodDBs of the Methods this session has.
Registered == UNION {{Unbounded(session, t, n) : n \in methodMaps[t]} : t \in MethodType}

\* The objects something leads to.
Reachable ==
  LET roots == Registered \cup {stored[s] : s \in Slot} \cup {unbound[n] : n \in Name} \cup {hand}
  IN (roots \cup {r.arg : r \in {r \in roots : r.kind = "method"}}) \ {None, Plain}

\* setFacade of the objects in `refs`: their facades are this session's from now on.
SetFacade(refs) ==
  facade' = [r \in Reachable' |-> IF r \in refs THEN session' ELSE facade[r]]

\* The library's own Methods, which a new machine creates first.
Library(s) == {Unbounded(s, "Internal", n) : n \in InternalName}

Init ==
  /\ session = 1
  /\ built = FALSE
  /\ methodMaps = [t \in MethodType |-> IF t = "Internal" THEN InternalName ELSE {}]
  /\ entityMap = {}
  /\ creators = {}
  /\ unbound = [n \in Name |-> IF n \in InternalName THEN Unbounded(1, "Internal", n) ELSE None]
  /\ facade = [r \in Library(1) |-> 1]
  /\ stored = [s \in Slot |-> None]
  /\ hand = None

----------------------------------------------------------------------------
(* Registration.                                                           *)

\* Mutant: the first MethodDB of a name stays the one that is read back.
CreateMethodImplFirst(type, n) ==
  LET method == Unbounded(session, type, n)
  IN /\ methodMaps' = [methodMaps EXCEPT ![type] = @ \cup {n}]
     /\ unbound' = IF unbound[n] = None THEN [unbound EXCEPT ![n] = method] ELSE unbound
     /\ SetFacade({method})

\* createMethodImpl, past the check for a redefinition.
CreateMethodImpl(type, n) ==
  LET method == Unbounded(session, type, n)
  IN /\ methodMaps' = [methodMaps EXCEPT ![type] = @ \cup {n}]
     /\ unbound' = [unbound EXCEPT ![n] = method]
     /\ SetFacade({method})

\* (A redefinition throws and changes nothing.)
CreateMethod(n) ==
  /\ ~built
  /\ n \notin methodMaps["External"]
  /\ UNCHANGED <<session, built, entityMap, creators, stored, hand>>
  /\ CreateMethodImpl("External", n)

\* The class is entered first: it stays when there is a Method of the name, which
\* makes the call throw.
RegisterEntity(n) ==
  /\ ~built
  /\ n \notin entityMap
  /\ entityMap' = entityMap \cup {n}
  /\ UNCHANGED <<session, built, stored, hand>>
  /\ IF n \in methodMaps["External"]
     THEN UNCHANGED <<methodMaps, creators, unbound, facade>>
     ELSE creators' = creators \cup {n} /\ CreateMethodImpl("External", n)

Build ==
  /\ ~built
  /\ built' = TRUE
  /\ UNCHANGED <<session, methodMaps, entityMap, creators, unbound, facade, stored, hand>>

\* close() counts the instance up, then the next session makes its machine over the
\* same store.
StartSession ==
  /\ session < MaxSessions
  /\ session' = session + 1
  /\ built' = FALSE
  /\ methodMaps' = [t \in MethodType |-> IF t = "Internal" THEN InternalName ELSE {}]
  /\ entityMap' = {}
  /\ creators' = {}
  /\ unbound' = [n \in Name |-> IF n \in InternalName
                                THEN Unbounded(session + 1, "Internal", n) ELSE unbound[n]]
  /\ hand' = None
  /\ UNCHANGED stored
  /\ SetFacade(Library(session + 1))

----------------------------------------------------------------------------
(* Objects and slots.                                                      *)

Held == Registered \cup ({hand} \ {None})

\* A new object with its facade.
Make(r) ==
  /\ hand' = r
  /\ UNCHANGED <<session, built, methodMaps, entityMap, creators, unbound, stored>>
  /\ SetFacade({r})

\* Mutant: what is bound is entered in unboundMethodMap like a new Method.
BindArgsEntered(m, arg) ==
  LET bound == MethodDB(session, m.type, m.name, arg)
  IN /\ m.kind = "method"
     /\ m.arg = None
     /\ unbound' = [unbound EXCEPT ![m.name] = bound]
     /\ hand' = bound
     /\ UNCHANGED <<session, built, methodMaps, entityMap, creators, stored>>
     /\ SetFacade({bound})

\* bindArgs: a MethodDB of its own.
BindArgs(m, arg) ==
  /\ m.kind = "method"
  /\ m.arg = None
  /\ Make(MethodDB(session, m.type, m.name, arg))

\* The Method of an Entity's name, called: build() makes the EntityDB and the
\* constructor sets the facade.
CreateEntity(n) ==
  /\ n \in creators
  /\ Make(EntityDB(session, n))

CreateContainer == Make(ContainerDB(session))

\* next() with a Method, or set() and push() on a stored container.
Store(s, r) ==
  /\ built
  /\ stored' = [stored EXCEPT ![s] = r]
  /\ UNCHANGED <<session, built, methodMaps, entityMap, creators, unbound, hand>>
  /\ SetFacade({})

\* Mutants: a facade is taken whichever session made it; bound Methods are replaced too.
GetFacadeUnchecked(r) == r \in DOMAIN facade
DeserializeBoundToo(r) ==
  IF r.kind = "method" /\ unbound[r.name] # None THEN unbound[r.name] ELSE r

\* The store's deserialize: a Method without arguments becomes the one that was
\* created last under its name.
Deserialize(r) ==
  IF r.kind = "method" /\ r.arg = None /\ unbound[r.name] # None THEN unbound[r.name] ELSE r

\* getFacade: whether the object has a facade of this session.
GetFacade(r) == r \in DOMAIN facade /\ facade[r] = session

\* getMethodFromMethodDB: a Method that this session has not registered becomes
\* the thrower, bound to an Exception.
GetMethodFromMethodDB(r) ==
  IF GetFacade(r) \/ r.name \in methodMaps[r.type] THEN r
  ELSE MethodDB(session, "Internal", Thrower, Plain)

\* getEntityFromEntityDB throws for a class that this session has not registered.
GetEntityFromEntityDB(r) == IF GetFacade(r) \/ r.name \in entityMap THEN r ELSE Missing

\* What a read of r gives: a container always has its facade or gets one.
Returned(r) ==
  CASE r.kind = "method" -> GetMethodFromMethodDB(r)
    [] r.kind = "entity" -> GetEntityFromEntityDB(r)
    [] OTHER -> r

\* User code gets what a read of r gives, with the facade it had or a new one.
Receive(r) ==
  LET got == Returned(r)
  IN IF got \in {None, Plain, Missing}
     THEN UNCHANGED hand /\ SetFacade({})
     ELSE hand' = got /\ SetFacade(IF GetFacade(got) THEN {} ELSE {got})

\* at(), get(), pop() and the values of a List.
Read(s) ==
  /\ built
  /\ stored[s] # None
  /\ UNCHANGED <<session, built, methodMaps, entityMap, creators, unbound, stored>>
  /\ Receive(Deserialize(stored[s]))

\* entries() and values() of a Dictionary, which do not call the store's deserialize.
Iterate(s) ==
  /\ built
  /\ stored[s] # None
  /\ UNCHANGED <<session, built, methodMaps, entityMap, creators, unbound, stored>>
  /\ Receive(stored[s])

\* The microtask of the reaction in slot s: what it runs, by the type and name of the
\* Method, with what its bound argument is read as; or Missing, and then it rejects.
Ran(s) ==
  LET m == Deserialize(stored[s])
      arg == Returned(Deserialize(m.arg))
  IN IF m.name \notin methodMaps[m.type] \/ arg = Missing THEN Missing
     ELSE [type |-> m.type, name |-> m.name, arg |-> arg]

\* The root of the slot is settled and its reaction runs, which hands a Method of the
\* user its argument.
RunReaction(s) ==
  /\ built
  /\ stored[s].kind = "method"
  /\ stored' = [stored EXCEPT ![s] = None]
  /\ UNCHANGED <<session, built, methodMaps, entityMap, creators, unbound>>
  /\ IF Ran(s) # Missing /\ Ran(s).type = "External"
     THEN Receive(Deserialize(Deserialize(stored[s]).arg))
     ELSE UNCHANGED hand /\ SetFacade({})

Next ==
  \/ \E n \in UserName : CreateMethod(n) \/ RegisterEntity(n) \/ CreateEntity(n)
  \/ Build
  \/ StartSession
  \/ \E m \in Held, a \in (Held \cap Argument) \cup {Plain} :
       BindArgs(m, a)
  \/ CreateContainer
  \/ \E s \in Slot : Read(s) \/ Iterate(s) \/ RunReaction(s)
  \/ \E s \in Slot, r \in Held : Store(s, r)

Spec == Init /\ [][Next]_vars

----------------------------------------------------------------------------
(* Properties.                                                             *)

\* Whether this session knows the Method or the Entity that r was stored as.
Known(r) ==
  CASE r.kind = "method" -> r.name \in methodMaps[r.type]
    [] r.kind = "entity" -> r.name \in entityMap
    [] OTHER -> TRUE

\* Two objects that stand for the same thing, whichever session made them.
Alike(r, q) ==
  /\ r.kind = q.kind
  /\ r.kind = "method" => r.type = q.type /\ r.name = q.name
  /\ r.kind = "entity" => r.name = q.name

\* A reaction runs the Method this session registered under the name and the type it was
\* stored with, with the arguments it was bound to; it rejects when there is none, or
\* when an argument is an Entity without a class, however many sessions went by.
RunsAsRegistered ==
  \A s \in Slot : built /\ stored[s].kind = "method" =>
    LET r == stored[s]
    IN IF ~Known(r) \/ (r.arg.kind = "entity" /\ ~Known(r.arg)) THEN Ran(s) = Missing
       ELSE /\ Ran(s) # Missing
            /\ Ran(s).type = r.type
            /\ Ran(s).name = r.name
            /\ Known(r.arg) => Alike(Ran(s).arg, r.arg)

\* Whatever user code holds belongs to the machine of this session: calling it runs this
\* session's functions and queues work where this session waits for it.
FacadesOfThisSession == \A r \in Held : facade[r] = session

\* A Method without arguments that is read from a List or a Struct is the very one that
\* was created at the start of the session.
OriginalMethods ==
  \A s \in Slot :
    LET r == stored[s]
    IN r.kind = "method" /\ r.arg = None /\ Known(r)
         => Deserialize(r) = Unbounded(session, r.type, r.name)
=============================================================================
