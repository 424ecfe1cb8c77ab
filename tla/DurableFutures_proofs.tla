----------------------- MODULE DurableFutures_proofs ------------------------
(***************************************************************************)
(* Proof that the SQLite store implements DurableFutures, for every bound  *)
(* on Futures: every step of the store is, for what the Futures have come  *)
(* to and for what the tables keep of it, a step of the abstract store, or *)
(* none.                                                                   *)
(***************************************************************************)
EXTENDS SqlStore_proofs

----------------------------------------------------------------------------
(* The entries of the abstract store are told apart by their kinds.        *)

LEMMA Kinds ==
  ASSUME NEW g, NEW o
  PROVE  /\ Durable!Gone.is = "gone" /\ Durable!Open.is = "open"
         /\ FollowerOf(g).is = "follower" /\ FollowerOf(g).of = g
         /\ DueTo(o).is = "due" /\ DueTo(o).outcome = o
         /\ Durable!Settled(o).is = "settled" /\ Durable!Settled(o).outcome = o
         /\ Durable!Follower(g) = FollowerOf(g) /\ Durable!Due(o) = DueTo(o)
BY DEF Durable!Gone, Durable!Open, FollowerOf, DueTo, Durable!Settled, Durable!Follower, Durable!Due

OutcomeNow(f) == OutcomeOf(ObjectOrRow(f))

Queued(job) == \E i \in DOMAIN queue : queue[i] = job
Follows(f, g) == g \in PendingNow /\ f \in ToSet(ListsNow[g])

\* e is what f has come to: each way to come to something, and who settles it.
Comes(f, e) ==
  \/ View(f) \notin Type \cup {"Pending"} /\ e = Durable!Gone
  \/ View(f) \in Type /\ \E o : o = OutcomeNow(f) /\ e = Durable!Settled(o)
  \/ f \in OpenNow /\ e = Durable!Open
  \/ \E job : Queued(job) /\ job.next = f /\ e = OwedBy(job)
  \/ \E g : Follows(f, g) /\ e = FollowerOf(g)

ComesSaved(f, e) ==
  \/ f \notin Stored(disk) /\ e = Durable!Gone
  \/ f \in Stored(disk) /\ disk.rows[f].state \in Type /\ e = Durable!Settled(OutcomeOf(disk.rows[f]))
  \/ f \in OpenSaved /\ e = Durable!Open
  \/ \E g \in PendingSaved : f \in ToSet(disk.rx["Fulfilled"][g]) /\ e = FollowerOf(g)

\* Every Pending Future has a claim.
LEMMA SoundCovers ==
  ASSUME NEW P, NEW O, NEW L, NEW q, Sound(P, O, L, q), NEW f \in P
  PROVE  \/ f \in O
         \/ \E i \in DOMAIN q : q[i].next = f
         \/ \E g \in P : f \in ToSet(L[g])
<1>1. {f} \in SUBSET P /\ {f} # {}
  OBVIOUS
<1>2. PICK x \in {f} : SettledFrom(x, {f}, P, O, L, q)
  BY <1>1, Zenon DEF Sound, Grounded
<1> QED BY <1>2 DEF SettledFrom

LEMMA ViewIs ==
  ASSUME NEW f \in Future
  PROVE  ObjectOrRow(f).state = View(f)
BY DEF ObjectOrRow, View

\* What a Future comes to is its entry, and no other.
EntriesNow == \A f \in Future : Comes(f, NowEntry(f)) /\ \A e : Comes(f, e) => e = NowEntry(f)

LEMMA NowEntries ==
  ASSUME IInv
  PROVE  EntriesNow
<1> SUFFICES ASSUME NEW f \in Future
             PROVE  Comes(f, NowEntry(f)) /\ \A e : Comes(f, e) => e = NowEntry(f)
  BY DEF EntriesNow
<1>1. PICK s, v, L : s = View(f) /\ v = OutcomeNow(f) /\ L = ListsNow
  OBVIOUS
<1>2. Sound(PendingNow, OpenNow, L, queue) /\ \A g \in Future : L[g] = ViewReactions(g, "Fulfilled")
  BY <1>1 DEF IInv, NowInv, ListsNow
<1>3. Once(PendingNow, OpenNow, L, queue)
  BY <1>2 DEF Sound
<1>4. PendingNow \subseteq Future /\ (f \in PendingNow <=> s = "Pending")
  BY <1>1 DEF PendingNow
<1>5. f \in OpenNow <=> f \in PendingNow /\ f \in known /\ ViewRoot(f)
  BY DEF OpenNow
<1>6. "Pending" \notin Type
  BY DEF Type
<1>7. \A job : job \in JobsFor(f) <=> Queued(job) /\ job.next = f
  BY DEF JobsFor, ToSet, Queued
<1>8. \A g : g \in Followed(f) <=> Follows(f, g)
  <2>1. \A g \in Future : g \in Followed(f) <=> View(g) = "Pending" /\ f \in ToSet(L[g])
    BY <1>2 DEF Followed
  <2>2. \A g : Follows(f, g) <=> g \in Future /\ View(g) = "Pending" /\ f \in ToSet(L[g])
    BY <1>1 DEF Follows, PendingNow
  <2> QED BY <2>1, <2>2 DEF Followed
<1>9. /\ \A job : Queued(job) /\ job.next = f => f \in PendingNow \ OpenNow /\ \A g : ~Follows(f, g)
      /\ \A job, x : Queued(job) /\ job.next = f /\ Queued(x) /\ x.next = f => job = x
      /\ \A g : Follows(f, g) => f \in PendingNow \ OpenNow
      /\ \A g, h : Follows(f, g) /\ Follows(f, h) => g = h
  BY <1>1, <1>3 DEF Once, Queued, Follows
<1>10. f \in PendingNow \ OpenNow => (\E job : Queued(job) /\ job.next = f) \/ \E g : Follows(f, g)
  BY <1>1, <1>2, SoundCovers DEF Queued, Follows
<1>11. CASE s \in Type
  <2>1. NowEntry(f) = Durable!Settled(v)
    BY <1>1, <1>11, ViewIs DEF NowEntry, EntryOf, OutcomeNow, Durable!Settled
  <2>2. f \notin PendingNow
    BY <1>4, <1>6, <1>11
  <2> QED BY <2>1, <2>2, <1>1, <1>5, <1>9, <1>11 DEF Comes
<1>12. CASE s \notin Type \cup {"Pending"}
  <2>1. NowEntry(f) = Durable!Gone
    BY <1>1, <1>12, ViewIs DEF NowEntry, EntryOf, Durable!Gone
  <2>2. f \notin PendingNow
    BY <1>4, <1>12
  <2> QED BY <2>1, <2>2, <1>1, <1>5, <1>9, <1>12 DEF Comes
<1>13. CASE s = "Pending" /\ f \in OpenNow
  <2>1. NowEntry(f) = Durable!Open
    BY <1>1, <1>5, <1>6, <1>13, ViewIs DEF NowEntry, EntryOf, Durable!Open
  <2> QED BY <2>1, <1>1, <1>6, <1>9, <1>13 DEF Comes
<1>14. CASE s = "Pending" /\ f \notin OpenNow /\ JobsFor(f) # {}
  <2>1. PICK job : job = CHOOSE x \in JobsFor(f) : TRUE
    OBVIOUS
  <2>2. Queued(job) /\ job.next = f
    BY <2>1, <1>7, <1>14
  <2>3. NowEntry(f) = OwedBy(job)
    BY <2>1, <1>1, <1>4, <1>5, <1>6, <1>14, ViewIs DEF NowEntry, EntryOf
  <2> QED BY <2>2, <2>3, <1>1, <1>6, <1>9, <1>14 DEF Comes
<1>15. CASE s = "Pending" /\ f \notin OpenNow /\ JobsFor(f) = {}
  <2>1. PICK g : g = CHOOSE x \in Followed(f) : TRUE
    OBVIOUS
  <2>2. Follows(f, g)
    BY <2>1, <1>4, <1>7, <1>8, <1>10, <1>15
  <2>3. NowEntry(f) = FollowerOf(g)
    BY <2>1, <1>1, <1>4, <1>5, <1>6, <1>15, ViewIs DEF NowEntry, EntryOf
  <2> QED BY <2>2, <2>3, <1>1, <1>6, <1>7, <1>9, <1>15 DEF Comes
<1> QED BY <1>11, <1>12, <1>13, <1>14, <1>15

EntriesSaved == \A f \in Future : ComesSaved(f, SavedEntry(f)) /\ \A e : ComesSaved(f, e) => e = SavedEntry(f)

LEMMA SavedEntries ==
  ASSUME IInv
  PROVE  EntriesSaved
<1> SUFFICES ASSUME NEW f \in Future
             PROVE  ComesSaved(f, SavedEntry(f)) /\ \A e : ComesSaved(f, e) => e = SavedEntry(f)
  BY DEF EntriesSaved
<1>1. PICK row, L : row = disk.rows[f] /\ L = disk.rx["Fulfilled"]
  OBVIOUS
<1>2. Sound(PendingSaved, OpenSaved, L, <<>>)
  BY <1>1 DEF IInv, SavedInv
<1>3. Once(PendingSaved, OpenSaved, L, <<>>)
  BY <1>2 DEF Sound
<1>4. PendingSaved \subseteq Stored(disk) /\ \A g \in Stored(disk) : g \in PendingSaved <=> disk.rows[g].state = "Pending"
  BY DEF PendingSaved
<1>5. f \in OpenSaved <=> f \in PendingSaved /\ f \in known /\ row.root
  BY <1>1 DEF OpenSaved
<1>6. "Pending" \notin Type /\ "none" \notin Type
  BY DEF Type
<1>7. f \in Stored(disk) => row.state \in Type \cup {"Pending"}
  BY <1>1 DEF IInv, TypeOK, Tables, Stored, Row
<1>8. f \notin Stored(disk) => row.state = "none"
  BY <1>1 DEF Stored, NoRow
<1>9. \A g : g \in FollowedOnDisk(f) <=> g \in PendingSaved /\ f \in ToSet(L[g])
  BY <1>1 DEF FollowedOnDisk, PendingSaved
<1>10. CASE f \notin Stored(disk)
  <2>1. SavedEntry(f) = Durable!Gone
    BY <1>1, <1>6, <1>8, <1>10 DEF SavedEntry, EntryOf, Durable!Gone
  <2>2. f \notin PendingSaved
    BY <1>4, <1>10
  <2>3. \A g \in PendingSaved : f \notin ToSet(L[g])
    BY <2>2, <1>3 DEF Once
  <2> QED BY <2>1, <2>2, <2>3, <1>1, <1>5, <1>10 DEF ComesSaved
<1>11. CASE f \in Stored(disk) /\ row.state \in Type
  <2>1. SavedEntry(f) = Durable!Settled(OutcomeOf(row))
    BY <1>1, <1>11 DEF SavedEntry, EntryOf, Durable!Settled
  <2>2. f \notin PendingSaved
    BY <1>1, <1>4, <1>6, <1>11
  <2>3. \A g \in PendingSaved : f \notin ToSet(L[g])
    BY <2>2, <1>3 DEF Once
  <2> QED BY <2>1, <2>2, <2>3, <1>1, <1>5, <1>11 DEF ComesSaved
<1>12. CASE f \in OpenSaved
  <2>1. SavedEntry(f) = Durable!Open
    BY <1>1, <1>4, <1>5, <1>6, <1>12 DEF SavedEntry, EntryOf, Durable!Open
  <2>2. \A g \in PendingSaved : f \notin ToSet(L[g])
    BY <1>3, <1>12 DEF Once
  <2>3. f \in Stored(disk) /\ row.state = "Pending"
    BY <1>1, <1>4, <1>5, <1>12
  <2> QED BY <2>1, <2>2, <2>3, <1>1, <1>6, <1>12 DEF ComesSaved
<1>13. CASE f \in PendingSaved /\ f \notin OpenSaved
  <2>1. PICK g : g = CHOOSE x \in FollowedOnDisk(f) : TRUE
    OBVIOUS
  <2>2. \E x \in PendingSaved : f \in ToSet(L[x])
    <3>1. ~\E i \in DOMAIN <<>> : <<>>[i].next = f
      OBVIOUS
    <3> QED BY <3>1, <1>2, <1>13, SoundCovers
  <2>3. g \in PendingSaved /\ f \in ToSet(L[g])
    BY <2>1, <2>2, <1>9
  <2>4. SavedEntry(f) = FollowerOf(g)
    BY <2>1, <1>1, <1>4, <1>5, <1>6, <1>13 DEF SavedEntry, EntryOf
  <2>5. \A h \in PendingSaved : f \in ToSet(L[h]) => h = g
    BY <2>3, <1>3 DEF Once
  <2>6. f \in Stored(disk) /\ row.state = "Pending"
    BY <1>1, <1>4, <1>13
  <2> QED BY <2>3, <2>4, <2>5, <2>6, <1>1, <1>6, <1>13 DEF ComesSaved
<1> QED BY <1>1, <1>4, <1>7, <1>10, <1>11, <1>12, <1>13

----------------------------------------------------------------------------
(* What shows that a step is one of the abstract store.                    *)

FromNow(g) == IF NowEntry(g).is = "settled" THEN DueTo(NowEntry(g).outcome) ELSE FollowerOf(g)

Outcomes == [type : Type, value : Value]
SameNow(fs) == \A f \in Future \ fs : NowEntry(f)' = NowEntry(f)
SameSaved == \A f \in Future : SavedEntry(f)' = SavedEntry(f)

NewEntry(e, n) ==
  \/ e = Durable!Open
  \/ \E o \in Outcomes : o.value \notin Future /\ e = Durable!Settled(o)
  \/ \E g \in Future \ {n} : NowEntry(g) # Durable!Gone /\ e = FromNow(g)

LEMMA Creates ==
  ASSUME created \in Nat, NEW n \in Future, n = Fresh, created' = n, SameNow({n}), SameSaved, NewEntry(NowEntry(n)', n)
  PROVE  Durable!Next
<1>1. n \notin 1..created /\ (1..created)' = (1..created) \cup {n}
  BY DEF Fresh
<1>2. PICK was, is : was = [f \in Future |-> NowEntry(f)] /\ is = [f \in Future |-> NowEntry(f)]'
  OBVIOUS
<1>3. PICK e : e = NowEntry(n)'
  OBVIOUS
<1>4. is = [was EXCEPT ![n] = e]
  BY <1>2, <1>3 DEF SameNow
<1>5. \/ is = [was EXCEPT ![n] = Durable!Open]
      \/ \E o \in Durable!Outcome : o.value \notin Future /\ is = [was EXCEPT ![n] = Durable!Settled(o)]
      \/ \E g \in Future \ {n} : was[g] # Durable!Gone /\ is = [was EXCEPT ![n] = Durable!From(g)]
  <2>1. \A g \in Future : was[g] = NowEntry(g) /\ Durable!From(g) = FromNow(g)
    BY <1>2, Kinds DEF Durable!From, FromNow
  <2> QED BY <2>1, <1>3, <1>4 DEF NewEntry, Outcomes, Durable!Outcome
<1>6. [f \in Future |-> SavedEntry(f)]' = [f \in Future |-> SavedEntry(f)]
  BY DEF SameSaved
<1>7. Durable!Create(n)
  BY <1>1, <1>2, <1>5, <1>6 DEF Durable!Create
<1> QED BY <1>7 DEF Durable!Next

SettlesNow(f, o) ==
  \A g \in Future : NowEntry(g)' = IF g = f THEN Durable!Settled(o)
                                   ELSE IF NowEntry(g) = FollowerOf(f) THEN DueTo(o)
                                   ELSE NowEntry(g)

LEMMA SettlesIs ==
  ASSUME created' = created, NEW f \in Future, NEW o, SettlesNow(f, o), SameSaved
  PROVE  Durable!Settle(f, o)
<1>1. PICK was, is : was = [g \in Future |-> NowEntry(g)] /\ is = [g \in Future |-> NowEntry(g)]'
  OBVIOUS
<1>2. \A g \in Future : was[g] = NowEntry(g) /\ Durable!Follower(f) = FollowerOf(f) /\ Durable!Due(o) = DueTo(o)
  BY <1>1, Kinds
<1>3. is = [g \in Future |-> IF g = f THEN Durable!Settled(o)
                             ELSE IF was[g] = Durable!Follower(f) THEN Durable!Due(o)
                             ELSE was[g]]
  BY <1>1, <1>2 DEF SettlesNow
<1>4. [g \in Future |-> SavedEntry(g)]' = [g \in Future |-> SavedEntry(g)]
  BY DEF SameSaved
<1> QED BY <1>1, <1>3, <1>4 DEF Durable!Settle

LEMMA Resolves ==
  ASSUME created' = created, NEW f \in Future, NEW o \in Outcomes, SettlesNow(f, o), SameSaved,
         NowEntry(f) = Durable!Open, o.value \in Future => NowEntry(o.value) # Durable!Gone
  PROVE  Durable!Next
<1>1. Durable!Settle(f, o)
  BY SettlesIs
<1>2. NowEntry(f)' = Durable!Settled(o)
  BY DEF SettlesNow
<1>3. Durable!Resolve(f)
  BY <1>1, <1>2 DEF Durable!Resolve, Outcomes, Durable!Outcome
<1> QED BY <1>3 DEF Durable!Next

LEMMA Delivers ==
  ASSUME created' = created, NEW f \in Future, NEW o, SettlesNow(f, o), SameSaved, NowEntry(f) = DueTo(o)
  PROVE  Durable!Next
<1>1. Durable!Settle(f, o)
  BY SettlesIs
<1>2. Durable!Deliver(f)
  BY <1>1, Kinds DEF Durable!Deliver
<1> QED BY <1>2 DEF Durable!Next

LEMMA HandsOver ==
  ASSUME created' = created, NEW f \in Future, NEW g \in Future \ {f}, SameNow({f}), SameSaved,
         NowEntry(f) = Durable!Open, NowEntry(g) # Durable!Gone, NowEntry(f)' = FromNow(g)
  PROVE  Durable!Next
<1>1. PICK was, is : was = [h \in Future |-> NowEntry(h)] /\ is = [h \in Future |-> NowEntry(h)]'
  OBVIOUS
<1>2. was[f] = NowEntry(f) /\ was[g] = NowEntry(g) /\ Durable!From(g) = FromNow(g)
  BY <1>1, Kinds DEF Durable!From, FromNow
<1>3. is = [was EXCEPT ![f] = Durable!From(g)]
  BY <1>1, <1>2 DEF SameNow
<1>4. [h \in Future |-> SavedEntry(h)]' = [h \in Future |-> SavedEntry(h)]
  BY DEF SameSaved
<1>5. Durable!Follow(f, g)
  BY <1>1, <1>2, <1>3, <1>4 DEF Durable!Follow
<1> QED BY <1>5 DEF Durable!Next

\* Nothing refers to what is gone.
CompleteNow == \A f \in Future : \A g \in Durable!Refers(NowEntry(f)) : g \in Future /\ NowEntry(g) # Durable!Gone
CompleteSaved == \A f \in Future : \A g \in Durable!Refers(SavedEntry(f)) : g \in Future /\ SavedEntry(g) # Durable!Gone

LEMMA SavedComplete ==
  ASSUME CompleteSaved'
  PROVE  Durable!Complete([f \in Future |-> SavedEntry(f)])'
<1>1. PICK m : m = [f \in Future |-> SavedEntry(f)]'
  OBVIOUS
<1>2. \A f \in Future : \A g \in Durable!Refers(m[f]) : g \in Future /\ m[g] # Durable!Gone
  <2>1. \A f \in Future : m[f] = SavedEntry(f)'
    BY <1>1
  <2> QED BY <2>1 DEF CompleteSaved
<1> QED BY <1>1, <1>2 DEF Durable!Complete

LEMMA NowComplete ==
  ASSUME CompleteNow'
  PROVE  Durable!Complete([f \in Future |-> NowEntry(f)])'
<1>1. PICK m : m = [f \in Future |-> NowEntry(f)]'
  OBVIOUS
<1>2. \A f \in Future : \A g \in Durable!Refers(m[f]) : g \in Future /\ m[g] # Durable!Gone
  <2>1. \A f \in Future : m[f] = NowEntry(f)'
    BY <1>1
  <2> QED BY <2>1 DEF CompleteNow
<1> QED BY <1>1, <1>2 DEF Durable!Complete

LEMMA Flushes ==
  ASSUME created' = created, SameNow({}), CompleteSaved', \A f \in Future : NowEntry(f).is # "due",
         \A f \in Future : \/ SavedEntry(f)' = NowEntry(f)
                           \/ /\ SavedEntry(f)' = Durable!Gone /\ SavedEntry(f) = Durable!Gone
                              /\ NowEntry(f).is = "settled"
  PROVE  Durable!Next
<1>1. [f \in Future |-> NowEntry(f)]' = [f \in Future |-> NowEntry(f)]
  BY DEF SameNow
<1>2. Durable!Complete([f \in Future |-> SavedEntry(f)])'
  BY SavedComplete
<1>3. Durable!Flush
  BY <1>1, <1>2 DEF Durable!Flush
<1> QED BY <1>3 DEF Durable!Next

LEMMA Forgets ==
  ASSUME created' = created, CompleteNow', CompleteSaved',
         \A f \in Future : \/ SavedEntry(f)' = SavedEntry(f)
                           \/ SavedEntry(f)' = Durable!Gone /\ SavedEntry(f).is = "settled",
         \A f \in Future : \/ NowEntry(f)' = NowEntry(f)
                           \/ /\ NowEntry(f)' = Durable!Gone /\ SavedEntry(f)' = Durable!Gone
                              /\ NowEntry(f).is = "settled"
  PROVE  Durable!Next
<1>1. Durable!Complete([f \in Future |-> SavedEntry(f)])' /\ Durable!Complete([f \in Future |-> NowEntry(f)])'
  BY SavedComplete, NowComplete
<1>2. Durable!Forget
  BY <1>1 DEF Durable!Forget
<1> QED BY <1>2 DEF Durable!Next

LEMMA Crashes ==
  ASSUME created' = created, SameSaved, \A f \in Future : NowEntry(f)' = SavedEntry(f)
  PROVE  Durable!Next
<1>1. [f \in Future |-> SavedEntry(f)]' = [f \in Future |-> SavedEntry(f)]
  BY DEF SameSaved
<1>2. [f \in Future |-> NowEntry(f)]' = [f \in Future |-> SavedEntry(f)]
  OBVIOUS
<1> QED BY <1>1, <1>2 DEF Durable!Next, Durable!Crash

LEMMA Stutters ==
  ASSUME created' = created, SameNow({}), SameSaved
  PROVE  UNCHANGED Durable!vars
<1>1. [f \in Future |-> SavedEntry(f)]' = [f \in Future |-> SavedEntry(f)]
  BY DEF SameSaved
<1>2. [f \in Future |-> NowEntry(f)]' = [f \in Future |-> NowEntry(f)]
  BY DEF SameNow
<1> QED BY <1>1, <1>2 DEF Durable!vars

----------------------------------------------------------------------------
(* What a step leaves as it was.                                           *)

\* The entries after a step: what a Future comes to then is its entry.
LEMMA EntriesAfter == IInv' => EntriesNow' /\ EntriesSaved'
<1>1. IInv => EntriesNow /\ EntriesSaved
  BY NowEntries, SavedEntries
<1> QED BY <1>1, PTL

LEMMA EntryAfter ==
  ASSUME IInv', NEW f \in Future, NEW e, Comes(f, e)'
  PROVE  NowEntry(f)' = e
BY EntriesAfter DEF EntriesNow

LEMMA SavedAfter ==
  ASSUME IInv', NEW f \in Future, NEW e, ComesSaved(f, e)'
  PROVE  SavedEntry(f)' = e
BY EntriesAfter DEF EntriesSaved

LEMMA EntryBefore ==
  ASSUME IInv, NEW f \in Future, NEW e, Comes(f, e)
  PROVE  NowEntry(f) = e
BY NowEntries DEF EntriesNow

\* A Future that is settled comes to what it came to.
LEMMA OutcomeKept ==
  ASSUME TypeOK, NEW f \in Future, KeepsOutcome(f), View(f) \in Type, View(f)' \in Type
  PROVE  OutcomeNow(f)' = OutcomeNow(f)
<1>1. PICK was, is : was = ObjectOrRow(f) /\ is = ObjectOrRow(f)'
  OBVIOUS
<1>2. was.state \in Type /\ is.state \in Type
  BY <1>1 DEF View, ObjectOrRow
<1>3. was \in {mem[f], disk.rows[f]}
  BY <1>1 DEF ObjectOrRow
<1>4. (is = mem'[f] /\ mem'[f] # Absent) \/ is = disk'.rows[f]
  BY <1>1 DEF ObjectOrRow, Live
<1>5. "Pending" \notin Type /\ NoRow.state \notin Type
  BY RowTypes
<1>6. SameOutcome(is, was)
  BY <1>2, <1>3, <1>4, <1>5 DEF KeepsOutcome
<1> QED BY <1>1, <1>6 DEF OutcomeNow, OutcomeOf, SameOutcome

\* A job owes what it owed.
LEMMA OwedKept ==
  ASSUME TypeOK, NEW job, job.from \in Future, KeepsOutcome(job.from), View(job.from)' = View(job.from)
  PROVE  OwedBy(job)' = OwedBy(job)
<1>1. PICK f : f = job.from
  OBVIOUS
<1>2. PICK s, o : s = View(f) /\ o = OutcomeNow(f)
  OBVIOUS
<1>3. ObjectOrRow(f).state = s /\ ObjectOrRow(f)'.state = s
  BY <1>1, <1>2 DEF View, ObjectOrRow
<1>4. s \in Type => OutcomeNow(f)' = o
  BY <1>1, <1>2, OutcomeKept
<1>5. OwedBy(job) = IF job.type # "adopt" THEN DueTo([type |-> job.type, value |-> job.value])
                    ELSE IF s \in Type THEN DueTo(o) ELSE FollowerOf(f)
  BY <1>1, <1>2, <1>3 DEF OwedBy, OutcomeNow
<1>6. OwedBy(job)' = IF job.type # "adopt" THEN DueTo([type |-> job.type, value |-> job.value])
                     ELSE IF s \in Type THEN DueTo(o) ELSE FollowerOf(f)
  BY <1>1, <1>3, <1>4 DEF OwedBy, OutcomeNow, DueTo, FollowerOf
<1> QED BY <1>5, <1>6

\* f stays what it was, or gets more reactions.
Grows(f) ==
  /\ View(f)' = View(f)
  /\ View(f) = "Pending" =>
       \A x : x \in ToSet(ViewReactions(f, "Fulfilled")) => x \in ToSet(ViewReactions(f, "Fulfilled"))'

LEMMA SameGrows ==
  ASSUME NEW f \in Future, SameView(f)
  PROVE  Grows(f)
BY DEF SameView, Grows, Type

\* Who is followed stays so.
LEMMA FollowsKept ==
  ASSUME NEW f, NEW g, Follows(f, g), Grows(g)
  PROVE  Follows(f, g)'
BY DEF Follows, Grows, PendingNow, ListsNow

LEMMA StaysOpen ==
  ASSUME NEW f \in Future, known \subseteq known', Grows(f), ViewRoot(f) => ViewRoot(f)'
  PROVE  f \in OpenNow => f \in OpenNow'
BY DEF Grows, OpenNow, PendingNow

\* A Future keeps its entry when it stays what it was and whoever owed it its outcome, or
\* another in its place, still does.
LEMMA KeptEntry ==
  ASSUME IInv, IInv', NEW f \in Future, KeepsOutcome(f), Grows(f), f \in OpenNow => f \in OpenNow', \A g : Follows(f, g) => Grows(g),
         \A job : Queued(job) /\ job.next = f =>
           \/ \E x : Queued(x)' /\ x.next = f /\ OwedBy(x)' = OwedBy(job)
           \/ \E g : Follows(f, g)' /\ OwedBy(job) = FollowerOf(g)
  PROVE  NowEntry(f)' = NowEntry(f)
<1>1. PICK e : e = NowEntry(f)
  OBVIOUS
<1>2. Comes(f, e)
  BY <1>1, NowEntries DEF EntriesNow
<1>3. Comes(f, e)'
  <2>1. CASE View(f) \notin Type \cup {"Pending"} /\ e = Durable!Gone
    BY <2>1 DEF Comes, Grows, Durable!Gone
  <2>2. CASE View(f) \in Type /\ e = Durable!Settled(OutcomeNow(f))
    <3>1. View(f)' \in Type
      BY <2>2 DEF Grows
    <3>2. OutcomeNow(f)' = OutcomeNow(f)
      BY <2>2, <3>1, OutcomeKept DEF IInv
    <3> QED BY <2>2, <3>1, <3>2 DEF Comes, Durable!Settled
  <2>3. CASE f \in OpenNow /\ e = Durable!Open
    BY <2>3 DEF Comes, Durable!Open
  <2>4. CASE \E job : Queued(job) /\ job.next = f /\ e = OwedBy(job)
    <3>1. \/ \E x : Queued(x)' /\ x.next = f /\ OwedBy(x)' = e
          \/ \E g : Follows(f, g)' /\ e = FollowerOf(g)
      BY <2>4
    <3> QED BY <3>1 DEF Comes, FollowerOf
  <2>5. CASE \E g : Follows(f, g) /\ e = FollowerOf(g)
    BY <2>5, FollowsKept DEF Comes, FollowerOf
  <2> QED BY <1>2, <2>1, <2>2, <2>3, <2>4, <2>5 DEF Comes
<1> QED BY <1>1, <1>3, EntryAfter

\* The tables keep what they had of every Future.
LEMMA SavedKept ==
  ASSUME disk' = disk, \A f \in Stored(disk) : f \in known' <=> f \in known
  PROVE  SameSaved
<1> SUFFICES ASSUME NEW f \in Future PROVE SavedEntry(f)' = SavedEntry(f)
  BY DEF SameSaved
<1>1. FollowedOnDisk(f)' = FollowedOnDisk(f) /\ Stored(disk)' = Stored(disk)
  BY DEF FollowedOnDisk, Stored
<1>2. f \in Stored(disk) => (f \in known' <=> f \in known)
  OBVIOUS
<1> QED BY <1>1, <1>2 DEF SavedEntry, EntryOf, FollowerOf, OutcomeOf

LEMMA JobFacts ==
  ASSUME IInv, NEW job, Queued(job)
  PROVE  job \in Job /\ job.from \in Live /\ job.from \in Future /\ job.next \in PendingNow \ OpenNow
<1>1. PICK i \in DOMAIN queue : queue[i] = job
  BY DEF Queued
<1>2. job \in Job
  BY <1>1 DEF IInv, TypeOK
<1>3. job.from \in Live /\ job.from \in Future
  BY <1>1 DEF IInv, MemInv, Live
<1>4. Once(PendingNow, OpenNow, ListsNow, queue)
  BY DEF IInv, NowInv, Sound
<1> QED BY <1>1, <1>2, <1>3, <1>4 DEF Once

LEMMA QueuedMore ==
  ASSUME TypeOK, NEW j \in Job, queue' = Append(queue, j)
  PROVE  Queued(j)' /\ \A job : Queued(job) => Queued(job)'
<1>1. queue \in Seq(Job)
  BY DEF TypeOK
<1>2. PICK k : /\ k \notin DOMAIN queue /\ DOMAIN Append(queue, j) = DOMAIN queue \cup {k}
               /\ Append(queue, j)[k] = j /\ \A i \in DOMAIN queue : Append(queue, j)[i] = queue[i]
  BY <1>1, QueueAppend
<1>3. PICK q : q = queue'
  OBVIOUS
<1>4. k \in DOMAIN q /\ q[k] = j /\ \A i \in DOMAIN queue : i \in DOMAIN q /\ q[i] = queue[i]
  BY <1>2, <1>3
<1> QED BY <1>3, <1>4 DEF Queued

\* A step that concerns n alone, and the jobs for n.
LEMMA OthersKept ==
  ASSUME IInv, IInv', NEW n, \A g \in Future : KeepsOutcome(g), known \subseteq known',
         \A g \in Future : g # n => Grows(g) /\ (ViewRoot(g) => ViewRoot(g)'),
         Grows(n) \/ n \notin Live \cup PendingNow,
         \A job : Queued(job) /\ job.next # n => Queued(job)'
  PROVE  SameNow({n})
<1> SUFFICES ASSUME NEW f \in Future, f # n PROVE NowEntry(f)' = NowEntry(f)
  BY DEF SameNow
<1>1. \A g : Follows(f, g) => Grows(g)
  BY DEF Follows, PendingNow
<1>2. ASSUME NEW job, Queued(job), job.next = f
      PROVE  Queued(job)' /\ OwedBy(job)' = OwedBy(job)
  <2>1. job.from \in Live /\ job.from \in Future
    BY <1>2, JobFacts
  <2>2. View(job.from)' = View(job.from)
    BY <2>1 DEF Grows
  <2> QED BY <1>2, <2>1, <2>2, OwedKept DEF IInv
<1> QED BY <1>1, <1>2, StaysOpen, KeptEntry

\* What is Pending or settled is not gone.
LEMMA NotGone ==
  ASSUME IInv, NEW f \in Future
  PROVE  NowEntry(f) = Durable!Gone <=> View(f) \notin Type \cup {"Pending"}
<1>1. View(f) \notin Type \cup {"Pending"} => NowEntry(f) = Durable!Gone
  BY EntryBefore DEF Comes
<1>2. ASSUME View(f) \in Type \cup {"Pending"} PROVE NowEntry(f) # Durable!Gone
  <2>1. Comes(f, NowEntry(f))
    BY NowEntries DEF EntriesNow
  <2>2. \A job : OwedBy(job) # Durable!Gone
    BY DEF OwedBy, DueTo, FollowerOf, Durable!Gone
  <2>3. \A g : FollowerOf(g) # Durable!Gone
    BY DEF FollowerOf, Durable!Gone
  <2>4. Durable!Open # Durable!Gone /\ \A o : Durable!Settled(o) # Durable!Gone
    BY DEF Durable!Open, Durable!Gone, Durable!Settled
  <2> QED BY <1>2, <2>1, <2>2, <2>3, <2>4 DEF Comes
<1> QED BY <1>1, <1>2

LEMMA LiveNotGone ==
  ASSUME IInv, NEW f \in Live
  PROVE  f \in Future /\ View(f) \in Type \cup {"Pending"} /\ NowEntry(f) # Durable!Gone
<1>1. f \in Future /\ mem[f] \in FutureDB
  BY StoreFacts DEF IInv
<1>2. View(f) \in Type \cup {"Pending"}
  BY <1>1 DEF View, FutureDB
<1> QED BY <1>1, <1>2, NotGone

\* What a Future that takes over the outcome of g is owed.
LEMMA FromIs ==
  ASSUME IInv, NEW g \in Live
  PROVE  FromNow(g) = IF View(g) \in Type THEN DueTo(OutcomeNow(g)) ELSE FollowerOf(g)
<1>1. g \in Future /\ View(g) \in Type \cup {"Pending"}
  BY LiveNotGone
<1>2. CASE View(g) \in Type
  <2>1. NowEntry(g) = Durable!Settled(OutcomeNow(g))
    BY <1>1, <1>2, EntryBefore DEF Comes
  <2> QED BY <1>2, <2>1, Kinds DEF FromNow
<1>3. CASE View(g) = "Pending"
  <2>1. Comes(g, NowEntry(g)) /\ View(g) \notin Type
    BY <1>1, <1>3, NowEntries DEF EntriesNow, Type
  <2>2. \A job : OwedBy(job).is # "settled"
    BY DEF OwedBy, DueTo, FollowerOf
  <2>3. \A h : FollowerOf(h).is # "settled"
    BY DEF FollowerOf
  <2>4. Durable!Open.is # "settled"
    BY DEF Durable!Open
  <2>5. NowEntry(g).is # "settled"
    BY <1>3, <2>1, <2>2, <2>3, <2>4 DEF Comes
  <2> QED BY <2>1, <2>5 DEF FromNow
<1> QED BY <1>1, <1>2, <1>3

----------------------------------------------------------------------------
(* A Future is created.                                                    *)

OutcomesKept == \A g \in Future : KeepsOutcome(g)

LEMMA OthersSame ==
  ASSUME IInv, IInv', OutcomesKept, NEW n, known \subseteq known', n \notin Live \cup PendingNow,
         \A g \in Future : g # n => SameView(g), \A job : Queued(job) => Queued(job)'
  PROVE  SameNow({n})
<1>1. \A g \in Future : g # n => Grows(g) /\ (ViewRoot(g) => ViewRoot(g)')
  BY SameGrows DEF SameView
<1> QED BY <1>1, OthersKept DEF OutcomesKept

LEMMA CreateImplements ==
  ASSUME IInv, IInv', OutcomesKept, Create
  PROVE  Durable!Next
<1>1. PICK n : n = Fresh
  OBVIOUS
<1>2. n \in Future /\ created' = n /\ known' = known \cup {n} /\ disk' = disk /\ queue' = queue
  BY <1>1, CreateViews
<1>3. View(n)' = "Pending" /\ ViewRoot(n)' = TRUE /\ \A f \in Future : f # n => SameView(f)
  BY <1>1, CreateViews
<1>4. n \notin Live \cup PendingNow
  BY <1>1, <1>2, FreshFacts
<1>5. SameNow({n})
  <2>1. \A job : Queued(job) => Queued(job)'
    BY <1>2 DEF Queued
  <2> QED BY <2>1, <1>2, <1>3, <1>4, OthersSame
<1>6. SameSaved
  BY <1>1, <1>2, FreshFacts, SavedKept
<1>7. NowEntry(n)' = Durable!Open
  <2>1. n \in OpenNow'
    BY <1>2, <1>3 DEF OpenNow, PendingNow
  <2> QED BY <2>1, <1>2, EntryAfter DEF Comes, Durable!Open
<1>8. created \in Nat
  BY MaxFuturesAssumption DEF IInv, TypeOK
<1> QED BY <1>1, <1>2, <1>5, <1>6, <1>7, <1>8, Creates DEF NewEntry

LEMMA CreateSettledImplements ==
  ASSUME IInv, IInv', OutcomesKept, CreateSettled
  PROVE  Durable!Next
<1>1. PICK n : n = Fresh
  OBVIOUS
<1>2. n \in Future /\ created' = n /\ known' = known /\ disk' = disk /\ queue' = queue
  BY <1>1, CreateSettledViews
<1>3. /\ View(n)' = "Rejected" /\ mem'[n].state = "Rejected" /\ mem'[n].value = Plain /\ Live' = Live \cup {n}
      /\ \A f \in Future : f # n => SameView(f)
  BY <1>1, CreateSettledViews
<1>4. n \notin Live \cup PendingNow
  BY <1>1, <1>2, FreshFacts
<1>5. SameNow({n})
  <2>1. \A job : Queued(job) => Queued(job)'
    BY <1>2 DEF Queued
  <2> QED BY <2>1, <1>2, <1>3, <1>4, OthersSame
<1>6. SameSaved
  BY <1>1, <1>2, SavedKept
<1>7. PICK o : o = [type |-> "Rejected", value |-> Plain]
  OBVIOUS
<1>8. o \in Outcomes /\ o.value \notin Future
  <2>1. "Rejected" \in Type /\ Plain \in Value
    BY DEF Type, Value
  <2> QED BY <2>1, <1>7, NoneIsNoFuture DEF Outcomes
<1>9. NowEntry(n)' = Durable!Settled(o)
  <2>1. OutcomeNow(n)' = o
    BY <1>3, <1>7 DEF OutcomeNow, OutcomeOf, ObjectOrRow
  <2>2. View(n)' \in Type
    BY <1>3 DEF Type
  <2> QED BY <2>1, <2>2, <1>2, EntryAfter DEF Comes, Durable!Settled
<1>10. created \in Nat
  BY MaxFuturesAssumption DEF IInv, TypeOK
<1> QED BY <1>1, <1>2, <1>5, <1>6, <1>8, <1>9, <1>10, Creates DEF NewEntry

LEMMA NextOnPendingImplements ==
  ASSUME IInv, IInv', OutcomesKept, NEW f \in Live, NextOn(f), mem[f].state = "Pending"
  PROVE  Durable!Next
<1>1. PICK n : n = Fresh
  OBVIOUS
<1>2. n \in Future /\ created' = n /\ known' = known /\ disk' = disk /\ queue' = queue
  BY <1>1, NextOnPendingViews
<1>3. f \in Future /\ f # n /\ n \notin PendingNow /\ f \in PendingNow
  BY <1>1, NextOnPendingViews
<1>4. /\ View(f)' = View(f) /\ ViewRoot(f)' = ViewRoot(f)
      /\ \A t \in Type : ViewReactions(f, t)' = Append(ViewReactions(f, t), n)
  BY <1>1, NextOnPendingViews
<1>5. \A g \in Future : g # n /\ g # f => SameView(g)
  BY <1>1, NextOnPendingViews
<1>6. PICK l : l = ViewReactions(f, "Fulfilled") /\ l \in Seq(Future)
  BY <1>3, ViewTypes DEF IInv, Type
<1>7. ViewReactions(f, "Fulfilled")' = Append(l, n) /\ ToSet(Append(l, n)) = ToSet(l) \cup {n}
  BY <1>2, <1>4, <1>6, ToSetAppend DEF Type
<1>8. SameNow({n})
  <2>1. Grows(f)
    BY <1>4, <1>6, <1>7 DEF Grows
  <2>2. \A g \in Future : g # n => Grows(g) /\ (ViewRoot(g) => ViewRoot(g)')
    BY <2>1, <1>4, <1>5, SameGrows DEF SameView
  <2>3. n \notin Live
    BY <1>1, <1>2, FreshFacts
  <2>4. \A job : Queued(job) => Queued(job)'
    BY <1>2 DEF Queued
  <2> QED BY <2>2, <2>3, <2>4, <1>2, <1>3, OthersKept DEF OutcomesKept
<1>9. SameSaved
  BY <1>2, SavedKept
<1>10. NowEntry(n)' = FollowerOf(f)
  <2>1. Follows(n, f)'
    BY <1>3, <1>4, <1>7 DEF Follows, PendingNow, ListsNow
  <2> QED BY <2>1, <1>2, EntryAfter DEF Comes, FollowerOf
<1>11. NowEntry(f) # Durable!Gone /\ FromNow(f) = FollowerOf(f)
  <2>1. View(f) \notin Type
    BY <1>3 DEF PendingNow, Type
  <2> QED BY <2>1, LiveNotGone, FromIs
<1>12. NewEntry(NowEntry(n)', n)
  BY <1>3, <1>10, <1>11 DEF NewEntry
<1>13. created \in Nat
  BY MaxFuturesAssumption DEF IInv, TypeOK
<1> QED BY <1>1, <1>2, <1>8, <1>9, <1>12, <1>13, Creates

LEMMA NextOnSettledImplements ==
  ASSUME IInv, IInv', OutcomesKept, NEW f \in Live, NextOn(f), mem[f].state # "Pending", phase # "ready"
  PROVE  Durable!Next
<1>1. PICK n : n = Fresh
  OBVIOUS
<1>2. PICK j : j = Forward(n, mem[f].state, mem[f].value)
  OBVIOUS
<1>3. n \in Future /\ created' = n /\ known' = known /\ disk' = disk /\ n \notin PendingNow
  BY <1>1, <1>2, NextOnSettledViews
<1>4. j \in Job /\ j.next = n /\ j.value = mem[f].value /\ j.type = mem[f].state /\ j.type # "adopt"
  BY <1>1, <1>2, NextOnSettledViews
<1>5. queue' = Append(queue, j) /\ \A g \in Future : g # n => SameView(g)
  BY <1>1, <1>2, NextOnSettledViews
<1>6. Queued(j)' /\ \A job : Queued(job) => Queued(job)'
  BY <1>4, <1>5, QueuedMore DEF IInv
<1>7. n \notin Live
  BY <1>1, <1>3, FreshFacts
<1>8. SameNow({n})
  BY <1>3, <1>5, <1>6, <1>7, OthersSame
<1>9. SameSaved
  BY <1>3, SavedKept
<1>10. f \in Future /\ View(f) \in Type /\ OutcomeNow(f) = [type |-> j.type, value |-> j.value]
  <2>1. f \in Future /\ View(f) \in Type \cup {"Pending"} /\ View(f) = mem[f].state
    BY LiveNotGone DEF View
  <2> QED BY <2>1, <1>4 DEF OutcomeNow, OutcomeOf, ObjectOrRow
<1>11. NowEntry(n)' = DueTo(OutcomeNow(f))
  <2>1. OwedBy(j)' = DueTo(OutcomeNow(f))
    BY <1>4, <1>10 DEF OwedBy
  <2> QED BY <2>1, <1>3, <1>4, <1>6, EntryAfter DEF Comes, DueTo
<1>12. NowEntry(f) # Durable!Gone /\ FromNow(f) = DueTo(OutcomeNow(f))
  BY <1>10, LiveNotGone, FromIs
<1>13. NewEntry(NowEntry(n)', n)
  BY <1>7, <1>10, <1>11, <1>12 DEF NewEntry
<1>14. created \in Nat
  BY MaxFuturesAssumption DEF IInv, TypeOK
<1> QED BY <1>1, <1>3, <1>8, <1>9, <1>13, <1>14, Creates

----------------------------------------------------------------------------
(* Steps that the abstract store does not see.                             *)

LEMMA NothingSeen ==
  ASSUME IInv, IInv', OutcomesKept, created' = created, known' = known, disk' = disk, queue' = queue,
         \A g \in Future : SameView(g)
  PROVE  UNCHANGED Durable!vars
<1>1. None \notin Live \cup PendingNow /\ Future \ {None} = Future
  BY NoneIsNoFuture DEF Live, PendingNow
<1>2. SameNow({None})
  <2>1. \A job : Queued(job) => Queued(job)'
    BY DEF Queued
  <2> QED BY <2>1, <1>1, OthersSame
<1>3. SameNow({}) /\ SameSaved
  BY <1>1, <1>2, SavedKept DEF SameNow
<1> QED BY <1>3, Stutters

LEMMA LookupImplements ==
  ASSUME IInv, IInv', OutcomesKept, NEW f, GetFutureDB(f), NoSelfHolding'
  PROVE  UNCHANGED Durable!vars
<1>1. created' = created /\ known' = known /\ disk' = disk /\ queue' = queue /\ \A g \in Future : SameView(g)
  BY GetFutureDBViews
<1> QED BY <1>1, NothingSeen

LEMMA CallFlushImplements ==
  ASSUME IInv, IInv', OutcomesKept, CallFlush \/ UNCHANGED vars
  PROVE  UNCHANGED Durable!vars
<1>1. created' = created /\ known' = known /\ disk' = disk /\ mem' = mem /\ queue' = queue
  BY DEF CallFlush, vars, store
<1>2. \A g \in Future : SameView(g)
  BY <1>1, SameViews
<1> QED BY <1>1, <1>2, NothingSeen

----------------------------------------------------------------------------
(* A Future follows another one.                                           *)

LEMMA ResolveWithFutureImplements ==
  ASSUME IInv, IInv', OutcomesKept, phase # "ready",
         NEW f \in Live \cap known, NEW g \in Live \ Waiters({f}), ResolveWithFuture(f, g)
  PROVE  Durable!Next
<1>1. PICK j : j = Adoption(f, g)
  OBVIOUS
<1>2. /\ created' = created /\ known' = known /\ disk' = disk
      /\ f \in Future /\ g \in Future /\ f \in OpenNow
      /\ queue' = Append(queue, j)
      /\ View(f)' = View(f) /\ \A t \in Type : ViewReactions(f, t)' = ViewReactions(f, t)
      /\ \A h \in Future : h # f => SameView(h)
  <2>1. created' = created /\ known' = known /\ disk' = disk /\ f \in Future /\ g \in Future /\ f \in OpenNow
    BY <1>1, ResolveWithFutureViews
  <2>2. queue' = Append(queue, j)
    BY <1>1, ResolveWithFutureViews, SMTT(30)
  <2>3. View(f)' = View(f) /\ \A t \in Type : ViewReactions(f, t)' = ViewReactions(f, t)
    BY <1>1, ResolveWithFutureViews
  <2>4. \A h \in Future : h # f => SameView(h)
    BY <1>1, ResolveWithFutureViews
  <2> QED BY <2>1, <2>2, <2>3, <2>4
<1>3. j \in Job /\ j.next = f /\ j.from = g /\ j.type = "adopt"
  BY <1>2, <1>1 DEF Adoption, Job, Value
<1>4. f # g
  <2>1. {f} \subseteq Waiters({f})
    BY <1>2, WaitersClosed DEF IInv
  <2> QED BY <2>1
<1>5. Queued(j)' /\ \A job : Queued(job) => Queued(job)'
  BY <1>2, <1>3, QueuedMore DEF IInv
<1>6. SameNow({f})
  <2>1. Grows(f)
    BY <1>2 DEF Grows, Type
  <2>2. \A h \in Future : h # f => Grows(h) /\ (ViewRoot(h) => ViewRoot(h)')
    BY <1>2, SameGrows DEF SameView
  <2> QED BY <2>1, <2>2, <1>2, <1>5, OthersKept DEF OutcomesKept
<1>7. SameSaved
  BY <1>2, SavedKept
<1>8. NowEntry(f) = Durable!Open
  BY <1>2, EntryBefore DEF Comes
<1>9. NowEntry(g) # Durable!Gone
  BY LiveNotGone
<1>10. NowEntry(f)' = FromNow(g)
  <2>1. PICK s, o : s = View(g) /\ o = OutcomeNow(g)
    OBVIOUS
  <2>2. View(g)' = s /\ (s \in Type => OutcomeNow(g)' = o)
    BY <2>1, <1>2, <1>4, OutcomeKept DEF OutcomesKept, SameView, IInv
  <2>3. ObjectOrRow(g).state = View(g) /\ ObjectOrRow(g)'.state = View(g)'
    BY DEF View, ObjectOrRow
  <2>4. OwedBy(j)' = IF s \in Type THEN DueTo(o) ELSE FollowerOf(g)
    BY <2>2, <2>3, <1>3 DEF OwedBy, OutcomeNow, DueTo, FollowerOf
  <2>5. FromNow(g) = IF s \in Type THEN DueTo(o) ELSE FollowerOf(g)
    BY <2>1, FromIs
  <2>6. PICK e : e = FromNow(g)
    OBVIOUS
  <2>7. OwedBy(j)' = e
    BY <2>4, <2>5, <2>6
  <2>8. Comes(f, e)'
    BY <2>7, <1>3, <1>5 DEF Comes
  <2> QED BY <2>6, <2>8, <1>2, EntryAfter
<1> QED BY <1>2, <1>4, <1>6, <1>7, <1>8, <1>9, <1>10, HandsOver

\* The first job and the others.
LEMMA FirstJob ==
  ASSUME IInv, queue # <<>>
  PROVE  /\ Queued(Head(queue)) /\ Tail(queue) \in Seq(Job)
         /\ \A job : Queued(job) => job = Head(queue) \/ \E i \in DOMAIN Tail(queue) : Tail(queue)[i] = job
<1>1. queue \in Seq(Job)
  BY DEF IInv, TypeOK
<1>2. PICK x, u : x = Head(queue) /\ u = Tail(queue)
  OBVIOUS
<1>3. /\ u \in Seq(Job) /\ 1 \in DOMAIN queue /\ queue[1] = x
      /\ \A i \in DOMAIN queue : i # 1 => i - 1 \in DOMAIN u /\ u[i - 1] = queue[i]
  BY <1>1, <1>2, QueueTail
<1> QED BY <1>2, <1>3 DEF Queued

LEMMA RunAdoptImplements ==
  ASSUME IInv, IInv', OutcomesKept, phase # "ready",
         RunJob, Head(queue).type = "adopt", mem[Head(queue).from].state = "Pending"
  PROVE  UNCHANGED Durable!vars
<1>1. PICK j : j = Head(queue)
  OBVIOUS
<1>2. PICK f, n : f = j.from /\ n = j.next
  OBVIOUS
<1>3. HeadIs(f, n)
  BY <1>1, <1>2 DEF HeadIs
<1>4. queue # <<>> /\ created' = created /\ known' = known /\ disk' = disk
  BY <1>3, RunAdoptViews
<1>5. f \in Live /\ f \in Future /\ n \in Future /\ f \in PendingNow
  BY <1>3, RunAdoptViews
<1>6. queue' = Tail(queue)
  BY <1>3, RunAdoptViews
<1>7. /\ View(f)' = View(f) /\ ViewRoot(f)' = ViewRoot(f)
      /\ \A t \in Type : ViewReactions(f, t)' = Append(ViewReactions(f, t), n)
  BY <1>3, RunAdoptViews
<1>8. \A h \in Future : h # f => SameView(h)
  BY <1>3, RunAdoptViews
<1>9. PICK l : l = ViewReactions(f, "Fulfilled") /\ l \in Seq(Future)
  BY <1>5, ViewTypes DEF IInv, Type
<1>10. ViewReactions(f, "Fulfilled")' = Append(l, n) /\ ToSet(Append(l, n)) = ToSet(l) \cup {n}
  BY <1>5, <1>7, <1>9, ToSetAppend DEF Type
<1>11. \A h \in Future : Grows(h) /\ (ViewRoot(h) => ViewRoot(h)')
  <2>1. Grows(f)
    BY <1>7, <1>9, <1>10 DEF Grows
  <2> QED BY <2>1, <1>7, <1>8, SameGrows DEF SameView
<1>12. Queued(j) /\ \A job : Queued(job) => job = j \/ Queued(job)'
  BY <1>1, <1>4, <1>6, FirstJob DEF Queued
<1>13. SameNow({n})
  BY <1>2, <1>4, <1>5, <1>11, <1>12, OthersKept DEF OutcomesKept
<1>14. NowEntry(n)' = NowEntry(n)
  <2>1. OwedBy(j) = FollowerOf(f)
    <3>1. ObjectOrRow(f).state = "Pending" /\ "Pending" \notin Type
      BY <1>5 DEF ObjectOrRow, PendingNow, View, Type
    <3> QED BY <3>1, <1>1, <1>2 DEF OwedBy
  <2>2. NowEntry(n) = FollowerOf(f)
    BY <2>1, <1>2, <1>5, <1>12, EntryBefore DEF Comes
  <2>3. Follows(n, f)'
    BY <1>5, <1>7, <1>10 DEF Follows, PendingNow, ListsNow
  <2> QED BY <2>2, <2>3, <1>5, EntryAfter DEF Comes, FollowerOf
<1>15. SameNow({}) /\ SameSaved
  BY <1>4, <1>13, <1>14, SavedKept DEF SameNow
<1> QED BY <1>4, <1>15, Stutters

LEMMA RunAdoptedImplements ==
  ASSUME IInv, IInv', OutcomesKept, phase # "ready",
         RunJob, Head(queue).type = "adopt", mem[Head(queue).from].state # "Pending"
  PROVE  UNCHANGED Durable!vars
<1>1. PICK j : j = Head(queue)
  OBVIOUS
<1>2. PICK f, n : f = j.from /\ n = j.next
  OBVIOUS
<1>3. PICK x : x = Forward(n, mem[f].state, mem[f].value)
  OBVIOUS
<1>4. /\ queue # <<>> /\ created' = created /\ known' = known /\ disk' = disk /\ mem' = mem
      /\ queue' = Tail(queue) \o <<x>>
  BY <1>1, <1>2, <1>3 DEF RunJob, store, Enqueue
<1>5. f \in Live /\ n \in Live /\ Queued(j) /\ Tail(queue) \in Seq(Job)
  BY <1>1, <1>2, <1>4, HeadFacts, FirstJob
<1>6. f \in Future /\ n \in Future /\ View(f) \in Type /\ mem[f].value \in Value
  <2>1. f \in Future /\ n \in Future /\ mem[f] \in FutureDB
    BY <1>5, StoreFacts DEF IInv
  <2> QED BY <2>1, <1>1, <1>2, <1>5 DEF View, FutureDB
<1>7. x \in Job /\ x.next = n /\ x.value = mem[f].value /\ x.type = View(f) /\ x.type # "adopt"
  <2>1. View(f) = mem[f].state
    BY <1>5 DEF View
  <2> QED BY <2>1, <1>3, <1>6, ForwardFacts
<1>8. Queued(x)' /\ \A job : Queued(job) => job = j \/ Queued(job)'
  <2>1. PICK u, q : u = Tail(queue) /\ q = queue'
    OBVIOUS
  <2>2. q = Append(u, x)
    BY <2>1, <1>4, <1>5, <1>7
  <2>3. Len(u) + 1 \in DOMAIN q /\ q[Len(u) + 1] = x /\ \A i \in DOMAIN u : i \in DOMAIN q /\ q[i] = u[i]
    BY <2>1, <2>2, <1>5
  <2> QED BY <2>1, <2>3, <1>1, <1>4, FirstJob DEF Queued
<1>9. \A h \in Future : Grows(h) /\ (ViewRoot(h) => ViewRoot(h)')
  BY <1>4, SameViews, SameGrows DEF SameView
<1>10. SameNow({n})
  BY <1>2, <1>4, <1>6, <1>8, <1>9, OthersKept DEF OutcomesKept
<1>11. NowEntry(n)' = NowEntry(n)
  <2>1. ObjectOrRow(f).state = View(f) /\ OutcomeNow(f) = [type |-> x.type, value |-> x.value]
    BY <1>5, <1>7 DEF ObjectOrRow, View, OutcomeNow, OutcomeOf
  <2>2. OwedBy(j) = DueTo(OutcomeNow(f)) /\ OwedBy(x)' = DueTo(OutcomeNow(f))
    BY <2>1, <1>1, <1>2, <1>6, <1>7 DEF OwedBy, OutcomeNow
  <2>3. NowEntry(n) = DueTo(OutcomeNow(f))
    BY <2>2, <1>2, <1>5, <1>6, EntryBefore DEF Comes
  <2> QED BY <2>2, <2>3, <1>6, <1>7, <1>8, EntryAfter DEF Comes, DueTo
<1>12. SameNow({}) /\ SameSaved
  BY <1>4, <1>10, <1>11, SavedKept DEF SameNow
<1> QED BY <1>4, <1>12, Stutters

----------------------------------------------------------------------------
(* A Future settles.                                                       *)

\* What changes when f settles with o: f itself, and what those that follow it are owed.
LEMMA SettleSeen ==
  ASSUME IInv, IInv', OutcomesKept, NEW f \in Live, mem[f].state = "Pending",
         NEW t \in Type, NEW v \in Value, v \in Future => v \in Live, NEW rest \in Seq(Job), Leaves(queue, rest, f),
         Settle(f, t, v, rest), phase # "ready", disk' = disk, created' = created, known' = known, NoSelfHolding'
  PROVE  SettlesNow(f, [type |-> t, value |-> v]) /\ SameSaved
<1>0. TypeOK /\ f \in Future
  BY StoreFacts DEF IInv
<1>1. PICK o : o = [type |-> t, value |-> v]
  OBVIOUS
<1>2. PICK l : l = Popped(f, t)
  OBVIOUS
<1>3. SetStore(Settled(Store, f, t, v)) /\ Enqueue(rest, Forwards(l, t, v))
  BY <1>2 DEF Settle, Forwards
<1>4. Outcome(mem'[f], mem[f], t, v) /\ Live \subseteq Live' /\ \A g \in Future : g # f => SameView(g)
  BY <1>3, SettleObjects
<1>5. f \in PendingNow
  BY <1>0 DEF PendingNow, View
<1>6. l \in Seq(Future) /\ l = ListsNow[f]
  <2>1. l \in Seq(Future) /\ l = ViewReactions(f, t)
    BY <1>0, <1>2, ViewTypes DEF ViewReactions
  <2>2. ViewReactions(f, "Rejected") = ViewReactions(f, "Fulfilled")
    BY <1>5 DEF IInv, NowInv
  <2> QED BY <2>1, <2>2, <1>0 DEF ListsNow, Type
<1>7. PICK s : s = Forwards(l, t, v) /\ s \in Seq(Job)
  BY <1>6, ForwardsFacts
<1>8. queue' = rest \o s
  BY <1>0, <1>3, <1>7, EnqueueFacts
<1>9. \A job : Queued(job) /\ job.next # f => Queued(job)'
  <2> SUFFICES ASSUME NEW job, Queued(job), job.next # f PROVE Queued(job)'
    OBVIOUS
  <2>1. PICK k \in DOMAIN rest : rest[k] = job
    BY DEF Leaves, Queued
  <2>2. PICK q : q = queue'
    OBVIOUS
  <2>3. k \in DOMAIN q /\ q[k] = rest[k]
    BY <2>2, <1>7, <1>8
  <2> QED BY <2>1, <2>2, <2>3 DEF Queued
<1>10. ASSUME NEW g \in ToSet(l)
       PROVE  Queued(Forward(g, t, v))' /\ g # f
  <2>1. PICK k \in DOMAIN l : l[k] = g
    BY DEF ToSet
  <2>2. PICK q, x : q = queue' /\ x = Forward(g, t, v)
    OBVIOUS
  <2>3. k \in DOMAIN s /\ s[k] = x
    BY <2>1, <2>2, <1>7 DEF Forwards
  <2>4. Len(rest) + k \in DOMAIN q /\ q[Len(rest) + k] = s[k]
    BY <2>2, <2>3, <1>7, <1>8
  <2>5. g # f
    <3>1. Once(PendingNow, OpenNow, ListsNow, queue) /\ Grounded(PendingNow, OpenNow, ListsNow, queue)
      BY DEF IInv, NowInv, Sound
    <3>2. {f} \in SUBSET PendingNow /\ {f} # {}
      BY <1>5
    <3>3. SettledFrom(f, {f}, PendingNow, OpenNow, ListsNow, queue)
      BY <3>1, <3>2, Zenon DEF Grounded
    <3> QED BY <3>1, <3>3, <1>5, <1>6 DEF Once, SettledFrom
  <2>6. Queued(x)'
    BY <2>2, <2>3, <2>4 DEF Queued
  <2> QED BY <2>2, <2>5, <2>6 DEF Forward
<1>11. NowEntry(f)' = Durable!Settled(o)
  <2>1. mem'[f].state = t /\ mem'[f].value = v /\ f \in Live'
    BY <1>4 DEF Outcome
  <2>2. View(f)' \in Type /\ OutcomeNow(f)' = o
    BY <2>1, <1>1 DEF View, OutcomeNow, ObjectOrRow, OutcomeOf
  <2> QED BY <2>2, <1>0, EntryAfter DEF Comes, Durable!Settled
<1>12. ASSUME NEW g \in Future, g # f, NowEntry(g) = FollowerOf(f)
       PROVE  NowEntry(g)' = DueTo(o)
  <2>1. Comes(g, FollowerOf(f))
    BY <1>12, NowEntries DEF EntriesNow
  <2>2. \/ \E job : Queued(job) /\ job.next = g /\ FollowerOf(f) = OwedBy(job)
        \/ g \in ToSet(l)
    <3>1. FollowerOf(f) # Durable!Gone /\ FollowerOf(f) # Durable!Open /\ \A x : FollowerOf(f) # Durable!Settled(x)
      BY DEF FollowerOf, Durable!Gone, Durable!Open, Durable!Settled
    <3>2. \A h : FollowerOf(f) = FollowerOf(h) => f = h
      BY DEF FollowerOf
    <3> QED BY <2>1, <3>1, <3>2, <1>6 DEF Comes, Follows
  <2>3. CASE g \in ToSet(l)
    <3>1. PICK x : x = Forward(g, t, v) /\ Queued(x)'
      BY <2>3, <1>10
    <3>2. x.next = g /\ OwedBy(x)' = DueTo(o)
      BY <3>1, <1>1 DEF Forward, OwedBy, Type
    <3> QED BY <3>1, <3>2, EntryAfter DEF Comes, DueTo
  <2>4. ASSUME NEW job, Queued(job), job.next = g, FollowerOf(f) = OwedBy(job)
        PROVE  NowEntry(g)' = DueTo(o)
    <3>1. job.type = "adopt" /\ job.from = f
      BY <2>4 DEF OwedBy, FollowerOf, DueTo
    <3>2. ObjectOrRow(f)'.state = t /\ OutcomeOf(ObjectOrRow(f)') = o
      <4>1. mem'[f].state = t /\ mem'[f].value = v /\ f \in Live'
        BY <1>4 DEF Outcome
      <4> QED BY <4>1, <1>1 DEF ObjectOrRow, OutcomeOf
    <3>3. OwedBy(job)' = DueTo(o)
      BY <3>1, <3>2 DEF OwedBy
    <3>4. Queued(job)'
      BY <2>4, <1>9, <1>12
    <3> QED BY <2>4, <3>3, <3>4, EntryAfter DEF Comes, DueTo
  <2> QED BY <2>2, <2>3, <2>4
<1>13. ASSUME NEW g \in Future, g # f, NowEntry(g) # FollowerOf(f)
       PROVE  NowEntry(g)' = NowEntry(g)
  <2>1. \A h : Follows(g, h) => Grows(h)
    <3>1. ASSUME NEW h, Follows(g, h) PROVE h # f /\ h \in Future
      <4>1. Comes(g, FollowerOf(h))
        BY <3>1 DEF Comes
      <4> QED BY <4>1, <3>1, <1>13, EntryBefore DEF Follows, PendingNow
    <3> QED BY <3>1, <1>4, SameGrows
  <2>2. ASSUME NEW job, Queued(job), job.next = g
        PROVE  Queued(job)' /\ OwedBy(job)' = OwedBy(job)
    <3>1. job.from \in Future /\ Queued(job)' /\ OwedBy(job) # FollowerOf(f)
      <4>1. Comes(g, OwedBy(job))
        BY <2>2 DEF Comes
      <4> QED BY <4>1, <2>2, <1>9, <1>13, JobFacts, EntryBefore
    <3>2. CASE job.from # f
      BY <3>1, <3>2, <1>0, <1>4, OwedKept DEF OutcomesKept, SameView
    <3>3. CASE job.from = f
      <4>1. job.type # "adopt"
        <5>1. ObjectOrRow(f).state = "Pending" /\ "Pending" \notin Type
          BY DEF ObjectOrRow, Type
        <5> QED BY <5>1, <3>1, <3>3 DEF OwedBy
      <4> QED BY <4>1, <3>1 DEF OwedBy, DueTo
    <3> QED BY <3>1, <3>2, <3>3
  <2>3. Grows(g) /\ (g \in OpenNow => g \in OpenNow')
    BY <1>4, <1>13, SameGrows, StaysOpen DEF SameView
  <2> QED BY <2>1, <2>2, <2>3, KeptEntry DEF OutcomesKept
<1>14. SettlesNow(f, o)
  BY <1>11, <1>12, <1>13 DEF SettlesNow
<1> QED BY <1>1, <1>14, SavedKept

LEMMA ResolveWithImplements ==
  ASSUME IInv, IInv', OutcomesKept, phase # "ready", NEW f \in Live \cap known, ResolveWith(f), NoSelfHolding'
  PROVE  Durable!Next
<1>1. f \in Future /\ mem[f] \in FutureDB
  BY StoreFacts DEF IInv
<1>2. mem[f].state = "Pending" /\ mem[f].root
  <2>1. RowOk(f, mem[f], known)
    BY DEF IInv, MemInv, ObjectOk
  <2> QED BY <2>1 DEF RowOk, ResolveWith
<1>3. f \in OpenNow
  BY <1>1, <1>2 DEF OpenNow, PendingNow, View, ViewRoot
<1>4. Leaves(queue, queue, f) /\ queue \in Seq(Job)
  <2>1. Sound(PendingNow, OpenNow, ListsNow, queue)
    BY DEF IInv, NowInv
  <2> QED BY <2>1, <1>3, LeavesSame DEF IInv, TypeOK
<1>5. created' = created /\ known' = known /\ disk' = disk
  BY DEF ResolveWith
<1>6. PICK t \in Type, v \in Value : Settle(f, t, v, queue) /\ (v \in Future => v \in Live)
  <2>1. CASE \E g \in Live : Settle(f, "Fulfilled", g, queue)
    BY <2>1 DEF Type, Value, Live
  <2>2. CASE Settle(f, "Rejected", Plain, queue)
    BY <2>2, NoneIsNoFuture DEF Type, Value
  <2> QED BY <2>1, <2>2 DEF ResolveWith
<1>7. PICK o : o = [type |-> t, value |-> v]
  OBVIOUS
<1>8. SettlesNow(f, o) /\ SameSaved
  BY <1>2, <1>4, <1>5, <1>6, <1>7, SettleSeen
<1>9. NowEntry(f) = Durable!Open
  BY <1>1, <1>3, EntryBefore DEF Comes
<1>10. o \in Outcomes /\ (o.value \in Future => NowEntry(o.value) # Durable!Gone)
  BY <1>6, <1>7, LiveNotGone DEF Outcomes
<1> QED BY <1>1, <1>5, <1>8, <1>9, <1>10, Resolves

LEMMA RunSettleImplements ==
  ASSUME IInv, IInv', OutcomesKept, phase # "ready", RunJob, Head(queue).type # "adopt", NoSelfHolding'
  PROVE  Durable!Next
<1>1. PICK j : j = Head(queue)
  OBVIOUS
<1>2. queue # <<>> /\ created' = created /\ known' = known /\ disk' = disk
  BY DEF RunJob
<1>3. PICK f, t, v : f = j.next /\ t = j.type /\ v = j.value
  OBVIOUS
<1>4. Settle(f, t, v, Tail(queue))
  BY <1>1, <1>3 DEF RunJob
<1>5. /\ j \in Job /\ f \in Live /\ (v \in Future => v \in Live) /\ mem[f].state = "Pending"
      /\ Tail(queue) \in Seq(Job) /\ queue \in Seq(Job) /\ Queued(j)
  BY <1>1, <1>2, <1>3, HeadFacts, FirstJob
<1>6. t \in Type /\ v \in Value /\ f \in Future
  BY <1>1, <1>3, <1>5 DEF Job
<1>7. Leaves(queue, Tail(queue), f)
  <2>1. Sound(PendingNow, OpenNow, ListsNow, queue)
    BY DEF IInv, NowInv
  <2> QED BY <2>1, <1>1, <1>2, <1>3, <1>5, LeavesTail
<1>8. PICK o : o = [type |-> t, value |-> v]
  OBVIOUS
<1>9. SettlesNow(f, o) /\ SameSaved
  BY <1>2, <1>4, <1>5, <1>6, <1>7, <1>8, SettleSeen
<1>10. NowEntry(f) = DueTo(o)
  <2>1. OwedBy(j) = DueTo(o)
    BY <1>1, <1>3, <1>8 DEF OwedBy
  <2> QED BY <2>1, <1>3, <1>5, <1>6, EntryBefore DEF Comes
<1> QED BY <1>2, <1>6, <1>9, <1>10, Delivers

----------------------------------------------------------------------------
(* Nothing that is gone is referred to.                                    *)

LEMMA RefersIs ==
  ASSUME NEW g, NEW o
  PROVE  /\ Durable!Refers(Durable!Gone) = {} /\ Durable!Refers(Durable!Open) = {}
         /\ Durable!Refers(FollowerOf(g)) = {g}
         /\ Durable!Refers(DueTo(o)) = {o.value} \cap Future
         /\ Durable!Refers(Durable!Settled(o)) = {o.value} \cap Future
BY Kinds DEF Durable!Refers

LEMMA StoredNotGone ==
  ASSUME IInv, NEW f \in Stored(disk)
  PROVE  f \in Future /\ NowEntry(f) # Durable!Gone
<1>1. f \in Future /\ disk.rows[f].state \in Type \cup {"Pending"}
  BY RowTypes DEF Stored, IInv
<1>2. CASE f \in Live
  BY <1>2, LiveNotGone
<1>3. CASE f \notin Live
  <2>1. View(f) \in Type \cup {"Pending"}
    BY <1>1, <1>3 DEF View
  <2> QED BY <1>1, <2>1, NotGone
<1> QED BY <1>2, <1>3

LEMMA OutcomeNotGone ==
  ASSUME IInv, NEW f \in Future, View(f) \in Type, NEW g \in Future, OutcomeNow(f).value = g
  PROVE  NowEntry(g) # Durable!Gone
<1>1. CASE f \in Live
  <2>1. mem[f].value = g
    BY <1>1 DEF OutcomeNow, OutcomeOf, ObjectOrRow
  <2>2. g \in Live
    BY <2>1, <1>1 DEF IInv, MemInv, Refers
  <2> QED BY <2>2, LiveNotGone
<1>2. CASE f \notin Live
  <2>1. disk.rows[f].value = g /\ disk.rows[f].state \in Type
    BY <1>2 DEF OutcomeNow, OutcomeOf, ObjectOrRow, View
  <2>2. f \in Stored(disk)
    BY <2>1, RowTypes DEF IInv
  <2>3. g \in Stored(disk)
    BY <2>1, <2>2 DEF IInv, DiskInv
  <2> QED BY <2>3, StoredNotGone
<1> QED BY <1>1, <1>2

LEMMA NowIsComplete ==
  ASSUME IInv
  PROVE  CompleteNow
<1> SUFFICES ASSUME NEW f \in Future, NEW g \in Durable!Refers(NowEntry(f))
             PROVE  g \in Future /\ NowEntry(g) # Durable!Gone
  BY DEF CompleteNow
<1>1. PICK e : e = NowEntry(f)
  OBVIOUS
<1>2. Comes(f, e) /\ g \in Durable!Refers(e)
  BY <1>1, NowEntries DEF EntriesNow
<1>3. ~(e = Durable!Gone) /\ ~(e = Durable!Open)
  BY <1>2, RefersIs
<1>4. ASSUME View(f) \in Type, NEW o, o = OutcomeNow(f), e = Durable!Settled(o)
      PROVE  g \in Future /\ NowEntry(g) # Durable!Gone
  <2>1. g \in Future /\ OutcomeNow(f).value = g
    BY <1>2, <1>4, RefersIs
  <2> QED BY <2>1, <1>4, OutcomeNotGone
<1>5. ASSUME NEW job, Queued(job), job.next = f, e = OwedBy(job)
      PROVE  g \in Future /\ NowEntry(g) # Durable!Gone
  <2>1. PICK x : x = job.from /\ x \in Live /\ x \in Future
    BY <1>5, JobFacts
  <2>2. CASE job.type # "adopt"
    <3>1. e = DueTo([type |-> job.type, value |-> job.value])
      BY <2>2, <1>5 DEF OwedBy
    <3>2. g \in Future /\ g = job.value
      BY <3>1, <1>2, RefersIs
    <3>3. g \in Live
      BY <3>2, <1>5 DEF Queued, IInv, MemInv
    <3> QED BY <3>3, LiveNotGone
  <2>3. CASE job.type = "adopt" /\ View(x) \in Type
    <3>1. e = DueTo(OutcomeNow(x))
      BY <2>1, <2>3, <1>5, ViewIs DEF OwedBy, OutcomeNow
    <3>2. g \in Future /\ OutcomeNow(x).value = g
      BY <3>1, <1>2, RefersIs
    <3> QED BY <3>2, <2>1, <2>3, OutcomeNotGone
  <2>4. CASE job.type = "adopt" /\ View(x) \notin Type
    <3>1. e = FollowerOf(x)
      BY <2>1, <2>4, <1>5, ViewIs DEF OwedBy
    <3>2. g = x
      BY <3>1, <1>2, RefersIs
    <3> QED BY <3>2, <2>1, LiveNotGone
  <2> QED BY <2>2, <2>3, <2>4
<1>6. ASSUME NEW x, Follows(f, x), e = FollowerOf(x)
      PROVE  g \in Future /\ NowEntry(g) # Durable!Gone
  <2>1. g = x /\ g \in Future /\ View(g) = "Pending"
    BY <1>2, <1>6, RefersIs DEF Follows, PendingNow
  <2> QED BY <2>1, NotGone
<1> QED BY <1>2, <1>3, <1>4, <1>5, <1>6 DEF Comes

\* What has a row is not gone on disk.
LEMMA SavedGone ==
  ASSUME IInv, NEW f \in Future
  PROVE  SavedEntry(f) = Durable!Gone <=> f \notin Stored(disk)
<1>1. PICK e : e = SavedEntry(f)
  OBVIOUS
<1>2. ComesSaved(f, e) /\ (ComesSaved(f, Durable!Gone) => e = Durable!Gone)
  BY <1>1, SavedEntries DEF EntriesSaved
<1>3. f \notin Stored(disk) => e = Durable!Gone
  BY <1>2 DEF ComesSaved
<1>4. ASSUME e = Durable!Gone PROVE f \notin Stored(disk)
  <2>1. Durable!Open # Durable!Gone /\ \A o : Durable!Settled(o) # Durable!Gone
    BY DEF Durable!Open, Durable!Gone, Durable!Settled
  <2>2. \A g : FollowerOf(g) # Durable!Gone
    BY DEF FollowerOf, Durable!Gone
  <2> QED BY <2>1, <2>2, <1>2, <1>4 DEF ComesSaved
<1> QED BY <1>1, <1>3, <1>4

LEMMA SavedIsComplete ==
  ASSUME IInv
  PROVE  CompleteSaved
<1> SUFFICES ASSUME NEW f \in Future, NEW g \in Durable!Refers(SavedEntry(f))
             PROVE  g \in Future /\ SavedEntry(g) # Durable!Gone
  BY DEF CompleteSaved
<1>1. PICK e : e = SavedEntry(f)
  OBVIOUS
<1>2. ComesSaved(f, e) /\ g \in Durable!Refers(e)
  BY <1>1, SavedEntries DEF EntriesSaved
<1>3. ~(e = Durable!Gone) /\ ~(e = Durable!Open)
  BY <1>2, RefersIs
<1>4. CASE f \in Stored(disk) /\ e = Durable!Settled(OutcomeOf(disk.rows[f]))
  <2>1. g \in Future /\ disk.rows[f].value = g
    BY <1>2, <1>4, RefersIs DEF OutcomeOf
  <2>2. g \in Stored(disk)
    BY <2>1, <1>4 DEF IInv, DiskInv
  <2> QED BY <2>1, <2>2, SavedGone
<1>5. ASSUME NEW x \in PendingSaved, e = FollowerOf(x)
      PROVE  g \in Future /\ SavedEntry(g) # Durable!Gone
  <2>1. g = x /\ g \in Future /\ g \in Stored(disk)
    BY <1>2, <1>5, RefersIs DEF PendingSaved, Stored
  <2> QED BY <2>1, SavedGone
<1> QED BY <1>2, <1>3, <1>4, <1>5 DEF ComesSaved

LEMMA CompleteAfter == IInv' => CompleteNow' /\ CompleteSaved'
<1>1. IInv => CompleteNow /\ CompleteSaved
  BY NowIsComplete, SavedIsComplete
<1> QED BY <1>1, PTL

----------------------------------------------------------------------------
(* Flushes, collections, evictions and crashes.                            *)

\* A Future keeps its entry when the step leaves the ledger and its state alone.
LEMMA NowStays ==
  ASSUME IInv, IInv', OutcomesKept, queue' = queue, PendingNow' = PendingNow, OpenNow' = OpenNow,
         \A g \in PendingNow, t \in Type : ViewReactions(g, t)' = ViewReactions(g, t),
         \A job : Queued(job) => View(job.from)' = View(job.from),
         NEW f \in Future, View(f)' = View(f)
  PROVE  NowEntry(f)' = NowEntry(f)
<1>1. \A g \in PendingNow : g \in Future /\ View(g) = "Pending" /\ View(g)' = "Pending"
  BY DEF PendingNow
<1>2. \A g \in PendingNow : Grows(g)
  BY <1>1 DEF Grows, Type
<1>3. Grows(f)
  BY <1>2 DEF Grows, PendingNow
<1>4. \A g : Follows(f, g) => Grows(g)
  BY <1>2 DEF Follows
<1>5. ASSUME NEW job, Queued(job), job.next = f
      PROVE  Queued(job)' /\ OwedBy(job)' = OwedBy(job)
  <2>1. job.from \in Future /\ Queued(job)' /\ View(job.from)' = View(job.from)
    BY <1>5, JobFacts DEF Queued
  <2> QED BY <2>1, OwedKept DEF OutcomesKept, IInv
<1> QED BY <1>3, <1>4, <1>5, KeptEntry DEF OutcomesKept

LEMMA FlushImplements ==
  ASSUME IInv, IInv', OutcomesKept, Flush
  PROVE  Durable!Next
<1>1. /\ created' = created /\ known' = known /\ queue' = queue /\ queue = <<>>
      /\ PendingNow' = PendingNow /\ OpenNow' = OpenNow
      /\ \A f \in Future :
           /\ View(f)' = View(f)
           /\ View(f) = "Pending" => \A t \in Type : ViewReactions(f, t)' = ViewReactions(f, t)
  BY FlushViews
<1>2. /\ PendingSaved' = PendingNow /\ OpenSaved' = OpenNow
      /\ \A f \in PendingNow, t \in Type : disk'.rx[t][f] = ViewReactions(f, t)
      /\ \A f \in Stored(disk)' : disk'.rows[f].state = View(f)
      /\ Stored(disk) \subseteq Stored(disk)'
  BY FlushViews
<1>3. \A job : ~Queued(job)
  BY <1>1 DEF Queued
<1>4. SameNow({})
  <2>1. \A g \in PendingNow, t \in Type : ViewReactions(g, t)' = ViewReactions(g, t)
    BY <1>1 DEF PendingNow
  <2>2. \A job : Queued(job) => View(job.from)' = View(job.from)
    BY <1>3
  <2> QED BY <2>1, <2>2, <1>1, NowStays DEF SameNow
<1>5. ASSUME NEW f \in Future PROVE NowEntry(f).is # "due"
  <2>1. Comes(f, NowEntry(f))
    BY NowEntries DEF EntriesNow
  <2>2. Durable!Gone.is # "due" /\ Durable!Open.is # "due" /\ \A o : Durable!Settled(o).is # "due"
    BY DEF Durable!Gone, Durable!Open, Durable!Settled
  <2>3. \A g : FollowerOf(g).is # "due"
    BY DEF FollowerOf
  <2> QED BY <2>1, <2>2, <2>3, <1>3 DEF Comes
<1>6. ASSUME NEW f \in Future
      PROVE  \/ SavedEntry(f)' = NowEntry(f)
             \/ /\ SavedEntry(f)' = Durable!Gone /\ SavedEntry(f) = Durable!Gone
                /\ NowEntry(f).is = "settled"
  <2>1. PICK e : e = NowEntry(f)
    OBVIOUS
  <2>2. Comes(f, e)
    BY <2>1, NowEntries DEF EntriesNow
  <2>3. PICK d : d = disk'
    OBVIOUS
  <2>4. /\ f \in Stored(d) => d.rows[f].state = View(f) /\ d.rows[f].state \in Type \cup {"Pending"}
        /\ f \notin Stored(d) => SavedEntry(f)' = Durable!Gone /\ f \notin Stored(disk)
    <3>1. TypeOK' => d \in Tables
      BY <2>3 DEF TypeOK
    <3>2. f \in Stored(d) => d.rows[f].state \in Type \cup {"Pending"}
      BY <3>1 DEF IInv, Tables, Stored, Row
    <3>3. f \notin Stored(d) => ComesSaved(f, Durable!Gone)'
      BY <2>3 DEF ComesSaved, Durable!Gone
    <3>4. f \notin Stored(d) => SavedEntry(f)' = Durable!Gone
      BY <3>3, SavedAfter
    <3> QED BY <3>2, <3>4, <1>2, <2>3
  <2>5. CASE View(f) \notin Type \cup {"Pending"} /\ e = Durable!Gone
    BY <2>1, <2>4, <2>5
  <2>6. ASSUME View(f) \in Type, NEW o, o = OutcomeNow(f), e = Durable!Settled(o)
        PROVE  \/ SavedEntry(f)' = e
               \/ SavedEntry(f)' = Durable!Gone /\ SavedEntry(f) = Durable!Gone /\ e.is = "settled"
    <3>1. CASE f \in Stored(d)
      <4>1. PICK was : was = ObjectOrRow(f)
        OBVIOUS
      <4>2. was \in {mem[f], disk.rows[f]} /\ was.state \in Type
        BY <4>1, <2>6, ViewIs DEF ObjectOrRow
      <4>3. d.rows[f] # NoRow /\ d.rows[f].state \in Type
        BY <3>1, <2>4, <2>6 DEF Stored
      <4>4. "Pending" \notin Type
        BY DEF Type
      <4>5. SameOutcome(d.rows[f], was)
        BY <4>2, <4>3, <4>4, <2>3 DEF OutcomesKept, KeepsOutcome
      <4>6. o = OutcomeOf(d.rows[f])
        BY <4>1, <4>5, <2>6 DEF OutcomeNow, OutcomeOf, SameOutcome
      <4>7. ComesSaved(f, e)'
        BY <3>1, <4>3, <4>6, <2>3, <2>6 DEF ComesSaved, Durable!Settled
      <4> QED BY <4>7, SavedAfter
    <3>2. CASE f \notin Stored(d)
      BY <3>2, <2>4, <2>6, SavedGone, Kinds
    <3> QED BY <3>1, <3>2
  <2>7. CASE f \in OpenNow /\ e = Durable!Open
    <3>1. ComesSaved(f, e)'
      BY <2>7, <1>2 DEF ComesSaved, Durable!Open
    <3> QED BY <3>1, <2>1, SavedAfter
  <2>8. ASSUME NEW g, Follows(f, g), e = FollowerOf(g)
        PROVE  SavedEntry(f)' = e
    <3>1. g \in PendingNow /\ g \in Future /\ f \in ToSet(ViewReactions(g, "Fulfilled"))
      BY <2>8 DEF Follows, PendingNow, ListsNow
    <3>2. g \in PendingSaved' /\ f \in ToSet(disk'.rx["Fulfilled"][g])
      BY <3>1, <1>2 DEF Type
    <3>3. ComesSaved(f, e)'
      BY <3>2, <2>8 DEF ComesSaved, FollowerOf
    <3> QED BY <3>3, SavedAfter
  <2> QED BY <2>1, <2>2, <2>5, <2>6, <2>7, <2>8, <1>3 DEF Comes
<1> QED BY <1>1, <1>4, <1>5, <1>6, CompleteAfter, Flushes

\* A step that takes objects or rows away, of settled Futures that have no row after it.
LEMMA ForgetsSome ==
  ASSUME IInv, IInv', OutcomesKept, created' = created, queue' = queue, PendingNow' = PendingNow, OpenNow' = OpenNow,
         \A g \in PendingNow, t \in Type : ViewReactions(g, t)' = ViewReactions(g, t),
         \A job : Queued(job) => View(job.from)' = View(job.from),
         \A f \in Future : \/ View(f)' = View(f)
                           \/ View(f) \in Type /\ View(f)' = "none" /\ f \notin Stored(disk)',
         \A f \in Future : \/ SavedEntry(f)' = SavedEntry(f)
                           \/ SavedEntry(f)' = Durable!Gone /\ SavedEntry(f).is = "settled"
  PROVE  Durable!Next
<1>1. ASSUME NEW f \in Future
      PROVE  \/ NowEntry(f)' = NowEntry(f)
             \/ NowEntry(f)' = Durable!Gone /\ SavedEntry(f)' = Durable!Gone /\ NowEntry(f).is = "settled"
  <2>1. CASE View(f)' = View(f)
    BY <2>1, NowStays
  <2>2. CASE View(f) \in Type /\ View(f)' = "none" /\ f \notin Stored(disk)'
    <3>1. Comes(f, Durable!Gone)'
      BY <2>2 DEF Comes, Type, Durable!Gone
    <3>2. ComesSaved(f, Durable!Gone)'
      BY <2>2 DEF ComesSaved, Durable!Gone
    <3>3. Comes(f, Durable!Settled(OutcomeNow(f)))
      BY <2>2 DEF Comes
    <3> QED BY <3>1, <3>2, <3>3, EntryAfter, SavedAfter, EntryBefore, Kinds
  <2> QED BY <2>1, <2>2
<1> QED BY <1>1, CompleteAfter, Forgets

LEMMA CollectImplements ==
  ASSUME IInv, IInv', OutcomesKept, Collect
  PROVE  Durable!Next
<1>1. /\ created' = created /\ known' = known /\ mem' = mem /\ queue' = queue /\ Live' = Live
      /\ PendingNow' = PendingNow /\ OpenNow' = OpenNow
      /\ \A f \in PendingNow, t \in Type : ViewReactions(f, t)' = ViewReactions(f, t)
  BY CollectViews
<1>2. /\ PendingSaved' = PendingSaved /\ OpenSaved' = OpenSaved
      /\ \A f \in PendingSaved, t \in Type : disk'.rx[t][f] = disk.rx[t][f]
      /\ \A f \in Stored(disk)' : f \in Stored(disk) /\ disk'.rows[f] = disk.rows[f]
  BY CollectViews
<1>3. \A f \in Live : View(f)' = View(f)
  BY <1>1 DEF View
<1>4. \A job : Queued(job) => View(job.from)' = View(job.from)
  BY <1>3, JobFacts
<1>5. PICK d : d = disk'
  OBVIOUS
<1>6. \A f \in Future : f \notin Stored(d) => d.rows[f].state = "none"
  BY DEF Stored, NoRow
<1>7. ASSUME NEW f \in Future
      PROVE  \/ View(f)' = View(f)
             \/ View(f) \in Type /\ View(f)' = "none" /\ f \notin Stored(disk)'
  <2>1. CASE f \in Live
    BY <2>1, <1>3
  <2>2. CASE f \notin Live
    <3>1. View(f)' = d.rows[f].state /\ View(f) = disk.rows[f].state
      BY <2>2, <1>1, <1>5 DEF View
    <3>2. CASE f \in Stored(d)
      BY <3>1, <3>2, <1>2, <1>5
    <3>3. CASE f \notin Stored(d)
      <4>1. CASE f \in Stored(disk)
        <5>1. f \notin PendingSaved
          BY <3>3, <1>2, <1>5 DEF PendingSaved
        <5>2. disk.rows[f].state \in Type
          BY <4>1, <5>1, RowTypes DEF PendingSaved, IInv
        <5> QED BY <3>1, <3>3, <5>2, <1>5, <1>6
      <4>2. CASE f \notin Stored(disk)
        BY <3>1, <3>3, <4>2, <1>6 DEF Stored, NoRow
      <4> QED BY <4>1, <4>2
    <3> QED BY <3>2, <3>3
  <2> QED BY <2>1, <2>2
<1>8. ASSUME NEW f \in Future
      PROVE  \/ SavedEntry(f)' = SavedEntry(f)
             \/ SavedEntry(f)' = Durable!Gone /\ SavedEntry(f).is = "settled"
  <2>1. PICK e : e = SavedEntry(f)
    OBVIOUS
  <2>2. ComesSaved(f, e)
    BY <2>1, SavedEntries DEF EntriesSaved
  <2>3. CASE f \notin Stored(disk) /\ e = Durable!Gone
    <3>1. f \notin Stored(disk)'
      BY <2>3, <1>2
    <3>2. ComesSaved(f, e)'
      BY <3>1, <2>3 DEF ComesSaved, Durable!Gone
    <3> QED BY <3>2, <2>1, SavedAfter
  <2>4. CASE f \in Stored(disk) /\ disk.rows[f].state \in Type /\ e = Durable!Settled(OutcomeOf(disk.rows[f]))
    <3>1. CASE f \in Stored(d)
      <4>1. ComesSaved(f, e)'
        BY <3>1, <2>4, <1>2, <1>5 DEF ComesSaved, Durable!Settled, OutcomeOf
      <4> QED BY <4>1, <2>1, SavedAfter
    <3>2. CASE f \notin Stored(d)
      <4>1. ComesSaved(f, Durable!Gone)'
        BY <3>2, <1>5 DEF ComesSaved, Durable!Gone
      <4> QED BY <4>1, <2>1, <2>4, SavedAfter, Kinds
    <3> QED BY <3>1, <3>2
  <2>5. CASE f \in OpenSaved /\ e = Durable!Open
    <3>1. ComesSaved(f, e)'
      BY <2>5, <1>2 DEF ComesSaved, Durable!Open
    <3> QED BY <3>1, <2>1, SavedAfter
  <2>6. ASSUME NEW g \in PendingSaved, f \in ToSet(disk.rx["Fulfilled"][g]), e = FollowerOf(g)
        PROVE  SavedEntry(f)' = e
    <3>1. g \in PendingSaved' /\ f \in ToSet(disk'.rx["Fulfilled"][g])
      BY <2>6, <1>2 DEF Type
    <3>2. ComesSaved(f, e)'
      BY <3>1, <2>6 DEF ComesSaved, FollowerOf
    <3> QED BY <3>2, SavedAfter
  <2> QED BY <2>1, <2>2, <2>3, <2>4, <2>5, <2>6 DEF ComesSaved
<1> QED BY <1>1, <1>4, <1>7, <1>8, ForgetsSome

LEMMA EvictImplements ==
  ASSUME IInv, IInv', OutcomesKept, NEW f \in Future, Evict(f)
  PROVE  Durable!Next
<1>1. /\ f \in Live /\ ~Retained(f)
      /\ created' = created /\ known' = known /\ disk' = disk /\ queue' = queue
      /\ PendingNow' = PendingNow /\ OpenNow' = OpenNow
      /\ \A g \in PendingNow, t \in Type : ViewReactions(g, t)' = ViewReactions(g, t)
  BY EvictViews
<1>2. /\ \A g \in Future : g # f => SameView(g)
      /\ f \in Stored(disk) => View(f)' = View(f)
      /\ f \notin Stored(disk) => View(f)' = "none" /\ View(f) \in Type
  BY EvictViews
<1>3. \A g \in Future : g # f => View(g)' = View(g)
  BY <1>2 DEF SameView
<1>4. \A job : Queued(job) => View(job.from)' = View(job.from)
  <2>1. \A job : Queued(job) => job.from # f
    BY <1>1 DEF Retained, Queued
  <2>2. \A job : Queued(job) => job.from \in Future
    BY JobFacts
  <2> QED BY <2>1, <2>2, <1>3
<1>5. Stored(disk)' = Stored(disk)
  BY <1>1 DEF Stored
<1>6. \A g \in Future : \/ View(g)' = View(g)
                        \/ View(g) \in Type /\ View(g)' = "none" /\ g \notin Stored(disk)'
  BY <1>2, <1>3, <1>5
<1>7. SameSaved
  BY <1>1, SavedKept
<1> QED BY <1>1, <1>4, <1>6, <1>7, ForgetsSome DEF SameSaved

LEMMA CrashImplements ==
  ASSUME IInv, IInv', OutcomesKept, Crash
  PROVE  Durable!Next
<1>1. /\ created' = created /\ known' = known /\ disk' = disk /\ queue' = <<>> /\ Live' = {}
      /\ PendingNow' = PendingSaved /\ OpenNow' = OpenSaved
      /\ \A f \in Future : View(f)' = disk.rows[f].state /\ \A t \in Type : ViewReactions(f, t)' = disk.rx[t][f]
  BY CrashViews
<1>2. ASSUME NEW f \in Future PROVE NowEntry(f)' = SavedEntry(f)
  <2>1. PICK e : e = SavedEntry(f)
    OBVIOUS
  <2>2. ComesSaved(f, e)
    BY <2>1, SavedEntries DEF EntriesSaved
  <2>3. Comes(f, e)'
    <3>1. CASE f \notin Stored(disk) /\ e = Durable!Gone
      <4>1. View(f)' = "none"
        BY <3>1, <1>1 DEF Stored, NoRow
      <4> QED BY <3>1, <4>1 DEF Comes, Type, Durable!Gone
    <3>2. CASE f \in Stored(disk) /\ disk.rows[f].state \in Type /\ e = Durable!Settled(OutcomeOf(disk.rows[f]))
      <4>1. View(f)' \in Type /\ OutcomeNow(f)' = OutcomeOf(disk.rows[f])
        BY <3>2, <1>1 DEF OutcomeNow, OutcomeOf, ObjectOrRow
      <4> QED BY <3>2, <4>1 DEF Comes, Durable!Settled
    <3>3. CASE f \in OpenSaved /\ e = Durable!Open
      BY <3>3, <1>1 DEF Comes, Durable!Open
    <3>4. ASSUME NEW g \in PendingSaved, f \in ToSet(disk.rx["Fulfilled"][g]), e = FollowerOf(g)
          PROVE  Comes(f, e)'
      <4>1. g \in Future /\ ListsNow[g]' = disk.rx["Fulfilled"][g]
        BY <1>1 DEF ListsNow, PendingSaved, Stored, Type
      <4>2. Follows(f, g)'
        BY <3>4, <4>1, <1>1 DEF Follows
      <4> QED BY <3>4, <4>2 DEF Comes, FollowerOf
    <3> QED BY <2>2, <3>1, <3>2, <3>3, <3>4 DEF ComesSaved
  <2> QED BY <2>1, <2>3, EntryAfter
<1>3. SameSaved
  BY <1>1, SavedKept
<1> QED BY <1>1, <1>2, <1>3, Crashes

----------------------------------------------------------------------------
(* The theorem.                                                            *)

LEMMA UserImplements ==
  ASSUME IInv, IInv', OutcomesKept, UserStep, phase # "ready", NoSelfHolding'
  PROVE  Durable!Next \/ UNCHANGED Durable!vars
<1>1. ASSUME NEW f \in Live, NextOn(f) PROVE Durable!Next
  BY <1>1, NextOnPendingImplements, NextOnSettledImplements
<1>2. ASSUME NEW f \in Live \cap known, ResolveWith(f) PROVE Durable!Next
  BY <1>2, ResolveWithImplements
<1>3. ASSUME NEW f \in Live \cap known, NEW g \in Live \ Waiters({f}), ResolveWithFuture(f, g) PROVE Durable!Next
  BY <1>3, ResolveWithFutureImplements
<1>4. ASSUME NEW f \in Future, GetFutureDB(f) PROVE UNCHANGED Durable!vars
  BY <1>4, LookupImplements
<1>5. CASE Create
  BY <1>5, CreateImplements
<1>6. CASE CreateSettled
  BY <1>6, CreateSettledImplements
<1>7. CASE CallFlush
  BY <1>7, CallFlushImplements
<1> QED BY <1>1, <1>2, <1>3, <1>4, <1>5, <1>6, <1>7 DEF UserStep

LEMMA SystemImplements ==
  ASSUME IInv, IInv', OutcomesKept, SystemStep, NoSelfHolding'
  PROVE  Durable!Next \/ UNCHANGED Durable!vars
<1>1. CASE phase # "ready" /\ RunJob
  BY <1>1, RunSettleImplements, RunAdoptImplements, RunAdoptedImplements
<1>2. CASE Flush
  BY <1>2, FlushImplements
<1>3. CASE Collect
  BY <1>3, CollectImplements
<1>4. ASSUME NEW f \in Future, Evict(f) PROVE Durable!Next
  BY <1>4, EvictImplements
<1>5. CASE Crash
  BY <1>5, CrashImplements
<1> QED BY <1>1, <1>2, <1>3, <1>4, <1>5 DEF SystemStep

LEMMA StepImplements ==
  ASSUME IInv, IInv', [Next]_vars
  PROVE  [Durable!Next]_(Durable!vars)
<1>1. OutcomesKept
  BY StepKeeps DEF OutcomesKept
<1>2. CASE Next
  BY <1>1, <1>2, UserImplements, SystemImplements DEF Next
<1>3. CASE UNCHANGED vars
  BY <1>1, <1>3, CallFlushImplements
<1> QED BY <1>2, <1>3

LEMMA InitImplements ==
  ASSUME Init
  PROVE  Durable!Init
<1>1. IInv
  BY InitInv
<1>2. created = 0 /\ (\A f \in Future : mem[f] = Absent) /\ (\A f \in Future : disk.rows[f] = NoRow)
  BY DEF Init, Empty
<1>3. Live = {} /\ Stored(disk) = {}
  BY <1>2 DEF Live, Stored
<1>4. \A f \in Future : SavedEntry(f) = Durable!Gone
  BY <1>1, <1>3, SavedGone
<1>5. \A f \in Future : NowEntry(f) = Durable!Gone
  <2>1. \A f \in Future : View(f) = "none"
    BY <1>2, <1>3 DEF View, NoRow
  <2> QED BY <2>1, <1>1, NotGone DEF Type
<1>6. 1..created = {}
  BY <1>2
<1> QED BY <1>4, <1>5, <1>6 DEF Durable!Init

\* The SQLite store implements DurableFutures: across flushes, collections, evictions and
\* crashes every Future gets one outcome, from user code or from the Future it follows.  A
\* crash goes back to the last flush, and only settled Futures are forgotten, none that
\* anything left refers to.
THEOREM RefinesDurableFutures == Spec => ImplementsDurableFutures
<1>1. Init => Durable!Init
  BY InitImplements
<1>2. IInv /\ IInv' /\ [Next]_vars => [Durable!Next]_(Durable!vars)
  BY StepImplements
<1> QED BY <1>1, <1>2, Inductive, PTL DEF Spec, ImplementsDurableFutures, Durable!Spec
=============================================================================
