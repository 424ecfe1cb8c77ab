-------------------------- MODULE SqlStore_proofs --------------------------
(***************************************************************************)
(* Proofs about SqlStore for any number of Futures: its types, that no     *)
(* Pending Future is forgotten in memory, on disk and across a crash, that *)
(* rows refer to rows, that an object which is not to be written agrees    *)
(* with its row, and that outcomes are never replaced.                     *)
(***************************************************************************)
EXTENDS SqlStore, FiniteSetTheorems, WellFoundedInduction, TLAPS

----------------------------------------------------------------------------
(* Induction, sequences.                                                   *)

\* A set of numbers with 0 and with each successor up to n has all of them.
LEMMA UpTo ==
  ASSUME NEW n \in Nat, NEW T, 0 \in T, \A k \in 0 .. n - 1 : k \in T => k + 1 \in T
  PROVE  \A k \in 0..n : k \in T
<1> SUFFICES ASSUME NEW bad, bad = {k \in 0..n : k \notin T}, bad # {} PROVE FALSE
  OBVIOUS
<1>1. bad \subseteq Nat
  OBVIOUS
<1>2. PICK k \in bad : \A j \in bad : ~(<<j, k>> \in OpToRel(<, Nat))
  BY <1>1, NatLessThanWellFounded, WFMin, Zenon
<1>3. k \in 0..n /\ k \notin T /\ k # 0
  OBVIOUS
<1>4. k - 1 \in 0 .. n - 1 /\ k - 1 \in 0..n /\ k - 1 \in Nat /\ k \in Nat /\ k - 1 < k /\ (k - 1) + 1 = k
  BY <1>3
<1>5. k - 1 \in bad
  BY <1>3, <1>4
<1>6. <<k - 1, k>> \in OpToRel(<, Nat)
  BY <1>4 DEF OpToRel
<1> QED BY <1>2, <1>5, <1>6

\* The elements of sequences that are built or taken apart.
LEMMA ToSetAppend ==
  ASSUME NEW S, NEW s \in Seq(S), NEW x \in S
  PROVE  ToSet(Append(s, x)) = ToSet(s) \cup {x}
<1>1. PICK a : a = Append(s, x)
  OBVIOUS
<1>2. /\ DOMAIN a = 1 .. Len(s) + 1 /\ a[Len(s) + 1] = x /\ \A i \in 1..Len(s) : a[i] = s[i]
      /\ DOMAIN s = 1..Len(s) /\ Len(s) \in Nat
  BY <1>1
<1>3. \A i \in DOMAIN a : i \in DOMAIN s \/ i = Len(s) + 1
  BY <1>2
<1>4. \A i \in DOMAIN s : i \in DOMAIN a
  BY <1>2
<1>5. Len(s) + 1 \in DOMAIN a
  BY <1>2
<1>6. ToSet(a) = ToSet(s) \cup {x}
  BY <1>2, <1>3, <1>4, <1>5 DEF ToSet
<1> QED BY <1>1, <1>6

LEMMA ToSetConcat ==
  ASSUME NEW S, NEW s \in Seq(S), NEW u \in Seq(S)
  PROVE  ToSet(s \o u) = ToSet(s) \cup ToSet(u)
<1>1. PICK a : a = s \o u
  OBVIOUS
<1>2. /\ DOMAIN a = 1 .. Len(s) + Len(u) /\ DOMAIN s = 1..Len(s) /\ DOMAIN u = 1..Len(u)
      /\ Len(s) \in Nat /\ Len(u) \in Nat
      /\ \A i \in 1..Len(s) : a[i] = s[i] /\ i \in DOMAIN a
      /\ \A i \in 1..Len(u) : a[Len(s) + i] = u[i] /\ Len(s) + i \in DOMAIN a
  BY <1>1
<1>3. ASSUME NEW i \in DOMAIN a, i \notin DOMAIN s
      PROVE  i - Len(s) \in DOMAIN u /\ a[i] = u[i - Len(s)]
  <2>1. i - Len(s) \in 1..Len(u) /\ Len(s) + (i - Len(s)) = i
    BY <1>2, <1>3
  <2> QED BY <1>2, <2>1
<1>4. ToSet(a) = {a[i] : i \in DOMAIN a} /\ ToSet(s) = {s[i] : i \in DOMAIN s} /\ ToSet(u) = {u[i] : i \in DOMAIN u}
  BY DEF ToSet
<1>5. ToSet(a) \subseteq ToSet(s) \cup ToSet(u)
  BY <1>2, <1>3, <1>4
<1>6. ToSet(s) \cup ToSet(u) \subseteq ToSet(a)
  BY <1>2, <1>4
<1> QED BY <1>1, <1>5, <1>6

LEMMA ToSetTail ==
  ASSUME NEW S, NEW s \in Seq(S), s # <<>>
  PROVE  ToSet(s) = {Head(s)} \cup ToSet(Tail(s)) /\ Head(s) \in S /\ Tail(s) \in Seq(S)
<1>1. PICK u : u = Tail(s)
  OBVIOUS
<1>2. /\ DOMAIN s = 1..Len(s) /\ Len(s) \in Nat /\ Len(s) >= 1 /\ DOMAIN u = 1 .. Len(s) - 1 /\ Head(s) = s[1]
      /\ \A i \in 1 .. Len(s) - 1 : u[i] = s[i + 1] /\ i + 1 \in DOMAIN s
      /\ Head(s) \in S /\ u \in Seq(S) /\ 1 \in DOMAIN s
  BY <1>1
<1>3. ASSUME NEW i \in DOMAIN s, i # 1 PROVE i - 1 \in DOMAIN u /\ s[i] = u[i - 1]
  <2>1. i - 1 \in 1 .. Len(s) - 1 /\ (i - 1) + 1 = i
    BY <1>2, <1>3
  <2> QED BY <1>2, <2>1
<1>4. ToSet(s) = {s[i] : i \in DOMAIN s} /\ ToSet(u) = {u[i] : i \in DOMAIN u}
  BY DEF ToSet
<1>5. ToSet(s) \subseteq {Head(s)} \cup ToSet(u)
  BY <1>2, <1>3, <1>4
<1>6. {Head(s)} \cup ToSet(u) \subseteq ToSet(s)
  BY <1>2, <1>4
<1> QED BY <1>1, <1>2, <1>5, <1>6

LEMMA ToSetIn ==
  ASSUME NEW S, NEW s \in Seq(S)
  PROVE  ToSet(s) \subseteq S
BY DEF ToSet

LEMMA EmptyList == ToSet(<<>>) = {} /\ IsInjective(<<>>)
BY DEF ToSet, IsInjective

----------------------------------------------------------------------------
(* The ledger: who settles which Pending Future.  P are the Pending ones,  *)
(* O those left to user code, L their reactions, q the jobs.               *)

\* Nobody is to settle a Future twice.
Once(P, O, L, q) ==
  /\ O \subseteq P
  /\ \A g \in P : IsInjective(L[g]) /\ ToSet(L[g]) \subseteq P \ O
  /\ \A g, h \in P : g # h => ToSet(L[g]) \cap ToSet(L[h]) = {}
  /\ \A i \in DOMAIN q : q[i].next \in P \ O /\ \A g \in P : q[i].next \notin ToSet(L[g])
  /\ \A i, j \in DOMAIN q : q[i].next = q[j].next => i = j

\* f is settled by something outside gs: user code, a job, or a reaction.
SettledFrom(f, gs, P, O, L, q) ==
  \/ f \in O
  \/ \E i \in DOMAIN q : q[i].next = f /\ (q[i].type = "adopt" => q[i].from \notin gs)
  \/ \E g \in P \ gs : f \in ToSet(L[g])

\* No Pending Futures wait only for each other.
Grounded(P, O, L, q) ==
  \A gs \in SUBSET P : gs # {} => \E f \in gs : SettledFrom(f, gs, P, O, L, q)

Sound(P, O, L, q) == Once(P, O, L, q) /\ Grounded(P, O, L, q)

\* Only the lists of Pending Futures matter.
LEMMA SoundSame ==
  ASSUME NEW P, NEW O, NEW L, NEW M, NEW q, Sound(P, O, L, q), \A g \in P : M[g] = L[g]
  PROVE  Sound(P, O, M, q)
<1>1. Once(P, O, M, q)
  BY DEF Sound, Once
<1>2. \A gs, f : SettledFrom(f, gs, P, O, L, q) => SettledFrom(f, gs, P, O, M, q)
  BY Zenon DEF SettledFrom
<1>3. Grounded(P, O, M, q)
  BY <1>2, Zenon DEF Sound, Grounded
<1> QED BY <1>1, <1>3 DEF Sound

\* A new Future that user code is to settle.
LEMMA SoundOpen ==
  ASSUME NEW P, NEW O, NEW L, NEW q, NEW n, NEW M, Sound(P, O, L, q), n \notin P,
         \A g \in P : M[g] = L[g], M[n] = <<>>
  PROVE  Sound(P \cup {n}, O \cup {n}, M, q)
<1>0. ToSet(<<>>) = {} /\ IsInjective(<<>>)
  BY EmptyList
<1>1. Once(P \cup {n}, O \cup {n}, M, q)
  BY <1>0 DEF Sound, Once
<1>2. ASSUME NEW gs \in SUBSET (P \cup {n}), gs # {}
      PROVE \E f \in gs : SettledFrom(f, gs, P \cup {n}, O \cup {n}, M, q)
  <2>1. CASE n \in gs
    BY <2>1 DEF SettledFrom
  <2>2. CASE n \notin gs
    <3>1. gs \in SUBSET P
      BY <2>2
    <3>2. PICK f \in gs : SettledFrom(f, gs, P, O, L, q)
      BY <3>1, <1>2, Zenon DEF Sound, Grounded
    <3>3. SettledFrom(f, gs, P \cup {n}, O \cup {n}, M, q)
      BY <3>2 DEF SettledFrom
    <3> QED BY <3>3
  <2> QED BY <2>1, <2>2
<1> QED BY <1>1, <1>2 DEF Sound, Grounded

\* A new Future as a reaction of g.
LEMMA SoundListed ==
  ASSUME NEW P, NEW O, NEW L, NEW q, NEW n, NEW M, NEW g \in P, Sound(P, O, L, q), n \notin P,
         \A i \in DOMAIN q : q[i].from # n,
         L[g] \in Seq(Future), n \in Future, \A h \in P \ {g} : M[h] = L[h], M[g] = Append(L[g], n), M[n] = <<>>
  PROVE  Sound(P \cup {n}, O, M, q)
<1>0. ToSet(<<>>) = {} /\ IsInjective(<<>>)
  BY EmptyList
<1>1. ToSet(M[g]) = ToSet(L[g]) \cup {n} /\ IsInjective(M[g]) /\ n \notin ToSet(L[g])
  <2>9. M[g] = Append(L[g], n)
    OBVIOUS
  <2>10. ToSet(Append(L[g], n)) = ToSet(L[g]) \cup {n}
    BY ToSetAppend
  <2>2. ToSet(M[g]) = ToSet(L[g]) \cup {n}
    BY <2>9, <2>10, Zenon
  <2>3. n \notin ToSet(L[g]) /\ IsInjective(L[g])
    BY DEF Sound, Once
  <2>4. PICK l : l = L[g] /\ l \in Seq(Future)
    OBVIOUS
  <2>5. PICK m : m = Append(l, n)
    OBVIOUS
  <2>6. /\ DOMAIN m = 1 .. Len(l) + 1 /\ DOMAIN l = 1 .. Len(l) /\ Len(l) \in Nat /\ m[Len(l) + 1] = n
        /\ \A i \in 1 .. Len(l) : m[i] = l[i]
    BY <2>4, <2>5
  <2>7. \A i \in DOMAIN l : l[i] # n
    BY <2>3, <2>4 DEF ToSet
  <2>8. IsInjective(m)
    BY <2>3, <2>4, <2>6, <2>7 DEF IsInjective
  <2> QED BY <2>2, <2>3, <2>4, <2>5, <2>8
<1>2. Once(P \cup {n}, O, M, q)
  <2>1. \A h \in P \cup {n} : IsInjective(M[h]) /\ ToSet(M[h]) \subseteq (P \cup {n}) \ O
    BY <1>0, <1>1 DEF Sound, Once
  <2>2. \A h, k \in P \cup {n} : h # k => ToSet(M[h]) \cap ToSet(M[k]) = {}
    <3> SUFFICES ASSUME NEW h \in P \cup {n}, NEW k \in P \cup {n}, h # k,
                        NEW x \in ToSet(M[h]), x \in ToSet(M[k])
                 PROVE  FALSE
      OBVIOUS
    <3>1. h \in P /\ k \in P
      BY <1>0
    <3>2. \A y \in P : y # g => ToSet(M[y]) = ToSet(L[y]) /\ n \notin ToSet(L[y])
      BY DEF Sound, Once
    <3> QED BY <3>1, <3>2, <1>1 DEF Sound, Once
  <2>3. \A i \in DOMAIN q : q[i].next \in (P \cup {n}) \ O /\ \A h \in P \cup {n} : q[i].next \notin ToSet(M[h])
    <3> SUFFICES ASSUME NEW i \in DOMAIN q, NEW h \in P \cup {n}
                 PROVE  q[i].next \in (P \cup {n}) \ O /\ q[i].next \notin ToSet(M[h])
      OBVIOUS
    <3>1. q[i].next \in P \ O /\ q[i].next # n /\ \A k \in P : q[i].next \notin ToSet(L[k])
      BY DEF Sound, Once
    <3>2. CASE h \in P \ {g}
      BY <3>1, <3>2
    <3>3. CASE h = g
      BY <3>1, <3>3, <1>1
    <3>4. CASE h = n
      BY <3>1, <3>4, <1>0
    <3> QED BY <3>1, <3>2, <3>3, <3>4
  <2> QED BY <2>1, <2>2, <2>3 DEF Sound, Once
<1>3. ASSUME NEW gs \in SUBSET (P \cup {n}), gs # {}
      PROVE \E f \in gs : SettledFrom(f, gs, P \cup {n}, O, M, q)
  <2>1. CASE gs = {n}
    <3>1. SettledFrom(n, gs, P \cup {n}, O, M, q)
      BY <2>1, <1>1 DEF SettledFrom
    <3> QED BY <2>1, <3>1
  <2>2. CASE gs # {n}
    <3>1. gs \ {n} \in SUBSET P /\ gs \ {n} # {}
      BY <2>2, <1>3
    <3>2. PICK f \in gs \ {n} : SettledFrom(f, gs \ {n}, P, O, L, q)
      BY <3>1, Zenon DEF Sound, Grounded
    <3>3. SettledFrom(f, gs, P \cup {n}, O, M, q)
      BY <3>2, <1>1 DEF SettledFrom
    <3> QED BY <3>2, <3>3
  <2> QED BY <2>1, <2>2
<1> QED BY <1>2, <1>3 DEF Sound, Grounded

\* A queue with one more job, with jobs at its end, and without its first.
LEMMA QueueAppend ==
  ASSUME NEW q \in Seq(Job), NEW j \in Job
  PROVE  \E k : /\ k \notin DOMAIN q /\ DOMAIN Append(q, j) = DOMAIN q \cup {k} /\ Append(q, j)[k] = j
                /\ \A i \in DOMAIN q : Append(q, j)[i] = q[i]
<1>1. PICK r : r = Append(q, j)
  OBVIOUS
<1>2. /\ DOMAIN r = 1 .. Len(q) + 1 /\ DOMAIN q = 1..Len(q) /\ Len(q) \in Nat /\ r[Len(q) + 1] = j
      /\ \A i \in 1..Len(q) : r[i] = q[i]
  BY <1>1
<1>3. 1 .. Len(q) + 1 = 1..Len(q) \cup {Len(q) + 1} /\ Len(q) + 1 \notin 1..Len(q)
  BY <1>2
<1> QED BY <1>1, <1>2, <1>3

LEMMA QueueTail ==
  ASSUME NEW q \in Seq(Job), q # <<>>
  PROVE  /\ Tail(q) \in Seq(Job) /\ 1 \in DOMAIN q /\ q[1] = Head(q) /\ Head(q) \in Job
         /\ \A i \in DOMAIN Tail(q) : i + 1 \in DOMAIN q /\ Tail(q)[i] = q[i + 1] /\ i \in Int /\ i + 1 # 1
         /\ \A i \in DOMAIN q : i # 1 => i \in Int /\ i - 1 \in DOMAIN Tail(q) /\ Tail(q)[i - 1] = q[i]
<1>1. PICK u : u = Tail(q)
  OBVIOUS
<1>2. /\ DOMAIN q = 1..Len(q) /\ Len(q) \in Nat /\ Len(q) >= 1 /\ DOMAIN u = 1 .. Len(q) - 1 /\ Head(q) = q[1]
      /\ \A i \in 1 .. Len(q) - 1 : u[i] = q[i + 1]
      /\ Head(q) \in Job /\ u \in Seq(Job)
  BY <1>1
<1>3. ASSUME NEW i \in DOMAIN q, i # 1 PROVE i \in Int /\ i - 1 \in DOMAIN u /\ u[i - 1] = q[i]
  <2>1. i \in Int /\ i - 1 \in 1 .. Len(q) - 1 /\ (i - 1) + 1 = i
    BY <1>2, <1>3
  <2> QED BY <1>2, <2>1
<1> QED BY <1>1, <1>2, <1>3

\* The queue after f is settled, without a job for it.
Leaves(q, rest, f) ==
  /\ \A i \in DOMAIN rest : rest[i].next # f /\ \E k \in DOMAIN q : q[k] = rest[i]
  /\ \A i \in DOMAIN q : q[i].next # f => \E k \in DOMAIN rest : rest[k] = q[i]
  /\ \A i, k \in DOMAIN rest : rest[i].next = rest[k].next => i = k

LEMMA LeavesSame ==
  ASSUME NEW P, NEW O, NEW L, NEW q, NEW f \in O, Sound(P, O, L, q)
  PROVE  Leaves(q, q, f)
BY DEF Sound, Once, Leaves

LEMMA LeavesTail ==
  ASSUME NEW P, NEW O, NEW L, NEW q \in Seq(Job), q # <<>>, Sound(P, O, L, q)
  PROVE  Leaves(q, Tail(q), Head(q).next)
<1>1. \A i, k \in DOMAIN q : q[i].next = q[k].next => i = k
  BY DEF Sound, Once
<1>2. PICK u : u = Tail(q)
  OBVIOUS
<1>3. PICK x : x = Head(q)
  OBVIOUS
<1>4. /\ 1 \in DOMAIN q /\ q[1] = x
      /\ \A i \in DOMAIN u : i + 1 \in DOMAIN q /\ u[i] = q[i + 1] /\ i \in Int /\ i + 1 # 1
      /\ \A i \in DOMAIN q : i # 1 => i \in Int /\ i - 1 \in DOMAIN u /\ u[i - 1] = q[i]
  BY QueueTail, <1>2, <1>3
<1>5. \A i \in DOMAIN u : u[i].next # x.next /\ \E k \in DOMAIN q : q[k] = u[i]
  BY <1>1, <1>4
<1>6. \A i \in DOMAIN q : q[i].next # x.next => \E k \in DOMAIN u : u[k] = q[i]
  BY <1>1, <1>4
<1>7. \A i, k \in DOMAIN u : u[i].next = u[k].next => i = k
  <2> SUFFICES ASSUME NEW i \in DOMAIN u, NEW k \in DOMAIN u, u[i].next = u[k].next PROVE i = k
    OBVIOUS
  <2>1. i + 1 \in DOMAIN q /\ k + 1 \in DOMAIN q /\ q[i + 1].next = q[k + 1].next /\ i \in Int /\ k \in Int
    BY <1>4
  <2>2. i + 1 = k + 1
    BY <2>1, <1>1
  <2> QED BY <2>1, <2>2
<1> QED BY <1>2, <1>3, <1>5, <1>6, <1>7 DEF Leaves

\* A new Future that a job settles.
LEMMA SoundForward ==
  ASSUME NEW P, NEW O, NEW L, NEW q \in Seq(Job), NEW n, NEW M, Sound(P, O, L, q), n \notin P,
         NEW j \in Job, j.next = n, j.type # "adopt",
         \A i \in DOMAIN q : q[i].from # n,
         \A h \in P : M[h] = L[h], M[n] = <<>>
  PROVE  Sound(P \cup {n}, O, M, Append(q, j))
<1>0. ToSet(<<>>) = {} /\ IsInjective(<<>>)
  BY EmptyList
<1>1. PICK r : r = Append(q, j)
  OBVIOUS
<1>2. PICK k : k \notin DOMAIN q /\ DOMAIN r = DOMAIN q \cup {k} /\ r[k] = j /\ \A i \in DOMAIN q : r[i] = q[i]
  BY <1>1, QueueAppend
<1>3. Once(P \cup {n}, O, M, r)
  <2>1. \A h \in P \cup {n} : IsInjective(M[h]) /\ ToSet(M[h]) \subseteq P \ O
    BY <1>0 DEF Sound, Once
  <2>2. \A h, l \in P \cup {n} : h # l => ToSet(M[h]) \cap ToSet(M[l]) = {}
    BY <1>0 DEF Sound, Once
  <2>3. \A i \in DOMAIN r : r[i].next \in (P \cup {n}) \ O /\ \A h \in P \cup {n} : r[i].next \notin ToSet(M[h])
    <3>1. \A i \in DOMAIN q : q[i].next \in P \ O /\ \A h \in P \cup {n} : q[i].next \notin ToSet(M[h])
      BY <1>0 DEF Sound, Once
    <3>2. n \in (P \cup {n}) \ O
      BY DEF Sound, Once
    <3> QED BY <1>2, <2>1, <3>1, <3>2
  <2>4. \A i, l \in DOMAIN r : r[i].next = r[l].next => i = l
    <3>1. \A i, l \in DOMAIN q : q[i].next \in P /\ (q[i].next = q[l].next => i = l)
      BY DEF Sound, Once
    <3> QED BY <1>2, <3>1
  <2> QED BY <2>1, <2>2, <2>3, <2>4 DEF Sound, Once
<1>4. ASSUME NEW gs \in SUBSET (P \cup {n}), gs # {}
      PROVE \E f \in gs : SettledFrom(f, gs, P \cup {n}, O, M, r)
  <2>1. CASE gs = {n}
    <3>1. SettledFrom(n, gs, P \cup {n}, O, M, r)
      BY <1>2 DEF SettledFrom
    <3> QED BY <2>1, <3>1
  <2>2. CASE gs # {n}
    <3>1. gs \ {n} \in SUBSET P /\ gs \ {n} # {}
      BY <2>2, <1>4
    <3>2. PICK f \in gs \ {n} : SettledFrom(f, gs \ {n}, P, O, L, q)
      BY <3>1, Zenon DEF Sound, Grounded
    <3>3. SettledFrom(f, gs, P \cup {n}, O, M, r)
      BY <3>2, <1>2 DEF SettledFrom
    <3> QED BY <3>2, <3>3
  <2> QED BY <2>1, <2>2
<1> QED BY <1>1, <1>3, <1>4 DEF Sound, Grounded

\* User code hands f over to g, which does not wait for it.
LEMMA SoundLock ==
  ASSUME NEW P, NEW O, NEW L, NEW q \in Seq(Job), Sound(P, O, L, q), NEW f \in O, NEW j \in Job,
         j.next = f, NEW W, f \in W, j.from \notin W,
         \A h \in W : ToSet(L[h]) \subseteq W,
         \A i \in DOMAIN q : q[i].from \in W => q[i].next \in W
  PROVE  Sound(P, O \ {f}, L, Append(q, j))
<1>1. PICK r : r = Append(q, j)
  OBVIOUS
<1>2. PICK k : k \notin DOMAIN q /\ DOMAIN r = DOMAIN q \cup {k} /\ r[k] = j /\ \A i \in DOMAIN q : r[i] = q[i]
  BY <1>1, QueueAppend
<1>3. Once(P, O \ {f}, L, r)
  BY <1>2 DEF Sound, Once
<1>4. ASSUME NEW gs \in SUBSET P, gs # {}
      PROVE \E x \in gs : SettledFrom(x, gs, P, O \ {f}, L, r)
  <2>1. CASE gs \subseteq W
    <3>1. PICK x \in gs : SettledFrom(x, gs, P, O, L, q)
      BY <1>4, Zenon DEF Sound, Grounded
    <3>2. CASE x = f
      <4>1. SettledFrom(f, gs, P, O \ {f}, L, r)
        BY <1>2, <2>1 DEF SettledFrom
      <4> QED BY <3>2, <4>1
    <3>3. CASE x # f
      <4>1. SettledFrom(x, gs, P, O \ {f}, L, r)
        BY <3>1, <3>3, <1>2 DEF SettledFrom
      <4> QED BY <4>1
    <3> QED BY <3>2, <3>3
  <2>2. CASE ~(gs \subseteq W)
    <3>1. gs \ W \in SUBSET P /\ gs \ W # {}
      BY <2>2
    <3>2. PICK x \in gs \ W : SettledFrom(x, gs \ W, P, O, L, q)
      BY <3>1, Zenon DEF Sound, Grounded
    <3>3. SettledFrom(x, gs, P, O \ {f}, L, r)
      BY <3>2, <1>2 DEF SettledFrom
    <3> QED BY <3>2, <3>3
  <2> QED BY <2>1, <2>2
<1> QED BY <1>1, <1>3, <1>4 DEF Sound, Grounded

\* The jobs that hand the outcome to the reactions.
Forwards(l, t, v) == [i \in DOMAIN l |-> Forward(l[i], t, v)]

\* f is settled: the Futures in its list are settled by jobs.
LEMMA SoundSettle ==
  ASSUME NEW P, NEW O, NEW L, NEW q \in Seq(Job), Sound(P, O, L, q), NEW f \in P,
         NEW rest \in Seq(Job), Leaves(q, rest, f),
         f \in O \/ \E i \in DOMAIN q : q[i].next = f,
         L[f] \in Seq(Future), NEW t, t # "adopt", NEW v
  PROVE  Sound(P \ {f}, O \ {f}, L, rest \o Forwards(L[f], t, v))
<1> DEFINE fw == [i \in DOMAIN L[f] |-> Forward(L[f][i], t, v)]
<1>1. PICK l : l = L[f] /\ l \in Seq(Future)
  OBVIOUS
<1>2. PICK r : r = rest \o fw
  OBVIOUS
<1>3. PICK n : n = Len(rest) /\ n \in Nat /\ DOMAIN rest = 1..n
  OBVIOUS
<1>4. PICK m : m = Len(l) /\ m \in Nat /\ DOMAIN l = 1..m
  BY <1>1
<1>5. /\ DOMAIN r = 1 .. n + m /\ \A i \in 1..n : r[i] = rest[i]
      /\ \A i \in 1..m : r[n + i] = Forward(l[i], t, v)
  <2>1. PICK fws : fws = [i \in 1..m |-> Forward(l[i], t, v)]
    OBVIOUS
  <2>2. fws = fw /\ Len(fws) = m /\ DOMAIN fws = 1..m /\ \A i \in 1..m : fws[i] = Forward(l[i], t, v)
    BY <2>1, <1>1, <1>4
  <2>3. fws \in Seq({Forward(l[i], t, v) : i \in 1..m})
    BY <2>1, <1>4
  <2>4. r = rest \o fws
    BY <2>2, <1>2
  <2>5. DOMAIN r = 1 .. n + m /\ (\A i \in 1..n : r[i] = rest[i]) /\ \A i \in 1..m : r[n + i] = fws[i]
    <3>1. /\ DOMAIN r = 1 .. Len(rest) + Len(fws) /\ \A i \in 1..Len(rest) : r[i] = rest[i]
          /\ \A i \in 1..Len(fws) : r[Len(rest) + i] = fws[i]
      BY <2>3, <2>4
    <3> QED BY <3>1, <2>2, <1>3
  <2> QED BY <2>2, <2>5
<1> HIDE DEF fw
<1>6. \A i \in 1..m : r[n + i].next = l[i] /\ r[n + i].type # "adopt" /\ n + i \in DOMAIN r
  <2> SUFFICES ASSUME NEW i \in 1..m PROVE r[n + i].next = l[i] /\ r[n + i].type # "adopt" /\ n + i \in DOMAIN r
    OBVIOUS
  <2>1. n + i \in 1 .. n + m
    BY <1>3, <1>4
  <2>2. r[n + i] = Forward(l[i], t, v)
    BY <1>5
  <2> QED BY <2>1, <2>2, <1>5 DEF Forward
<1>7. ASSUME NEW i \in DOMAIN r
      PROVE  \/ i \in DOMAIN rest /\ r[i] = rest[i]
             \/ i \notin DOMAIN rest /\ i - n \in DOMAIN l /\ r[i].next = l[i - n] /\ i \in Int
  <2>1. CASE i \in 1..n
    BY <2>1, <1>3, <1>5
  <2>2. CASE i \notin 1..n
    <3>1. i - n \in 1..m /\ n + (i - n) = i /\ i \in Int
      BY <2>2, <1>3, <1>4, <1>5
    <3> QED BY <3>1, <2>2, <1>3, <1>4, <1>6
  <2> QED BY <2>1, <2>2
<1>8. /\ \A i \in DOMAIN l : l[i] \in ToSet(l)
      /\ \A x \in ToSet(l) : \E i \in DOMAIN l : l[i] = x
      /\ \A i, k \in DOMAIN l : l[i] = l[k] => i = k
      /\ ToSet(l) \subseteq P \ O /\ f \notin ToSet(l) /\ \A g \in P : f \notin ToSet(L[g])
  <2>1. IsInjective(l) /\ ToSet(l) \subseteq P \ O
    BY <1>1 DEF Sound, Once
  <2>2. \A g \in P : f \notin ToSet(L[g])
    BY DEF Sound, Once
  <2> QED BY <2>1, <2>2, <1>1 DEF IsInjective, ToSet
<1>9. \A i \in DOMAIN rest : /\ rest[i].next \in (P \ {f}) \ O
                             /\ \A g \in P : rest[i].next \notin ToSet(L[g])
  BY DEF Sound, Once, Leaves
<1>10. Once(P \ {f}, O \ {f}, L, r)
  <2>1. \A g \in P \ {f} : IsInjective(L[g]) /\ ToSet(L[g]) \subseteq (P \ {f}) \ (O \ {f})
    BY <1>8 DEF Sound, Once
  <2>2. \A g, h \in P : g # h => ToSet(L[g]) \cap ToSet(L[h]) = {}
    BY DEF Sound, Once
  <2>3. ASSUME NEW i \in DOMAIN r
        PROVE  r[i].next \in (P \ {f}) \ (O \ {f}) /\ \A g \in P \ {f} : r[i].next \notin ToSet(L[g])
    <3>1. CASE i \in DOMAIN rest /\ r[i] = rest[i]
      BY <3>1, <1>9
    <3>2. CASE i - n \in DOMAIN l /\ r[i].next = l[i - n]
      <4>1. r[i].next \in ToSet(l)
        BY <3>2, <1>8
      <4> QED BY <4>1, <2>2, <1>1, <1>8
    <3> QED BY <3>1, <3>2, <1>7
  <2>4. ASSUME NEW i \in DOMAIN r, NEW k \in DOMAIN r, r[i].next = r[k].next PROVE i = k
    <3>1. CASE i \in DOMAIN rest /\ k \in DOMAIN rest
      BY <3>1, <2>4, <1>7 DEF Leaves
    <3>2. CASE i \notin DOMAIN rest /\ k \notin DOMAIN rest
      <4>1. i - n = k - n /\ i \in Int /\ k \in Int
        BY <3>2, <2>4, <1>7, <1>8
      <4> QED BY <4>1, <1>3
    <3>3. CASE i \in DOMAIN rest /\ k \notin DOMAIN rest
      BY <3>3, <2>4, <1>1, <1>7, <1>8, <1>9
    <3>4. CASE i \notin DOMAIN rest /\ k \in DOMAIN rest
      BY <3>4, <2>4, <1>1, <1>7, <1>8, <1>9
    <3> QED BY <3>1, <3>2, <3>3, <3>4
  <2>5. O \ {f} \subseteq P \ {f}
    BY DEF Sound, Once
  <2> QED BY <2>1, <2>2, <2>3, <2>4, <2>5 DEF Once
<1>11. ASSUME NEW gs \in SUBSET (P \ {f}), gs # {}
       PROVE \E x \in gs : SettledFrom(x, gs, P \ {f}, O \ {f}, L, r)
  <2>1. PICK x \in gs : SettledFrom(x, gs, P, O, L, q)
    <3>1. gs \in SUBSET P
      OBVIOUS
    <3> QED BY <3>1, <1>11, Zenon DEF Sound, Grounded
  <2>2. CASE x \in O
    BY <2>2 DEF SettledFrom
  <2>3. ASSUME NEW i \in DOMAIN q, q[i].next = x, q[i].type = "adopt" => q[i].from \notin gs
        PROVE  SettledFrom(x, gs, P \ {f}, O \ {f}, L, r)
    <3>1. PICK k \in DOMAIN rest : rest[k] = q[i]
      BY <2>3 DEF Leaves
    <3>2. k \in DOMAIN r /\ r[k] = q[i]
      BY <3>1, <1>3, <1>4, <1>5
    <3> QED BY <3>2, <2>3 DEF SettledFrom
  <2>4. ASSUME NEW g \in P \ gs, x \in ToSet(L[g])
        PROVE  SettledFrom(x, gs, P \ {f}, O \ {f}, L, r)
    <3>1. CASE g = f
      <4>1. PICK i \in DOMAIN l : l[i] = x
        BY <3>1, <2>4, <1>1, <1>8
      <4>2. n + i \in DOMAIN r /\ r[n + i].next = x /\ r[n + i].type # "adopt"
        BY <4>1, <1>4, <1>6
      <4> QED BY <4>2 DEF SettledFrom
    <3>2. CASE g # f
      BY <3>2, <2>4 DEF SettledFrom
    <3> QED BY <3>1, <3>2
  <2> QED BY <2>1, <2>2, <2>3, <2>4 DEF SettledFrom
<1>12. Sound(P \ {f}, O \ {f}, L, r)
  BY <1>10, <1>11 DEF Sound, Grounded
<1> QED BY <1>2, <1>12 DEF fw, Forwards

\* The job in which n adopts f, which is Pending: n becomes a reaction of f.
LEMMA SoundAdopt ==
  ASSUME NEW P, NEW O, NEW L, NEW q \in Seq(Job), q # <<>>, Sound(P, O, L, q),
         NEW f \in P, Head(q).from = f, Head(q).type = "adopt",
         L[f] \in Seq(Future), Head(q).next \in Future, NEW M, M[f] = Append(L[f], Head(q).next),
         \A g \in P \ {f} : M[g] = L[g]
  PROVE  Sound(P, O, M, Tail(q))
<1>1. PICK u : u = Tail(q)
  OBVIOUS
<1>2. PICK j : j = Head(q)
  OBVIOUS
<1>3. PICK n : n = j.next
  OBVIOUS
<1>4. /\ 1 \in DOMAIN q /\ q[1] = j
      /\ \A i \in DOMAIN u : i + 1 \in DOMAIN q /\ u[i] = q[i + 1] /\ i \in Int /\ i + 1 # 1
      /\ \A i \in DOMAIN q : i # 1 => i \in Int /\ i - 1 \in DOMAIN u /\ u[i - 1] = q[i]
  BY QueueTail, <1>1, <1>2
<1>5. Leaves(q, u, n)
  BY LeavesTail, <1>1, <1>2, <1>3
<1>6. n \in P \ O /\ \A g \in P : n \notin ToSet(L[g])
  BY <1>3, <1>4 DEF Sound, Once
<1>7. ToSet(M[f]) = ToSet(L[f]) \cup {n} /\ IsInjective(M[f])
  <2>1. PICK l : l = L[f] /\ l \in Seq(Future)
    OBVIOUS
  <2>2. PICK m : m = Append(l, n)
    OBVIOUS
  <2>3. m = M[f]
    BY <2>1, <2>2, <1>2, <1>3
  <2>4. /\ DOMAIN m = 1 .. Len(l) + 1 /\ DOMAIN l = 1 .. Len(l) /\ Len(l) \in Nat /\ m[Len(l) + 1] = n
        /\ \A i \in 1 .. Len(l) : m[i] = l[i]
    BY <2>1, <2>2
  <2>5. \A i \in DOMAIN l : l[i] # n
    BY <1>6, <2>1 DEF ToSet
  <2>6. IsInjective(l)
    BY <2>1 DEF Sound, Once
  <2>7. IsInjective(m)
    BY <2>4, <2>5, <2>6 DEF IsInjective
  <2>8. ToSet(m) = ToSet(l) \cup {n}
    <3>1. n \in Future
      BY <1>2, <1>3
    <3> QED BY <3>1, <2>1, <2>2, ToSetAppend
  <2> QED BY <2>1, <2>3, <2>7, <2>8
<1>8. Once(P, O, M, u)
  <2>1. \A g \in P : IsInjective(M[g]) /\ ToSet(M[g]) \subseteq P \ O
    BY <1>6, <1>7 DEF Sound, Once
  <2>2. \A g \in P : g # f => ToSet(M[g]) = ToSet(L[g])
    OBVIOUS
  <2>3. \A g, h \in P : g # h => ToSet(L[g]) \cap ToSet(L[h]) = {}
    BY DEF Sound, Once
  <2>4. \A g, h \in P : g # h => ToSet(M[g]) \cap ToSet(M[h]) = {}
    <3> SUFFICES ASSUME NEW g \in P, NEW h \in P, g # h, NEW x \in ToSet(M[g]), x \in ToSet(M[h]) PROVE FALSE
      OBVIOUS
    <3>1. x \in ToSet(L[g]) \/ (g = f /\ x = n)
      BY <2>2, <1>7
    <3>2. x \in ToSet(L[h]) \/ (h = f /\ x = n)
      BY <2>2, <1>7
    <3> QED BY <3>1, <3>2, <2>3, <1>6
  <2>5. \A i \in DOMAIN q : q[i].next \in P \ O /\ \A g \in P : q[i].next \notin ToSet(L[g])
    BY DEF Sound, Once
  <2>6. \A i \in DOMAIN u : u[i].next \in P \ O /\ \A g \in P : u[i].next \notin ToSet(M[g])
    <3> SUFFICES ASSUME NEW i \in DOMAIN u, NEW g \in P PROVE u[i].next \in P \ O /\ u[i].next \notin ToSet(M[g])
      BY <1>6
    <3>1. u[i].next # n /\ u[i].next \in P \ O /\ u[i].next \notin ToSet(L[g])
      BY <1>4, <1>5, <2>5 DEF Leaves
    <3> QED BY <3>1, <2>2, <1>7
  <2> QED BY <2>1, <2>4, <2>6, <1>5 DEF Once, Leaves, Sound
<1>9. ASSUME NEW gs \in SUBSET P, gs # {}
      PROVE \E x \in gs : SettledFrom(x, gs, P, O, M, u)
  <2>1. PICK x \in gs : SettledFrom(x, gs, P, O, L, q)
    BY <1>9, Zenon DEF Sound, Grounded
  <2>2. CASE x \in O
    BY <2>2 DEF SettledFrom
  <2>3. ASSUME NEW i \in DOMAIN q, q[i].next = x, q[i].type = "adopt" => q[i].from \notin gs
        PROVE  SettledFrom(x, gs, P, O, M, u)
    <3>1. CASE i = 1
      <4>1. x = n /\ f \notin gs
        BY <3>1, <2>3, <1>2, <1>3, <1>4
      <4> QED BY <4>1, <1>7 DEF SettledFrom
    <3>2. CASE i # 1
      BY <3>2, <2>3, <1>4 DEF SettledFrom
    <3> QED BY <3>1, <3>2
  <2>4. ASSUME NEW g \in P \ gs, x \in ToSet(L[g]) PROVE SettledFrom(x, gs, P, O, M, u)
    <3>1. x \in ToSet(M[g])
      BY <2>4, <1>7
    <3> QED BY <3>1 DEF SettledFrom
  <2> QED BY <2>1, <2>2, <2>3, <2>4 DEF SettledFrom
<1> QED BY <1>1, <1>8, <1>9 DEF Sound, Grounded

\* The job in which n adopts f, which is settled: the outcome takes another job.
LEMMA SoundAdopted ==
  ASSUME NEW P, NEW O, NEW L, NEW q \in Seq(Job), q # <<>>, Sound(P, O, L, q),
         NEW j \in Job, j.next = Head(q).next, j.type # "adopt"
  PROVE  Sound(P, O, L, Append(Tail(q), j))
<1>1. PICK u : u = Tail(q)
  OBVIOUS
<1>2. PICK n : n = j.next
  OBVIOUS
<1>3. PICK r : r = Append(u, j)
  OBVIOUS
<1>4. PICK k : k \notin DOMAIN u /\ DOMAIN r = DOMAIN u \cup {k} /\ r[k] = j /\ \A i \in DOMAIN u : r[i] = u[i]
  BY <1>1, <1>3, QueueAppend, QueueTail
<1>5. Leaves(q, u, n)
  BY LeavesTail, <1>1, <1>2
<1>6. 1 \in DOMAIN q /\ q[1].next = n /\ \A i \in DOMAIN q : q[i].next = n => i = 1
  BY QueueTail, <1>2 DEF Sound, Once
<1>7. \A i \in DOMAIN q : q[i].next \in P \ O /\ \A g \in P : q[i].next \notin ToSet(L[g])
  BY DEF Sound, Once
<1>8. Once(P, O, L, r)
  <2>1. \A i \in DOMAIN r : r[i].next \in P \ O /\ \A g \in P : r[i].next \notin ToSet(L[g])
    BY <1>2, <1>4, <1>5, <1>6, <1>7 DEF Leaves
  <2>2. \A i, l \in DOMAIN r : r[i].next = r[l].next => i = l
    BY <1>2, <1>4, <1>5 DEF Leaves
  <2> QED BY <2>1, <2>2 DEF Sound, Once
<1>9. ASSUME NEW gs \in SUBSET P, gs # {}
      PROVE \E x \in gs : SettledFrom(x, gs, P, O, L, r)
  <2>1. PICK x \in gs : SettledFrom(x, gs, P, O, L, q)
    BY <1>9, Zenon DEF Sound, Grounded
  <2>2. CASE x = n
    BY <2>2, <1>2, <1>4 DEF SettledFrom
  <2>3. CASE x # n
    <3>1. \A i \in DOMAIN q : q[i].next = x => \E l \in DOMAIN r : r[l] = q[i]
      BY <2>3, <1>4, <1>5 DEF Leaves
    <3> QED BY <2>1, <3>1 DEF SettledFrom
  <2> QED BY <2>2, <2>3
<1> QED BY <1>1, <1>3, <1>8, <1>9 DEF Sound, Grounded

----------------------------------------------------------------------------
(* Stores: objects, the Set of pending writes and the tables.              *)

StoreType == [mem : [Future -> FutureDB \cup {Absent}], pending : Seq(Write), disk : Tables]

IsDirty(m, w) ==
  /\ m[w[1]] # Absent
  /\ \/ w[2] = "future" /\ m[w[1]].dirty
     \/ w[2] # "future" /\ m[w[1]].rx[w[2]].dirty

\* What is dirty is in the Set, once, behind the first n entries, and nothing else is.
Marks(s, n) ==
  /\ n \in 0..Len(s.pending)
  /\ \A i, j \in DOMAIN s.pending : s.pending[i] = s.pending[j] => i = j
  /\ \A w \in Write : IsDirty(s.mem, w) <=> \E i \in DOMAIN s.pending : i > n /\ s.pending[i] = w

Keeps(p, q) == \A i \in DOMAIN p : i \in DOMAIN q /\ q[i] = p[i]

\* r is s with m as the object of f, and with what that makes dirty.
Put(s, r, f, m, n) ==
  /\ r \in StoreType
  /\ r.disk = s.disk
  /\ r.mem = [s.mem EXCEPT ![f] = m]
  /\ Marks(r, n)
  /\ Keeps(s.pending, r.pending)

LEMMA NoneIsNoFuture == None \notin Future /\ Plain \notin Future
BY MaxFuturesAssumption DEF None, Plain, Future

LEMMA AbsentIsNone == Absent \notin FutureDB
BY DEF Absent, FutureDB, Type

LEMMA PutTwice ==
  ASSUME NEW s \in StoreType, NEW r, NEW u, NEW f \in Future, NEW m, NEW k, NEW n,
         Put(s, r, f, m, n), Put(r, u, f, k, n)
  PROVE  Put(s, u, f, k, n)
<1>1. u.mem = [s.mem EXCEPT ![f] = k]
  <2>1. s.mem \in [Future -> FutureDB \cup {Absent}]
    BY DEF StoreType
  <2>2. r.mem = [s.mem EXCEPT ![f] = m] /\ u.mem = [r.mem EXCEPT ![f] = k]
    BY DEF Put
  <2> QED BY <2>1, <2>2
<1> QED BY <1>1 DEF Put, Keeps

\* An object with the marks of the one it replaces, or a clean one.
LEMMA PutSame ==
  ASSUME NEW s \in StoreType, NEW n, Marks(s, n), NEW f \in Future, NEW m \in FutureDB,
         s.mem[f] # Absent => /\ m.dirty = s.mem[f].dirty
                              /\ \A t \in Type : m.rx[t].dirty = s.mem[f].rx[t].dirty,
         s.mem[f] = Absent => ~m.dirty /\ \A t \in Type : ~m.rx[t].dirty
  PROVE  Put(s, [s EXCEPT !.mem[f] = m], f, m, n)
<1>1. PICK r : r = [s EXCEPT !.mem[f] = m]
  OBVIOUS
<1>2. /\ r.mem = [s.mem EXCEPT ![f] = m] /\ r.disk = s.disk /\ r.pending = s.pending /\ r \in StoreType
      /\ s.mem \in [Future -> FutureDB \cup {Absent}]
  BY <1>1 DEF StoreType
<1>3. ASSUME NEW w \in Write PROVE IsDirty(r.mem, w) <=> IsDirty(s.mem, w)
  <2>1. w[1] \in Future /\ (w[2] # "future" => w[2] \in Type)
    BY DEF Write
  <2>2. CASE w[1] # f
    BY <2>1, <2>2, <1>2 DEF IsDirty
  <2>3. CASE w[1] = f
    <3>1. r.mem[f] = m /\ m # Absent
      BY <1>2, AbsentIsNone
    <3> QED BY <2>1, <2>3, <3>1 DEF IsDirty
  <2> QED BY <2>2, <2>3
<1>4. Marks(r, n)
  BY <1>2, <1>3 DEF Marks
<1> QED BY <1>1, <1>2, <1>4 DEF Put, Keeps

\* Set.add of an entry that is not there.
LEMMA AddNew ==
  ASSUME NEW p \in Seq(Write), NEW w \in Write, w \notin ToSet(p)
  PROVE  /\ Add(p, w) \in Seq(Write) /\ Len(Add(p, w)) = Len(p) + 1 /\ Keeps(p, Add(p, w))
         /\ Add(p, w)[Len(p) + 1] = w
         /\ \A i \in DOMAIN Add(p, w) : i \in DOMAIN p \/ i = Len(p) + 1
         /\ DOMAIN Add(p, w) = 1 .. Len(p) + 1
<1>1. ~Contains(p, w)
  BY DEF ToSet, Contains
<1>2. PICK a : a = Append(p, w)
  OBVIOUS
<1>3. /\ a \in Seq(Write) /\ DOMAIN a = 1 .. Len(p) + 1 /\ Len(a) = Len(p) + 1 /\ DOMAIN p = 1..Len(p)
      /\ Len(p) \in Nat /\ a[Len(p) + 1] = w /\ \A i \in 1..Len(p) : a[i] = p[i]
  BY <1>2
<1>4. Add(p, w) = a
  BY <1>1, <1>2 DEF Add
<1> QED BY <1>3, <1>4 DEF Keeps

\* An object that becomes dirty is added to the Set.
LEMMA MarkOne ==
  ASSUME NEW s \in StoreType, NEW n, Marks(s, n), NEW w \in Write, ~IsDirty(s.mem, w), w \notin ToSet(s.pending),
         NEW m \in FutureDB, NEW r, r.mem = [s.mem EXCEPT ![w[1]] = m], r.disk = s.disk,
         r.pending = Add(s.pending, w), r \in StoreType,
         \A u \in Write : u # w => (IsDirty(r.mem, u) <=> IsDirty(s.mem, u)), IsDirty(r.mem, w)
  PROVE  Put(s, r, w[1], m, n)
<1>1. PICK p : p = s.pending /\ p \in Seq(Write)
  BY DEF StoreType
<1>2. PICK a : a = r.pending
  OBVIOUS
<1>3. /\ DOMAIN a = 1 .. Len(p) + 1 /\ Len(a) = Len(p) + 1 /\ Keeps(p, a) /\ a[Len(p) + 1] = w
      /\ \A i \in DOMAIN a : i \in DOMAIN p \/ i = Len(p) + 1
  BY <1>1, <1>2, AddNew
<1>4. /\ DOMAIN p = 1..Len(p) /\ Len(p) \in Nat /\ n \in 0..Len(p)
      /\ \A i \in DOMAIN p : i \in DOMAIN a /\ a[i] = p[i] /\ a[i] # w
  BY <1>1, <1>3 DEF Marks, Keeps, ToSet
<1>5. \A i, j \in DOMAIN a : a[i] = a[j] => i = j
  BY <1>1, <1>3, <1>4 DEF Marks
<1>6. ASSUME NEW u \in Write PROVE IsDirty(r.mem, u) <=> \E i \in DOMAIN a : i > n /\ a[i] = u
  <2>1. CASE u = w
    <3>1. Len(p) + 1 \in DOMAIN a /\ Len(p) + 1 > n
      BY <1>3, <1>4
    <3> QED BY <2>1, <3>1, <1>3
  <2>2. CASE u # w
    <3>1. (\E i \in DOMAIN a : i > n /\ a[i] = u) <=> \E i \in DOMAIN p : i > n /\ p[i] = u
      BY <2>2, <1>3, <1>4
    <3> QED BY <2>2, <3>1, <1>1 DEF Marks
  <2> QED BY <2>1, <2>2
<1>7. Marks(r, n)
  BY <1>2, <1>3, <1>4, <1>5, <1>6 DEF Marks
<1> QED BY <1>1, <1>2, <1>3, <1>7 DEF Put

\* setDirty of a SQLFutureDB whose entry the Set does not hold yet.
LEMMA PutDirty ==
  ASSUME NEW s \in StoreType, NEW n, Marks(s, n), NEW f \in Future, NEW m \in FutureDB, s.mem[f] = m,
         m.dirty \/ <<f, "future">> \notin ToSet(s.pending)
  PROVE  Put(s, DirtyFuture(s, f), f, [m EXCEPT !.dirty = TRUE], n)
<1>1. PICK d : d = [m EXCEPT !.dirty = TRUE]
  OBVIOUS
<1>2. d \in FutureDB /\ d.dirty /\ d.rx = m.rx /\ (m.dirty => d = m)
  BY <1>1 DEF FutureDB
<1>3. s.mem \in [Future -> FutureDB \cup {Absent}] /\ m # Absent /\ d # Absent
  BY <1>2, AbsentIsNone DEF StoreType
<1>4. CASE m.dirty
  <2>1. DirtyFuture(s, f) = s
    BY <1>4 DEF DirtyFuture
  <2>2. s.mem = [s.mem EXCEPT ![f] = d]
    BY <1>2, <1>3, <1>4
  <2> QED BY <2>1, <2>2, <1>1 DEF Put, Keeps
<1>5. CASE ~m.dirty
  <2>1. PICK w : w = <<f, "future">>
    OBVIOUS
  <2>2. w \in Write /\ w[1] = f /\ w[2] = "future" /\ w \notin ToSet(s.pending)
    BY <2>1, <1>5 DEF Write
  <2>3. PICK r : r = [s EXCEPT !.mem = [s.mem EXCEPT ![f] = d], !.pending = Add(s.pending, w)]
    OBVIOUS
  <2>4. DirtyFuture(s, f) = r
    BY <2>3, <2>1, <1>1, <1>5 DEF DirtyFuture, StoreType
  <2>5. Add(s.pending, w) \in Seq(Write)
    <3>1. s.pending \in Seq(Write)
      BY DEF StoreType
    <3> QED BY <3>1, <2>2, AddNew
  <2>6. /\ r.mem = [s.mem EXCEPT ![f] = d] /\ r.disk = s.disk /\ r.pending = Add(s.pending, w)
        /\ r \in StoreType
    BY <2>3, <2>5, <1>2, <1>3 DEF StoreType
  <2>7. ~IsDirty(s.mem, w)
    BY <2>2, <1>3, <1>5 DEF IsDirty
  <2>8. IsDirty(r.mem, w)
    BY <2>2, <2>6, <1>2, <1>3 DEF IsDirty
  <2>9. ASSUME NEW u \in Write, u # w PROVE IsDirty(r.mem, u) <=> IsDirty(s.mem, u)
    <3>1. u[1] \in Future /\ u = <<u[1], u[2]>>
      BY DEF Write
    <3>2. CASE u[1] # f
      BY <3>1, <3>2, <2>6, <1>3 DEF IsDirty
    <3>3. CASE u[1] = f
      <4>1. u[2] # "future"
        BY <3>1, <3>3, <2>1, <2>9
      <4>2. r.mem[f] = d /\ s.mem[f] = m
        BY <2>6, <1>3
      <4> QED BY <3>3, <4>1, <4>2, <1>2, <1>3 DEF IsDirty
    <3> QED BY <3>2, <3>3
  <2>10. Put(s, r, w[1], d, n)
    <3>1. r.mem = [s.mem EXCEPT ![w[1]] = d]
      BY <2>2, <2>6
    <3> QED BY <3>1, <2>2, <2>6, <2>7, <2>8, <2>9, <1>2, MarkOne
  <2> QED BY <2>2, <2>4, <2>10, <1>1
<1> QED BY <1>4, <1>5

\* d is m but for the mark of its list t.
MarkedList(d, m, t) ==
  /\ d \in FutureDB /\ d.state = m.state /\ d.value = m.value /\ d.settled = m.settled /\ d.root = m.root
  /\ d.inDatabase = m.inDatabase /\ d.dirty = m.dirty
  /\ \A u \in Type : /\ d.rx[u].written = m.rx[u].written /\ d.rx[u].read = m.rx[u].read
                     /\ d.rx[u].unwritten = m.rx[u].unwritten /\ d.rx[u].deleted = m.rx[u].deleted
                     /\ u # t => d.rx[u].dirty = m.rx[u].dirty
  /\ d.rx[t].dirty

LEMMA MarkedReactions ==
  ASSUME NEW m \in FutureDB, NEW t \in Type
  PROVE  MarkedList([m EXCEPT !.rx[t].dirty = TRUE], m, t)
<1> PICK d : d = [m EXCEPT !.rx[t].dirty = TRUE]
  OBVIOUS
<1>1. PICK x : x = m.rx[t]
  OBVIOUS
<1>2. PICK y : y = [x EXCEPT !.dirty = TRUE]
  OBVIOUS
<1>3. PICK z : z = [m.rx EXCEPT ![t] = y]
  OBVIOUS
<1>4. m.rx \in [Type -> Reactions] /\ x \in Reactions
  BY <1>1 DEF FutureDB
<1>5. /\ y \in Reactions /\ y.dirty = TRUE /\ y.written = x.written /\ y.unwritten = x.unwritten /\ y.read = x.read
      /\ y.deleted = x.deleted
  BY <1>2, <1>4 DEF Reactions
<1>6. z \in [Type -> Reactions] /\ z[t] = y /\ \A u \in Type : u # t => z[u] = m.rx[u]
  BY <1>3, <1>4, <1>5
<1>7. d = [m EXCEPT !.rx = z]
  BY <1>1, <1>2, <1>3
<1>8. /\ d \in FutureDB /\ d.rx = z /\ d.state = m.state /\ d.value = m.value /\ d.settled = m.settled
      /\ d.root = m.root /\ d.inDatabase = m.inDatabase /\ d.dirty = m.dirty
  BY <1>6, <1>7 DEF FutureDB
<1>9. \A u \in Type : u # t => d.rx[u] = m.rx[u]
  BY <1>6, <1>8
<1>10. d.rx[t] = y
  BY <1>6, <1>8
<1>11. MarkedList(d, m, t)
  BY <1>1, <1>5, <1>8, <1>9, <1>10 DEF MarkedList
<1> QED BY <1>11

\* setDirty of a SQLReactionsDB.
LEMMA PutDirtyReactions ==
  ASSUME NEW s \in StoreType, NEW n, Marks(s, n), NEW f \in Future, NEW m \in FutureDB, s.mem[f] = m,
         NEW t \in Type, m.rx[t].dirty \/ <<f, t>> \notin ToSet(s.pending)
  PROVE  Put(s, DirtyReactions(s, f, t), f, [m EXCEPT !.rx[t].dirty = TRUE], n)
<1>1. PICK d : d = [m EXCEPT !.rx[t].dirty = TRUE]
  OBVIOUS
<1>2. d \in FutureDB /\ d.dirty = m.dirty /\ d.rx[t].dirty /\ (m.rx[t].dirty => d = m)
      /\ \A u \in Type : u # t => d.rx[u] = m.rx[u]
  <2>1. PICK x : x = m.rx[t]
    OBVIOUS
  <2>2. PICK y : y = [x EXCEPT !.dirty = TRUE]
    OBVIOUS
  <2>3. PICK z : z = [m.rx EXCEPT ![t] = y]
    OBVIOUS
  <2>4. m.rx \in [Type -> Reactions] /\ x \in Reactions /\ m.dirty \in BOOLEAN
    BY <2>1 DEF FutureDB
  <2>5. y \in Reactions /\ y.dirty /\ (x.dirty => y = x)
    BY <2>2, <2>4 DEF Reactions
  <2>6. z \in [Type -> Reactions] /\ z[t] = y /\ (\A u \in Type : u # t => z[u] = m.rx[u]) /\ (x.dirty => z = m.rx)
    BY <2>1, <2>3, <2>4, <2>5
  <2>7. d = [m EXCEPT !.rx = z]
    BY <1>1, <2>1, <2>2, <2>3
  <2>8. d \in FutureDB /\ d.dirty = m.dirty /\ d.rx = z /\ (z = m.rx => d = m)
    BY <2>6, <2>7 DEF FutureDB
  <2> QED BY <2>1, <2>5, <2>6, <2>8
<1>3. s.mem \in [Future -> FutureDB \cup {Absent}] /\ m # Absent /\ d # Absent
  BY <1>2, AbsentIsNone DEF StoreType
<1>4. CASE m.rx[t].dirty
  <2>1. DirtyReactions(s, f, t) = s
    BY <1>4 DEF DirtyReactions
  <2>2. s.mem = [s.mem EXCEPT ![f] = d]
    BY <1>2, <1>3, <1>4
  <2> QED BY <2>1, <2>2, <1>1 DEF Put, Keeps
<1>5. CASE ~m.rx[t].dirty
  <2>1. PICK w : w = <<f, t>>
    OBVIOUS
  <2>2. w \in Write /\ w[1] = f /\ w[2] = t /\ t # "future" /\ w \notin ToSet(s.pending)
    BY <2>1, <1>5 DEF Write, Type
  <2>3. PICK r : r = [s EXCEPT !.mem = [s.mem EXCEPT ![f] = d], !.pending = Add(s.pending, w)]
    OBVIOUS
  <2>4. DirtyReactions(s, f, t) = r
    BY <2>3, <2>1, <1>1, <1>5 DEF DirtyReactions, StoreType
  <2>5. Add(s.pending, w) \in Seq(Write)
    <3>1. s.pending \in Seq(Write)
      BY DEF StoreType
    <3> QED BY <3>1, <2>2, AddNew
  <2>6. /\ r.mem = [s.mem EXCEPT ![f] = d] /\ r.disk = s.disk /\ r.pending = Add(s.pending, w)
        /\ r \in StoreType
    BY <2>3, <2>5, <1>2, <1>3 DEF StoreType
  <2>7. ~IsDirty(s.mem, w)
    BY <2>2, <1>3, <1>5 DEF IsDirty
  <2>8. IsDirty(r.mem, w)
    BY <2>2, <2>6, <1>2, <1>3 DEF IsDirty
  <2>9. ASSUME NEW u \in Write, u # w PROVE IsDirty(r.mem, u) <=> IsDirty(s.mem, u)
    <3>1. u[1] \in Future /\ u = <<u[1], u[2]>> /\ (u[2] # "future" => u[2] \in Type)
      BY DEF Write
    <3>2. CASE u[1] # f
      BY <3>1, <3>2, <2>6, <1>3 DEF IsDirty
    <3>3. CASE u[1] = f
      <4>1. u[2] # t
        BY <3>1, <3>3, <2>1, <2>9
      <4>2. r.mem[f] = d /\ s.mem[f] = m
        BY <2>6, <1>3
      <4> QED BY <3>1, <3>3, <4>1, <4>2, <1>2, <1>3 DEF IsDirty
    <3> QED BY <3>2, <3>3
  <2>10. Put(s, r, w[1], d, n)
    <3>1. r.mem = [s.mem EXCEPT ![w[1]] = d]
      BY <2>2, <2>6
    <3> QED BY <3>1, <2>2, <2>6, <2>7, <2>8, <2>9, <1>2, MarkOne
  <2> QED BY <2>2, <2>4, <2>10, <1>1
<1> QED BY <1>4, <1>5

Ensured(m) == [m EXCEPT !.inDatabase = FALSE, !.dirty = TRUE]

LEMMA EnsuredFacts ==
  ASSUME NEW m \in FutureDB, NEW e, e = Ensured(m)
  PROVE  /\ e \in FutureDB /\ ~e.inDatabase /\ e.dirty /\ e.rx = m.rx
         /\ e.state = m.state /\ e.value = m.value /\ e.settled = m.settled /\ e.root = m.root
<1>1. PICK d : d = [m EXCEPT !.inDatabase = FALSE]
  OBVIOUS
<1>2. e = [d EXCEPT !.dirty = TRUE]
  BY <1>1 DEF Ensured
<1> QED BY <1>1, <1>2 DEF FutureDB

\* ensureInDatabase of an object whose row is missing.
LEMMA PutEnsured ==
  ASSUME NEW s \in StoreType, NEW n, Marks(s, n), NEW f \in Future, NEW m \in FutureDB, s.mem[f] = m,
         ~(m.inDatabase /\ f \in Stored(s.disk)), m.dirty \/ <<f, "future">> \notin ToSet(s.pending)
  PROVE  Put(s, EnsureInDatabase(s, f), f, Ensured(m), n)
<1>1. PICK d : d = [m EXCEPT !.inDatabase = FALSE]
  OBVIOUS
<1>2. d \in FutureDB /\ d.dirty = m.dirty /\ d.rx = m.rx
  BY <1>1 DEF FutureDB
<1>3. PICK r : r = [s EXCEPT !.mem[f] = d]
  OBVIOUS
<1>4. Put(s, r, f, d, n)
  <2>1. s.mem[f] # Absent
    BY AbsentIsNone
  <2>2. Put(s, [s EXCEPT !.mem[f] = d], f, d, n)
    BY <2>1, <1>2, PutSame
  <2> QED BY <2>2, <1>3
<1>5. r.mem[f] = d /\ r \in StoreType /\ Marks(r, n)
  BY <1>4 DEF Put, StoreType
<1>6. r.pending = s.pending
  BY <1>3 DEF StoreType
<1>7. PICK e : e = [d EXCEPT !.dirty = TRUE]
  OBVIOUS
<1>8. Put(r, DirtyFuture(r, f), f, e, n)
  BY <1>2, <1>5, <1>6, <1>7, PutDirty
<1>9. Put(s, DirtyFuture(r, f), f, e, n)
  BY <1>4, <1>8, PutTwice
<1>10. EnsureInDatabase(s, f) = DirtyFuture(r, f)
  <2>1. r = [s EXCEPT !.mem[f].inDatabase = FALSE]
    BY <1>1, <1>3
  <2> QED BY <2>1, Zenon DEF EnsureInDatabase
<1>11. e = Ensured(m)
  BY <1>1, <1>7 DEF Ensured
<1> QED BY <1>9, <1>10, <1>11

LEMMA EnsuredAlready ==
  ASSUME NEW s, NEW f, s.mem[f].inDatabase, f \in Stored(s.disk)
  PROVE  EnsureInDatabase(s, f) = s
BY DEF EnsureInDatabase

----------------------------------------------------------------------------
(* The inductive invariant.                                                *)

RowOf(m) == [state |-> m.state, value |-> m.value, settled |-> m.settled, root |-> m.root]

\* A row, or an object, of f; k are the Futures user code knows.
RowOk(f, row, k) ==
  /\ row.state = "Pending" => row.value = None
  /\ row.root => row.state = "Pending"
  /\ ~row.settled => row.state = "Pending" /\ (f \in k => row.root)

\* The list r in the object of f, and the rows of its reactions.
ListOk(f, state, r, rows, d) ==
  /\ r.deleted => state # "Pending"
  /\ state = "Pending" => /\ r.unwritten # <<>> => r.dirty
                          /\ r.written = IF r.read THEN rows ELSE <<>>
                          /\ f \notin Stored(d) => rows = <<>>

ObjectOk(f, m, d, k) ==
  /\ RowOk(f, m, k)
  /\ ~m.inDatabase => f \notin Stored(d) /\ (f \in k => m.dirty)
  /\ m.inDatabase /\ ~m.dirty /\ f \in Stored(d) => d.rows[f] = RowOf(m)
  /\ m.inDatabase /\ m.dirty => /\ f \in Stored(d) /\ d.rows[f].state = "Pending"
                                /\ m.settled /\ ~m.root
  /\ m.inDatabase /\ m.state = "Pending" => f \in Stored(d)
  /\ \A t \in Type : ListOk(f, m.state, m.rx[t], d.rx[t][f], d)

\* The Futures that an object refers to.
Refers(m) == ({m.value} \cap Future) \cup UNION {ToSet(m.rx[t].written) \cup ToSet(m.rx[t].unwritten) : t \in Type}

PendingNow == {f \in Future : View(f) = "Pending"}
OpenNow == {f \in PendingNow : f \in known /\ ViewRoot(f)}
ListsNow == [f \in Future |-> ViewReactions(f, "Fulfilled")]
PendingSaved == {f \in Stored(disk) : disk.rows[f].state = "Pending"}
OpenSaved == {f \in PendingSaved : f \in known /\ disk.rows[f].root}

\* What the ledger says in memory, and what it would say after a crash.
NowInv ==
  /\ Sound(PendingNow, OpenNow, ListsNow, queue)
  /\ \A f \in PendingNow : ViewReactions(f, "Rejected") = ViewReactions(f, "Fulfilled")
  /\ phase = "ready" => queue = <<>>
SavedInv ==
  /\ Sound(PendingSaved, OpenSaved, disk.rx["Fulfilled"], <<>>)
  /\ \A f \in PendingSaved : disk.rx["Rejected"][f] = disk.rx["Fulfilled"][f]

DiskInv ==
  /\ known \subseteq 1..created
  /\ \A f \in Stored(disk) :
       /\ f <= created
       /\ RowOk(f, disk.rows[f], known)
       /\ disk.rows[f].value \in Future => disk.rows[f].value \in Stored(disk)
  /\ \A f \in Future, t \in Type : /\ ToSet(disk.rx[t][f]) \subseteq Stored(disk)
                                   /\ f > created => disk.rx[t][f] = <<>>

MemInv ==
  /\ \A f \in Live : /\ f <= created
                     /\ ObjectOk(f, mem[f], disk, known)
                     /\ Refers(mem[f]) \subseteq Live
                     /\ mem[f].value # f
  /\ \A i \in DOMAIN queue : /\ queue[i].next \in Live /\ queue[i].from \in Live
                             /\ queue[i].value \in Future => queue[i].value \in Live

IInv == TypeOK /\ Marks(Store, 0) /\ NowInv /\ SavedInv /\ DiskInv /\ MemInv

----------------------------------------------------------------------------
(* What the steps have in common.                                          *)

LEMMA StoreFacts ==
  ASSUME TypeOK
  PROVE  /\ Store \in StoreType /\ Store.mem = mem /\ Store.disk = disk /\ Store.pending = pendingWrites
         /\ \A f \in Live : f \in Future /\ mem[f] \in FutureDB
         /\ \A f \in Future : f \notin Live => mem[f] = Absent
BY DEF TypeOK, Store, StoreType, Live

\* A store that a step of the engine leaves.
LEMMA StoreTaken ==
  ASSUME TypeOK, NEW r \in StoreType, r.disk = disk, Marks(r, 0), SetStore(r), disk' = disk
  PROVE  /\ mem' = r.mem /\ mem' \in [Future -> FutureDB \cup {Absent}]
         /\ pendingWrites' \in Seq(Write) /\ Marks(Store, 0)' /\ disk' \in Tables
<1>1. mem' = r.mem /\ pendingWrites' = r.pending
  BY DEF SetStore
<1>2. Store'.mem = r.mem /\ Store'.pending = r.pending
  BY <1>1 DEF Store
<1>3. Marks(Store, 0)'
  BY <1>2 DEF Marks
<1> QED BY <1>1, <1>3 DEF StoreType, TypeOK

LEMMA NotMarked ==
  ASSUME NEW s \in StoreType, Marks(s, 0), NEW w \in Write, ~IsDirty(s.mem, w)
  PROVE  w \notin ToSet(s.pending)
<1>1. s.pending \in Seq(Write)
  BY DEF StoreType
<1>2. \A i \in DOMAIN s.pending : i > 0
  BY <1>1
<1> QED BY <1>2 DEF Marks, ToSet

LEMMA DirtyNow ==
  ASSUME NEW s \in StoreType, Marks(s, 0), NEW f \in Future, NEW m \in FutureDB, s.mem[f] = m
  PROVE  Put(s, DirtyFuture(s, f), f, [m EXCEPT !.dirty = TRUE], 0)
<1>1. m.dirty \/ <<f, "future">> \notin ToSet(s.pending)
  <2>1. <<f, "future">> \in Write
    BY DEF Write
  <2>2. ~m.dirty => ~IsDirty(s.mem, <<f, "future">>)
    BY DEF IsDirty
  <2> QED BY <2>1, <2>2, NotMarked
<1> QED BY <1>1, PutDirty

LEMMA DirtyReactionsNow ==
  ASSUME NEW s \in StoreType, Marks(s, 0), NEW f \in Future, NEW m \in FutureDB, s.mem[f] = m, NEW t \in Type
  PROVE  Put(s, DirtyReactions(s, f, t), f, [m EXCEPT !.rx[t].dirty = TRUE], 0)
<1>1. m.rx[t].dirty \/ <<f, t>> \notin ToSet(s.pending)
  <2>1. <<f, t>> \in Write
    BY DEF Write
  <2>2. ~m.rx[t].dirty => ~IsDirty(s.mem, <<f, t>>)
    BY DEF IsDirty, Type
  <2> QED BY <2>1, <2>2, NotMarked
<1> QED BY <1>1, PutDirtyReactions

IsDB(m, row, b) ==
  /\ m \in FutureDB
  /\ m.state = row.state /\ m.value = row.value /\ m.settled = row.settled /\ m.root = row.root
  /\ m.inDatabase = b /\ ~m.dirty
  /\ \A t \in Type : /\ m.rx[t].written = <<>> /\ m.rx[t].unwritten = <<>> /\ m.rx[t].read = ~b
                     /\ ~m.rx[t].deleted /\ ~m.rx[t].dirty

LEMMA NewDBFacts ==
  ASSUME NEW row \in Row, NEW b \in BOOLEAN
  PROVE  IsDB(NewDB(row, b), row, b)
<1> PICK m : m = NewDB(row, b)
  OBVIOUS
<1>1. PICK x : x = [written |-> <<>>, unwritten |-> <<>>, read |-> ~b, deleted |-> FALSE, dirty |-> FALSE]
  OBVIOUS
<1>2. x \in Reactions /\ x.written = <<>> /\ x.unwritten = <<>> /\ x.read = ~b /\ ~x.deleted /\ ~x.dirty
  BY <1>1 DEF Reactions
<1>3. m = [state |-> row.state, value |-> row.value, settled |-> row.settled, root |-> row.root,
           inDatabase |-> b, dirty |-> FALSE, rx |-> [t \in Type |-> x]]
  BY <1>1 DEF NewDB
<1> QED BY <1>2, <1>3 DEF FutureDB, Row, IsDB

Constructed(m, row) ==
  /\ m \in FutureDB
  /\ m.state = row.state /\ m.value = row.value /\ m.settled = row.settled /\ m.root = row.root
  /\ ~m.inDatabase /\ ~m.dirty
  /\ \A t \in Type : /\ m.rx[t].written = <<>> /\ m.rx[t].unwritten = <<>> /\ m.rx[t].read
                     /\ ~m.rx[t].deleted /\ ~m.rx[t].dirty

LEMMA ConstructedFacts ==
  ASSUME NEW row \in Row
  PROVE  Constructed(NewDB(row, FALSE), row)
<1> PICK m : m = NewDB(row, FALSE)
  OBVIOUS
<1> PICK b \in BOOLEAN : b = FALSE
  OBVIOUS
<1>1. m = NewDB(row, b)
  BY Zenon
<1>2. IsDB(m, row, b)
  BY <1>1, NewDBFacts, Zenon
<1>3. Constructed(m, row)
  BY <1>2 DEF IsDB, Constructed
<1> QED BY <1>3

ReadFrom(m, row) ==
  /\ m \in FutureDB
  /\ m.state = row.state /\ m.value = row.value /\ m.settled = row.settled /\ m.root = row.root
  /\ m.inDatabase /\ ~m.dirty
  /\ \A t \in Type : /\ m.rx[t].written = <<>> /\ m.rx[t].unwritten = <<>> /\ ~m.rx[t].read
                     /\ ~m.rx[t].deleted /\ ~m.rx[t].dirty

LEMMA ReadFacts ==
  ASSUME NEW row \in Row
  PROVE  ReadFrom(NewDB(row, TRUE), row)
<1> PICK m : m = NewDB(row, TRUE)
  OBVIOUS
<1> PICK b \in BOOLEAN : b = TRUE
  OBVIOUS
<1>1. m = NewDB(row, b)
  BY Zenon
<1>2. IsDB(m, row, b)
  BY <1>1, NewDBFacts, Zenon
<1>3. ReadFrom(m, row)
  BY <1>2 DEF IsDB, ReadFrom
<1> QED BY <1>3

\* A Future that neither the object nor the row of changes looks the same.
SameView(f) ==
  /\ View(f)' = View(f) /\ ViewRoot(f)' = ViewRoot(f)
  /\ \A t \in Type : ViewReactions(f, t)' = ViewReactions(f, t)

LEMMA SameViews ==
  ASSUME NEW f \in Future, mem'[f] = mem[f], disk' = disk
  PROVE  SameView(f)
BY DEF SameView, View, ViewRoot, ViewReactions, Live, Popped, Stored

LEMMA FreshFacts ==
  ASSUME IInv, Fresh \in Future
  PROVE  /\ Fresh \notin Live /\ Fresh \notin Stored(disk) /\ Fresh \notin known /\ Fresh \notin PendingNow
         /\ \A t \in Type : disk.rx[t][Fresh] = <<>>
         /\ \A i \in DOMAIN queue : queue[i].from # Fresh
         /\ mem[Fresh] = Absent
         /\ \A f \in Live : f \in Future /\ f # Fresh
<1>1. created \in Nat
  BY DEF IInv, TypeOK
<1>2. Future \subseteq Int /\ Fresh \in Int
  BY <1>1 DEF Future, Fresh
<1>3. Fresh \notin Live /\ Fresh \notin Stored(disk) /\ \A t \in Type : disk.rx[t][Fresh] = <<>>
  <2>1. ~(Fresh <= created) /\ Fresh > created
    BY <1>1 DEF Fresh
  <2> QED BY <2>1 DEF IInv, MemInv, DiskInv
<1>4. Fresh \notin known
  <2>1. known \subseteq 1..created
    BY DEF IInv, DiskInv
  <2> QED BY <2>1, <1>1 DEF Fresh
<1>5. Fresh \notin PendingNow
  <2>1. disk.rows[Fresh] = NoRow
    BY <1>3 DEF Stored
  <2> QED BY <2>1, <1>3 DEF PendingNow, View, NoRow
<1>6. \A i \in DOMAIN queue : queue[i].from # Fresh
  BY <1>3 DEF IInv, MemInv
<1>7. mem[Fresh] = Absent /\ \A f \in Live : f \in Future /\ f # Fresh
  BY <1>3 DEF Live
<1> QED BY <1>3, <1>4, <1>5, <1>6, <1>7

\* User code knows no Future before it is created.
Grown == \/ created' = created /\ known' = known
         \/ created' = Fresh /\ Fresh \in Future /\ (known' = known \/ known' = known \cup {Fresh})

\* The tables stay as they were.
LEMMA DiskFrame ==
  ASSUME IInv, disk' = disk, Grown
  PROVE  SavedInv' /\ DiskInv'
<1>1. created \in Nat /\ created' \in Nat /\ created' >= created
  BY DEF IInv, TypeOK, Grown, Fresh
<1>2. \A f \in Stored(disk) : f \in known' <=> f \in known
  BY FreshFacts DEF Grown
<1>3. Stored(disk)' = Stored(disk) /\ Stored(disk) \subseteq Future /\ Future \subseteq Int
  BY DEF Stored, Future
<1>4. PendingSaved' = PendingSaved /\ OpenSaved' = OpenSaved
  BY <1>2, <1>3 DEF PendingSaved, OpenSaved
<1>5. SavedInv'
  BY <1>4 DEF IInv, SavedInv
<1>6. known' \subseteq 1..created'
  <2>1. known \subseteq 1..created
    BY DEF IInv, DiskInv
  <2>2. created' = created \/ created' = created + 1
    BY DEF Grown, Fresh
  <2>3. known' \subseteq known \cup {created + 1} /\ (created' = created => known' = known)
    BY <1>1 DEF Grown, Fresh
  <2> QED BY <2>1, <2>2, <2>3, <1>1
<1>7. \A f \in Stored(disk) : f <= created' /\ RowOk(f, disk.rows[f], known')
  <2> SUFFICES ASSUME NEW f \in Stored(disk) PROVE f <= created' /\ RowOk(f, disk.rows[f], known')
    OBVIOUS
  <2>1. f <= created /\ RowOk(f, disk.rows[f], known)
    BY DEF IInv, DiskInv
  <2>2. f \in Int
    BY <1>3
  <2>3. RowOk(f, disk.rows[f], known')
    BY <2>1, <1>2 DEF RowOk
  <2> QED BY <2>1, <2>2, <2>3, <1>1
<1>8. \A f \in Future, t \in Type : f > created' => disk.rx[t][f] = <<>>
  BY <1>1, <1>3 DEF IInv, DiskInv
<1> QED BY <1>3, <1>5, <1>6, <1>7, <1>8 DEF DiskInv, IInv

QueueOk == \A i \in DOMAIN queue : /\ queue[i].next \in Live /\ queue[i].from \in Live
                                   /\ queue[i].value \in Future => queue[i].value \in Live

\* All objects but those of `new` stay as they were, and those are right.
Renewed(new) ==
  /\ Live \subseteq Live'
  /\ \A f \in Live' \ new : f \in Live /\ mem'[f] = mem[f]
  /\ \A f \in new \cap Live' : /\ f <= created' /\ ObjectOk(f, mem'[f], disk, known')
                             /\ Refers(mem'[f]) \subseteq Live' /\ mem'[f].value # f

LEMMA MemFrame ==
  ASSUME IInv, disk' = disk, Grown, QueueOk', NEW new, Renewed(new)
  PROVE  MemInv'
<1>1. created \in Nat /\ created' \in Nat /\ created' >= created
  BY DEF IInv, TypeOK, Grown, Fresh
<1>2. \A f \in Live : f \in Int /\ (f \in known' <=> f \in known)
  BY FreshFacts DEF Grown, Live, Future
<1>3. ASSUME NEW f \in Live'
      PROVE  f <= created' /\ ObjectOk(f, mem'[f], disk, known') /\ Refers(mem'[f]) \subseteq Live' /\ mem'[f].value # f
  <2>1. CASE f \in new
    BY <2>1 DEF Renewed
  <2>2. CASE f \notin new
    <3>1. f \in Live /\ mem'[f] = mem[f]
      BY <2>2 DEF Renewed
    <3>2. f <= created /\ ObjectOk(f, mem[f], disk, known) /\ Refers(mem[f]) \subseteq Live /\ mem[f].value # f
              /\ Live \subseteq Live'
      BY <3>1 DEF IInv, MemInv, Renewed
    <3>3. ObjectOk(f, mem[f], disk, known')
      BY <3>1, <3>2, <1>2 DEF ObjectOk, RowOk
    <3> QED BY <3>1, <3>2, <3>3, <1>1, <1>2
  <2> QED BY <2>1, <2>2
<1> QED BY <1>3 DEF MemInv, QueueOk

----------------------------------------------------------------------------
(* The steps of user code that create a Future.                            *)

\* An object that was just constructed.
IsNew(m) ==
  /\ m \in FutureDB /\ ~m.inDatabase /\ m.value \notin Future
  /\ \A t \in Type : /\ m.rx[t].written = <<>> /\ m.rx[t].unwritten = <<>> /\ m.rx[t].read
                     /\ ~m.rx[t].deleted

LEMMA FreshObject ==
  ASSUME IInv, NEW n \in Future, n = Fresh, NEW m, IsNew(m), NEW k, RowOk(n, m, k), n \in k => m.dirty
  PROVE  ObjectOk(n, m, disk, k) /\ Refers(m) = {} /\ m.value # n
<1>1. Refers(m) = {}
  BY EmptyList DEF Refers, IsNew
<1>2. ASSUME NEW t \in Type PROVE ListOk(n, m.state, m.rx[t], disk.rx[t][n], disk)
  BY FreshFacts DEF ListOk, IsNew
<1> QED BY <1>1, <1>2, FreshFacts DEF ObjectOk, IsNew

\* One new object, and nothing else but perhaps a job, keeps types, tables and objects right.
LEMMA CreateFrame ==
  ASSUME IInv, NEW n \in Future, n = Fresh, created' = n, known' = known \/ known' = known \cup {n}, disk' = disk,
         NEW r, NEW m, Put(Store, r, n, m, 0), SetStore(r), IsNew(m), RowOk(n, m, known'),
         n \in known' => m.dirty,
         phase' \in {"idle", "awaiting", "ready"}, queue' \in Seq(Job),
         Live' = Live \cup {n} => QueueOk'
  PROVE  /\ TypeOK' /\ Marks(Store, 0)' /\ SavedInv' /\ DiskInv' /\ MemInv'
         /\ Live' = Live \cup {n} /\ mem'[n] = m /\ \A f \in Future : f # n => mem'[f] = mem[f]
<1>0. TypeOK
  BY DEF IInv
<1>1. r \in StoreType /\ r.disk = disk /\ Marks(r, 0) /\ r.mem = [mem EXCEPT ![n] = m]
  BY <1>0, StoreFacts DEF Put
<1>2. /\ mem' = r.mem /\ mem' \in [Future -> FutureDB \cup {Absent}]
      /\ pendingWrites' \in Seq(Write) /\ Marks(Store, 0)' /\ disk' \in Tables
  BY <1>0, <1>1, StoreTaken
<1>3. mem'[n] = m /\ \A f \in Future : f # n => mem'[f] = mem[f]
  BY <1>0, <1>1, <1>2 DEF TypeOK
<1>4. m # Absent
  BY AbsentIsNone DEF IsNew
<1>5. Live' = Live \cup {n}
  BY <1>3, <1>4 DEF Live
<1>6. Grown
  BY DEF Grown
<1>7. TypeOK'
  <2>1. created' \in 0..MaxFutures /\ known' \subseteq Future
    <3>1. n \in 1..MaxFutures /\ n \in 0..MaxFutures
      BY MaxFuturesAssumption DEF Future
    <3> QED BY <3>1, <1>0 DEF TypeOK
  <2> QED BY <2>1, <1>2 DEF TypeOK
<1>8. SavedInv' /\ DiskInv'
  BY <1>6, DiskFrame
<1>9. MemInv'
  <2>1. ObjectOk(n, m, disk, known') /\ Refers(m) = {} /\ m.value # n
    BY FreshObject
  <2>2. \A f \in {n} : /\ f <= created' /\ ObjectOk(f, mem'[f], disk, known')
                       /\ Refers(mem'[f]) \subseteq Live' /\ mem'[f].value # f
    BY <2>1, <1>3 DEF Future
  <2>3. \A f \in Live' \ {n} : f \in Live /\ mem'[f] = mem[f]
    BY <1>3, <1>5 DEF Live
  <2>4. QueueOk' /\ Live \subseteq Live'
    BY <1>5
  <2>5. Renewed({n})
    BY <2>2, <2>3, <2>4 DEF Renewed
  <2> QED BY <2>4, <2>5, <1>6, MemFrame
<1> QED BY <1>2, <1>3, <1>5, <1>7, <1>8, <1>9

\* Every Future but the new one looks the same.
LEMMA FreshViews ==
  ASSUME IInv, NEW n \in Future, n = Fresh, disk' = disk, NEW m, IsNew(m), mem'[n] = m, m # Absent,
         \A f \in Future : f # n => mem'[f] = mem[f]
  PROVE  /\ View(n)' = m.state /\ ViewRoot(n)' = m.root /\ \A t \in Type : ViewReactions(n, t)' = <<>>
         /\ \A f \in Future : f # n => SameView(f)
<1>1. \A f \in Future : f # n => SameView(f)
  BY SameViews
<1>2. n \in Live'
  BY DEF Live
<1>3. ASSUME NEW t \in Type PROVE ViewReactions(n, t)' = <<>>
  BY <1>2 DEF ViewReactions, Popped, IsNew
<1> QED BY <1>1, <1>2, <1>3 DEF View, ViewRoot

LEMMA QueueStays ==
  ASSUME IInv, Live \subseteq Live', queue' = queue
  PROVE  QueueOk'
BY DEF IInv, MemInv, QueueOk

\* The object of a root, which is to be written.
IsRoot(m) == IsNew(m) /\ m.dirty /\ m.state = "Pending" /\ m.root /\ m.value = None /\ ~m.settled

LEMMA NewRoot ==
  ASSUME IInv, NEW n \in Future, n = Fresh, NEW r,
         r = EnsureInDatabase([Store EXCEPT !.mem[n] = NewDB(PendingRow(TRUE), FALSE)], n)
  PROVE  \E m : Put(Store, r, n, m, 0) /\ IsRoot(m)
<1>0. TypeOK
  BY DEF IInv
<1>1. n \in Future
  OBVIOUS
<1>2. PICK m0 : m0 = NewDB(PendingRow(TRUE), FALSE)
  OBVIOUS
<1>3. PendingRow(TRUE) \in Row
  BY DEF PendingRow, Row, Value
<1>4. PICK p : p = PendingRow(TRUE)
  OBVIOUS
<1>5. p \in Row /\ p.state = "Pending" /\ p.value = None /\ ~p.settled /\ p.root /\ m0 = NewDB(p, FALSE)
  BY <1>2, <1>3, <1>4 DEF PendingRow
<1>6. /\ m0 \in FutureDB /\ m0.state = "Pending" /\ m0.value = None /\ ~m0.settled /\ m0.root
      /\ ~m0.inDatabase /\ ~m0.dirty
      /\ \A t \in Type : /\ m0.rx[t].written = <<>> /\ m0.rx[t].unwritten = <<>> /\ m0.rx[t].read
                         /\ ~m0.rx[t].deleted /\ ~m0.rx[t].dirty
  <2>1. Constructed(m0, p)
    BY <1>5, ConstructedFacts
  <2> QED BY <2>1, <1>5 DEF Constructed
<1>7. PICK s : s = [Store EXCEPT !.mem[n] = m0]
  OBVIOUS
<1>8. /\ Store \in StoreType /\ Marks(Store, 0) /\ Store.mem[n] = Absent /\ Store.disk = disk
  BY <1>0, <1>1, StoreFacts, FreshFacts DEF IInv
<1>9. Put(Store, s, n, m0, 0)
  BY <1>1, <1>6, <1>7, <1>8, PutSame
<1>10. s \in StoreType /\ Marks(s, 0) /\ s.mem[n] = m0 /\ s.disk = disk
  BY <1>1, <1>8, <1>9 DEF Put, StoreType
<1>11. r = EnsureInDatabase(s, n)
  BY <1>2, <1>7, Zenon
<1>12. PICK m : m = Ensured(m0)
  OBVIOUS
<1>13. Put(s, r, n, m, 0)
  <2>1. <<n, "future">> \in Write
    BY <1>1 DEF Write
  <2>2. ~IsDirty(s.mem, <<n, "future">>)
    BY <1>6, <1>10 DEF IsDirty
  <2>3. <<n, "future">> \notin ToSet(s.pending)
    BY <2>1, <2>2, <1>10, NotMarked
  <2>4. ~(m0.inDatabase /\ n \in Stored(s.disk))
    BY <1>6
  <2> QED BY <2>3, <2>4, <1>1, <1>6, <1>10, <1>11, <1>12, PutEnsured
<1>14. Put(Store, r, n, m, 0)
  BY <1>1, <1>8, <1>9, <1>13, PutTwice
<1>16. IsRoot(m)
  BY <1>6, <1>12, EnsuredFacts, NoneIsNoFuture, AbsentIsNone DEF IsNew, IsRoot
<1> QED BY <1>14, <1>16

\* What create changes in memory, and how the new Future looks.
LEMMA CreateViews ==
  ASSUME IInv, Create, NEW n, n = Fresh
  PROVE  /\ n \in Future /\ created' = n /\ known' = known \cup {n} /\ disk' = disk
         /\ phase' = phase /\ queue' = queue
         /\ TypeOK' /\ Marks(Store, 0)' /\ SavedInv' /\ DiskInv' /\ MemInv' /\ Live' = Live \cup {n}
         /\ View(n)' = "Pending" /\ ViewRoot(n)' = TRUE /\ \A t \in Type : ViewReactions(n, t)' = <<>>
         /\ \A f \in Future : f # n => SameView(f)
<1>0. TypeOK
  BY DEF IInv
<1>1. n \in Future /\ created' = n /\ known' = known \cup {n} /\ disk' = disk
      /\ phase' = phase /\ queue' = queue
  BY DEF Create
<1>2. PICK r : r = EnsureInDatabase([Store EXCEPT !.mem[n] = NewDB(PendingRow(TRUE), FALSE)], n)
  OBVIOUS
<1>3. PICK m : Put(Store, r, n, m, 0) /\ IsRoot(m)
  BY <1>1, <1>2, NewRoot
<1>4. SetStore(r)
  BY <1>2 DEF Create
<1>5. /\ IsNew(m) /\ m.dirty /\ m.state = "Pending" /\ m.root /\ m.value = None /\ ~m.settled
  BY <1>3 DEF IsRoot
<1>6. RowOk(n, m, known')
  BY <1>1, <1>5 DEF RowOk
<1>7. phase' \in {"idle", "awaiting", "ready"} /\ queue' \in Seq(Job) /\ (Live' = Live \cup {n} => QueueOk')
  BY <1>0, <1>1, QueueStays DEF TypeOK
<1>8. /\ TypeOK' /\ Marks(Store, 0)' /\ SavedInv' /\ DiskInv' /\ MemInv'
      /\ Live' = Live \cup {n} /\ mem'[n] = m /\ \A f \in Future : f # n => mem'[f] = mem[f]
  BY <1>1, <1>3, <1>4, <1>5, <1>6, <1>7, CreateFrame
<1>9. /\ View(n)' = "Pending" /\ ViewRoot(n)' = TRUE /\ \A t \in Type : ViewReactions(n, t)' = <<>>
      /\ \A f \in Future : f # n => SameView(f)
  BY <1>1, <1>5, <1>8, FreshViews, AbsentIsNone DEF IsNew
<1> QED BY <1>1, <1>8, <1>9

LEMMA CreateStep ==
  ASSUME IInv, Create
  PROVE  IInv'
<1>0. TypeOK
  BY DEF IInv
<1> PICK n : n = Fresh
  OBVIOUS
<1>1. n \in Future /\ created' = n /\ known' = known \cup {n} /\ disk' = disk
      /\ phase' = phase /\ queue' = queue
  BY CreateViews
<1>8. TypeOK' /\ Marks(Store, 0)' /\ SavedInv' /\ DiskInv' /\ MemInv'
  BY CreateViews
<1>9. /\ View(n)' = "Pending" /\ ViewRoot(n)' = TRUE /\ \A t \in Type : ViewReactions(n, t)' = <<>>
      /\ \A f \in Future : f # n => SameView(f)
  BY CreateViews
<1>10. PendingNow' = PendingNow \cup {n}
  <2>1. \A f \in Future : f # n => View(f)' = View(f)
    BY <1>9 DEF SameView
  <2> QED BY <2>1, <1>1, <1>9 DEF PendingNow
<1>11. OpenNow' = OpenNow \cup {n}
  <2>1. \A f \in Future : f # n => ViewRoot(f)' = ViewRoot(f)
    BY <1>9 DEF SameView
  <2>2. n \notin PendingNow /\ \A f \in PendingNow : f \in Future
    BY <1>1, FreshFacts DEF PendingNow
  <2> QED BY <2>1, <2>2, <1>1, <1>9, <1>10 DEF OpenNow
<1>12. NowInv'
  <2>1. PICK M : M = ListsNow'
    OBVIOUS
  <2>2. M[n] = <<>> /\ \A f \in PendingNow : M[f] = ListsNow[f]
    BY <2>1, <1>1, <1>9, FreshFacts DEF ListsNow, SameView, Type, PendingNow
  <2>3. Sound(PendingNow, OpenNow, ListsNow, queue) /\ n \notin PendingNow
    BY <1>1, FreshFacts DEF IInv, NowInv
  <2>4. Sound(PendingNow \cup {n}, OpenNow \cup {n}, M, queue)
    BY <2>2, <2>3, SoundOpen
  <2>5. \A f \in PendingNow' : ViewReactions(f, "Rejected")' = ViewReactions(f, "Fulfilled")'
    BY <1>1, <1>9, <1>10, FreshFacts DEF IInv, NowInv, SameView, Type, PendingNow
  <2> QED BY <2>1, <2>4, <2>5, <1>1, <1>10, <1>11 DEF NowInv, IInv
<1> QED BY <1>8, <1>12 DEF IInv

LEMMA CreateSettledViews ==
  ASSUME IInv, CreateSettled, NEW n, n = Fresh
  PROVE  /\ n \in Future /\ created' = n /\ known' = known /\ disk' = disk /\ phase' = phase /\ queue' = queue
         /\ TypeOK' /\ Marks(Store, 0)' /\ SavedInv' /\ DiskInv' /\ MemInv' /\ Live' = Live \cup {n}
         /\ mem'[n].state = "Rejected" /\ mem'[n].value = Plain
         /\ View(n)' = "Rejected" /\ \A f \in Future : f # n => SameView(f)
<1>0. TypeOK
  BY DEF IInv
<1> PICK row : row = [state |-> "Rejected", value |-> Plain, settled |-> TRUE, root |-> FALSE]
  OBVIOUS
<1> PICK m : m = NewDB(row, FALSE)
  OBVIOUS
<1>1. n \in Future /\ created' = n /\ known' = known /\ disk' = disk /\ pendingWrites' = pendingWrites
      /\ phase' = phase /\ queue' = queue /\ mem' = [mem EXCEPT ![n] = m]
  BY DEF CreateSettled
<1>2. row \in Row /\ row.state = "Rejected" /\ row.value = Plain /\ row.settled /\ ~row.root
  BY DEF Row, Type, Value
<1>3. /\ m \in FutureDB /\ m.state = "Rejected" /\ m.value = Plain /\ m.settled /\ ~m.root /\ ~m.inDatabase /\ ~m.dirty
      /\ \A t \in Type : /\ m.rx[t].written = <<>> /\ m.rx[t].unwritten = <<>> /\ m.rx[t].read
                         /\ ~m.rx[t].deleted /\ ~m.rx[t].dirty
  <2>1. Constructed(m, row)
    BY <1>2, ConstructedFacts
  <2> QED BY <2>1, <1>2 DEF Constructed
<1>4. PICK r : r = [Store EXCEPT !.mem[n] = m]
  OBVIOUS
<1>5. Put(Store, r, n, m, 0)
  <2>1. Store \in StoreType /\ Marks(Store, 0) /\ Store.mem[n] = Absent
    BY <1>0, <1>1, StoreFacts, FreshFacts DEF IInv
  <2> QED BY <2>1, <1>1, <1>3, <1>4, PutSame
<1>6. SetStore(r)
  BY <1>1, <1>4 DEF SetStore, Store
<1>7. IsNew(m) /\ RowOk(n, m, known') /\ (n \in known' => m.dirty)
  BY <1>1, <1>3, NoneIsNoFuture, FreshFacts DEF IsNew, RowOk
<1>8. phase' \in {"idle", "awaiting", "ready"} /\ queue' \in Seq(Job) /\ (Live' = Live \cup {n} => QueueOk')
  BY <1>0, <1>1, QueueStays DEF TypeOK
<1>9. /\ TypeOK' /\ Marks(Store, 0)' /\ SavedInv' /\ DiskInv' /\ MemInv'
      /\ Live' = Live \cup {n} /\ mem'[n] = m /\ \A f \in Future : f # n => mem'[f] = mem[f]
  BY <1>1, <1>5, <1>6, <1>7, <1>8, CreateFrame
<1>10. /\ View(n)' = "Rejected" /\ \A f \in Future : f # n => SameView(f)
  <2>1. /\ IsNew(m) /\ mem'[n] = m /\ m # Absent /\ disk' = disk /\ n \in Future /\ n = Fresh
        /\ \A f \in Future : f # n => mem'[f] = mem[f]
    BY <1>1, <1>3, <1>7, <1>9, AbsentIsNone
  <2>2. View(n)' = m.state /\ \A f \in Future : f # n => SameView(f)
    BY <2>1, FreshViews, Zenon
  <2> QED BY <2>2, <1>3
<1> QED BY <1>1, <1>3, <1>9, <1>10

LEMMA CreateSettledStep ==
  ASSUME IInv, CreateSettled
  PROVE  IInv'
<1> PICK n : n = Fresh
  OBVIOUS
<1>1. n \in Future /\ created' = n /\ known' = known /\ disk' = disk /\ phase' = phase /\ queue' = queue
  BY CreateSettledViews
<1>9. TypeOK' /\ Marks(Store, 0)' /\ SavedInv' /\ DiskInv' /\ MemInv'
  BY CreateSettledViews
<1>10. View(n)' = "Rejected" /\ \A f \in Future : f # n => SameView(f)
  BY CreateSettledViews
<1>11. n \notin PendingNow
  BY <1>1, FreshFacts
<1>12. PendingNow' = PendingNow
  BY <1>10, <1>11 DEF PendingNow, SameView
<1>13. OpenNow' = OpenNow
  BY <1>1, <1>10, <1>11, <1>12 DEF OpenNow, PendingNow, SameView
<1>14. NowInv'
  <2>1. PICK M : M = ListsNow'
    OBVIOUS
  <2>2. \A f \in PendingNow : M[f] = ListsNow[f]
    BY <2>1, <1>10, <1>11 DEF ListsNow, SameView, Type, PendingNow
  <2>3. Sound(PendingNow, OpenNow, ListsNow, queue)
    BY DEF IInv, NowInv
  <2>4. Sound(PendingNow, OpenNow, M, queue)
    BY <2>2, <2>3, SoundSame
  <2>5. \A f \in PendingNow' : ViewReactions(f, "Rejected")' = ViewReactions(f, "Fulfilled")'
    BY <1>10, <1>11, <1>12 DEF IInv, NowInv, SameView, Type, PendingNow
  <2> QED BY <2>1, <2>4, <2>5, <1>1, <1>12, <1>13 DEF NowInv, IInv
<1> QED BY <1>9, <1>14 DEF IInv

\* The object of a Future that gets one more reaction.
Pushed(p, m, next) ==
  /\ p \in FutureDB /\ p.state = m.state /\ p.value = m.value /\ p.settled = m.settled /\ p.root = m.root
  /\ p.inDatabase = m.inDatabase /\ p.dirty = m.dirty
  /\ \A t \in Type : /\ p.rx[t].written = m.rx[t].written /\ p.rx[t].read = m.rx[t].read
                     /\ p.rx[t].unwritten = Append(m.rx[t].unwritten, next)
                     /\ p.rx[t].deleted = m.rx[t].deleted /\ p.rx[t].dirty

LEMMA PutPushed ==
  ASSUME NEW s \in StoreType, Marks(s, 0), NEW f \in Future, NEW m \in FutureDB, s.mem[f] = m, NEW next \in Future
  PROVE  \E p : Put(s, PushReactions(s, f, next), f, p, 0) /\ Pushed(p, m, next)
<1>1. PICK rx : rx = [t \in Type |-> [m.rx[t] EXCEPT !.unwritten = Append(m.rx[t].unwritten, next)]]
  OBVIOUS
<1>2. m.rx \in [Type -> Reactions]
  BY DEF FutureDB
<1>3. ASSUME NEW t \in Type
      PROVE  /\ rx[t] \in Reactions /\ rx[t].written = m.rx[t].written /\ rx[t].read = m.rx[t].read
             /\ rx[t].unwritten = Append(m.rx[t].unwritten, next)
             /\ rx[t].deleted = m.rx[t].deleted /\ rx[t].dirty = m.rx[t].dirty
  <2>1. PICK x : x = m.rx[t]
    OBVIOUS
  <2>2. x \in Reactions
    BY <2>1, <1>2
  <2>3. rx[t] = [x EXCEPT !.unwritten = Append(x.unwritten, next)]
    BY <1>1, <2>1
  <2>4. Append(x.unwritten, next) \in Seq(Future)
    BY <2>2 DEF Reactions
  <2> QED BY <2>1, <2>2, <2>3, <2>4 DEF Reactions
<1>4. rx \in [Type -> Reactions]
  BY <1>1, <1>3
<1>5. PICK q : q = [m EXCEPT !.rx = rx]
  OBVIOUS
<1>6. /\ q \in FutureDB /\ q.rx = rx /\ q.state = m.state /\ q.value = m.value /\ q.settled = m.settled
      /\ q.root = m.root /\ q.inDatabase = m.inDatabase /\ q.dirty = m.dirty
  BY <1>4, <1>5 DEF FutureDB
<1>7. PICK u : u = [s EXCEPT !.mem[f] = q]
  OBVIOUS
<1>8. Put(s, u, f, q, 0)
  <2>1. s.mem[f] # Absent
    BY AbsentIsNone
  <2>2. Put(s, [s EXCEPT !.mem[f] = q], f, q, 0)
    BY <2>1, <1>3, <1>6, PutSame
  <2> QED BY <2>2, <1>7
<1>9. u \in StoreType /\ Marks(u, 0) /\ u.mem[f] = q
  BY <1>8 DEF Put, StoreType
<1>10. PICK v : v = DirtyReactions(u, f, "Fulfilled")
  OBVIOUS
<1>11. PICK a : a = [q EXCEPT !.rx["Fulfilled"].dirty = TRUE]
  OBVIOUS
<1>12. Put(u, v, f, a, 0)
  BY <1>6, <1>9, <1>10, <1>11, DirtyReactionsNow DEF Type
<1>13. MarkedList(a, q, "Fulfilled") /\ a \in FutureDB
  <2>1. "Fulfilled" \in Type /\ q \in FutureDB
    BY <1>6 DEF Type
  <2>2. MarkedList([q EXCEPT !.rx["Fulfilled"].dirty = TRUE], q, "Fulfilled")
    BY <2>1, MarkedReactions, Zenon
  <2>3. MarkedList(a, q, "Fulfilled")
    BY <2>2, <1>11, Zenon
  <2> QED BY <2>3 DEF MarkedList
<1>14. v \in StoreType /\ Marks(v, 0) /\ v.mem[f] = a
  BY <1>9, <1>12 DEF Put, StoreType
<1>15. PICK w : w = DirtyReactions(v, f, "Rejected")
  OBVIOUS
<1>16. PICK p : p = [a EXCEPT !.rx["Rejected"].dirty = TRUE]
  OBVIOUS
<1>17. Put(v, w, f, p, 0)
  BY <1>13, <1>14, <1>15, <1>16, DirtyReactionsNow DEF Type
<1>18. Pushed(p, m, next)
  <2>1. MarkedList(p, a, "Rejected")
    <3>1. "Rejected" \in Type
      BY DEF Type
    <3>2. MarkedList([a EXCEPT !.rx["Rejected"].dirty = TRUE], a, "Rejected")
      BY <3>1, <1>13, MarkedReactions, Zenon
    <3> QED BY <3>2, <1>16, Zenon
  <2>2. ASSUME NEW t \in Type
        PROVE  /\ p.rx[t].written = m.rx[t].written /\ p.rx[t].read = m.rx[t].read
               /\ p.rx[t].unwritten = Append(m.rx[t].unwritten, next)
               /\ p.rx[t].deleted = m.rx[t].deleted /\ p.rx[t].dirty
    <3>1. /\ p.rx[t].written = a.rx[t].written /\ p.rx[t].read = a.rx[t].read
          /\ p.rx[t].unwritten = a.rx[t].unwritten /\ p.rx[t].deleted = a.rx[t].deleted
      BY <2>1 DEF MarkedList
    <3>2. /\ a.rx[t].written = q.rx[t].written /\ a.rx[t].read = q.rx[t].read
          /\ a.rx[t].unwritten = q.rx[t].unwritten /\ a.rx[t].deleted = q.rx[t].deleted
      BY <1>13 DEF MarkedList
    <3>3. p.rx[t].dirty
      <4>1. CASE t = "Rejected"
        BY <4>1, <2>1 DEF MarkedList
      <4>2. CASE t = "Fulfilled"
        <5>1. a.rx[t].dirty
          BY <4>2, <1>13 DEF MarkedList
        <5> QED BY <5>1, <4>2, <2>1 DEF MarkedList
      <4> QED BY <4>1, <4>2 DEF Type
    <3>4. q.rx = rx
      BY <1>6
    <3>5. /\ rx[t].written = m.rx[t].written /\ rx[t].read = m.rx[t].read
          /\ rx[t].unwritten = Append(m.rx[t].unwritten, next) /\ rx[t].deleted = m.rx[t].deleted
      BY <1>3
    <3> QED BY <3>1, <3>2, <3>3, <3>4, <3>5
  <2>3. /\ p \in FutureDB /\ p.state = m.state /\ p.value = m.value /\ p.settled = m.settled /\ p.root = m.root
        /\ p.inDatabase = m.inDatabase /\ p.dirty = m.dirty
    BY <2>1, <1>6, <1>13 DEF MarkedList
  <2> QED BY <2>2, <2>3 DEF Pushed
<1>19. Put(s, w, f, p, 0)
  <2>1. Put(s, v, f, a, 0)
    BY <1>8, <1>12, PutTwice
  <2> QED BY <2>1, <1>17, PutTwice
<1>20. PushReactions(s, f, next) = w
  <2>1. u = [s EXCEPT !.mem[f].rx = [t \in Type |-> [s.mem[f].rx[t] EXCEPT !.unwritten = Append(@, next)]]]
    BY <1>1, <1>5, <1>7, Zenon
  <2> QED BY <2>1, <1>10, <1>15, Zenon DEF PushReactions
<1> QED BY <1>18, <1>19, <1>20

LEMMA ViewTypes ==
  ASSUME TypeOK, NEW f \in Future, NEW t \in Type
  PROVE  ViewReactions(f, t) \in Seq(Future)
<1>1. disk.rx[t][f] \in Seq(Future)
  BY DEF TypeOK, Tables
<1>2. f \in Live => mem[f].rx[t].written \in Seq(Future) /\ mem[f].rx[t].unwritten \in Seq(Future)
  <2>1. f \in Live => mem[f] \in FutureDB
    BY StoreFacts
  <2>2. f \in Live => mem[f].rx[t] \in Reactions
    BY <2>1 DEF FutureDB
  <2> QED BY <2>2 DEF Reactions
<1> QED BY <1>1, <1>2 DEF ViewReactions, Popped

\* An object with one more reaction is still right.
LEMMA PushedObject ==
  ASSUME NEW f, NEW m \in FutureDB, NEW p, NEW next \in Future, Pushed(p, m, next), NEW d, NEW k, ObjectOk(f, m, d, k)
  PROVE  ObjectOk(f, p, d, k) /\ Refers(p) \subseteq Refers(m) \cup {next} /\ p.value = m.value
<1>1. RowOk(f, p, k) /\ RowOf(p) = RowOf(m)
  BY DEF Pushed, ObjectOk, RowOk, RowOf
<1>2. ASSUME NEW t \in Type PROVE ListOk(f, p.state, p.rx[t], d.rx[t][f], d)
  <2>1. ListOk(f, m.state, m.rx[t], d.rx[t][f], d)
    BY DEF ObjectOk
  <2> QED BY <2>1 DEF ListOk, Pushed
<1>3. ObjectOk(f, p, d, k)
  <2>1. p.inDatabase = m.inDatabase /\ p.dirty = m.dirty /\ p.state = m.state /\ p.settled = m.settled /\ p.root = m.root
    BY DEF Pushed
  <2> QED BY <1>1, <1>2, <2>1 DEF ObjectOk
<1>4. ASSUME NEW t \in Type
      PROVE  /\ ToSet(p.rx[t].written) = ToSet(m.rx[t].written)
             /\ ToSet(p.rx[t].unwritten) = ToSet(m.rx[t].unwritten) \cup {next}
  <2>1. m.rx[t].unwritten \in Seq(Future)
    BY DEF FutureDB, Reactions
  <2>2. PICK u : u = m.rx[t].unwritten
    OBVIOUS
  <2>3. ToSet(Append(u, next)) = ToSet(u) \cup {next}
    BY <2>1, <2>2, ToSetAppend
  <2> QED BY <2>2, <2>3 DEF Pushed
<1>5. p.value = m.value
  BY DEF Pushed
<1>6. Refers(p) \subseteq Refers(m) \cup {next}
  BY <1>4, <1>5 DEF Refers
<1> QED BY <1>3, <1>5, <1>6

LEMMA PushedViews ==
  ASSUME TypeOK, NEW f \in Live, NEW p, NEW next \in Future, Pushed(p, mem[f], next), mem'[f] = p, disk' = disk
  PROVE  /\ View(f)' = View(f) /\ ViewRoot(f)' = ViewRoot(f) /\ f \in Live'
         /\ \A t \in Type : ViewReactions(f, t)' = Append(ViewReactions(f, t), next)
<1>1. f \in Live' /\ f \in Future
  BY AbsentIsNone DEF Live, Pushed
<1>2. ASSUME NEW t \in Type PROVE ViewReactions(f, t)' = Append(ViewReactions(f, t), next)
  <2>1. PICK u : u = mem[f].rx[t].unwritten
    OBVIOUS
  <2>2. PICK w : w = IF mem[f].rx[t].read THEN mem[f].rx[t].written ELSE disk.rx[t][f]
    OBVIOUS
  <2>3. u \in Seq(Future) /\ w \in Seq(Future)
    <3>1. mem[f] \in FutureDB
      BY StoreFacts
    <3>2. mem[f].rx[t] \in Reactions
      BY <3>1 DEF FutureDB
    <3>3. disk.rx[t][f] \in Seq(Future)
      BY <1>1 DEF TypeOK, Tables
    <3> QED BY <3>2, <3>3, <2>1, <2>2 DEF Reactions
  <2>4. ViewReactions(f, t) = w \o u
    BY <2>1, <2>2 DEF ViewReactions, Popped
  <2>5. ViewReactions(f, t)' = w \o Append(u, next)
    BY <2>1, <2>2, <1>1 DEF ViewReactions, Popped, Pushed
  <2>6. w \o Append(u, next) = Append(w \o u, next)
    BY <2>3
  <2> QED BY <2>4, <2>5, <2>6
<1> QED BY <1>1, <1>2 DEF View, ViewRoot, Pushed

LEMMA NextOnPendingViews ==
  ASSUME IInv, NEW f \in Live, NextOn(f), mem[f].state = "Pending", NEW n, n = Fresh
  PROVE  /\ n \in Future /\ created' = n /\ known' = known /\ disk' = disk /\ queue' = queue /\ phase' = phase
         /\ f \in Future /\ f # n /\ n \notin PendingNow /\ n \notin known /\ f \in PendingNow
         /\ TypeOK' /\ Marks(Store, 0)' /\ SavedInv' /\ DiskInv' /\ MemInv' /\ Live' = Live \cup {n}
         /\ View(f)' = View(f) /\ ViewRoot(f)' = ViewRoot(f)
         /\ \A t \in Type : ViewReactions(f, t)' = Append(ViewReactions(f, t), n)
         /\ View(n)' = "Pending" /\ \A t \in Type : ViewReactions(n, t)' = <<>>
         /\ \A g \in Future : g # n /\ g # f => SameView(g)
<1>0. TypeOK
  BY DEF IInv
<1> PICK row : row = PendingRow(FALSE)
  OBVIOUS
<1> PICK m : m = NewDB(row, FALSE)
  OBVIOUS
<1> PICK s : s = [Store EXCEPT !.mem[n] = m]
  OBVIOUS
<1> PICK r : r = PushReactions(s, f, n)
  OBVIOUS
<1>1. /\ n \in Future /\ created' = n /\ known' = known /\ disk' = disk /\ queue' = queue /\ phase' = phase
      /\ SetStore(r)
  BY DEF NextOn
<1>2. f \in Future /\ f # n /\ mem[f] \in FutureDB /\ n \notin Live /\ mem[n] = Absent
  BY <1>0, <1>1, StoreFacts, FreshFacts
<1>3. row \in Row /\ row.state = "Pending" /\ row.value = None /\ ~row.settled /\ ~row.root
  BY DEF PendingRow, Row, Value
<1>4. /\ m \in FutureDB /\ m.state = "Pending" /\ m.value = None /\ ~m.settled /\ ~m.root /\ ~m.inDatabase /\ ~m.dirty
      /\ \A t \in Type : /\ m.rx[t].written = <<>> /\ m.rx[t].unwritten = <<>> /\ m.rx[t].read
                         /\ ~m.rx[t].deleted /\ ~m.rx[t].dirty
  <2>1. Constructed(m, row)
    BY <1>3, ConstructedFacts
  <2> QED BY <2>1, <1>3 DEF Constructed
<1>5. Store \in StoreType /\ Marks(Store, 0) /\ Store.mem = mem /\ Store.disk = disk
  BY <1>0, StoreFacts DEF IInv
<1>6. Put(Store, s, n, m, 0)
  BY <1>1, <1>2, <1>4, <1>5, PutSame
<1>7. s \in StoreType /\ Marks(s, 0) /\ s.mem[f] = mem[f] /\ s.disk = disk /\ s.mem = [mem EXCEPT ![n] = m]
  BY <1>2, <1>5, <1>6 DEF Put
<1>8. PICK p : Put(s, r, f, p, 0) /\ Pushed(p, mem[f], n)
  BY <1>1, <1>2, <1>7, PutPushed
<1>9. r \in StoreType /\ Marks(r, 0) /\ r.disk = disk /\ r.mem = [s.mem EXCEPT ![f] = p]
  BY <1>7, <1>8 DEF Put
<1>10. /\ mem' = r.mem /\ mem' \in [Future -> FutureDB \cup {Absent}]
       /\ pendingWrites' \in Seq(Write) /\ Marks(Store, 0)' /\ disk' \in Tables
  BY <1>0, <1>1, <1>9, StoreTaken
<1>11. mem'[n] = m /\ mem'[f] = p /\ \A g \in Future : g # n /\ g # f => mem'[g] = mem[g]
  <2>1. mem \in [Future -> FutureDB \cup {Absent}]
    BY <1>0 DEF TypeOK
  <2>2. PICK a : a = [mem EXCEPT ![n] = m]
    OBVIOUS
  <2>3. /\ a \in [Future -> FutureDB \cup {Absent}] /\ a[n] = m /\ \A g \in Future : g # n => a[g] = mem[g]
    BY <2>1, <2>2, <1>1, <1>4
  <2>4. mem' = [a EXCEPT ![f] = p]
    BY <2>2, <1>7, <1>9, <1>10
  <2> QED BY <2>3, <2>4, <1>1, <1>2
<1>12. m # Absent /\ p # Absent /\ IsNew(m)
  BY <1>4, <1>8, AbsentIsNone, NoneIsNoFuture DEF Pushed, IsNew
<1>13. Live' = Live \cup {n}
  BY <1>1, <1>2, <1>11, <1>12 DEF Live
<1>14. Grown
  BY <1>1 DEF Grown
<1>15. TypeOK'
  <2>1. n \in 0..MaxFutures
    BY <1>1, MaxFuturesAssumption DEF Future
  <2> QED BY <2>1, <1>0, <1>1, <1>10 DEF TypeOK
<1>16. SavedInv' /\ DiskInv'
  BY <1>1, <1>14, DiskFrame
<1>17. MemInv'
  <2>1. RowOk(n, m, known) /\ n \notin known
    BY <1>1, <1>4, FreshFacts DEF RowOk
  <2>2. ObjectOk(n, m, disk, known) /\ Refers(m) = {} /\ m.value # n
    BY <2>1, <1>1, <1>12, FreshObject
  <2>3. f <= created /\ ObjectOk(f, mem[f], disk, known) /\ Refers(mem[f]) \subseteq Live /\ mem[f].value # f
    BY DEF IInv, MemInv
  <2>4. ObjectOk(f, p, disk, known) /\ Refers(p) \subseteq Refers(mem[f]) \cup {n} /\ p.value = mem[f].value
    BY <2>3, <1>1, <1>2, <1>8, PushedObject
  <2>5. f <= n /\ n <= n
    <3>1. created \in Int /\ n = created + 1 /\ f \in Int /\ n \in Int
      BY <1>0, <1>1, <1>2 DEF TypeOK, Fresh, Future
    <3> QED BY <3>1, <2>3
  <2>6. Renewed({n, f})
    <3>1. \A g \in Live' \ {n, f} : g \in Live /\ mem'[g] = mem[g]
      BY <1>11, <1>13 DEF Live
    <3>2. Live \subseteq Live'
      BY <1>13
    <3>3. /\ n <= created' /\ ObjectOk(n, mem'[n], disk, known') /\ Refers(mem'[n]) \subseteq Live' /\ mem'[n].value # n
      BY <2>2, <2>5, <1>1, <1>11
    <3>4. /\ f <= created' /\ ObjectOk(f, mem'[f], disk, known') /\ Refers(mem'[f]) \subseteq Live' /\ mem'[f].value # f
      BY <2>3, <2>4, <2>5, <1>1, <1>11, <1>13
    <3> QED BY <3>1, <3>2, <3>3, <3>4 DEF Renewed
  <2>7. QueueOk'
    BY <1>1, <1>13, QueueStays
  <2> QED BY <2>6, <2>7, <1>1, <1>14, MemFrame
<1>18. \A g \in Future : g # n /\ g # f => SameView(g)
  BY <1>1, <1>11, SameViews
<1>19. /\ View(f)' = View(f) /\ ViewRoot(f)' = ViewRoot(f)
       /\ \A t \in Type : ViewReactions(f, t)' = Append(ViewReactions(f, t), n)
  BY <1>0, <1>1, <1>8, <1>11, PushedViews
<1>20. View(n)' = "Pending" /\ \A t \in Type : ViewReactions(n, t)' = <<>>
  <2>1. n \in Live'
    BY <1>13
  <2>2. View(n)' = "Pending"
    BY <2>1, <1>4, <1>11 DEF View
  <2>3. ASSUME NEW t \in Type PROVE ViewReactions(n, t)' = <<>>
    <3>1. mem'[n] = m /\ m.rx[t].written = <<>> /\ m.rx[t].unwritten = <<>> /\ m.rx[t].read
      BY <1>4, <1>11
    <3>2. PICK x : x = m.rx[t]
      OBVIOUS
    <3>3. ViewReactions(n, t)' = x.written \o x.unwritten
      BY <2>1, <3>1, <3>2 DEF ViewReactions, Popped
    <3> QED BY <3>1, <3>2, <3>3
  <2> QED BY <2>2, <2>3
<1>21. n \notin PendingNow /\ n \notin known /\ f \in PendingNow
  BY <1>1, <1>2, FreshFacts DEF PendingNow, View
<1> QED BY <1>1, <1>2, <1>10, <1>13, <1>15, <1>16, <1>17, <1>18, <1>19, <1>20, <1>21

LEMMA NextOnPending ==
  ASSUME IInv, NEW f \in Live, NextOn(f), mem[f].state = "Pending"
  PROVE  IInv'
<1>0. TypeOK
  BY DEF IInv
<1> PICK n : n = Fresh
  OBVIOUS
<1>1. n \in Future /\ known' = known /\ queue' = queue /\ phase' = phase
  BY NextOnPendingViews
<1>2. f \in Future /\ f # n
  BY NextOnPendingViews
<1>17. TypeOK' /\ Marks(Store, 0)' /\ SavedInv' /\ DiskInv' /\ MemInv'
  BY NextOnPendingViews
<1>18. \A g \in Future : g # n /\ g # f => SameView(g)
  BY NextOnPendingViews
<1>19. /\ View(f)' = View(f) /\ ViewRoot(f)' = ViewRoot(f)
       /\ \A t \in Type : ViewReactions(f, t)' = Append(ViewReactions(f, t), n)
  BY NextOnPendingViews
<1>20. View(n)' = "Pending" /\ \A t \in Type : ViewReactions(n, t)' = <<>>
  BY NextOnPendingViews
<1>21. n \notin PendingNow /\ n \notin known /\ f \in PendingNow
  BY NextOnPendingViews
<1>22. PendingNow' = PendingNow \cup {n}
  <2>1. \A g \in Future : g # n => View(g)' = View(g)
    BY <1>18, <1>19 DEF SameView
  <2> QED BY <2>1, <1>1, <1>20 DEF PendingNow
<1>23. OpenNow' = OpenNow
  <2>1. \A g \in Future : g # n => ViewRoot(g)' = ViewRoot(g)
    BY <1>18, <1>19 DEF SameView
  <2> QED BY <2>1, <1>1, <1>21, <1>22 DEF OpenNow, PendingNow
<1>24. NowInv'
  <2>1. PICK M : M = ListsNow'
    OBVIOUS
  <2>2. \A g \in Future : M[g] = ViewReactions(g, "Fulfilled")' /\ ListsNow[g] = ViewReactions(g, "Fulfilled")
    BY <2>1 DEF ListsNow
  <2>3. M[n] = <<>> /\ M[f] = Append(ListsNow[f], n) /\ ListsNow[f] \in Seq(Future)
    BY <2>2, <1>0, <1>1, <1>2, <1>19, <1>20, ViewTypes DEF Type
  <2>4. \A g \in PendingNow \ {f} : M[g] = ListsNow[g]
    BY <2>2, <1>18, <1>21 DEF SameView, Type, PendingNow
  <2>5. Sound(PendingNow, OpenNow, ListsNow, queue)
    BY DEF IInv, NowInv
  <2>6. \A i \in DOMAIN queue : queue[i].from # n
    BY <1>1, FreshFacts
  <2>7. Sound(PendingNow \cup {n}, OpenNow, M, queue)
    BY <2>3, <2>4, <2>5, <2>6, <1>1, <1>21, SoundListed
  <2>8. \A g \in PendingNow' : ViewReactions(g, "Rejected")' = ViewReactions(g, "Fulfilled")'
    <3>1. \A g \in PendingNow : g \in Future /\ ViewReactions(g, "Rejected") = ViewReactions(g, "Fulfilled")
      BY DEF IInv, NowInv, PendingNow
    <3> QED BY <3>1, <1>18, <1>19, <1>20, <1>21, <1>22 DEF SameView, Type
  <2> QED BY <2>1, <2>7, <2>8, <1>1, <1>22, <1>23 DEF NowInv, IInv
<1> QED BY <1>17, <1>24 DEF IInv

LEMMA EnqueueFacts ==
  ASSUME TypeOK, NEW rest \in Seq(Job), NEW jobs \in Seq(Job), Enqueue(rest, jobs), phase # "ready"
  PROVE  /\ phase' \in {"idle", "awaiting", "ready"} /\ queue' = rest \o jobs /\ queue' \in Seq(Job)
         /\ phase' = "ready" => queue' = <<>>
<1>1. rest \o jobs \in Seq(Job)
  OBVIOUS
<1> QED BY <1>1 DEF Enqueue, TypeOK

LEMMA EnqueueOne ==
  ASSUME TypeOK, NEW rest \in Seq(Job), NEW j \in Job, Enqueue(rest, <<j>>), phase # "ready"
  PROVE  /\ phase' \in {"idle", "awaiting", "ready"} /\ queue' = Append(rest, j) /\ queue' \in Seq(Job)
         /\ phase' = "ready" => queue' = <<>>
<1>1. <<j>> \in Seq(Job) /\ rest \o <<j>> = Append(rest, j)
  OBVIOUS
<1> QED BY <1>1, EnqueueFacts

LEMMA ForwardFacts ==
  ASSUME NEW n \in Future, NEW t \in Type, NEW v \in Value, NEW j, j = Forward(n, t, v)
  PROVE  j \in Job /\ j.next = n /\ j.from = n /\ j.value = v /\ j.type = t /\ j.type # "adopt"
BY DEF Forward, Job, Type

\* What the queue and the values in it refer to.
LEMMA QueueMore ==
  ASSUME IInv, NEW rest \in Seq(Job), \A i \in DOMAIN rest : \E k \in DOMAIN queue : rest[i] = queue[k],
         NEW j \in Job, queue' = Append(rest, j), Live \subseteq Live',
         j.next \in Live', j.from \in Live', j.value \in Future => j.value \in Live'
  PROVE  QueueOk'
<1>1. PICK q : q = queue'
  OBVIOUS
<1>2. PICK k : k \notin DOMAIN rest /\ DOMAIN q = DOMAIN rest \cup {k} /\ q[k] = j /\ \A i \in DOMAIN rest : q[i] = rest[i]
  BY <1>1, QueueAppend
<1>3. \A i \in DOMAIN rest : /\ rest[i].next \in Live /\ rest[i].from \in Live
                             /\ rest[i].value \in Future => rest[i].value \in Live
  BY DEF IInv, MemInv
<1>4. \A i \in DOMAIN q : /\ q[i].next \in Live' /\ q[i].from \in Live'
                          /\ q[i].value \in Future => q[i].value \in Live'
  <2> SUFFICES ASSUME NEW i \in DOMAIN q
               PROVE  q[i].next \in Live' /\ q[i].from \in Live' /\ (q[i].value \in Future => q[i].value \in Live')
    OBVIOUS
  <2>1. CASE i = k
    BY <2>1, <1>2
  <2>2. CASE i \in DOMAIN rest
    <3>1. q[i] = rest[i]
      BY <2>2, <1>2
    <3>2. /\ rest[i].next \in Live /\ rest[i].from \in Live
          /\ rest[i].value \in Future => rest[i].value \in Live
      BY <2>2, <1>3
    <3> QED BY <3>1, <3>2
  <2> QED BY <2>1, <2>2, <1>2
<1>5. \A i \in DOMAIN queue' : /\ queue'[i].next \in Live' /\ queue'[i].from \in Live'
                               /\ queue'[i].value \in Future => queue'[i].value \in Live'
  BY <1>1, <1>4, Zenon
<1> QED BY <1>5 DEF QueueOk

LEMMA NextOnSettledViews ==
  ASSUME IInv, NEW f \in Live, NextOn(f), mem[f].state # "Pending", phase # "ready", NEW n, n = Fresh,
         NEW j, j = Forward(n, mem[f].state, mem[f].value)
  PROVE  /\ n \in Future /\ created' = n /\ known' = known /\ disk' = disk
         /\ n \notin known /\ n \notin PendingNow
         /\ j \in Job /\ j.next = n /\ j.from = n /\ j.value = mem[f].value /\ j.type = mem[f].state /\ j.type # "adopt"
         /\ queue' = Append(queue, j) /\ (phase' = "ready" => queue' = <<>>)
         /\ TypeOK' /\ Marks(Store, 0)' /\ SavedInv' /\ DiskInv' /\ MemInv' /\ Live' = Live \cup {n}
         /\ View(n)' = "Pending" /\ \A t \in Type : ViewReactions(n, t)' = <<>>
         /\ \A g \in Future : g # n => SameView(g)
<1>0. TypeOK
  BY DEF IInv
<1> PICK r : r = EnsureInDatabase([Store EXCEPT !.mem[n] = NewDB(PendingRow(TRUE), FALSE)], n)
  OBVIOUS
<1>1. /\ n \in Future /\ created' = n /\ known' = known /\ disk' = disk
      /\ SetStore(r) /\ Enqueue(queue, <<j>>)
  BY DEF NextOn
<1>2. PICK m : Put(Store, r, n, m, 0) /\ IsRoot(m)
  BY <1>1, NewRoot
<1>3. /\ IsNew(m) /\ m.dirty /\ m.state = "Pending" /\ m.root /\ m.value = None /\ ~m.settled
  BY <1>2 DEF IsRoot
<1>4. n \notin known /\ n \notin PendingNow
  BY <1>1, FreshFacts
<1>5. RowOk(n, m, known')
  BY <1>1, <1>3, <1>4 DEF RowOk
<1>6. j \in Job /\ j.next = n /\ j.from = n /\ j.value = mem[f].value /\ j.type = mem[f].state /\ j.type # "adopt"
  <2>1. mem[f] \in FutureDB
    BY <1>0, StoreFacts
  <2>2. mem[f].state \in Type /\ mem[f].value \in Value
    BY <2>1 DEF FutureDB
  <2> QED BY <2>2, <1>1, ForwardFacts
<1>7. /\ phase' \in {"idle", "awaiting", "ready"} /\ queue' = Append(queue, j) /\ queue' \in Seq(Job)
      /\ phase' = "ready" => queue' = <<>>
  <2>1. queue \in Seq(Job)
    BY <1>0 DEF TypeOK
  <2> QED BY <2>1, <1>0, <1>1, <1>6, EnqueueOne
<1>8. Live' = Live \cup {n} => QueueOk'
  <2>1. queue \in Seq(Job)
    BY <1>0 DEF TypeOK
  <2>2. mem[f].value \in Future => mem[f].value \in Live
    BY DEF IInv, MemInv, Refers
  <2>3. \A i \in DOMAIN queue : \E k \in DOMAIN queue : queue[i] = queue[k]
    OBVIOUS
  <2>4. Live' = Live \cup {n} => Live \subseteq Live' /\ j.next \in Live' /\ j.from \in Live' /\ (j.value \in Future => j.value \in Live')
    BY <2>2, <1>6
  <2> QED BY <2>1, <2>3, <2>4, <1>6, <1>7, QueueMore
<1>9. /\ TypeOK' /\ Marks(Store, 0)' /\ SavedInv' /\ DiskInv' /\ MemInv'
      /\ Live' = Live \cup {n} /\ mem'[n] = m /\ \A g \in Future : g # n => mem'[g] = mem[g]
  <2>1. n \in known' => m.dirty
    BY <1>3
  <2> QED BY <2>1, <1>1, <1>2, <1>3, <1>5, <1>7, <1>8, CreateFrame
<1>10. /\ View(n)' = "Pending" /\ \A t \in Type : ViewReactions(n, t)' = <<>>
  BY <1>1, <1>3, <1>9, FreshViews, AbsentIsNone DEF IsNew
<1>11. \A g \in Future : g # n => SameView(g)
  BY <1>1, <1>9, SameViews
<1> QED BY <1>1, <1>4, <1>6, <1>7, <1>9, <1>10, <1>11

LEMMA NextOnSettled ==
  ASSUME IInv, NEW f \in Live, NextOn(f), mem[f].state # "Pending", phase # "ready"
  PROVE  IInv'
<1>0. TypeOK
  BY DEF IInv
<1> PICK n : n = Fresh
  OBVIOUS
<1> PICK j : j = Forward(n, mem[f].state, mem[f].value)
  OBVIOUS
<1>1. n \in Future /\ known' = known
  BY NextOnSettledViews
<1>4. n \notin known /\ n \notin PendingNow
  BY NextOnSettledViews
<1>6. j \in Job /\ j.next = n /\ j.type # "adopt"
  BY NextOnSettledViews
<1>7. queue' = Append(queue, j) /\ (phase' = "ready" => queue' = <<>>)
  BY NextOnSettledViews
<1>9. TypeOK' /\ Marks(Store, 0)' /\ SavedInv' /\ DiskInv' /\ MemInv'
  BY NextOnSettledViews
<1>10. View(n)' = "Pending" /\ \A t \in Type : ViewReactions(n, t)' = <<>>
  BY NextOnSettledViews
<1>11. \A g \in Future : g # n => SameView(g)
  BY NextOnSettledViews
<1>12. PendingNow' = PendingNow \cup {n}
  <2>1. \A g \in Future : g # n => View(g)' = View(g)
    BY <1>11 DEF SameView
  <2> QED BY <2>1, <1>1, <1>10 DEF PendingNow
<1>13. OpenNow' = OpenNow
  <2>1. \A g \in Future : g # n => ViewRoot(g)' = ViewRoot(g)
    BY <1>11 DEF SameView
  <2> QED BY <2>1, <1>1, <1>4, <1>12 DEF OpenNow, PendingNow
<1>14. NowInv'
  <2>1. PICK M : M = ListsNow'
    OBVIOUS
  <2>2. M[n] = <<>> /\ \A g \in PendingNow : M[g] = ListsNow[g]
    BY <2>1, <1>1, <1>4, <1>10, <1>11 DEF ListsNow, SameView, Type, PendingNow
  <2>3. Sound(PendingNow, OpenNow, ListsNow, queue) /\ queue \in Seq(Job)
    BY <1>0 DEF IInv, NowInv, TypeOK
  <2>4. \A i \in DOMAIN queue : queue[i].from # n
    BY <1>1, FreshFacts
  <2>5. Sound(PendingNow \cup {n}, OpenNow, M, Append(queue, j))
    BY <2>2, <2>3, <2>4, <1>4, <1>6, SoundForward
  <2>6. \A g \in PendingNow' : ViewReactions(g, "Rejected")' = ViewReactions(g, "Fulfilled")'
    BY <1>4, <1>10, <1>11, <1>12 DEF IInv, NowInv, SameView, Type, PendingNow
  <2> QED BY <2>1, <2>5, <2>6, <1>7, <1>12, <1>13 DEF NowInv
<1> QED BY <1>9, <1>14 DEF IInv

----------------------------------------------------------------------------
(* Objects read from their rows.                                           *)

LEMMA LoadedClosed ==
  ASSUME NEW fs \in SUBSET Future
  PROVE  /\ fs \subseteq Loaded(fs) /\ Loaded(fs) \subseteq Future
         /\ \A f \in Loaded(fs) \cap Stored(disk) : disk.rows[f].value \in Future => disk.rows[f].value \in Loaded(fs)
<1>1. fs \subseteq Loaded(fs) /\ Loaded(fs) \subseteq Future
  BY DEF Loaded
<1>2. ASSUME NEW f \in Loaded(fs) \cap Stored(disk), disk.rows[f].value \in Future
      PROVE  disk.rows[f].value \in Loaded(fs)
  <2> SUFFICES ASSUME NEW gs \in SUBSET Future, fs \subseteq gs /\ HeldOnDisk(gs) \subseteq gs
               PROVE  disk.rows[f].value \in gs
    BY <1>2 DEF Loaded
  <2>1. f \in gs
    BY DEF Loaded
  <2>2. disk.rows[f].value \in HeldOnDisk(gs)
    BY <2>1, <1>2 DEF HeldOnDisk
  <2> QED BY <2>2
<1> QED BY <1>1, <1>2

\* r is s with objects of rows that had none; what their values refer to has an object too.
Filled(s, r, fs) ==
  /\ r \in StoreType /\ r.disk = disk /\ r.pending = s.pending /\ Marks(r, 0)
  /\ \A f \in Future : \/ r.mem[f] = s.mem[f]
                       \/ /\ s.mem[f] = Absent /\ f \in Stored(disk) /\ ReadFrom(r.mem[f], disk.rows[f])
                          /\ disk.rows[f].value \in Future => r.mem[disk.rows[f].value] # Absent
  /\ \A f \in fs \cap Stored(disk) : r.mem[f] # Absent

LEMMA LoadFills ==
  ASSUME IInv, NEW s \in StoreType, s.disk = disk, Marks(s, 0), NEW fs \in SUBSET Future
  PROVE  Filled(s, Load(s, fs), fs)
<1> PICK closed : closed = Loaded(fs)
  OBVIOUS
<1> PICK read : read = {f \in closed \cap Stored(disk) : s.mem[f] = Absent}
  OBVIOUS
<1> PICK rmem : rmem = [f \in Future |-> IF f \in read THEN NewDB(disk.rows[f], TRUE) ELSE s.mem[f]]
  OBVIOUS
<1> PICK r : r = [s EXCEPT !.mem = rmem]
  OBVIOUS
<1>1. Load(s, fs) = r
  BY DEF Load
<1>2. /\ fs \subseteq closed /\ closed \subseteq Future
      /\ \A f \in closed \cap Stored(disk) : disk.rows[f].value \in Future => disk.rows[f].value \in closed
  BY LoadedClosed
<1>3. read \subseteq Future /\ \A f \in read : f \in Stored(disk) /\ f \in closed /\ s.mem[f] = Absent
  BY <1>2
<1>4. disk \in Tables /\ s.mem \in [Future -> FutureDB \cup {Absent}]
  BY DEF IInv, TypeOK, StoreType
<1>5. ASSUME NEW f \in read PROVE ReadFrom(rmem[f], disk.rows[f])
  <2>1. disk.rows[f] \in Row
    BY <1>3, <1>4 DEF Tables, Stored
  <2>2. rmem[f] = NewDB(disk.rows[f], TRUE)
    BY <1>3
  <2> QED BY <2>1, <2>2, ReadFacts
<1>6. \A f \in Future : f \notin read => rmem[f] = s.mem[f]
  OBVIOUS
<1>7. \A f \in read : rmem[f] \in FutureDB /\ rmem[f] # Absent
  <2> SUFFICES ASSUME NEW f \in read PROVE rmem[f] \in FutureDB /\ rmem[f] # Absent
    OBVIOUS
  <2>1. PICK m : m = rmem[f]
    OBVIOUS
  <2>2. ReadFrom(m, disk.rows[f])
    BY <2>1, <1>5, Zenon
  <2>3. m \in FutureDB
    BY <2>2, Zenon DEF ReadFrom
  <2> QED BY <2>1, <2>3, AbsentIsNone, Zenon
<1>8. rmem \in [Future -> FutureDB \cup {Absent}]
  <2>1. \A f \in Future : rmem[f] \in FutureDB \cup {Absent}
    BY <1>4, <1>6, <1>7
  <2> QED BY <2>1
<1>9. r \in StoreType /\ r.disk = disk /\ r.pending = s.pending /\ r.mem = rmem
  BY <1>8 DEF StoreType
<1>10. ASSUME NEW w \in Write PROVE IsDirty(r.mem, w) <=> IsDirty(s.mem, w)
  <2>1. w[1] \in Future /\ (w[2] # "future" => w[2] \in Type)
    BY DEF Write
  <2>2. CASE w[1] \in read
    <3>1. s.mem[w[1]] = Absent
      BY <2>2, <1>3
    <3>2. ~rmem[w[1]].dirty /\ \A t \in Type : ~rmem[w[1]].rx[t].dirty
      <4>1. ReadFrom(rmem[w[1]], disk.rows[w[1]])
        BY <2>2, <1>5, Zenon
      <4> QED BY <4>1, Zenon DEF ReadFrom
    <3> QED BY <2>1, <3>1, <3>2, <1>9 DEF IsDirty
  <2>3. CASE w[1] \notin read
    <3>1. r.mem[w[1]] = s.mem[w[1]]
      BY <2>1, <2>3, <1>6, <1>9
    <3> QED BY <3>1 DEF IsDirty
  <2> QED BY <2>2, <2>3
<1>11. Marks(r, 0)
  <2>1. /\ 0 \in 0..Len(r.pending)
        /\ \A i, j \in DOMAIN r.pending : r.pending[i] = r.pending[j] => i = j
    BY <1>9 DEF Marks
  <2>2. ASSUME NEW w \in Write
        PROVE  IsDirty(r.mem, w) <=> \E i \in DOMAIN r.pending : i > 0 /\ r.pending[i] = w
    <3>1. IsDirty(s.mem, w) <=> \E i \in DOMAIN s.pending : i > 0 /\ s.pending[i] = w
      BY Zenon DEF Marks
    <3> QED BY <3>1, <1>9, <1>10
  <2> QED BY <2>1, <2>2, Zenon DEF Marks
<1>12. \A f \in closed \cap Stored(disk) : rmem[f] # Absent
  <2> SUFFICES ASSUME NEW f \in closed \cap Stored(disk) PROVE rmem[f] # Absent
    OBVIOUS
  <2>1. CASE f \in read
    BY <2>1, <1>7
  <2>2. CASE f \notin read
    BY <2>2, <1>2, <1>6
  <2> QED BY <2>1, <2>2
<1>13. \A f \in read : disk.rows[f].value \in Future => rmem[disk.rows[f].value] # Absent
  <2>1. \A f \in Stored(disk) : disk.rows[f].value \in Future => disk.rows[f].value \in Stored(disk)
    BY DEF IInv, DiskInv
  <2> QED BY <2>1, <1>2, <1>3, <1>12
<1>14. Filled(s, r, fs)
  <2>1. r.mem = rmem
    BY <1>9
  <2>2. \A f \in Future : \/ rmem[f] = s.mem[f]
                         \/ /\ s.mem[f] = Absent /\ f \in Stored(disk) /\ ReadFrom(rmem[f], disk.rows[f])
                            /\ disk.rows[f].value \in Future => rmem[disk.rows[f].value] # Absent
    BY <1>3, <1>5, <1>6, <1>13
  <2>3. \A f \in fs \cap Stored(disk) : rmem[f] # Absent
    BY <1>2, <1>12
  <2> QED BY <2>1, <2>2, <2>3, <1>9, <1>11 DEF Filled
<1> QED BY <1>1, <1>14

\* An object that was just read is right, and its Future looks the same.
LEMMA ReadObject ==
  ASSUME IInv, NEW f \in Stored(disk), NEW m, ReadFrom(m, disk.rows[f])
  PROVE  ObjectOk(f, m, disk, known) /\ Refers(m) \subseteq {disk.rows[f].value} \cap Future /\ f <= created
<1>1. f \in Future /\ disk.rows[f] \in Row
  BY DEF IInv, TypeOK, Tables, Stored
<1>2. RowOk(f, disk.rows[f], known) /\ f <= created
  BY DEF IInv, DiskInv
<1>3. RowOf(m) = disk.rows[f]
  BY <1>1 DEF RowOf, ReadFrom, Row
<1>4. RowOk(f, m, known)
  BY <1>2 DEF RowOk, ReadFrom
<1>5. \A t \in Type : ListOk(f, m.state, m.rx[t], disk.rx[t][f], disk)
  BY DEF ListOk, ReadFrom
<1>6. ObjectOk(f, m, disk, known)
  <2>1. m.inDatabase /\ ~m.dirty
    BY DEF ReadFrom
  <2> QED BY <2>1, <1>3, <1>4, <1>5 DEF ObjectOk
<1>7. Refers(m) \subseteq {disk.rows[f].value} \cap Future
  BY EmptyList DEF Refers, ReadFrom
<1> QED BY <1>2, <1>6, <1>7

LEMMA ReadViews ==
  ASSUME TypeOK, NEW f \in Stored(disk), f \notin Live, ReadFrom(mem'[f], disk.rows[f]), disk' = disk
  PROVE  SameView(f)
<1>1. f \in Future
  BY DEF Stored
<1>2. f \in Live'
  BY <1>1, AbsentIsNone DEF Live, ReadFrom
<1>3. View(f)' = View(f) /\ ViewRoot(f)' = ViewRoot(f)
  <2>1. disk.rows[f] \in Row
    BY <1>1 DEF TypeOK, Tables, Stored
  <2>2. disk.rows[f].root \in BOOLEAN
    BY <2>1 DEF Row
  <2>3. mem'[f].state = disk.rows[f].state /\ mem'[f].root = disk.rows[f].root
    BY DEF ReadFrom
  <2>4. View(f)' = View(f)
    BY <2>3, <1>2 DEF View
  <2>5. ViewRoot(f)' = disk.rows[f].root
    BY <2>3, <1>2 DEF ViewRoot
  <2>6. ViewRoot(f) = disk.rows[f].root
    BY <2>2 DEF ViewRoot
  <2> QED BY <2>4, <2>5, <2>6
<1>4. ASSUME NEW t \in Type PROVE ViewReactions(f, t)' = ViewReactions(f, t)
  <2>1. PICK x : x = mem'[f].rx[t]
    OBVIOUS
  <2>2. x.written = <<>> /\ x.unwritten = <<>> /\ ~x.read
    BY <2>1 DEF ReadFrom
  <2>3. PICK w : w = disk.rx[t][f] /\ w \in Seq(Future)
    BY <1>1 DEF TypeOK, Tables
  <2>4. ViewReactions(f, t)' = w \o x.unwritten
    BY <2>1, <2>2, <2>3, <1>2 DEF ViewReactions, Popped
  <2>5. w \o x.unwritten = w
    BY <2>2, <2>3
  <2>6. ViewReactions(f, t) = w
    BY <2>3 DEF ViewReactions
  <2> QED BY <2>4, <2>5, <2>6
<1> QED BY <1>3, <1>4 DEF SameView

\* A step that shows in no Future and touches no job.
LEMMA NowSame ==
  ASSUME IInv, \A f \in Future : SameView(f), known' = known, queue' = queue, phase' = "ready" => queue = <<>>
  PROVE  NowInv'
<1>1. PendingNow' = PendingNow
  <2>1. \A f \in Future : View(f)' = View(f)
    BY DEF SameView
  <2> QED BY <2>1 DEF PendingNow
<1>2. OpenNow' = OpenNow
  <2>1. \A f \in Future : ViewRoot(f)' = ViewRoot(f)
    BY DEF SameView
  <2> QED BY <2>1, <1>1 DEF OpenNow, PendingNow
<1>3. PICK M : M = ListsNow'
  OBVIOUS
<1>4. \A f \in PendingNow : M[f] = ListsNow[f]
  BY <1>3 DEF ListsNow, SameView, Type, PendingNow
<1>5. Sound(PendingNow, OpenNow, ListsNow, queue)
  BY DEF IInv, NowInv
<1>6. Sound(PendingNow, OpenNow, M, queue)
  BY <1>4, <1>5, SoundSame
<1>7. \A f \in PendingNow' : ViewReactions(f, "Rejected")' = ViewReactions(f, "Fulfilled")'
  <2>1. \A f \in PendingNow : f \in Future /\ ViewReactions(f, "Rejected") = ViewReactions(f, "Fulfilled")
    BY DEF IInv, NowInv, PendingNow
  <2>2. \A f \in PendingNow : /\ ViewReactions(f, "Rejected")' = ViewReactions(f, "Rejected")
                              /\ ViewReactions(f, "Fulfilled")' = ViewReactions(f, "Fulfilled")
    BY <2>1 DEF SameView, Type
  <2> QED BY <2>1, <2>2, <1>1
<1> QED BY <1>1, <1>2, <1>3, <1>6, <1>7 DEF NowInv

\* No object holds its own Future.
LEMMA NotInItself == ASSUME NoSelfHolding' PROVE \A f \in Live' : mem'[f].value # f
<1> SUFFICES ASSUME NEW f \in Live' PROVE mem'[f].value # f
  OBVIOUS
<1>1. {f} \in SUBSET Future /\ {f} # {}
  BY DEF Live
<1>2. ValueNow(f)' \notin {f}
  BY <1>1 DEF NoSelfHolding
<1> QED BY <1>2 DEF ValueNow

\* What a store that was filled from the tables means for the objects.
LEMMA FilledObjects ==
  ASSUME IInv, NEW s, NEW r, NEW fs, Filled(s, r, fs), NEW f \in Future, s.mem[f] = mem[f], mem'[f] = r.mem[f],
         disk' = disk, known' = known, created' = created, NoSelfHolding', mem'[f] # mem[f],
         mem' \in [Future -> FutureDB \cup {Absent}],
         \A g \in Future : r.mem[g] # Absent => mem'[g] # Absent
  PROVE  /\ SameView(f) /\ f <= created' /\ ObjectOk(f, mem'[f], disk, known')
         /\ f \in Live' => Refers(mem'[f]) \subseteq Live' /\ mem'[f].value # f
<1>1. /\ mem[f] = Absent /\ f \in Stored(disk) /\ ReadFrom(mem'[f], disk.rows[f])
      /\ disk.rows[f].value \in Future => r.mem[disk.rows[f].value] # Absent
  BY DEF Filled
<1>2. f \notin Live /\ TypeOK
  BY <1>1 DEF Live, IInv
<1>3. SameView(f)
  BY <1>1, <1>2, ReadViews
<1>4. ObjectOk(f, mem'[f], disk, known) /\ Refers(mem'[f]) \subseteq {disk.rows[f].value} \cap Future /\ f <= created
  BY <1>1, ReadObject
<1>5. {disk.rows[f].value} \cap Future \subseteq Live'
  BY <1>1 DEF Live
<1>6. f \in Live' => mem'[f].value # f
  BY NotInItself
<1> QED BY <1>3, <1>4, <1>5, <1>6

LEMMA GetFutureDBViews ==
  ASSUME IInv, NEW f, GetFutureDB(f), NoSelfHolding'
  PROVE  /\ created' = created /\ known' = known /\ disk' = disk /\ phase' = phase /\ queue' = queue
         /\ TypeOK' /\ Marks(Store, 0)' /\ SavedInv' /\ DiskInv' /\ MemInv' /\ Live \subseteq Live'
         /\ \A g \in Future : SameView(g)
<1>0. TypeOK
  BY DEF IInv
<1> PICK r : r = Load(Store, {f})
  OBVIOUS
<1>1. /\ f \in Future /\ created' = created /\ known' = known /\ disk' = disk /\ phase' = phase /\ queue' = queue
      /\ SetStore(r)
  BY DEF GetFutureDB, Stored
<1>2. Store \in StoreType /\ Marks(Store, 0) /\ Store.mem = mem /\ Store.disk = disk
  BY <1>0, StoreFacts DEF IInv
<1>3. Filled(Store, r, {f})
  BY <1>1, <1>2, LoadFills
<1>4. r \in StoreType /\ r.disk = disk /\ Marks(r, 0)
  BY <1>3 DEF Filled
<1>5. /\ mem' = r.mem /\ mem' \in [Future -> FutureDB \cup {Absent}]
      /\ pendingWrites' \in Seq(Write) /\ Marks(Store, 0)' /\ disk' \in Tables
  BY <1>0, <1>1, <1>4, StoreTaken
<1>6. Grown
  BY <1>1 DEF Grown
<1>7. TypeOK' /\ SavedInv' /\ DiskInv'
  <2>1. TypeOK'
    BY <1>0, <1>1, <1>5 DEF TypeOK
  <2> QED BY <2>1, <1>1, <1>6, DiskFrame
<1>8. \A g \in Live : mem'[g] = mem[g] /\ g \in Live'
  <2> SUFFICES ASSUME NEW g \in Live PROVE mem'[g] = mem[g] /\ g \in Live'
    OBVIOUS
  <2>1. g \in Future /\ mem[g] # Absent
    BY DEF Live
  <2>2. mem'[g] = mem[g]
    BY <2>1, <1>2, <1>3, <1>5 DEF Filled
  <2> QED BY <2>1, <2>2 DEF Live
<1>9. ASSUME NEW g \in Future, mem'[g] # mem[g]
      PROVE  /\ SameView(g) /\ g <= created' /\ ObjectOk(g, mem'[g], disk, known')
             /\ g \in Live' => Refers(mem'[g]) \subseteq Live' /\ mem'[g].value # g
  BY <1>1, <1>2, <1>3, <1>5, <1>9, FilledObjects
<1>10. MemInv'
  <2>1. PICK new : new = {g \in Future : mem'[g] # mem[g]}
    OBVIOUS
  <2>2. \A g \in Live' \ new : g \in Live /\ mem'[g] = mem[g]
    BY <2>1 DEF Live
  <2>3. Renewed(new)
    BY <2>1, <2>2, <1>8, <1>9 DEF Renewed
  <2>4. QueueOk'
    BY <1>1, <1>8, QueueStays
  <2> QED BY <2>3, <2>4, <1>1, <1>6, MemFrame
<1>11. \A g \in Future : SameView(g)
  BY <1>1, <1>9, SameViews
<1>12. Live \subseteq Live'
  BY <1>8
<1> QED BY <1>1, <1>5, <1>7, <1>10, <1>11, <1>12

LEMMA GetFutureDBStep ==
  ASSUME IInv, NEW f, GetFutureDB(f), NoSelfHolding'
  PROVE  IInv'
<1>1. phase' = phase /\ queue' = queue /\ known' = known /\ \A g \in Future : SameView(g)
  BY GetFutureDBViews
<1>2. NowInv'
  BY <1>1, NowSame DEF IInv, NowInv
<1> QED BY <1>2, GetFutureDBViews DEF IInv

----------------------------------------------------------------------------
(* A Future is settled.                                                    *)

\* d is m without the reactions of its list u.
DeletedList(d, m, u) ==
  /\ d \in FutureDB /\ d.state = m.state /\ d.value = m.value /\ d.settled = m.settled /\ d.root = m.root
  /\ d.inDatabase = m.inDatabase /\ d.dirty = m.dirty
  /\ d.rx[u].written = <<>> /\ d.rx[u].unwritten = <<>> /\ d.rx[u].deleted
  /\ \A x \in Type : d.rx[x].dirty = m.rx[x].dirty /\ (x # u => d.rx[x] = m.rx[x])

LEMMA DeletedReactions ==
  ASSUME NEW m \in FutureDB, NEW u \in Type
  PROVE  DeletedList([m EXCEPT !.rx[u] = Deleted(m.rx[u])], m, u)
<1>1. PICK x : x = m.rx[u]
  OBVIOUS
<1>2. PICK y : y = Deleted(x)
  OBVIOUS
<1>3. PICK z : z = [m.rx EXCEPT ![u] = y]
  OBVIOUS
<1>4. PICK d : d = [m EXCEPT !.rx = z]
  OBVIOUS
<1>5. m.rx \in [Type -> Reactions] /\ x \in Reactions
  BY <1>1 DEF FutureDB
<1>6. y \in Reactions /\ y.written = <<>> /\ y.unwritten = <<>> /\ y.deleted /\ y.dirty = x.dirty
  <2>1. PICK x1 : x1 = [x EXCEPT !.deleted = TRUE]
    OBVIOUS
  <2>2. PICK x2 : x2 = [x1 EXCEPT !.written = <<>>]
    OBVIOUS
  <2>3. y = [x2 EXCEPT !.unwritten = <<>>]
    BY <1>2, <2>1, <2>2 DEF Deleted
  <2>4. x1 \in Reactions /\ x1.deleted /\ x1.dirty = x.dirty
    BY <1>5, <2>1 DEF Reactions
  <2>5. <<>> \in Seq(Future)
    OBVIOUS
  <2>6. x2 \in Reactions /\ x2.deleted /\ x2.dirty = x.dirty /\ x2.written = <<>>
    BY <2>2, <2>4, <2>5 DEF Reactions
  <2> QED BY <2>3, <2>5, <2>6 DEF Reactions
<1>7. z \in [Type -> Reactions] /\ z[u] = y /\ \A w \in Type : w # u => z[w] = m.rx[w]
  BY <1>3, <1>5, <1>6
<1>8. /\ d \in FutureDB /\ d.rx = z /\ d.state = m.state /\ d.value = m.value /\ d.settled = m.settled
      /\ d.root = m.root /\ d.inDatabase = m.inDatabase /\ d.dirty = m.dirty
  BY <1>4, <1>7 DEF FutureDB
<1>9. DeletedList(d, m, u)
  BY <1>1, <1>6, <1>7, <1>8 DEF DeletedList
<1> QED BY <1>1, <1>2, <1>3, <1>4, <1>9

LEMMA PutDeleted ==
  ASSUME NEW s \in StoreType, Marks(s, 0), NEW f \in Future, NEW m \in FutureDB, s.mem[f] = m, NEW u \in Type
  PROVE  \E d : Put(s, [s EXCEPT !.mem[f].rx[u] = Deleted(@)], f, d, 0) /\ DeletedList(d, m, u)
<1> PICK d : d = [m EXCEPT !.rx[u] = Deleted(m.rx[u])]
  OBVIOUS
<1>1. DeletedList(d, m, u)
  BY DeletedReactions
<1>2. d \in FutureDB /\ d.dirty = m.dirty /\ \A x \in Type : d.rx[x].dirty = m.rx[x].dirty
  BY <1>1 DEF DeletedList
<1>3. s.mem[f] # Absent
  BY AbsentIsNone
<1>4. Put(s, [s EXCEPT !.mem[f] = d], f, d, 0)
  BY <1>2, <1>3, PutSame
<1>5. [s EXCEPT !.mem[f].rx[u] = Deleted(@)] = [s EXCEPT !.mem[f] = d]
  OBVIOUS
<1> QED BY <1>1, <1>4, <1>5

\* The object of a Future that was settled with t and v.
Outcome(p, m, t, v) ==
  /\ p \in FutureDB /\ p.state = t /\ p.value = v /\ p.settled /\ ~p.root /\ p.dirty /\ p.inDatabase = m.inDatabase
  /\ \A u \in Type : p.rx[u].written = <<>> /\ p.rx[u].unwritten = <<>> /\ p.rx[u].deleted

\* r is the store after that; o had the other objects, and h is o with those read for the reactions.
Outgrown(r, o, h, p, f, t, v) ==
  /\ \A g \in Future : g # f => o.mem[g] = mem[g]
  /\ o.mem[f] # Absent
  /\ Filled(o, h, ToSet(Popped(f, t)))
  /\ r \in StoreType /\ r.disk = disk /\ Marks(r, 0)
  /\ r.mem[f] = p /\ \A g \in Future : g # f => r.mem[g] = h.mem[g]
  /\ Outcome(p, mem[f], t, v)

LEMMA PutMem ==
  ASSUME NEW s \in StoreType, NEW r, NEW f \in Future, NEW m, NEW n, Put(s, r, f, m, n)
  PROVE  /\ r \in StoreType /\ Marks(r, n) /\ r.disk = s.disk /\ r.mem[f] = m
         /\ \A g \in Future : g # f => r.mem[g] = s.mem[g]
BY DEF Put, StoreType

LEMMA PutSettled ==
  ASSUME IInv, NEW f \in Live, NEW t \in Type, NEW v \in Value
  PROVE  \E o, h, p : Outgrown(Settled(Store, f, t, v), o, h, p, f, t, v)
<1>s. PICK s : s = Store
  OBVIOUS
<1>m. PICK m : m = mem[f]
  OBVIOUS
<1>m1. PICK m1 : m1 = [m EXCEPT !.state = t, !.value = v, !.settled = TRUE, !.root = FALSE]
  OBVIOUS
<1>a. PICK a : a = [s EXCEPT !.mem[f] = m1]
  OBVIOUS
<1>b. PICK b : b = DirtyFuture(a, f)
  OBVIOUS
<1>o. PICK o : o = [b EXCEPT !.mem[f].rx[Other(t)] = Deleted(@)]
  OBVIOUS
<1>h. PICK h : h = Load(o, ToSet(Popped(f, t)))
  OBVIOUS
<1>e. PICK e : e = [h EXCEPT !.mem[f].rx[t] = Deleted(@)]
  OBVIOUS
<1>r. PICK r : r = DirtyReactions(e, f, t)
  OBVIOUS
<1>1. Settled(Store, f, t, v) = r
  <2>1. a = [s EXCEPT !.mem[f].state = t, !.mem[f].value = v, !.mem[f].settled = TRUE, !.mem[f].root = FALSE]
    <3>1. s.mem[f] = m
      BY <1>s, <1>m DEF Store
    <3> QED BY <3>1, <1>a, <1>m1
  <2> QED BY <2>1, <1>s, <1>b, <1>o, <1>h, <1>e, <1>r, Zenon DEF Settled
<1>2. /\ s \in StoreType /\ Marks(s, 0) /\ s.mem = mem /\ s.disk = disk /\ f \in Future /\ m \in FutureDB
      /\ Other(t) \in Type /\ m # Absent /\ \A x \in Type : x = t \/ x = Other(t)
  BY <1>s, <1>m, StoreFacts, AbsentIsNone DEF IInv, Other, Type
<1>3. /\ m1 \in FutureDB /\ m1.state = t /\ m1.value = v /\ m1.settled /\ ~m1.root /\ m1.inDatabase = m.inDatabase
      /\ m1.dirty = m.dirty /\ m1.rx = m.rx
  BY <1>2, <1>m1 DEF FutureDB
<1>4. Put(s, a, f, m1, 0)
  <2>1. s \in StoreType /\ Marks(s, 0) /\ f \in Future /\ s.mem[f] = m /\ m # Absent
    BY <1>2, <1>m
  <2>2. Put(s, [s EXCEPT !.mem[f] = m1], f, m1, 0)
    BY <2>1, <1>3, PutSame
  <2> QED BY <2>2, <1>a
<1>5. a \in StoreType /\ Marks(a, 0) /\ a.disk = disk /\ a.mem[f] = m1 /\ \A g \in Future : g # f => a.mem[g] = mem[g]
  BY <1>2, <1>4, PutMem
<1>m2. PICK m2 : m2 = [m1 EXCEPT !.dirty = TRUE]
  OBVIOUS
<1>6. /\ m2 \in FutureDB /\ m2.state = t /\ m2.value = v /\ m2.settled /\ ~m2.root /\ m2.inDatabase = m.inDatabase
      /\ m2.dirty
  BY <1>3, <1>m2 DEF FutureDB
<1>7. Put(a, b, f, m2, 0)
  BY <1>2, <1>3, <1>5, <1>b, <1>m2, DirtyNow
<1>8. b \in StoreType /\ Marks(b, 0) /\ b.disk = disk /\ b.mem[f] = m2 /\ \A g \in Future : g # f => b.mem[g] = mem[g]
  BY <1>2, <1>5, <1>7, PutMem
<1>9. PICK m3 : Put(b, o, f, m3, 0) /\ DeletedList(m3, m2, Other(t))
  BY <1>2, <1>6, <1>8, <1>o, PutDeleted
<1>10. o \in StoreType /\ Marks(o, 0) /\ o.disk = disk /\ o.mem[f] = m3 /\ \A g \in Future : g # f => o.mem[g] = mem[g]
  BY <1>2, <1>8, <1>9, PutMem
<1>11. /\ m3 \in FutureDB /\ m3.state = t /\ m3.value = v /\ m3.settled /\ ~m3.root /\ m3.inDatabase = m.inDatabase
       /\ m3.dirty /\ m3 # Absent
       /\ m3.rx[Other(t)].written = <<>> /\ m3.rx[Other(t)].unwritten = <<>> /\ m3.rx[Other(t)].deleted
  BY <1>6, <1>9, AbsentIsNone DEF DeletedList
<1>12. Filled(o, h, ToSet(Popped(f, t)))
  <2>1. ToSet(Popped(f, t)) \in SUBSET Future
    <3>1. ViewReactions(f, t) \in Seq(Future) /\ ViewReactions(f, t) = Popped(f, t)
      BY <1>2, ViewTypes DEF ViewReactions, IInv
    <3> QED BY <3>1, ToSetIn
  <2> QED BY <2>1, <1>10, <1>h, LoadFills
<1>13. h \in StoreType /\ Marks(h, 0) /\ h.disk = disk /\ h.mem[f] = m3
  BY <1>2, <1>10, <1>11, <1>12 DEF Filled
<1>14. PICK m4 : Put(h, e, f, m4, 0) /\ DeletedList(m4, m3, t)
  BY <1>2, <1>11, <1>13, <1>e, PutDeleted
<1>15. e \in StoreType /\ Marks(e, 0) /\ e.disk = disk /\ e.mem[f] = m4 /\ \A g \in Future : g # f => e.mem[g] = h.mem[g]
  <2>1. f \in Future
    BY <1>2
  <2> QED BY <2>1, <1>13, <1>14, PutMem
<1>16. /\ m4 \in FutureDB /\ m4.state = t /\ m4.value = v /\ m4.settled /\ ~m4.root /\ m4.inDatabase = m.inDatabase
       /\ m4.dirty /\ \A u \in Type : m4.rx[u].written = <<>> /\ m4.rx[u].unwritten = <<>> /\ m4.rx[u].deleted
  BY <1>2, <1>11, <1>14 DEF DeletedList
<1>p. PICK p : p = [m4 EXCEPT !.rx[t].dirty = TRUE]
  OBVIOUS
<1>17. Put(e, r, f, p, 0)
  BY <1>2, <1>15, <1>16, <1>p, <1>r, DirtyReactionsNow
<1>18. r \in StoreType /\ Marks(r, 0) /\ r.disk = disk /\ r.mem[f] = p /\ \A g \in Future : g # f => r.mem[g] = e.mem[g]
  <2>1. f \in Future
    BY <1>2
  <2> QED BY <2>1, <1>15, <1>17, PutMem
<1>19. MarkedList(p, m4, t)
  BY <1>16, <1>p, MarkedReactions
<1>20. Outcome(p, m, t, v)
  BY <1>16, <1>19 DEF MarkedList, Outcome
<1>21. Outgrown(r, o, h, p, f, t, v)
  BY <1>m, <1>10, <1>11, <1>12, <1>15, <1>18, <1>20 DEF Outgrown
<1> QED BY <1>1, <1>21

LEMMA OutcomeObject ==
  ASSUME NEW f, NEW m \in FutureDB, m.state = "Pending", NEW d, NEW k, ObjectOk(f, m, d, k),
         NEW t \in Type, NEW v \in Value, NEW p, Outcome(p, m, t, v)
  PROVE  ObjectOk(f, p, d, k) /\ Refers(p) = {v} \cap Future
<1>1. t # "Pending"
  BY DEF Type
<1>2. RowOk(f, p, k)
  BY <1>1 DEF RowOk, Outcome
<1>3. \A u \in Type : ListOk(f, p.state, p.rx[u], d.rx[u][f], d)
  BY <1>1 DEF ListOk, Outcome
<1>4. ~m.inDatabase => f \notin Stored(d)
  BY DEF ObjectOk
<1>5. m.inDatabase => f \in Stored(d) /\ d.rows[f].state = "Pending"
  BY DEF ObjectOk, RowOf
<1>6. p.dirty /\ p.settled /\ ~p.root /\ p.state = t /\ p.inDatabase = m.inDatabase
  BY DEF Outcome
<1>7. ObjectOk(f, p, d, k)
  BY <1>1, <1>2, <1>3, <1>4, <1>5, <1>6 DEF ObjectOk
<1>8. Refers(p) = {v} \cap Future
  BY EmptyList DEF Refers, Outcome
<1> QED BY <1>7, <1>8

LEMMA ForwardsFacts ==
  ASSUME NEW l \in Seq(Future), NEW t \in Type, NEW v \in Value, NEW rest \in Seq(Job)
  PROVE  /\ Forwards(l, t, v) \in Seq(Job)
         /\ \A i \in DOMAIN (rest \o Forwards(l, t, v)) :
              \/ \E k \in DOMAIN rest : (rest \o Forwards(l, t, v))[i] = rest[k]
              \/ \E k \in DOMAIN l : (rest \o Forwards(l, t, v))[i] = Forward(l[k], t, v)
<1>1. PICK w : w = Forwards(l, t, v)
  OBVIOUS
<1>2. DOMAIN w = 1..Len(l) /\ Len(l) \in Nat /\ DOMAIN l = 1..Len(l) /\ \A i \in DOMAIN l : w[i] = Forward(l[i], t, v)
  BY <1>1 DEF Forwards
<1>3. \A i \in DOMAIN l : l[i] \in Future
  OBVIOUS
<1>4. \A i \in DOMAIN l : w[i] \in Job
  BY <1>2, <1>3, ForwardFacts
<1>5. w \in Seq(Job)
  <2>1. w = [i \in 1..Len(l) |-> Forward(l[i], t, v)]
    BY <1>1 DEF Forwards
  <2> QED BY <2>1, <1>2, <1>4
<1>6. PICK q : q = rest \o w
  OBVIOUS
<1>7. /\ DOMAIN q = 1 .. Len(rest) + Len(w) /\ DOMAIN rest = 1..Len(rest) /\ DOMAIN w = 1..Len(w)
      /\ Len(rest) \in Nat /\ Len(w) \in Nat
      /\ \A i \in 1..Len(rest) : q[i] = rest[i]
      /\ \A i \in 1..Len(w) : q[Len(rest) + i] = w[i]
  BY <1>5, <1>6
<1>8. ASSUME NEW i \in DOMAIN q
      PROVE (\E k \in DOMAIN rest : q[i] = rest[k]) \/ \E k \in DOMAIN l : q[i] = Forward(l[k], t, v)
  <2>1. CASE i \in 1..Len(rest)
    BY <2>1, <1>7
  <2>2. CASE i \notin 1..Len(rest)
    <3>1. i \in Int /\ i - Len(rest) \in 1..Len(w) /\ Len(rest) + (i - Len(rest)) = i
      BY <2>2, <1>7
    <3>2. q[i] = w[i - Len(rest)] /\ i - Len(rest) \in DOMAIN l
      BY <3>1, <1>2, <1>7
    <3> QED BY <3>2, <1>2
  <2> QED BY <2>1, <2>2
<1> QED BY <1>1, <1>5, <1>6, <1>8

\* What is in the reactions of an object is in memory, or read from its row.
LEMMA PoppedLive ==
  ASSUME IInv, NEW f \in Live, NEW t \in Type, NEW x \in ToSet(Popped(f, t))
  PROVE  x \in Live \/ x \in Stored(disk)
<1>1. PICK w : w = mem[f].rx[t]
  OBVIOUS
<1>2. w.written \in Seq(Future) /\ w.unwritten \in Seq(Future) /\ disk.rx[t][f] \in Seq(Future) /\ f \in Future
  <2>1. mem[f] \in FutureDB /\ f \in Future
    BY StoreFacts DEF IInv
  <2>2. w \in Reactions
    BY <2>1, <1>1 DEF FutureDB
  <2>3. disk.rx[t][f] \in Seq(Future)
    BY <2>1 DEF IInv, TypeOK, Tables
  <2> QED BY <2>1, <2>2, <2>3 DEF Reactions
<1>3. ToSet(w.written) \subseteq Live /\ ToSet(w.unwritten) \subseteq Live
  BY <1>1 DEF IInv, MemInv, Refers
<1>4. ToSet(disk.rx[t][f]) \subseteq Stored(disk)
  BY <1>2 DEF IInv, DiskInv
<1>5. PICK u : u = IF w.read THEN w.written ELSE disk.rx[t][f]
  OBVIOUS
<1>6. ToSet(u) \subseteq Live \cup Stored(disk) /\ u \in Seq(Future)
  BY <1>2, <1>3, <1>4, <1>5
<1>7. Popped(f, t) = u \o w.unwritten
  BY <1>1, <1>5 DEF Popped
<1>8. ToSet(u \o w.unwritten) = ToSet(u) \cup ToSet(w.unwritten)
  BY <1>2, <1>6, ToSetConcat
<1> QED BY <1>3, <1>6, <1>7, <1>8

\* Settling f changes its object, and reads others.
LEMMA SettleObjects ==
  ASSUME IInv, NEW f \in Live, mem[f].state = "Pending", NEW t \in Type, NEW v \in Value, v \in Future => v \in Live,
         SetStore(Settled(Store, f, t, v)), disk' = disk, created' = created, known' = known, NoSelfHolding'
  PROVE  /\ mem' \in [Future -> FutureDB \cup {Absent}] /\ pendingWrites' \in Seq(Write) /\ Marks(Store, 0)'
         /\ Outcome(mem'[f], mem[f], t, v) /\ Live \subseteq Live' /\ ToSet(Popped(f, t)) \subseteq Live'
         /\ Renewed({g \in Future : mem'[g] # mem[g]})
         /\ \A g \in Future : g # f => SameView(g)
<1>0. TypeOK
  BY DEF IInv
<1>1. f \in Future /\ mem[f] \in FutureDB /\ mem[f] # Absent
  BY <1>0, StoreFacts DEF Live
<1>2. PICK r : r = Settled(Store, f, t, v)
  OBVIOUS
<1>3. PICK o, h, p : Outgrown(r, o, h, p, f, t, v)
  BY <1>2, PutSettled
<1>4. r \in StoreType /\ r.disk = disk /\ Marks(r, 0)
  BY <1>3 DEF Outgrown
<1>5. /\ mem' = r.mem /\ mem' \in [Future -> FutureDB \cup {Absent}]
      /\ pendingWrites' \in Seq(Write) /\ Marks(Store, 0)'
  BY <1>0, <1>2, <1>4, StoreTaken
<1>6. /\ mem'[f] = p /\ Outcome(p, mem[f], t, v) /\ Filled(o, h, ToSet(Popped(f, t)))
      /\ \A g \in Future : g # f => mem'[g] = h.mem[g] /\ o.mem[g] = mem[g]
  BY <1>3, <1>5 DEF Outgrown
<1>7. mem'[f] # Absent /\ f \in Live'
  BY <1>1, <1>6, AbsentIsNone DEF Outcome, Live
<1>8. \A g \in Live : g \in Live' /\ (g # f => mem'[g] = mem[g])
  <2> SUFFICES ASSUME NEW g \in Live, g # f PROVE g \in Live' /\ mem'[g] = mem[g]
    BY <1>7
  <2>1. g \in Future /\ mem[g] # Absent
    BY DEF Live
  <2>2. mem'[g] = mem[g]
    BY <2>1, <1>6 DEF Filled
  <2> QED BY <2>1, <2>2 DEF Live
<1>9. \A g \in Future : h.mem[g] # Absent => mem'[g] # Absent
  BY <1>6, <1>7
<1>10. ToSet(Popped(f, t)) \subseteq Live'
  <2> SUFFICES ASSUME NEW x \in ToSet(Popped(f, t)) PROVE x \in Live'
    OBVIOUS
  <2>1. CASE x \in Live
    BY <2>1, <1>8
  <2>2. CASE x \in Stored(disk)
    <3>1. h.mem[x] # Absent /\ x \in Future
      BY <2>2, <1>6 DEF Filled, Stored
    <3> QED BY <3>1, <1>9 DEF Live
  <2> QED BY <2>1, <2>2, PoppedLive
<1>11. /\ f <= created' /\ ObjectOk(f, mem'[f], disk, known')
       /\ Refers(mem'[f]) \subseteq Live' /\ mem'[f].value # f
  <2>1. ObjectOk(f, mem[f], disk, known) /\ f <= created
    BY DEF IInv, MemInv
  <2>2. ObjectOk(f, p, disk, known) /\ Refers(p) = {v} \cap Future
    <3>1. PICK m, d, k : m = mem[f] /\ d = disk /\ k = known
      OBVIOUS
    <3>2. ObjectOk(f, m, d, k) /\ m \in FutureDB /\ m.state = "Pending" /\ Outcome(p, m, t, v)
      BY <3>1, <2>1, <1>1, <1>6
    <3>3. ObjectOk(f, p, d, k) /\ Refers(p) = {v} \cap Future
      BY <3>2, OutcomeObject
    <3> QED BY <3>1, <3>3
  <2>3. mem'[f].value # f
    BY <1>7, NotInItself
  <2>4. {v} \cap Future \subseteq Live'
    BY <1>8
  <2> QED BY <2>1, <2>2, <2>3, <2>4, <1>6
<1>12. ASSUME NEW g \in Future, g # f, mem'[g] # mem[g]
       PROVE  /\ SameView(g) /\ g <= created' /\ ObjectOk(g, mem'[g], disk, known')
              /\ g \in Live' => Refers(mem'[g]) \subseteq Live' /\ mem'[g].value # g
  <2>1. o.mem[g] = mem[g] /\ mem'[g] = h.mem[g]
    BY <1>6, <1>12
  <2>2. mem' \in [Future -> FutureDB \cup {Absent}] /\ Filled(o, h, ToSet(Popped(f, t)))
    BY <1>5, <1>6
  <2> QED BY <2>1, <2>2, <1>9, <1>12, FilledObjects
<1>13. Renewed({g \in Future : mem'[g] # mem[g]})
  <2>1. PICK new : new = {g \in Future : mem'[g] # mem[g]}
    OBVIOUS
  <2>2. \A g \in Live' \ new : g \in Live /\ mem'[g] = mem[g]
    BY <2>1 DEF Live
  <2>3. \A g \in new \cap Live' : /\ g <= created' /\ ObjectOk(g, mem'[g], disk, known')
                                  /\ Refers(mem'[g]) \subseteq Live' /\ mem'[g].value # g
    BY <2>1, <1>11, <1>12
  <2> QED BY <2>1, <2>2, <2>3, <1>8 DEF Renewed
<1>14. \A g \in Future : g # f => SameView(g)
  BY <1>12, SameViews
<1> QED BY <1>5, <1>6, <1>8, <1>10, <1>13, <1>14

LEMMA SettleStep ==
  ASSUME IInv, NEW f \in Live, mem[f].state = "Pending", NEW t \in Type, NEW v \in Value, v \in Future => v \in Live,
         NEW rest \in Seq(Job), Leaves(queue, rest, f), f \in OpenNow \/ \E i \in DOMAIN queue : queue[i].next = f,
         Settle(f, t, v, rest), disk' = disk, created' = created, known' = known, NoSelfHolding', phase # "ready"
  PROVE  IInv'
<1>0. TypeOK
  BY DEF IInv
<1>1. f \in Future /\ mem[f] \in FutureDB
  BY <1>0, StoreFacts
<1>2. PICK l : l = Popped(f, t)
  OBVIOUS
<1>3. SetStore(Settled(Store, f, t, v)) /\ Enqueue(rest, Forwards(l, t, v))
  BY <1>2 DEF Settle, Forwards
<1>4. /\ mem' \in [Future -> FutureDB \cup {Absent}] /\ pendingWrites' \in Seq(Write) /\ Marks(Store, 0)'
      /\ Outcome(mem'[f], mem[f], t, v) /\ Live \subseteq Live' /\ ToSet(l) \subseteq Live'
      /\ Renewed({g \in Future : mem'[g] # mem[g]})
      /\ \A g \in Future : g # f => SameView(g)
  BY <1>2, <1>3, SettleObjects
<1>5. l \in Seq(Future) /\ l = ViewReactions(f, t)
  BY <1>0, <1>1, <1>2, ViewTypes DEF ViewReactions
<1>6. Forwards(l, t, v) \in Seq(Job)
  BY <1>5, ForwardsFacts
<1>7. /\ phase' \in {"idle", "awaiting", "ready"} /\ queue' = rest \o Forwards(l, t, v) /\ queue' \in Seq(Job)
      /\ phase' = "ready" => queue' = <<>>
  BY <1>0, <1>3, <1>6, EnqueueFacts
<1>8. TypeOK'
  BY <1>0, <1>4, <1>7 DEF TypeOK
<1>9. Grown
  BY DEF Grown
<1>10. SavedInv' /\ DiskInv'
  BY <1>9, DiskFrame
<1>11. QueueOk'
  <2>1. PICK q : q = queue'
    OBVIOUS
  <2>2. \A i \in DOMAIN q : (\E k \in DOMAIN rest : q[i] = rest[k]) \/ \E k \in DOMAIN l : q[i] = Forward(l[k], t, v)
    <3>1. q = rest \o Forwards(l, t, v)
      BY <2>1, <1>7
    <3>2. \A i \in DOMAIN (rest \o Forwards(l, t, v)) :
            \/ \E k \in DOMAIN rest : (rest \o Forwards(l, t, v))[i] = rest[k]
            \/ \E k \in DOMAIN l : (rest \o Forwards(l, t, v))[i] = Forward(l[k], t, v)
      BY <1>5, ForwardsFacts, Zenon
    <3> QED BY <3>1, <3>2, Zenon
  <2>3. ASSUME NEW i \in DOMAIN q
        PROVE  q[i].next \in Live' /\ q[i].from \in Live' /\ (q[i].value \in Future => q[i].value \in Live')
    <3>1. CASE \E k \in DOMAIN rest : q[i] = rest[k]
      <4>1. PICK k \in DOMAIN queue : q[i] = queue[k]
        BY <3>1 DEF Leaves
      <4> QED BY <4>1, <1>4 DEF IInv, MemInv
    <3>2. CASE \E k \in DOMAIN l : q[i] = Forward(l[k], t, v)
      <4>1. PICK k \in DOMAIN l : q[i] = Forward(l[k], t, v)
        BY <3>2
      <4>2. l[k] \in Live'
        BY <1>4 DEF ToSet
      <4>3. q[i].next = l[k] /\ q[i].from = l[k] /\ q[i].value = v
        BY <4>1 DEF Forward
      <4> QED BY <4>2, <4>3, <1>4
    <3> QED BY <2>2, <3>1, <3>2
  <2> QED BY <2>1, <2>3 DEF QueueOk
<1>12. MemInv'
  BY <1>4, <1>9, <1>11, MemFrame
<1>13. f \in PendingNow /\ View(f)' # "Pending"
  <2>1. mem'[f].state = t /\ f \in Live'
    BY <1>4 DEF Outcome
  <2> QED BY <2>1, <1>1 DEF PendingNow, View, Type
<1>14. PendingNow' = PendingNow \ {f}
  <2>1. \A g \in Future : g # f => View(g)' = View(g)
    BY <1>4 DEF SameView
  <2> QED BY <2>1, <1>13 DEF PendingNow
<1>15. OpenNow' = OpenNow \ {f}
  <2>1. \A g \in Future : g # f => ViewRoot(g)' = ViewRoot(g)
    BY <1>4 DEF SameView
  <2> QED BY <2>1, <1>14 DEF OpenNow, PendingNow
<1>16. NowInv'
  <2>1. Sound(PendingNow, OpenNow, ListsNow, queue) /\ queue \in Seq(Job)
    BY <1>0 DEF IInv, NowInv, TypeOK
  <2>2. ListsNow[f] = l
    <3>1. ListsNow[f] = ViewReactions(f, "Fulfilled")
      BY <1>1 DEF ListsNow
    <3>2. ViewReactions(f, "Rejected") = ViewReactions(f, "Fulfilled")
      BY <1>13 DEF IInv, NowInv
    <3> QED BY <3>1, <3>2, <1>5 DEF Type
  <2>3. t # "adopt"
    BY DEF Type
  <2>4. PICK L : L = ListsNow
    OBVIOUS
  <2>5. Sound(PendingNow \ {f}, OpenNow \ {f}, L, rest \o Forwards(L[f], t, v))
    <3>1. L[f] \in Seq(Future) /\ Sound(PendingNow, OpenNow, L, queue)
      BY <2>1, <2>2, <2>4, <1>5
    <3> QED BY <3>1, <2>1, <2>3, <1>13, SoundSettle
  <2>6. PICK M : M = ListsNow'
    OBVIOUS
  <2>7. \A g \in PendingNow \ {f} : M[g] = L[g]
    BY <2>4, <2>6, <1>4 DEF ListsNow, SameView, Type, PendingNow
  <2>8. Sound(PendingNow \ {f}, OpenNow \ {f}, L, queue')
    BY <2>2, <2>4, <2>5, <1>7
  <2>9. Sound(PendingNow \ {f}, OpenNow \ {f}, M, queue')
    BY <2>7, <2>8, SoundSame
  <2>10. \A g \in PendingNow' : ViewReactions(g, "Rejected")' = ViewReactions(g, "Fulfilled")'
    <3>1. \A g \in PendingNow : g \in Future /\ ViewReactions(g, "Rejected") = ViewReactions(g, "Fulfilled")
      BY DEF IInv, NowInv, PendingNow
    <3> QED BY <3>1, <1>4, <1>14 DEF SameView, Type
  <2> QED BY <2>6, <2>9, <2>10, <1>7, <1>14, <1>15 DEF NowInv
<1> QED BY <1>4, <1>8, <1>10, <1>12, <1>16 DEF IInv

LEMMA ResolveWithStep ==
  ASSUME IInv, NEW f \in Live \cap known, ResolveWith(f), NoSelfHolding', phase # "ready"
  PROVE  IInv'
<1>0. TypeOK
  BY DEF IInv
<1>1. f \in Future /\ mem[f] \in FutureDB
  BY <1>0, StoreFacts
<1>2. mem[f].state = "Pending" /\ mem[f].root
  <2>1. RowOk(f, mem[f], known)
    BY DEF IInv, MemInv, ObjectOk
  <2> QED BY <2>1 DEF RowOk, ResolveWith
<1>3. f \in OpenNow
  BY <1>1, <1>2 DEF OpenNow, PendingNow, View, ViewRoot
<1>4. Leaves(queue, queue, f) /\ queue \in Seq(Job)
  <2>1. Sound(PendingNow, OpenNow, ListsNow, queue)
    BY DEF IInv, NowInv
  <2> QED BY <2>1, <1>0, <1>3, LeavesSame DEF TypeOK
<1>5. created' = created /\ known' = known /\ disk' = disk
  BY DEF ResolveWith
<1>6. PICK t \in Type, v \in Value : Settle(f, t, v, queue) /\ (v \in Future => v \in Live)
  <2>1. CASE \E g \in Live : Settle(f, "Fulfilled", g, queue)
    BY <2>1 DEF Type, Value, Live
  <2>2. CASE Settle(f, "Rejected", Plain, queue)
    BY <2>2, NoneIsNoFuture DEF Type, Value
  <2> QED BY <2>1, <2>2 DEF ResolveWith
<1> QED BY <1>2, <1>3, <1>4, <1>5, <1>6, SettleStep

----------------------------------------------------------------------------
(* A Future is handed over to another one.                                 *)

LEMMA WaitersClosed ==
  ASSUME TypeOK, NEW fs \in SUBSET Future
  PROVE  /\ fs \subseteq Waiters(fs)
         /\ \A h \in Waiters(fs) : ToSet(ViewReactions(h, "Fulfilled")) \subseteq Waiters(fs)
         /\ \A i \in DOMAIN queue : queue[i].from \in Waiters(fs) => queue[i].next \in Waiters(fs)
<1>1. fs \subseteq Waiters(fs)
  BY DEF Waiters
<1>2. ASSUME NEW h \in Waiters(fs), NEW x \in ToSet(ViewReactions(h, "Fulfilled"))
      PROVE  x \in Waiters(fs)
  <2>1. x \in Future
    <3>1. h \in Future
      BY DEF Waiters
    <3>2. ViewReactions(h, "Fulfilled") \in Seq(Future)
      BY <3>1, ViewTypes DEF Type
    <3> QED BY <3>2, ToSetIn
  <2>2. ASSUME NEW gs \in SUBSET Future, fs \subseteq gs /\ WaitFor(gs) \subseteq gs
        PROVE  x \in gs
    <3>1. h \in gs
      BY <2>2 DEF Waiters
    <3> QED BY <3>1, <2>2 DEF WaitFor
  <2> QED BY <2>1, <2>2 DEF Waiters
<1>3. ASSUME NEW i \in DOMAIN queue, queue[i].from \in Waiters(fs)
      PROVE  queue[i].next \in Waiters(fs)
  <2>1. queue[i].next \in Future
    <3>1. queue[i] \in Job
      BY DEF TypeOK
    <3> QED BY <3>1 DEF Job
  <2>2. ASSUME NEW gs \in SUBSET Future, fs \subseteq gs /\ WaitFor(gs) \subseteq gs
        PROVE  queue[i].next \in gs
    <3>1. queue[i].from \in gs
      BY <1>3, <2>2 DEF Waiters
    <3>2. i \in {j \in DOMAIN queue : queue[j].from \in gs}
      BY <3>1
    <3>3. queue[i].next \in {queue[k].next : k \in {j \in DOMAIN queue : queue[j].from \in gs}}
      BY <3>2
    <3>4. queue[i].next \in WaitFor(gs)
      BY <3>3 DEF WaitFor
    <3> QED BY <3>4, <2>2
  <2> QED BY <2>1, <2>2 DEF Waiters
<1> QED BY <1>1, <1>2, <1>3

\* The object of a Future that was handed over.
Locked(p, m) ==
  /\ p \in FutureDB /\ p.state = m.state /\ p.value = m.value /\ p.settled /\ ~p.root
  /\ p.inDatabase = m.inDatabase /\ p.dirty /\ p.rx = m.rx

LEMMA PutLocked ==
  ASSUME NEW s \in StoreType, Marks(s, 0), NEW f \in Future, NEW m \in FutureDB, s.mem[f] = m
  PROVE  \E p : Put(s, Lock(s, f), f, p, 0) /\ Locked(p, m)
<1>1. PICK m1 : m1 = [m EXCEPT !.settled = TRUE, !.root = FALSE]
  OBVIOUS
<1>2. /\ m1 \in FutureDB /\ m1.state = m.state /\ m1.value = m.value /\ m1.settled /\ ~m1.root
      /\ m1.inDatabase = m.inDatabase /\ m1.dirty = m.dirty /\ m1.rx = m.rx
  BY <1>1 DEF FutureDB
<1>3. PICK a : a = [s EXCEPT !.mem[f] = m1]
  OBVIOUS
<1>4. Put(s, a, f, m1, 0)
  <2>1. s.mem[f] # Absent
    BY AbsentIsNone
  <2>2. Put(s, [s EXCEPT !.mem[f] = m1], f, m1, 0)
    BY <2>1, <1>2, PutSame
  <2> QED BY <2>2, <1>3
<1>5. a \in StoreType /\ Marks(a, 0) /\ a.mem[f] = m1
  BY <1>4, PutMem
<1>6. PICK p : p = [m1 EXCEPT !.dirty = TRUE]
  OBVIOUS
<1>7. Put(a, DirtyFuture(a, f), f, p, 0)
  BY <1>2, <1>5, <1>6, DirtyNow
<1>8. Put(s, DirtyFuture(a, f), f, p, 0)
  BY <1>4, <1>7, PutTwice
<1>9. Locked(p, m)
  BY <1>2, <1>6 DEF Locked, FutureDB
<1>10. Lock(s, f) = DirtyFuture(a, f)
  <2>1. a = [s EXCEPT !.mem[f].settled = TRUE, !.mem[f].root = FALSE]
    BY <1>1, <1>3
  <2> QED BY <2>1, Zenon DEF Lock
<1> QED BY <1>8, <1>9, <1>10

LEMMA LockedObject ==
  ASSUME NEW f, NEW m \in FutureDB, m.state = "Pending", ~m.settled, NEW d, NEW k, ObjectOk(f, m, d, k),
         NEW p, Locked(p, m)
  PROVE  ObjectOk(f, p, d, k) /\ Refers(p) = Refers(m) /\ p.value = m.value
<1>1. RowOk(f, p, k)
  BY DEF ObjectOk, RowOk, Locked
<1>2. \A t \in Type : ListOk(f, p.state, p.rx[t], d.rx[t][f], d)
  BY DEF ObjectOk, Locked
<1>3. ~m.inDatabase => f \notin Stored(d)
  BY DEF ObjectOk
<1>4. m.inDatabase => f \in Stored(d) /\ d.rows[f].state = "Pending"
  BY DEF ObjectOk, RowOf
<1>5. p.inDatabase = m.inDatabase /\ p.dirty /\ p.settled /\ ~p.root /\ p.value = m.value /\ p.rx = m.rx
  BY DEF Locked
<1>6. ObjectOk(f, p, d, k)
  BY <1>1, <1>2, <1>3, <1>4, <1>5 DEF ObjectOk
<1> QED BY <1>5, <1>6 DEF Refers

\* A step that changes one object.
LEMMA OneObject ==
  ASSUME IInv, NEW f \in Live, NEW r, NEW p \in FutureDB, Put(Store, r, f, p, 0), SetStore(r),
         disk' = disk, created' = created, known' = known,
         phase' \in {"idle", "awaiting", "ready"}, queue' \in Seq(Job), QueueOk',
         ObjectOk(f, p, disk, known), Refers(p) \subseteq Live, p.value = mem[f].value
  PROVE  /\ TypeOK' /\ Marks(Store, 0)' /\ SavedInv' /\ DiskInv' /\ MemInv'
         /\ mem'[f] = p /\ f \in Live' /\ \A g \in Future : g # f => SameView(g)
<1>0. TypeOK
  BY DEF IInv
<1>1. Store \in StoreType /\ Store.mem = mem /\ Store.disk = disk /\ f \in Future
  BY <1>0, StoreFacts
<1>2. r \in StoreType /\ Marks(r, 0) /\ r.disk = disk /\ r.mem[f] = p /\ \A g \in Future : g # f => r.mem[g] = mem[g]
  BY <1>1, PutMem
<1>3. /\ mem' = r.mem /\ mem' \in [Future -> FutureDB \cup {Absent}]
      /\ pendingWrites' \in Seq(Write) /\ Marks(Store, 0)' /\ disk' \in Tables
  BY <1>0, <1>2, StoreTaken
<1>4. TypeOK'
  BY <1>0, <1>3 DEF TypeOK
<1>5. Grown
  BY DEF Grown
<1>6. SavedInv' /\ DiskInv'
  BY <1>5, DiskFrame
<1>7. p # Absent
  BY AbsentIsNone
<1>8. Live' = Live
  BY <1>1, <1>2, <1>3, <1>7 DEF Live
<1>9. MemInv'
  <2>1. \A g \in Live' \ {f} : g \in Live /\ mem'[g] = mem[g]
    BY <1>2, <1>3, <1>8 DEF Live
  <2>2. f <= created /\ mem[f].value # f
    BY DEF IInv, MemInv
  <2>3. Renewed({f})
    BY <2>1, <2>2, <1>2, <1>3, <1>8 DEF Renewed
  <2> QED BY <2>3, <1>5, MemFrame
<1>10. \A g \in Future : g # f => SameView(g)
  BY <1>2, <1>3, SameViews
<1> QED BY <1>2, <1>3, <1>4, <1>6, <1>8, <1>9, <1>10

LEMMA ResolveWithFutureViews ==
  ASSUME IInv, NEW f \in Live \cap known, NEW g \in Live \ Waiters({f}), ResolveWithFuture(f, g), phase # "ready",
         NEW j, j = Adoption(f, g)
  PROVE  /\ created' = created /\ known' = known /\ disk' = disk
         /\ f \in Future /\ g \in Future /\ f \in OpenNow
         /\ j \in Job /\ j.next = f /\ j.from = g /\ j.type = "adopt"
         /\ queue' = Append(queue, j) /\ (phase' = "ready" => queue' = <<>>)
         /\ TypeOK' /\ Marks(Store, 0)' /\ SavedInv' /\ DiskInv' /\ MemInv' /\ Live \subseteq Live'
         /\ View(f)' = View(f) /\ ~ViewRoot(f)' /\ \A t \in Type : ViewReactions(f, t)' = ViewReactions(f, t)
         /\ \A h \in Future : h # f => SameView(h)
<1>0. TypeOK
  BY DEF IInv
<1>1. f \in Future /\ mem[f] \in FutureDB /\ g \in Future /\ f \in Live
  BY <1>0, StoreFacts
<1>2. PICK r : r = Lock(Store, f)
  OBVIOUS
<1>4. /\ ~mem[f].settled /\ SetStore(r) /\ Enqueue(queue, <<j>>)
      /\ created' = created /\ known' = known /\ disk' = disk
  BY <1>2 DEF ResolveWithFuture
<1>5. j \in Job /\ j.next = f /\ j.from = g /\ j.value = None /\ j.type = "adopt"
  BY <1>1 DEF Adoption, Job, Value
<1>6. mem[f].state = "Pending" /\ mem[f].root
  <2>1. RowOk(f, mem[f], known)
    BY <1>1 DEF IInv, MemInv, ObjectOk
  <2> QED BY <2>1, <1>4 DEF RowOk
<1>7. f \in OpenNow
  BY <1>1, <1>6 DEF OpenNow, PendingNow, View, ViewRoot
<1>8. PICK p : Put(Store, r, f, p, 0) /\ Locked(p, mem[f])
  <2>1. Store \in StoreType /\ Marks(Store, 0) /\ Store.mem[f] = mem[f]
    BY <1>0, StoreFacts DEF IInv
  <2> QED BY <2>1, <1>1, <1>2, PutLocked
<1>9. /\ phase' \in {"idle", "awaiting", "ready"} /\ queue' = Append(queue, j) /\ queue' \in Seq(Job)
      /\ phase' = "ready" => queue' = <<>>
  <2>1. queue \in Seq(Job)
    BY <1>0 DEF TypeOK
  <2> QED BY <2>1, <1>0, <1>4, <1>5, EnqueueOne
<1>10. ObjectOk(f, p, disk, known) /\ Refers(p) \subseteq Live /\ p.value = mem[f].value /\ p \in FutureDB
  <2>1. ObjectOk(f, mem[f], disk, known) /\ Refers(mem[f]) \subseteq Live
    BY <1>1 DEF IInv, MemInv
  <2>2. PICK m, d, k : m = mem[f] /\ d = disk /\ k = known
    OBVIOUS
  <2>3. ObjectOk(f, m, d, k) /\ m \in FutureDB /\ m.state = "Pending" /\ ~m.settled /\ Locked(p, m)
    BY <2>1, <2>2, <1>1, <1>4, <1>6, <1>8
  <2>4. ObjectOk(f, p, d, k) /\ Refers(p) = Refers(m) /\ p.value = m.value
    BY <2>3, LockedObject
  <2> QED BY <2>1, <2>2, <2>4, <1>8 DEF Locked
<1>11. QueueOk' /\ Live \subseteq Live'
  <2>1. Live \subseteq Live'
    <3>1. Store \in StoreType /\ Store.mem = mem
      BY <1>0, StoreFacts
    <3>2. r.mem[f] = p /\ \A h \in Future : h # f => r.mem[h] = mem[h]
      BY <3>1, <1>1, <1>8, PutMem
    <3>3. mem' = r.mem /\ p # Absent
      BY <1>4, <1>10, AbsentIsNone DEF SetStore
    <3> QED BY <3>2, <3>3 DEF Live
  <2>2. j.next \in Live' /\ j.from \in Live' /\ j.value \notin Future
    BY <2>1, <1>1, <1>5, NoneIsNoFuture
  <2>3. queue \in Seq(Job) /\ \A i \in DOMAIN queue : \E k \in DOMAIN queue : queue[i] = queue[k]
    BY <1>0 DEF TypeOK
  <2> QED BY <2>1, <2>2, <2>3, <1>5, <1>9, QueueMore
<1>12. /\ TypeOK' /\ Marks(Store, 0)' /\ SavedInv' /\ DiskInv' /\ MemInv'
       /\ mem'[f] = p /\ f \in Live' /\ \A h \in Future : h # f => SameView(h)
  BY <1>1, <1>4, <1>8, <1>9, <1>10, <1>11, OneObject
<1>13. /\ View(f)' = View(f) /\ ~ViewRoot(f)'
       /\ \A t \in Type : ViewReactions(f, t)' = ViewReactions(f, t)
  <2>1. p.state = mem[f].state /\ ~p.root /\ p.rx = mem[f].rx
    BY <1>8 DEF Locked
  <2> QED BY <2>1, <1>1, <1>4, <1>12 DEF View, ViewRoot, ViewReactions, Popped
<1> QED BY <1>1, <1>4, <1>5, <1>7, <1>9, <1>11, <1>12, <1>13

LEMMA ResolveWithFutureStep ==
  ASSUME IInv, NEW f \in Live \cap known, NEW g \in Live \ Waiters({f}), ResolveWithFuture(f, g), phase # "ready"
  PROVE  IInv'
<1>0. TypeOK
  BY DEF IInv
<1>3. PICK j : j = Adoption(f, g)
  OBVIOUS
<1>4. known' = known
  BY <1>3, ResolveWithFutureViews
<1>5. f \in Future /\ j \in Job /\ j.next = f /\ j.from = g
  BY <1>0, <1>3, StoreFacts DEF Adoption, Job, Value
<1>7. f \in OpenNow
  BY <1>3, ResolveWithFutureViews
<1>9. queue' = Append(queue, j) /\ (phase' = "ready" => queue' = <<>>)
  BY <1>3, ResolveWithFutureViews
<1>12. /\ TypeOK' /\ Marks(Store, 0)' /\ SavedInv' /\ DiskInv' /\ MemInv'
       /\ \A h \in Future : h # f => SameView(h)
  BY <1>3, ResolveWithFutureViews
<1>13. View(f)' = View(f) /\ ~ViewRoot(f)' /\ \A t \in Type : ViewReactions(f, t)' = ViewReactions(f, t)
  BY <1>3, ResolveWithFutureViews
<1>14. PendingNow' = PendingNow
  <2>1. \A h \in Future : View(h)' = View(h)
    BY <1>12, <1>13 DEF SameView
  <2> QED BY <2>1 DEF PendingNow
<1>15. OpenNow' = OpenNow \ {f}
  <2>1. \A h \in Future : h # f => ViewRoot(h)' = ViewRoot(h)
    BY <1>12 DEF SameView
  <2> QED BY <2>1, <1>4, <1>13, <1>14 DEF OpenNow, PendingNow
<1>16. NowInv'
  <2>1. Sound(PendingNow, OpenNow, ListsNow, queue) /\ queue \in Seq(Job)
    BY <1>0 DEF IInv, NowInv, TypeOK
  <2>2. PICK L, M : L = ListsNow /\ M = ListsNow'
    OBVIOUS
  <2>3. PICK W : W = Waiters({f})
    OBVIOUS
  <2>4. /\ {f} \subseteq W /\ \A h \in W : ToSet(ViewReactions(h, "Fulfilled")) \subseteq W
        /\ \A i \in DOMAIN queue : queue[i].from \in W => queue[i].next \in W
    <3>1. {f} \in SUBSET Future
      BY <1>5
    <3> QED BY <3>1, <2>3, <1>0, WaitersClosed
  <2>5. \A h \in W : ToSet(L[h]) \subseteq W
    BY <2>2, <2>3, <2>4 DEF ListsNow, Waiters
  <2>6. f \in W /\ j.from \notin W
    BY <2>3, <2>4, <1>5
  <2>7. Sound(PendingNow, OpenNow \ {f}, L, Append(queue, j))
    BY <2>1, <2>2, <2>4, <2>5, <2>6, <1>5, <1>7, SoundLock
  <2>8. \A h \in PendingNow : M[h] = L[h]
    BY <2>2, <1>12, <1>13 DEF ListsNow, SameView, Type, PendingNow
  <2>9. Sound(PendingNow, OpenNow \ {f}, M, queue')
    BY <2>7, <2>8, <1>9, SoundSame
  <2>10. \A h \in PendingNow' : ViewReactions(h, "Rejected")' = ViewReactions(h, "Fulfilled")'
    <3>1. \A h \in PendingNow : h \in Future /\ ViewReactions(h, "Rejected") = ViewReactions(h, "Fulfilled")
      BY DEF IInv, NowInv, PendingNow
    <3> QED BY <3>1, <1>12, <1>13, <1>14 DEF SameView, Type
  <2> QED BY <2>2, <2>9, <2>10, <1>9, <1>14, <1>15 DEF NowInv
<1> QED BY <1>12, <1>16 DEF IInv

LEMMA CallFlushStep ==
  ASSUME IInv, CallFlush
  PROVE  IInv'
<1>0. TypeOK
  BY DEF IInv
<1>1. /\ created' = created /\ known' = known /\ disk' = disk /\ mem' = mem /\ queue' = queue
      /\ pendingWrites' = pendingWrites
      /\ phase' \in {"idle", "awaiting", "ready"} /\ (phase' = "ready" => queue = <<>>)
  BY DEF CallFlush, store
<1>2. TypeOK'
  BY <1>0, <1>1 DEF TypeOK
<1>3. Store' = Store
  BY <1>1 DEF Store
<1>4. Marks(Store, 0)'
  BY <1>3 DEF IInv, Marks
<1>5. SavedInv' /\ DiskInv'
  <2>1. Grown
    BY <1>1 DEF Grown
  <2> QED BY <2>1, <1>1, DiskFrame
<1>6. MemInv'
  <2>1. Live' = Live
    BY <1>1 DEF Live
  <2> QED BY <2>1, <1>1 DEF IInv, MemInv
<1>7. NowInv'
  <2>1. \A f \in Future : SameView(f)
    BY <1>1, SameViews
  <2> QED BY <2>1, <1>1, NowSame
<1> QED BY <1>2, <1>4, <1>5, <1>6, <1>7 DEF IInv

----------------------------------------------------------------------------
(* The engine runs a job.                                                  *)

LEMMA HeadFacts ==
  ASSUME IInv, queue # <<>>
  PROVE  /\ Head(queue) \in Job /\ Tail(queue) \in Seq(Job) /\ queue \in Seq(Job)
         /\ Head(queue).next \in Live /\ Head(queue).from \in Live
         /\ Head(queue).value \in Future => Head(queue).value \in Live
         /\ mem[Head(queue).next].state = "Pending"
         /\ \E i \in DOMAIN queue : queue[i].next = Head(queue).next
         /\ \A i \in DOMAIN Tail(queue) : \E k \in DOMAIN queue : Tail(queue)[i] = queue[k]
<1>1. queue \in Seq(Job)
  BY DEF IInv, TypeOK
<1>2. PICK j : j = Head(queue)
  OBVIOUS
<1>3. PICK u : u = Tail(queue)
  OBVIOUS
<1>4. /\ u \in Seq(Job) /\ 1 \in DOMAIN queue /\ queue[1] = j /\ j \in Job
      /\ \A i \in DOMAIN u : \E k \in DOMAIN queue : u[i] = queue[k]
  BY <1>1, <1>2, <1>3, QueueTail
<1>5. j.next \in Live /\ j.from \in Live /\ (j.value \in Future => j.value \in Live)
  BY <1>4 DEF IInv, MemInv
<1>6. j.next \in PendingNow
  <2>1. Once(PendingNow, OpenNow, ListsNow, queue)
    BY DEF IInv, NowInv, Sound
  <2> QED BY <2>1, <1>4 DEF Once
<1>7. mem[j.next].state = "Pending"
  BY <1>5, <1>6 DEF PendingNow, View
<1> QED BY <1>1, <1>2, <1>3, <1>4, <1>5, <1>7

LEMMA RunSettle ==
  ASSUME IInv, RunJob, Head(queue).type # "adopt", NoSelfHolding', phase # "ready"
  PROVE  IInv'
<1>1. PICK j : j = Head(queue)
  OBVIOUS
<1>2. queue # <<>> /\ created' = created /\ known' = known /\ disk' = disk
  BY DEF RunJob
<1>3. PICK t, v : t = j.type /\ v = j.value
  OBVIOUS
<1>4. Settle(j.next, t, v, Tail(queue))
  BY <1>1, <1>3 DEF RunJob
<1>5. /\ j \in Job /\ j.next \in Live /\ (v \in Future => v \in Live) /\ mem[j.next].state = "Pending"
      /\ Tail(queue) \in Seq(Job) /\ queue \in Seq(Job) /\ \E i \in DOMAIN queue : queue[i].next = j.next
  BY <1>1, <1>2, <1>3, HeadFacts
<1>6. t \in Type /\ v \in Value
  BY <1>1, <1>3, <1>5 DEF Job
<1>7. Leaves(queue, Tail(queue), j.next)
  <2>1. Sound(PendingNow, OpenNow, ListsNow, queue)
    BY DEF IInv, NowInv
  <2> QED BY <2>1, <1>1, <1>2, <1>5, LeavesTail
<1> QED BY <1>2, <1>4, <1>5, <1>6, <1>7, SettleStep

\* The first job has n take over what f comes to.
HeadIs(f, n) == f = Head(queue).from /\ n = Head(queue).next

LEMMA RunAdoptViews ==
  ASSUME IInv, RunJob, Head(queue).type = "adopt", mem[Head(queue).from].state = "Pending", phase # "ready",
         NEW f, NEW n, HeadIs(f, n)
  PROVE  /\ queue # <<>> /\ created' = created /\ known' = known /\ disk' = disk
         /\ f \in Live /\ f \in Future /\ n \in Future /\ f \in PendingNow
         /\ queue \in Seq(Job) /\ queue' = Tail(queue) /\ (phase' = "ready" => queue' = <<>>)
         /\ TypeOK' /\ Marks(Store, 0)' /\ SavedInv' /\ DiskInv' /\ MemInv' /\ Live \subseteq Live'
         /\ View(f)' = View(f) /\ ViewRoot(f)' = ViewRoot(f)
         /\ \A t \in Type : ViewReactions(f, t)' = Append(ViewReactions(f, t), n)
         /\ \A h \in Future : h # f => SameView(h)
<1>0. TypeOK
  BY DEF IInv
<1>1. PICK j : j = Head(queue)
  OBVIOUS
<1>2. f = j.from /\ n = j.next
  BY <1>1 DEF HeadIs
<1>3. PICK r : r = PushReactions(Store, f, n)
  OBVIOUS
<1>4. /\ queue # <<>> /\ created' = created /\ known' = known /\ disk' = disk
      /\ SetStore(r) /\ Enqueue(Tail(queue), <<>>)
  BY <1>1, <1>2, <1>3 DEF RunJob
<1>5. /\ j \in Job /\ f \in Live /\ n \in Live /\ Tail(queue) \in Seq(Job) /\ queue \in Seq(Job)
      /\ \A i \in DOMAIN Tail(queue) : \E k \in DOMAIN queue : Tail(queue)[i] = queue[k]
  BY <1>1, <1>2, <1>4, HeadFacts
<1>6. f \in Future /\ n \in Future /\ mem[f] \in FutureDB /\ mem[f].state = "Pending"
  BY <1>0, <1>1, <1>2, <1>5, StoreFacts
<1>7. /\ phase' \in {"idle", "awaiting", "ready"} /\ queue' = Tail(queue) /\ queue' \in Seq(Job)
      /\ phase' = "ready" => queue' = <<>>
  <2>1. <<>> \in Seq(Job)
    OBVIOUS
  <2>2. /\ phase' \in {"idle", "awaiting", "ready"} /\ queue' = Tail(queue) \o <<>> /\ queue' \in Seq(Job)
        /\ phase' = "ready" => queue' = <<>>
    BY <2>1, <1>0, <1>4, <1>5, EnqueueFacts
  <2>3. Tail(queue) \o <<>> = Tail(queue)
    BY <1>5
  <2> QED BY <2>2, <2>3
<1>8. Store \in StoreType /\ Marks(Store, 0) /\ Store.mem = mem
  BY <1>0, StoreFacts DEF IInv
<1>9. PICK p : Put(Store, r, f, p, 0) /\ Pushed(p, mem[f], n)
  BY <1>3, <1>6, <1>8, PutPushed
<1>10. ObjectOk(f, p, disk, known) /\ Refers(p) \subseteq Live /\ p.value = mem[f].value /\ p \in FutureDB
  <2>1. ObjectOk(f, mem[f], disk, known) /\ Refers(mem[f]) \subseteq Live
    BY <1>5 DEF IInv, MemInv
  <2>2. PICK m, d, k : m = mem[f] /\ d = disk /\ k = known
    OBVIOUS
  <2>3. ObjectOk(f, m, d, k) /\ m \in FutureDB /\ Pushed(p, m, n)
    BY <2>1, <2>2, <1>6, <1>9
  <2>4. ObjectOk(f, p, d, k) /\ Refers(p) \subseteq Refers(m) \cup {n} /\ p.value = m.value
    <3>1. n \in Future /\ m \in FutureDB /\ Pushed(p, m, n) /\ ObjectOk(f, m, d, k)
      BY <2>3, <1>6
    <3> QED BY <3>1, PushedObject
  <2> QED BY <2>1, <2>2, <2>4, <1>5, <1>9 DEF Pushed
<1>11. QueueOk' /\ Live \subseteq Live'
  <2>1. r.mem[f] = p /\ \A h \in Future : h # f => r.mem[h] = mem[h]
    BY <1>6, <1>8, <1>9, PutMem
  <2>2. mem' = r.mem /\ p # Absent
    BY <1>4, <1>10, AbsentIsNone DEF SetStore
  <2>3. Live \subseteq Live'
    BY <2>1, <2>2 DEF Live
  <2>4. PICK q : q = queue'
    OBVIOUS
  <2>5. ASSUME NEW i \in DOMAIN q
        PROVE  q[i].next \in Live' /\ q[i].from \in Live' /\ (q[i].value \in Future => q[i].value \in Live')
    <3>1. PICK k \in DOMAIN queue : q[i] = queue[k]
      BY <2>4, <1>5, <1>7
    <3> QED BY <3>1, <2>3 DEF IInv, MemInv
  <2> QED BY <2>3, <2>4, <2>5 DEF QueueOk
<1>12. /\ TypeOK' /\ Marks(Store, 0)' /\ SavedInv' /\ DiskInv' /\ MemInv'
       /\ mem'[f] = p /\ f \in Live' /\ \A h \in Future : h # f => SameView(h)
  BY <1>4, <1>5, <1>7, <1>9, <1>10, <1>11, OneObject
<1>13. /\ View(f)' = View(f) /\ ViewRoot(f)' = ViewRoot(f)
       /\ \A t \in Type : ViewReactions(f, t)' = Append(ViewReactions(f, t), n)
  BY <1>0, <1>4, <1>5, <1>6, <1>9, <1>12, PushedViews
<1>14. f \in PendingNow
  BY <1>5, <1>6 DEF PendingNow, View
<1> QED BY <1>4, <1>5, <1>6, <1>7, <1>11, <1>12, <1>13, <1>14

LEMMA RunAdopt ==
  ASSUME IInv, RunJob, Head(queue).type = "adopt", mem[Head(queue).from].state = "Pending", phase # "ready"
  PROVE  IInv'
<1>0. TypeOK
  BY DEF IInv
<1>1. PICK j : j = Head(queue)
  OBVIOUS
<1>2. PICK f, n : f = j.from /\ n = j.next
  OBVIOUS
<1>3. HeadIs(f, n)
  BY <1>1, <1>2 DEF HeadIs
<1>4. queue # <<>> /\ known' = known
  BY <1>3, RunAdoptViews
<1>5. queue \in Seq(Job)
  BY <1>3, RunAdoptViews
<1>6. f \in Future /\ n \in Future
  BY <1>3, RunAdoptViews
<1>7. queue' = Tail(queue) /\ (phase' = "ready" => queue' = <<>>)
  BY <1>3, RunAdoptViews
<1>12. /\ TypeOK' /\ Marks(Store, 0)' /\ SavedInv' /\ DiskInv' /\ MemInv'
       /\ \A h \in Future : h # f => SameView(h)
  BY <1>3, RunAdoptViews
<1>13. /\ View(f)' = View(f) /\ ViewRoot(f)' = ViewRoot(f)
       /\ \A t \in Type : ViewReactions(f, t)' = Append(ViewReactions(f, t), n)
  BY <1>3, RunAdoptViews
<1>16. f \in PendingNow
  BY <1>3, RunAdoptViews
<1>14. PendingNow' = PendingNow
  <2>1. \A h \in Future : View(h)' = View(h)
    BY <1>12, <1>13 DEF SameView
  <2> QED BY <2>1 DEF PendingNow
<1>15. OpenNow' = OpenNow
  <2>1. \A h \in Future : ViewRoot(h)' = ViewRoot(h)
    BY <1>12, <1>13 DEF SameView
  <2> QED BY <2>1, <1>4, <1>14 DEF OpenNow, PendingNow
<1>17. NowInv'
  <2>1. Sound(PendingNow, OpenNow, ListsNow, queue)
    BY DEF IInv, NowInv
  <2>2. PICK L, M : L = ListsNow /\ M = ListsNow'
    OBVIOUS
  <2>3. L[f] = ViewReactions(f, "Fulfilled") /\ L[f] \in Seq(Future) /\ M[f] = ViewReactions(f, "Fulfilled")'
    BY <2>2, <1>0, <1>6, ViewTypes DEF ListsNow, Type
  <2>4. M[f] = Append(L[f], n)
    BY <2>3, <1>13 DEF Type
  <2>5. \A g \in PendingNow \ {f} : M[g] = L[g]
    BY <2>2, <1>12 DEF ListsNow, SameView, Type, PendingNow
  <2>6. /\ Head(queue).from = f /\ Head(queue).type = "adopt" /\ Head(queue).next \in Future
        /\ M[f] = Append(L[f], Head(queue).next) /\ Sound(PendingNow, OpenNow, L, queue)
    BY <2>1, <2>2, <2>4, <1>1, <1>2, <1>6
  <2>7. Sound(PendingNow, OpenNow, M, Tail(queue))
    <3>1. queue \in Seq(Job) /\ queue # <<>> /\ L[f] \in Seq(Future)
      BY <2>3, <1>4, <1>5
    <3> QED BY <3>1, <2>5, <2>6, <1>16, SoundAdopt, Zenon
  <2>8. \A g \in PendingNow' : ViewReactions(g, "Rejected")' = ViewReactions(g, "Fulfilled")'
    <3>1. \A g \in PendingNow : g \in Future /\ ViewReactions(g, "Rejected") = ViewReactions(g, "Fulfilled")
      BY DEF IInv, NowInv, PendingNow
    <3> QED BY <3>1, <1>12, <1>13, <1>14 DEF SameView, Type
  <2> QED BY <2>2, <2>7, <2>8, <1>7, <1>14, <1>15 DEF NowInv
<1> QED BY <1>12, <1>17 DEF IInv

LEMMA RunAdopted ==
  ASSUME IInv, RunJob, Head(queue).type = "adopt", mem[Head(queue).from].state # "Pending", phase # "ready"
  PROVE  IInv'
<1>0. TypeOK
  BY DEF IInv
<1>1. PICK x : x = Head(queue)
  OBVIOUS
<1>2. PICK f, n : f = x.from /\ n = x.next
  OBVIOUS
<1>3. PICK j : j = Forward(n, mem[f].state, mem[f].value)
  OBVIOUS
<1>4. /\ queue # <<>> /\ created' = created /\ known' = known /\ disk' = disk /\ mem' = mem
      /\ pendingWrites' = pendingWrites /\ Enqueue(Tail(queue), <<j>>)
  BY <1>1, <1>2, <1>3 DEF RunJob, store
<1>5. /\ x \in Job /\ f \in Live /\ n \in Live /\ Tail(queue) \in Seq(Job) /\ queue \in Seq(Job)
      /\ \A i \in DOMAIN Tail(queue) : \E k \in DOMAIN queue : Tail(queue)[i] = queue[k]
  BY <1>1, <1>2, <1>4, HeadFacts
<1>6. j \in Job /\ j.next = n /\ j.from = n /\ j.value = mem[f].value /\ j.type # "adopt"
  <2>1. mem[f] \in FutureDB /\ n \in Future
    BY <1>0, <1>5, StoreFacts
  <2>2. mem[f].state \in Type /\ mem[f].value \in Value
    BY <2>1, <1>1, <1>2 DEF FutureDB
  <2> QED BY <2>1, <2>2, <1>3, ForwardFacts
<1>7. /\ phase' \in {"idle", "awaiting", "ready"} /\ queue' = Append(Tail(queue), j) /\ queue' \in Seq(Job)
      /\ phase' = "ready" => queue' = <<>>
  BY <1>0, <1>4, <1>5, <1>6, EnqueueOne
<1>8. TypeOK' /\ Store' = Store /\ Live' = Live
  BY <1>0, <1>4, <1>7 DEF TypeOK, Store, Live
<1>9. Marks(Store, 0)'
  BY <1>8 DEF IInv, Marks
<1>10. Grown
  BY <1>4 DEF Grown
<1>11. SavedInv' /\ DiskInv'
  BY <1>4, <1>10, DiskFrame
<1>12. MemInv'
  <2>1. mem[f].value \in Future => mem[f].value \in Live
    BY <1>5 DEF IInv, MemInv, Refers
  <2>2. QueueOk'
    BY <2>1, <1>5, <1>6, <1>7, <1>8, QueueMore
  <2>3. Renewed({})
    BY <1>4, <1>8 DEF Renewed
  <2> QED BY <2>2, <2>3, <1>4, <1>10, MemFrame
<1>13. \A h \in Future : SameView(h)
  BY <1>4, SameViews
<1>14. PendingNow' = PendingNow
  <2>1. \A h \in Future : View(h)' = View(h)
    BY <1>13 DEF SameView
  <2> QED BY <2>1 DEF PendingNow
<1>15. OpenNow' = OpenNow
  <2>1. \A h \in Future : ViewRoot(h)' = ViewRoot(h)
    BY <1>13 DEF SameView
  <2> QED BY <2>1, <1>4, <1>14 DEF OpenNow, PendingNow
<1>16. NowInv'
  <2>1. PICK L, M : L = ListsNow /\ M = ListsNow'
    OBVIOUS
  <2>2. Sound(PendingNow, OpenNow, L, queue) /\ j.next = Head(queue).next
    BY <2>1, <1>1, <1>2, <1>6 DEF IInv, NowInv
  <2>3. Sound(PendingNow, OpenNow, L, Append(Tail(queue), j))
    BY <2>2, <1>4, <1>5, <1>6, SoundAdopted
  <2>4. \A h \in PendingNow : M[h] = L[h]
    BY <2>1, <1>13 DEF ListsNow, SameView, Type, PendingNow
  <2>5. Sound(PendingNow, OpenNow, M, queue')
    BY <2>3, <2>4, <1>7, SoundSame
  <2>6. \A h \in PendingNow' : ViewReactions(h, "Rejected")' = ViewReactions(h, "Fulfilled")'
    <3>1. \A h \in PendingNow : h \in Future /\ ViewReactions(h, "Rejected") = ViewReactions(h, "Fulfilled")
      BY DEF IInv, NowInv, PendingNow
    <3> QED BY <3>1, <1>13, <1>14 DEF SameView, Type
  <2> QED BY <2>1, <2>5, <2>6, <1>7, <1>14, <1>15 DEF NowInv
<1> QED BY <1>8, <1>9, <1>11, <1>12, <1>16 DEF IInv

----------------------------------------------------------------------------
(* A crash, an eviction.                                                   *)

\* What a crash leaves of the Futures: what the tables have of them.
LEMMA CrashViews ==
  ASSUME IInv, Crash
  PROVE  /\ created' = created /\ known' = known /\ disk' = disk /\ queue' = <<>> /\ Live' = {}
         /\ PendingNow' = PendingSaved /\ OpenNow' = OpenSaved
         /\ \A f \in Future : View(f)' = disk.rows[f].state /\ \A t \in Type : ViewReactions(f, t)' = disk.rx[t][f]
<1>1. /\ created' = created /\ known' = known /\ disk' = disk /\ queue' = <<>> /\ pendingWrites' = <<>> /\ phase' = "idle"
      /\ mem' \in [Future -> FutureDB \cup {Absent}] /\ \A f \in Future : mem'[f] = Absent
  BY DEF Crash
<1>2. Live' = {}
  BY <1>1 DEF Live
<1>3. \A f \in Future : /\ View(f)' = disk.rows[f].state
                        /\ ViewRoot(f)' = (f \in Stored(disk) /\ disk.rows[f].root)
                        /\ \A t \in Type : ViewReactions(f, t)' = disk.rx[t][f]
  BY <1>1, <1>2 DEF View, ViewRoot, ViewReactions, Stored
<1>4. PendingNow' = PendingSaved
  BY <1>3 DEF PendingNow, PendingSaved, Stored, NoRow
<1>5. OpenNow' = OpenSaved
  <2>1. \A f \in PendingSaved : f \in Future /\ f \in Stored(disk)
    BY DEF PendingSaved, Stored
  <2> QED BY <2>1, <1>1, <1>3, <1>4 DEF OpenNow, OpenSaved
<1> QED BY <1>1, <1>2, <1>3, <1>4, <1>5

LEMMA CrashStep ==
  ASSUME IInv, Crash
  PROVE  IInv'
<1>0. TypeOK
  BY DEF IInv
<1>1. /\ created' = created /\ known' = known /\ disk' = disk /\ queue' = <<>> /\ pendingWrites' = <<>> /\ phase' = "idle"
      /\ mem' \in [Future -> FutureDB \cup {Absent}] /\ \A f \in Future : mem'[f] = Absent
  BY DEF Crash
<1>2. TypeOK'
  <2>1. <<>> \in Seq(Write) /\ <<>> \in Seq(Job)
    OBVIOUS
  <2> QED BY <2>1, <1>0, <1>1 DEF TypeOK
<1>3. Live' = {}
  BY <1>1 DEF Live
<1>4. Marks(Store, 0)'
  <2>1. PICK s : s = Store'
    OBVIOUS
  <2>2. s.pending = <<>> /\ \A f \in Future : s.mem[f] = Absent
    BY <2>1, <1>1 DEF Store
  <2>3. \A w \in Write : ~IsDirty(s.mem, w)
    BY <2>2 DEF IsDirty, Write
  <2>4. Marks(s, 0)
    BY <2>2, <2>3 DEF Marks
  <2> QED BY <2>1, <2>4 DEF Marks
<1>5. SavedInv' /\ DiskInv'
  <2>1. Grown
    BY <1>1 DEF Grown
  <2> QED BY <2>1, <1>1, DiskFrame
<1>6. MemInv'
  BY <1>1, <1>3 DEF MemInv
<1>7. /\ PendingNow' = PendingSaved /\ OpenNow' = OpenSaved
      /\ \A f \in Future, t \in Type : ViewReactions(f, t)' = disk.rx[t][f]
  BY CrashViews
<1>8. NowInv'
  <2>1. PICK M : M = ListsNow'
    OBVIOUS
  <2>2. \A f \in PendingSaved : f \in Future /\ M[f] = disk.rx["Fulfilled"][f]
    BY <2>1, <1>7 DEF ListsNow, PendingSaved, Stored, Type
  <2>3. PICK L : L = disk.rx["Fulfilled"]
    OBVIOUS
  <2>4. Sound(PendingSaved, OpenSaved, L, <<>>) /\ \A f \in PendingSaved : M[f] = L[f]
    BY <2>2, <2>3 DEF IInv, SavedInv
  <2>5. Sound(PendingSaved, OpenSaved, M, <<>>)
    BY <2>4, SoundSame
  <2>6. \A f \in PendingNow' : ViewReactions(f, "Rejected")' = ViewReactions(f, "Fulfilled")'
    BY <2>2, <1>7 DEF IInv, SavedInv, Type
  <2> QED BY <2>1, <2>5, <2>6, <1>1, <1>7 DEF NowInv
<1> QED BY <1>2, <1>4, <1>5, <1>6, <1>8 DEF IInv

\* An object that nothing keeps alive holds nothing that its row does not hold.
LEMMA EvictedFacts ==
  ASSUME IInv, NEW f \in Live, ~Retained(f)
  PROVE  /\ ~mem[f].dirty /\ \A t \in Type : ~mem[f].rx[t].dirty
         /\ mem[f].state = "Pending" => f \in Stored(disk)
         /\ f \in Stored(disk) => disk.rows[f] = RowOf(mem[f])
         /\ mem[f].state = "Pending" => \A t \in Type : ViewReactions(f, t) = disk.rx[t][f]
<1>0. TypeOK
  BY DEF IInv
<1>1. f \in Future /\ mem[f] \in FutureDB /\ mem[f] # Absent
  BY <1>0, StoreFacts DEF Live
<1>2. \A w \in Write : w[1] = f => ~IsDirty(mem, w)
  <2>1. Marks(Store, 0) /\ Store.mem = mem /\ Store.pending = pendingWrites
    BY <1>0, StoreFacts DEF IInv
  <2>2. \A i \in DOMAIN pendingWrites : pendingWrites[i][1] # f
    BY DEF Retained
  <2> QED BY <2>1, <2>2 DEF Marks
<1>3. ~mem[f].dirty
  <2>1. <<f, "future">> \in Write
    BY <1>1 DEF Write
  <2> QED BY <2>1, <1>1, <1>2 DEF IsDirty
<1>4. ASSUME NEW t \in Type PROVE ~mem[f].rx[t].dirty
  <2>1. <<f, t>> \in Write /\ t # "future"
    BY <1>1 DEF Write, Type
  <2>2. ~IsDirty(mem, <<f, t>>)
    BY <2>1, <1>2
  <2> QED BY <2>1, <2>2, <1>1 DEF IsDirty
<1>5. ObjectOk(f, mem[f], disk, known)
  BY DEF IInv, MemInv
<1>6. ASSUME mem[f].state = "Pending", ~mem[f].inDatabase PROVE FALSE
  <2>1. f \in PendingNow /\ f \notin known /\ f \notin Stored(disk)
    BY <1>1, <1>3, <1>5, <1>6 DEF PendingNow, View, ObjectOk
  <2>2. Grounded(PendingNow, OpenNow, ListsNow, queue)
    BY DEF IInv, NowInv, Sound
  <2>3. {f} \in SUBSET PendingNow /\ {f} # {}
    BY <2>1
  <2>4. SettledFrom(f, {f}, PendingNow, OpenNow, ListsNow, queue)
    BY <2>2, <2>3 DEF Grounded
  <2>5. f \notin OpenNow
    BY <2>1 DEF OpenNow
  <2>6. ~\E i \in DOMAIN queue : queue[i].next = f
    BY DEF Retained
  <2>7. PICK g \in PendingNow \ {f} : f \in ToSet(ListsNow[g])
    BY <2>4, <2>5, <2>6 DEF SettledFrom
  <2>8. g \in Future /\ f \in ToSet(ViewReactions(g, "Fulfilled"))
    BY <2>7 DEF ListsNow, PendingNow
  <2>9. f \notin ToSet(disk.rx["Fulfilled"][g])
    BY <2>1, <2>8 DEF IInv, DiskInv, Type
  <2>10. g \in Live
    BY <2>8, <2>9 DEF ViewReactions
  <2>11. PICK x : x = mem[g].rx["Fulfilled"]
    OBVIOUS
  <2>12. x.written \in Seq(Future) /\ x.unwritten \in Seq(Future) /\ disk.rx["Fulfilled"][g] \in Seq(Future)
    <3>1. mem[g] \in FutureDB
      BY <2>10, <1>0, StoreFacts
    <3>2. x \in Reactions
      BY <3>1, <2>11 DEF FutureDB, Type
    <3>3. disk.rx["Fulfilled"][g] \in Seq(Future)
      BY <2>8, <1>0 DEF TypeOK, Tables, Type
    <3> QED BY <3>2, <3>3 DEF Reactions
  <2>13. f \notin ToSet(x.written \o x.unwritten)
    BY <2>7, <2>10, <2>11 DEF Retained, Type
  <2>14. f \notin ToSet(x.written) /\ f \notin ToSet(x.unwritten)
    BY <2>12, <2>13, ToSetConcat
  <2>15. PICK u : u = IF x.read THEN x.written ELSE disk.rx["Fulfilled"][g]
    OBVIOUS
  <2>16. u \in Seq(Future) /\ f \notin ToSet(u)
    BY <2>9, <2>12, <2>14, <2>15
  <2>17. f \notin ToSet(u \o x.unwritten)
    BY <2>12, <2>14, <2>16, ToSetConcat
  <2>18. ViewReactions(g, "Fulfilled") = u \o x.unwritten
    BY <2>10, <2>11, <2>15 DEF ViewReactions, Popped
  <2> QED BY <2>8, <2>17, <2>18
<1>7. mem[f].state = "Pending" => f \in Stored(disk)
  BY <1>5, <1>6 DEF ObjectOk
<1>8. f \in Stored(disk) => disk.rows[f] = RowOf(mem[f])
  BY <1>3, <1>5 DEF ObjectOk
<1>9. ASSUME mem[f].state = "Pending", NEW t \in Type PROVE ViewReactions(f, t) = disk.rx[t][f]
  <2>1. PICK x : x = mem[f].rx[t]
    OBVIOUS
  <2>2. PICK l : l = disk.rx[t][f] /\ l \in Seq(Future)
    BY <1>0, <1>1 DEF TypeOK, Tables
  <2>3. ListOk(f, mem[f].state, x, l, disk)
    BY <2>1, <2>2, <1>5 DEF ObjectOk
  <2>4. x.unwritten \in Seq(Future)
    <3>1. x \in Reactions
      BY <2>1, <1>1 DEF FutureDB
    <3> QED BY <3>1 DEF Reactions
  <2>5. x.unwritten = <<>> /\ (x.read => x.written = l)
    BY <2>1, <2>3, <1>4, <1>9 DEF ListOk
  <2>6. ViewReactions(f, t) = l \o x.unwritten
    BY <2>1, <2>2, <2>5 DEF ViewReactions, Popped
  <2>7. l \o x.unwritten = l
    BY <2>2, <2>5
  <2> QED BY <2>2, <2>6, <2>7
<1> QED BY <1>3, <1>4, <1>7, <1>8, <1>9

\* What keeps no object alive is referred to by none.
LEMMA NotReferred ==
  ASSUME IInv, NEW f \in Live, ~Retained(f), NEW g \in Live \ {f}
  PROVE  f \notin Refers(mem[g])
<1>1. mem[g] \in FutureDB
  BY StoreFacts DEF IInv
<1>2. mem[g].value # f
  BY DEF Retained
<1>3. ASSUME NEW t \in Type PROVE f \notin ToSet(mem[g].rx[t].written) \cup ToSet(mem[g].rx[t].unwritten)
  <2>1. PICK x : x = mem[g].rx[t]
    OBVIOUS
  <2>2. x \in Reactions
    BY <1>1, <2>1 DEF FutureDB
  <2>3. x.written \in Seq(Future) /\ x.unwritten \in Seq(Future)
    BY <2>2 DEF Reactions
  <2>4. f \notin ToSet(x.written \o x.unwritten)
    BY <2>1 DEF Retained
  <2> QED BY <2>1, <2>3, <2>4, ToSetConcat
<1> QED BY <1>2, <1>3 DEF Refers

\* What an eviction leaves of the Futures as the session sees them.
LEMMA EvictViews ==
  ASSUME IInv, NEW f \in Future, Evict(f)
  PROVE  /\ f \in Live /\ ~Retained(f)
         /\ created' = created /\ known' = known /\ disk' = disk /\ queue' = queue
         /\ PendingNow' = PendingNow /\ OpenNow' = OpenNow
         /\ \A g \in PendingNow, t \in Type : ViewReactions(g, t)' = ViewReactions(g, t)
         /\ \A g \in Future : g # f => SameView(g)
         /\ f \in Stored(disk) => View(f)' = View(f)
         /\ f \notin Stored(disk) => View(f)' = "none" /\ View(f) \in Type
<1>0. TypeOK
  BY DEF IInv
<1>1. /\ f \in Live /\ ~Retained(f)
      /\ created' = created /\ known' = known /\ disk' = disk /\ queue' = queue /\ phase' = phase
      /\ pendingWrites' = pendingWrites /\ mem' = [mem EXCEPT ![f] = Absent]
  BY DEF Evict
<1>2. /\ mem' \in [Future -> FutureDB \cup {Absent}] /\ mem'[f] = Absent
      /\ \A g \in Future : g # f => mem'[g] = mem[g]
  BY <1>0, <1>1 DEF TypeOK
<1>3. Live' = Live \ {f}
  BY <1>2 DEF Live
<1>4. /\ ~mem[f].dirty /\ \A t \in Type : ~mem[f].rx[t].dirty
      /\ mem[f].state = "Pending" => f \in Stored(disk)
      /\ f \in Stored(disk) => disk.rows[f] = RowOf(mem[f])
      /\ mem[f].state = "Pending" => \A t \in Type : ViewReactions(f, t) = disk.rx[t][f]
  BY <1>1, EvictedFacts
<1>5. \A g \in Future : g # f => SameView(g)
  BY <1>1, <1>2, SameViews
<1>6. /\ View(f) = mem[f].state /\ View(f)' = disk.rows[f].state
       /\ ViewRoot(f)' = (f \in Stored(disk) /\ disk.rows[f].root) /\ ViewRoot(f) = mem[f].root
       /\ \A t \in Type : ViewReactions(f, t)' = disk.rx[t][f]
  BY <1>1, <1>3 DEF View, ViewRoot, ViewReactions
<1>7. View(f)' = "Pending" <=> View(f) = "Pending"
  <2>1. CASE f \in Stored(disk)
    BY <2>1, <1>4, <1>6 DEF RowOf
  <2>2. CASE f \notin Stored(disk)
    BY <2>2, <1>4, <1>6 DEF Stored, NoRow
  <2> QED BY <2>1, <2>2
<1>8. PendingNow' = PendingNow
  <2>1. \A g \in Future : g # f => View(g)' = View(g)
    BY <1>5 DEF SameView
  <2> QED BY <2>1, <1>7 DEF PendingNow
<1>9. OpenNow' = OpenNow
  <2>1. \A g \in Future : g # f => ViewRoot(g)' = ViewRoot(g)
    BY <1>5 DEF SameView
  <2>2. f \in PendingNow => (ViewRoot(f)' <=> ViewRoot(f))
    <3>1. f \in PendingNow => f \in Stored(disk) /\ disk.rows[f].root = mem[f].root
      BY <1>4, <1>6 DEF RowOf, PendingNow
    <3>2. PICK a, b : a = ViewRoot(f)' /\ b = ViewRoot(f)
      OBVIOUS
    <3>3. a = (f \in Stored(disk) /\ disk.rows[f].root) /\ b = mem[f].root
      BY <3>2, <1>6
    <3>4. f \in PendingNow => (a <=> b)
      BY <3>1, <3>3
    <3> QED BY <3>2, <3>4
  <2> QED BY <2>1, <2>2, <1>1, <1>8 DEF OpenNow, PendingNow
<1>10. \A g \in PendingNow : g \in Future /\ \A t \in Type : ViewReactions(g, t)' = ViewReactions(g, t)
  <2>1. f \in PendingNow => \A t \in Type : ViewReactions(f, t)' = ViewReactions(f, t)
    BY <1>4, <1>6 DEF PendingNow
  <2> QED BY <2>1, <1>5 DEF SameView, PendingNow
<1>11. f \in Stored(disk) => View(f)' = View(f)
  BY <1>4, <1>6 DEF RowOf
<1>12. f \notin Stored(disk) => View(f)' = "none" /\ View(f) \in Type
  <2>1. mem[f] \in FutureDB
    BY <1>0, <1>1, StoreFacts
  <2>2. mem[f].state \in Type \cup {"Pending"}
    BY <2>1 DEF FutureDB
  <2> QED BY <2>2, <1>4, <1>6 DEF Stored, NoRow
<1> QED BY <1>1, <1>5, <1>8, <1>9, <1>10, <1>11, <1>12

LEMMA EvictStep ==
  ASSUME IInv, NEW f \in Future, Evict(f)
  PROVE  IInv'
<1>0. TypeOK
  BY DEF IInv
<1>1. /\ f \in Live /\ ~Retained(f)
      /\ created' = created /\ known' = known /\ disk' = disk /\ queue' = queue /\ phase' = phase
      /\ pendingWrites' = pendingWrites /\ mem' = [mem EXCEPT ![f] = Absent]
  BY DEF Evict
<1>2. /\ mem' \in [Future -> FutureDB \cup {Absent}] /\ mem'[f] = Absent
      /\ \A g \in Future : g # f => mem'[g] = mem[g]
  BY <1>0, <1>1 DEF TypeOK
<1>3. TypeOK'
  BY <1>0, <1>1, <1>2 DEF TypeOK
<1>4. Live' = Live \ {f}
  BY <1>2 DEF Live
<1>5. /\ ~mem[f].dirty /\ \A t \in Type : ~mem[f].rx[t].dirty
      /\ mem[f].state = "Pending" => f \in Stored(disk)
      /\ f \in Stored(disk) => disk.rows[f] = RowOf(mem[f])
      /\ mem[f].state = "Pending" => \A t \in Type : ViewReactions(f, t) = disk.rx[t][f]
  BY <1>1, EvictedFacts
<1>6. Marks(Store, 0)'
  <2>1. PICK s, r : s = Store /\ r = Store'
    OBVIOUS
  <2>2. s.mem = mem /\ s.pending = pendingWrites /\ r.mem = mem' /\ r.pending = pendingWrites
    BY <2>1, <1>1 DEF Store
  <2>3. ASSUME NEW w \in Write PROVE IsDirty(r.mem, w) <=> IsDirty(s.mem, w)
    <3>1. w[1] \in Future /\ (w[2] # "future" => w[2] \in Type)
      BY DEF Write
    <3>2. CASE w[1] = f
      BY <3>1, <3>2, <2>2, <1>2, <1>5 DEF IsDirty
    <3>3. CASE w[1] # f
      BY <3>1, <3>3, <2>2, <1>2 DEF IsDirty
    <3> QED BY <3>2, <3>3
  <2>4. Marks(s, 0)
    BY <2>1 DEF IInv
  <2>5. Marks(r, 0)
    BY <2>2, <2>3, <2>4 DEF Marks
  <2> QED BY <2>1, <2>5 DEF Marks
<1>7. SavedInv' /\ DiskInv'
  <2>1. Grown
    BY <1>1 DEF Grown
  <2> QED BY <2>1, <1>1, DiskFrame
<1>8. MemInv'
  <2>1. ASSUME NEW g \in Live'
        PROVE  /\ g <= created' /\ ObjectOk(g, mem'[g], disk', known')
               /\ Refers(mem'[g]) \subseteq Live' /\ mem'[g].value # g
    <3>1. g \in Live \ {f} /\ mem'[g] = mem[g]
      BY <1>2, <1>4 DEF Live
    <3>2. f \notin Refers(mem[g])
      BY <3>1, <1>1, NotReferred
    <3> QED BY <3>1, <3>2, <1>1, <1>4 DEF IInv, MemInv
  <2>2. ASSUME NEW i \in DOMAIN queue
        PROVE  queue[i].next # f /\ queue[i].from # f /\ queue[i].value # f
    BY <1>1 DEF Retained
  <2> QED BY <2>1, <2>2, <1>1, <1>4 DEF IInv, MemInv
<1>9. /\ PendingNow' = PendingNow /\ OpenNow' = OpenNow
      /\ \A g \in PendingNow, t \in Type : ViewReactions(g, t)' = ViewReactions(g, t)
  BY EvictViews
<1>10. NowInv'
  <2>1. PICK L, M : L = ListsNow /\ M = ListsNow'
    OBVIOUS
  <2>2. \A g \in PendingNow : M[g] = L[g]
    BY <2>1, <1>9 DEF ListsNow, PendingNow, Type
  <2>3. Sound(PendingNow, OpenNow, L, queue)
    BY <2>1 DEF IInv, NowInv
  <2>4. Sound(PendingNow, OpenNow, M, queue)
    BY <2>2, <2>3, SoundSame
  <2>5. \A g \in PendingNow' : ViewReactions(g, "Rejected")' = ViewReactions(g, "Fulfilled")'
    BY <1>9 DEF IInv, NowInv, Type
  <2> QED BY <2>1, <2>4, <2>5, <1>1, <1>9 DEF NowInv, IInv
<1> QED BY <1>3, <1>6, <1>7, <1>8, <1>10 DEF IInv

----------------------------------------------------------------------------
(* A collection.                                                           *)

LEMMA ReachableClosed ==
  ASSUME TypeOK
  PROVE  Reachable \subseteq Future /\ Roots \subseteq Reachable /\ Marked(Reachable) \subseteq Reachable
<1>1. Reachable \subseteq Future /\ Roots \subseteq Reachable
  BY DEF Reachable, Roots, Stored
<1>2. ASSUME NEW x \in Marked(Reachable) PROVE x \in Reachable
  <2>1. x \in Future
    <3>1. ASSUME NEW t \in Type, NEW f \in Reachable, x \in ToSet(disk.rx[t][f]) PROVE x \in Future
      <4>1. disk.rx[t][f] \in Seq(Future)
        BY <1>1 DEF TypeOK, Tables
      <4> QED BY <4>1, <3>1, ToSetIn
    <3> QED BY <3>1, <1>1 DEF Marked
  <2>2. ASSUME NEW gs \in SUBSET Future, Roots \subseteq gs /\ Marked(gs) \subseteq gs
        PROVE  x \in gs
    <3>1. Reachable \subseteq gs
      BY <2>2 DEF Reachable
    <3>2. Marked(Reachable) \subseteq Marked(gs)
      BY <3>1 DEF Marked
    <3> QED BY <3>2, <2>2
  <2> QED BY <2>1, <2>2 DEF Reachable
<1> QED BY <1>1, <1>2

\* The marking keeps what is Pending, and what is kept refers only to what is kept.
LEMMA KeptFacts ==
  ASSUME IInv
  PROVE  /\ PendingSaved \subseteq Reachable
         /\ \A f \in Reachable, t \in Type : ToSet(disk.rx[t][f]) \subseteq Reachable
         /\ \A f \in Reachable \cap Stored(disk) :
              disk.rows[f].value \in Future => disk.rows[f].value \in Reachable
<1>0. Reachable \subseteq Future /\ Roots \subseteq Reachable /\ Marked(Reachable) \subseteq Reachable
  BY ReachableClosed DEF IInv
<1>1. ASSUME NEW f \in Reachable, NEW t \in Type PROVE ToSet(disk.rx[t][f]) \subseteq Reachable
  BY <1>0 DEF Marked
<1>2. ASSUME NEW f \in Reachable \cap Stored(disk), disk.rows[f].value \in Future
      PROVE  disk.rows[f].value \in Reachable
  <2>1. ~disk.rows[f].root
    <3>1. RowOk(f, disk.rows[f], known)
      BY DEF IInv, DiskInv
    <3> QED BY <3>1, <1>2, NoneIsNoFuture DEF RowOk
  <2> QED BY <2>1, <1>0, <1>2 DEF Marked
<1>3. ASSUME PendingSaved \ Reachable # {} PROVE FALSE
  <2>1. PICK gs : gs = PendingSaved \ Reachable
    OBVIOUS
  <2>2. Grounded(PendingSaved, OpenSaved, disk.rx["Fulfilled"], <<>>)
    BY DEF IInv, SavedInv, Sound
  <2>3. gs \in SUBSET PendingSaved /\ gs # {}
    BY <2>1, <1>3
  <2>4. PICK f \in gs : SettledFrom(f, gs, PendingSaved, OpenSaved, disk.rx["Fulfilled"], <<>>)
    BY <2>2, <2>3 DEF Grounded
  <2>5. f \notin OpenSaved
    BY <2>1, <2>4, <1>0 DEF OpenSaved, Roots, PendingSaved
  <2>6. PICK g \in PendingSaved \ gs : f \in ToSet(disk.rx["Fulfilled"][g])
    BY <2>4, <2>5 DEF SettledFrom
  <2>7. g \in Reachable
    BY <2>1, <2>6
  <2> QED BY <2>1, <2>4, <2>6, <2>7, <1>1 DEF Type
<1> QED BY <1>1, <1>2, <1>3

\* What an object that is Pending says of its row.
LEMMA PendingRowFacts ==
  ASSUME NEW f, NEW m, NEW d, NEW k, ObjectOk(f, m, d, k), m.state = "Pending", f \in Stored(d)
  PROVE  d.rows[f].state = "Pending"
BY DEF ObjectOk, RowOf

\* What a collection leaves of the Futures as the session sees them, and of their rows.
LEMMA CollectViews ==
  ASSUME IInv, Collect
  PROVE  /\ created' = created /\ known' = known /\ mem' = mem /\ queue' = queue /\ Live' = Live
         /\ PendingNow' = PendingNow /\ OpenNow' = OpenNow /\ PendingSaved' = PendingSaved /\ OpenSaved' = OpenSaved
         /\ \A f \in PendingSaved, t \in Type : disk'.rx[t][f] = disk.rx[t][f]
         /\ \A f \in Stored(disk)' : f \in Stored(disk) /\ disk'.rows[f] = disk.rows[f]
         /\ \A f \in PendingNow, t \in Type : ViewReactions(f, t)' = ViewReactions(f, t)
<1>0. TypeOK
  BY DEF IInv
<1>1. PICK kept : kept = Reachable
  OBVIOUS
<1>2. /\ created' = created /\ known' = known /\ mem' = mem /\ pendingWrites' = pendingWrites
      /\ phase' = phase /\ queue' = queue
      /\ disk' = [rows |-> [f \in Future |-> IF f \in kept THEN disk.rows[f] ELSE NoRow],
                  rx |-> [t \in Type |-> [f \in Future |-> IF f \in kept THEN disk.rx[t][f] ELSE <<>>]]]
  BY <1>1 DEF Collect, store
<1>3. PICK d : d = disk'
  OBVIOUS
<1>4. /\ \A f \in Future : d.rows[f] = IF f \in kept THEN disk.rows[f] ELSE NoRow
      /\ \A f \in Future, t \in Type : d.rx[t][f] = IF f \in kept THEN disk.rx[t][f] ELSE <<>>
  BY <1>2, <1>3
<1>5. /\ PendingSaved \subseteq kept
      /\ \A f \in kept, t \in Type : ToSet(disk.rx[t][f]) \subseteq kept
      /\ \A f \in kept \cap Stored(disk) : disk.rows[f].value \in Future => disk.rows[f].value \in kept
  BY <1>1, KeptFacts
<1>6. Stored(d) = Stored(disk) \cap kept
  BY <1>4 DEF Stored
<1>7. PendingSaved' = PendingSaved /\ OpenSaved' = OpenSaved
       /\ \A f \in PendingSaved : d.rows[f] = disk.rows[f] /\ \A t \in Type : d.rx[t][f] = disk.rx[t][f]
  <2>1. PendingSaved' = {f \in Stored(d) : d.rows[f].state = "Pending"}
    BY <1>3 DEF PendingSaved
  <2>2. \A f \in PendingSaved : f \in Future /\ f \in kept
    BY <1>5 DEF PendingSaved, Stored
  <2>3. \A f \in PendingSaved : d.rows[f] = disk.rows[f] /\ \A t \in Type : d.rx[t][f] = disk.rx[t][f]
    BY <2>2, <1>4
  <2>4. \A f \in Stored(d) : f \in Future /\ f \in Stored(disk) /\ d.rows[f] = disk.rows[f]
    BY <1>4, <1>6 DEF Stored
  <2>5. \A f \in PendingSaved : f \in Stored(d)
    BY <2>2, <1>6 DEF PendingSaved
  <2>6. PendingSaved' = PendingSaved
    BY <2>1, <2>3, <2>4, <2>5 DEF PendingSaved
  <2>7. OpenSaved' = {f \in PendingSaved : f \in known /\ d.rows[f].root}
    BY <2>6, <1>2, <1>3 DEF OpenSaved
  <2>8. OpenSaved' = OpenSaved
    BY <2>3, <2>7 DEF OpenSaved
  <2> QED BY <2>3, <2>6, <2>8
<1>8. ASSUME NEW f \in Live, mem[f].state = "Pending"
       PROVE  \/ f \in kept
              \/ f \notin Stored(disk) /\ \A t \in Type : disk.rx[t][f] = <<>> /\ d.rx[t][f] = <<>>
  <2>1. ObjectOk(f, mem[f], disk, known) /\ f \in Future
    BY <1>0, StoreFacts DEF IInv, MemInv
  <2>2. CASE f \in Stored(disk)
    BY <2>1, <2>2, <1>5, <1>8, PendingRowFacts DEF PendingSaved
  <2>3. CASE f \notin Stored(disk)
    <3>1. \A t \in Type : disk.rx[t][f] = <<>>
      BY <2>1, <2>3, <1>8 DEF ObjectOk, ListOk
    <3> QED BY <2>1, <2>3, <3>1, <1>4
  <2> QED BY <2>2, <2>3
<1>9. Live' = Live
  BY <1>2 DEF Live
<1>10. ASSUME NEW f \in Future PROVE View(f)' = "Pending" <=> View(f) = "Pending"
  <2>1. CASE f \in Live
    BY <2>1, <1>2, <1>9 DEF View
  <2>2. CASE f \notin Live
    <3>1. View(f)' = d.rows[f].state /\ View(f) = disk.rows[f].state
      BY <2>2, <1>3, <1>9 DEF View
    <3>2. CASE f \in kept
      BY <3>1, <3>2, <1>4
    <3>3. CASE f \notin kept
      <4>1. d.rows[f].state = "none"
        BY <3>3, <1>4 DEF NoRow
      <4>2. f \notin PendingSaved
        BY <3>3, <1>5
      <4>3. disk.rows[f].state # "Pending"
        BY <4>2 DEF PendingSaved, Stored, NoRow
      <4> QED BY <3>1, <4>1, <4>3
    <3> QED BY <3>2, <3>3
  <2> QED BY <2>1, <2>2
<1>11. PendingNow' = PendingNow
  BY <1>10 DEF PendingNow
<1>12. ASSUME NEW f \in PendingNow
       PROVE  /\ f \in Future /\ (ViewRoot(f)' <=> ViewRoot(f))
              /\ \A t \in Type : ViewReactions(f, t)' = ViewReactions(f, t)
  <2>1. f \in Future /\ View(f) = "Pending"
    BY DEF PendingNow
  <2>2. CASE f \in Live
    <3>1. mem[f].state = "Pending"
      BY <2>1, <2>2 DEF View
    <3>2. \A t \in Type : d.rx[t][f] = disk.rx[t][f]
      <4>1. CASE f \in kept
        BY <2>1, <4>1, <1>4
      <4>2. CASE f \notin kept
        BY <2>2, <3>1, <4>2, <1>8
      <4> QED BY <4>1, <4>2
    <3>3. \A t \in Type : ViewReactions(f, t)' = ViewReactions(f, t)
      <4> SUFFICES ASSUME NEW t \in Type PROVE ViewReactions(f, t)' = ViewReactions(f, t)
        OBVIOUS
      <4>1. mem' = mem /\ disk'.rx[t][f] = disk.rx[t][f] /\ f \in Live'
        BY <2>2, <3>2, <1>2, <1>3, <1>9
      <4>2. ViewReactions(f, t)' = Popped(f, t)' /\ ViewReactions(f, t) = Popped(f, t)
        BY <2>2, <4>1 DEF ViewReactions
      <4>3. Popped(f, t)' = Popped(f, t)
        BY <4>1 DEF Popped
      <4> QED BY <4>2, <4>3
    <3>4. ViewRoot(f)' = ViewRoot(f)
      BY <2>2, <1>2, <1>9 DEF ViewRoot
    <3> QED BY <2>1, <3>3, <3>4
  <2>3. CASE f \notin Live
    <3>1. f \in PendingSaved
      BY <2>1, <2>3 DEF View, PendingSaved, Stored, NoRow
    <3>2. f \in Stored(disk) /\ f \in Stored(d) /\ d.rows[f] = disk.rows[f] /\ \A t \in Type : d.rx[t][f] = disk.rx[t][f]
      BY <3>1, <1>5, <1>6, <1>7 DEF PendingSaved
    <3>3. \A t \in Type : ViewReactions(f, t)' = ViewReactions(f, t)
      BY <2>3, <3>2, <1>3, <1>9 DEF ViewReactions
    <3>4. ViewRoot(f)' <=> ViewRoot(f)
      BY <2>3, <3>2, <1>3, <1>9 DEF ViewRoot
    <3> QED BY <2>1, <3>3, <3>4
  <2> QED BY <2>2, <2>3
<1>13. OpenNow' = OpenNow
  BY <1>2, <1>11, <1>12 DEF OpenNow
<1>14. \A f \in Stored(disk)' : f \in Stored(disk) /\ disk'.rows[f] = disk.rows[f]
  <2>1. \A f \in Stored(d) : f \in Future /\ f \in Stored(disk) /\ d.rows[f] = disk.rows[f]
    BY <1>4, <1>6 DEF Stored
  <2> QED BY <2>1, <1>3
<1> QED BY <1>2, <1>3, <1>7, <1>9, <1>11, <1>12, <1>13, <1>14

LEMMA CollectStep ==
  ASSUME IInv, Collect
  PROVE  IInv'
<1>0. TypeOK
  BY DEF IInv
<1>1. PICK kept : kept = Reachable
  OBVIOUS
<1>2. /\ created' = created /\ known' = known /\ mem' = mem /\ pendingWrites' = pendingWrites
      /\ phase' = phase /\ queue' = queue
      /\ disk' = [rows |-> [f \in Future |-> IF f \in kept THEN disk.rows[f] ELSE NoRow],
                  rx |-> [t \in Type |-> [f \in Future |-> IF f \in kept THEN disk.rx[t][f] ELSE <<>>]]]
  BY <1>1 DEF Collect, store
<1>3. PICK d : d = disk'
  OBVIOUS
<1>4. /\ \A f \in Future : d.rows[f] = IF f \in kept THEN disk.rows[f] ELSE NoRow
      /\ \A f \in Future, t \in Type : d.rx[t][f] = IF f \in kept THEN disk.rx[t][f] ELSE <<>>
  BY <1>2, <1>3
<1>5. d \in Tables
  <2>1. disk.rows \in [Future -> Row \cup {NoRow}] /\ disk.rx \in [Type -> [Future -> Seq(Future)]]
    BY <1>0 DEF TypeOK, Tables
  <2>2. <<>> \in Seq(Future)
    OBVIOUS
  <2>3. [f \in Future |-> IF f \in kept THEN disk.rows[f] ELSE NoRow] \in [Future -> Row \cup {NoRow}]
    BY <2>1
  <2>4. [t \in Type |-> [f \in Future |-> IF f \in kept THEN disk.rx[t][f] ELSE <<>>]]
          \in [Type -> [Future -> Seq(Future)]]
    BY <2>1, <2>2
  <2> QED BY <2>3, <2>4, <1>2, <1>3 DEF Tables
<1>6. /\ PendingSaved \subseteq kept
      /\ \A f \in kept, t \in Type : ToSet(disk.rx[t][f]) \subseteq kept
      /\ \A f \in kept \cap Stored(disk) : disk.rows[f].value \in Future => disk.rows[f].value \in kept
  BY <1>1, KeptFacts
<1>7. Stored(d) = Stored(disk) \cap kept
  BY <1>4 DEF Stored
<1>8. TypeOK'
  BY <1>0, <1>2, <1>3, <1>5 DEF TypeOK
<1>9. Marks(Store, 0)'
  <2>1. Store'.mem = Store.mem /\ Store'.pending = Store.pending
    BY <1>2 DEF Store
  <2> QED BY <2>1 DEF IInv, Marks
<1>10. PendingSaved' = PendingSaved /\ OpenSaved' = OpenSaved
       /\ \A f \in PendingSaved : d.rows[f] = disk.rows[f] /\ \A t \in Type : d.rx[t][f] = disk.rx[t][f]
  <2>1. PendingSaved' = {f \in Stored(d) : d.rows[f].state = "Pending"}
    BY <1>3 DEF PendingSaved
  <2>2. \A f \in PendingSaved : f \in Future /\ f \in kept
    BY <1>6 DEF PendingSaved, Stored
  <2>3. \A f \in PendingSaved : d.rows[f] = disk.rows[f] /\ \A t \in Type : d.rx[t][f] = disk.rx[t][f]
    BY <2>2, <1>4
  <2>4. \A f \in Stored(d) : f \in Future /\ f \in Stored(disk) /\ d.rows[f] = disk.rows[f]
    BY <1>4, <1>7 DEF Stored
  <2>5. \A f \in PendingSaved : f \in Stored(d)
    BY <2>2, <1>7 DEF PendingSaved
  <2>6. PendingSaved' = PendingSaved
    BY <2>1, <2>3, <2>4, <2>5 DEF PendingSaved
  <2>7. OpenSaved' = {f \in PendingSaved : f \in known /\ d.rows[f].root}
    BY <2>6, <1>2, <1>3 DEF OpenSaved
  <2>8. OpenSaved' = OpenSaved
    BY <2>3, <2>7 DEF OpenSaved
  <2> QED BY <2>3, <2>6, <2>8
<1>11. SavedInv'
  <2>1. PICK L, M : L = disk.rx["Fulfilled"] /\ M = d.rx["Fulfilled"]
    OBVIOUS
  <2>2. \A f \in PendingSaved : M[f] = L[f]
    BY <2>1, <1>10 DEF Type
  <2>3. Sound(PendingSaved, OpenSaved, L, <<>>)
    BY <2>1 DEF IInv, SavedInv
  <2>4. Sound(PendingSaved, OpenSaved, M, <<>>)
    BY <2>2, <2>3, SoundSame
  <2>5. \A f \in PendingSaved : d.rx["Rejected"][f] = d.rx["Fulfilled"][f]
    BY <1>10 DEF IInv, SavedInv, Type
  <2> QED BY <2>1, <2>4, <2>5, <1>3, <1>10 DEF SavedInv
<1>12. DiskInv'
  <2>1. \A f \in Stored(d) : f \in Stored(disk) \cap kept /\ d.rows[f] = disk.rows[f]
    BY <1>4, <1>7 DEF Stored
  <2>2. ASSUME NEW f \in Stored(d)
        PROVE  f <= created /\ RowOk(f, d.rows[f], known) /\ (d.rows[f].value \in Future => d.rows[f].value \in Stored(d))
    BY <2>1, <1>6, <1>7 DEF IInv, DiskInv
  <2>3. ASSUME NEW f \in Future, NEW t \in Type
        PROVE  ToSet(d.rx[t][f]) \subseteq Stored(d) /\ (f > created => d.rx[t][f] = <<>>)
    <3>1. CASE f \in kept
      BY <3>1, <1>4, <1>6, <1>7 DEF IInv, DiskInv
    <3>2. CASE f \notin kept
      BY <3>2, <1>4, EmptyList
    <3> QED BY <3>1, <3>2
  <2>4. known \subseteq 1..created
    BY DEF IInv, DiskInv
  <2> QED BY <2>2, <2>3, <2>4, <1>2, <1>3 DEF DiskInv
<1>13. ASSUME NEW f \in Live, mem[f].state = "Pending"
       PROVE  \/ f \in kept
              \/ f \notin Stored(disk) /\ \A t \in Type : disk.rx[t][f] = <<>> /\ d.rx[t][f] = <<>>
  <2>1. ObjectOk(f, mem[f], disk, known) /\ f \in Future
    BY <1>0, StoreFacts DEF IInv, MemInv
  <2>2. CASE f \in Stored(disk)
    BY <2>1, <2>2, <1>6, <1>13, PendingRowFacts DEF PendingSaved
  <2>3. CASE f \notin Stored(disk)
    <3>1. \A t \in Type : disk.rx[t][f] = <<>>
      BY <2>1, <2>3, <1>13 DEF ObjectOk, ListOk
    <3> QED BY <2>1, <2>3, <3>1, <1>4
  <2> QED BY <2>2, <2>3
<1>14. ASSUME NEW f \in Live PROVE ObjectOk(f, mem[f], d, known)
  <2>1. ObjectOk(f, mem[f], disk, known) /\ f \in Future
    BY <1>0, StoreFacts DEF IInv, MemInv
  <2>2. PICK m : m = mem[f]
    OBVIOUS
  <2>3. RowOk(f, m, known)
    BY <2>1, <2>2 DEF ObjectOk
  <2>4. ~m.inDatabase => f \notin Stored(d) /\ (f \in known => m.dirty)
    BY <2>1, <2>2, <1>7 DEF ObjectOk
  <2>5. m.inDatabase /\ ~m.dirty /\ f \in Stored(d) => d.rows[f] = RowOf(m)
    BY <2>1, <2>2, <1>4, <1>7 DEF ObjectOk
  <2>6. m.inDatabase /\ m.dirty => f \in Stored(d) /\ d.rows[f].state = "Pending" /\ m.settled /\ ~m.root
    <3>1. m.inDatabase /\ m.dirty => f \in Stored(disk) /\ disk.rows[f].state = "Pending" /\ m.settled /\ ~m.root
      BY <2>1, <2>2 DEF ObjectOk
    <3>2. m.inDatabase /\ m.dirty => f \in PendingSaved
      BY <3>1 DEF PendingSaved
    <3> QED BY <3>1, <3>2, <1>6, <1>7, <1>10
  <2>7. m.inDatabase /\ m.state = "Pending" => f \in Stored(d)
    <3>1. m.inDatabase /\ m.state = "Pending" => f \in Stored(disk)
      BY <2>1, <2>2 DEF ObjectOk
    <3> QED BY <3>1, <2>2, <1>7, <1>13
  <2>8. ASSUME NEW t \in Type PROVE ListOk(f, m.state, m.rx[t], d.rx[t][f], d)
    <3>1. ListOk(f, m.state, m.rx[t], disk.rx[t][f], disk)
      BY <2>1, <2>2 DEF ObjectOk
    <3>2. CASE m.state # "Pending"
      BY <3>1, <3>2 DEF ListOk
    <3>3. CASE m.state = "Pending"
      <4>1. d.rx[t][f] = disk.rx[t][f]
        BY <2>1, <2>2, <3>3, <1>4, <1>13
      <4>2. f \notin Stored(d) => disk.rx[t][f] = <<>>
        BY <2>2, <3>1, <3>3, <1>7, <1>13 DEF ListOk
      <4> QED BY <3>1, <4>1, <4>2 DEF ListOk
    <3> QED BY <3>2, <3>3
  <2>9. ObjectOk(f, m, d, known)
    BY <2>3, <2>4, <2>5, <2>6, <2>7, <2>8 DEF ObjectOk
  <2> QED BY <2>2, <2>9
<1>15. MemInv'
  <2>1. Live' = Live
    BY <1>2 DEF Live
  <2> QED BY <2>1, <1>2, <1>3, <1>14 DEF IInv, MemInv
<1>16. /\ PendingNow' = PendingNow /\ OpenNow' = OpenNow
       /\ \A g \in PendingNow, t \in Type : ViewReactions(g, t)' = ViewReactions(g, t)
  BY CollectViews
<1>17. NowInv'
  <2>1. PICK L, M : L = ListsNow /\ M = ListsNow'
    OBVIOUS
  <2>2. \A g \in PendingNow : M[g] = L[g]
    BY <2>1, <1>16 DEF ListsNow, PendingNow, Type
  <2>3. Sound(PendingNow, OpenNow, L, queue)
    BY <2>1 DEF IInv, NowInv
  <2>4. Sound(PendingNow, OpenNow, M, queue)
    BY <2>2, <2>3, SoundSame
  <2>5. \A g \in PendingNow' : ViewReactions(g, "Rejected")' = ViewReactions(g, "Fulfilled")'
    BY <1>16 DEF IInv, NowInv, Type
  <2> QED BY <2>1, <2>4, <2>5, <1>2, <1>16 DEF NowInv, IInv
<1> QED BY <1>8, <1>9, <1>11, <1>12, <1>15, <1>17 DEF IInv

----------------------------------------------------------------------------
(* A flush: the recursive functions.                                       *)

\* One step of the iteration over the Set.
NextWritten(s, n) == IF n \in DOMAIN s.pending THEN WriteEntry(s, s.pending[n]) ELSE s

LEMMA WrittenSteps ==
  \E g : /\ g[0] = Store /\ Written = g[3 * MaxFutures]
         /\ \A n \in 1 .. 3 * MaxFutures : g[n] = NextWritten(g[n - 1], n)
<1>1. PICK N : N = 3 * MaxFutures
  OBVIOUS
<1>2. N \in Nat
  BY <1>1, MaxFuturesAssumption
<1>3. PICK T : T = {k \in 0..N : \E g : g = [n \in 0..k |-> IF n = 0 THEN Store ELSE NextWritten(g[n - 1], n)]}
  OBVIOUS
<1>4. 0 \in T
  <2>1. PICK g : g = [n \in 0..0 |-> Store]
    OBVIOUS
  <2>2. g = [n \in 0..0 |-> IF n = 0 THEN Store ELSE NextWritten(g[n - 1], n)]
    BY <2>1
  <2> QED BY <2>2, <1>2, <1>3
<1>5. ASSUME NEW k \in 0 .. N - 1, k \in T PROVE k + 1 \in T
  <2>1. PICK g : g = [n \in 0..k |-> IF n = 0 THEN Store ELSE NextWritten(g[n - 1], n)]
    BY <1>3, <1>5
  <2>2. PICK h : h = [n \in 0 .. k + 1 |-> IF n = k + 1 THEN NextWritten(g[k], k + 1) ELSE g[n]]
    OBVIOUS
  <2>3. k \in Nat /\ k + 1 \in 0..N /\ \A n \in 0 .. k + 1 : n \in Int /\ n - 1 # k + 1 /\ (n = k + 1 \/ n \in 0..k)
        /\ (n # 0 => n - 1 \in 0..k) /\ (n = k + 1 => n - 1 = k /\ n # 0)
    BY <1>2, <1>5
  <2>4. \A n \in 0..k : h[n] = g[n]
    BY <2>2, <2>3
  <2>5. ASSUME NEW n \in 0 .. k + 1
        PROVE  h[n] = IF n = 0 THEN Store ELSE NextWritten(h[n - 1], n)
    <3>1. CASE n = k + 1
      BY <3>1, <2>2, <2>3, <2>4
    <3>2. CASE n \in 0..k
      <4>1. h[n] = IF n = 0 THEN Store ELSE NextWritten(g[n - 1], n)
        BY <3>2, <2>1, <2>4
      <4>2. n # 0 => h[n - 1] = g[n - 1]
        BY <2>3, <2>4
      <4> QED BY <4>1, <4>2
    <3> QED BY <3>1, <3>2, <2>3
  <2>6. h = [n \in 0 .. k + 1 |-> IF n = 0 THEN Store ELSE NextWritten(h[n - 1], n)]
    BY <2>2, <2>5
  <2> QED BY <2>3, <2>6, <1>3
<1>6. N \in T
  <2>1. \A k \in 0..N : k \in T
    BY <1>2, <1>4, <1>5, UpTo
  <2> QED BY <2>1, <1>2
<1>7. \E g : g = [n \in 0..N |-> IF n = 0 THEN Store ELSE NextWritten(g[n - 1], n)]
  BY <1>6, <1>3
<1>8. PICK after : after = CHOOSE g : g = [n \in 0..N |-> IF n = 0 THEN Store ELSE NextWritten(g[n - 1], n)]
  OBVIOUS
<1>9. after = [n \in 0..N |-> IF n = 0 THEN Store ELSE NextWritten(after[n - 1], n)]
  BY <1>7, <1>8, Zenon
<1>10. Written = after[N]
  BY <1>1, <1>8, Zenon DEF Written, NextWritten
<1>11. after[0] = Store /\ \A n \in 1..N : after[n] = NextWritten(after[n - 1], n)
  BY <1>2, <1>9
<1> QED BY <1>1, <1>10, <1>11

LEMMA TouchSteps ==
  ASSUME NEW s, NEW l, Len(l) \in Nat
  PROVE  \E g : /\ g[0] = s /\ Touch(s, l) = g[Len(l)]
                /\ \A n \in 1..Len(l) : g[n] = EnsureInDatabase(g[n - 1], l[n])
<1>1. PICK N : N = Len(l)
  OBVIOUS
<1>2. N \in Nat
  BY <1>1
<1>3. PICK T : T = {k \in 0..N : \E g : g = [n \in 0..k |-> IF n = 0 THEN s ELSE EnsureInDatabase(g[n - 1], l[n])]}
  OBVIOUS
<1>4. 0 \in T
  <2>1. PICK g : g = [n \in 0..0 |-> s]
    OBVIOUS
  <2>2. g = [n \in 0..0 |-> IF n = 0 THEN s ELSE EnsureInDatabase(g[n - 1], l[n])]
    BY <2>1
  <2> QED BY <2>2, <1>2, <1>3
<1>5. ASSUME NEW k \in 0 .. N - 1, k \in T PROVE k + 1 \in T
  <2>1. PICK g : g = [n \in 0..k |-> IF n = 0 THEN s ELSE EnsureInDatabase(g[n - 1], l[n])]
    BY <1>3, <1>5
  <2>2. PICK h : h = [n \in 0 .. k + 1 |-> IF n = k + 1 THEN EnsureInDatabase(g[k], l[k + 1]) ELSE g[n]]
    OBVIOUS
  <2>3. k \in Nat /\ k + 1 \in 0..N /\ \A n \in 0 .. k + 1 : n \in Int /\ n - 1 # k + 1 /\ (n = k + 1 \/ n \in 0..k)
        /\ (n # 0 => n - 1 \in 0..k) /\ (n = k + 1 => n - 1 = k /\ n # 0)
    BY <1>2, <1>5
  <2>4. \A n \in 0..k : h[n] = g[n]
    BY <2>2, <2>3
  <2>5. ASSUME NEW n \in 0 .. k + 1
        PROVE  h[n] = IF n = 0 THEN s ELSE EnsureInDatabase(h[n - 1], l[n])
    <3>1. CASE n = k + 1
      BY <3>1, <2>2, <2>3, <2>4
    <3>2. CASE n \in 0..k
      <4>1. h[n] = IF n = 0 THEN s ELSE EnsureInDatabase(g[n - 1], l[n])
        BY <3>2, <2>1, <2>4
      <4>2. n # 0 => h[n - 1] = g[n - 1]
        BY <2>3, <2>4
      <4> QED BY <4>1, <4>2
    <3> QED BY <3>1, <3>2, <2>3
  <2>6. h = [n \in 0 .. k + 1 |-> IF n = 0 THEN s ELSE EnsureInDatabase(h[n - 1], l[n])]
    BY <2>2, <2>5
  <2> QED BY <2>3, <2>6, <1>3
<1>6. N \in T
  <2>1. \A k \in 0..N : k \in T
    BY <1>2, <1>4, <1>5, UpTo
  <2> QED BY <2>1, <1>2
<1>7. \E g : g = [n \in 0..N |-> IF n = 0 THEN s ELSE EnsureInDatabase(g[n - 1], l[n])]
  BY <1>6, <1>3
<1>8. PICK touched : touched = CHOOSE g : g = [n \in 0..N |-> IF n = 0 THEN s ELSE EnsureInDatabase(g[n - 1], l[n])]
  OBVIOUS
<1>9. touched = [n \in 0..N |-> IF n = 0 THEN s ELSE EnsureInDatabase(touched[n - 1], l[n])]
  BY <1>7, <1>8, Zenon
<1>10. Touch(s, l) = touched[N]
  BY <1>1, <1>8, Zenon DEF Touch
<1>11. touched[0] = s /\ \A n \in 1..N : touched[n] = EnsureInDatabase(touched[n - 1], l[n])
  BY <1>2, <1>9
<1> QED BY <1>1, <1>10, <1>11

----------------------------------------------------------------------------
(* A flush: what every entry of the Set leaves.                            *)

\* x has a row, or an object that will get one, or is among those still to be looked at.
Due(s, x) == s.mem[x] # Absent /\ ~s.mem[x].inDatabase /\ s.mem[x].dirty
Covered(s, x, E) == x \in Stored(s.disk) \/ Due(s, x) \/ x \in E

\* The list r with the rows of its reactions; l are all of them.
FlushedList(state, r, rows, l) ==
  /\ r.deleted => state # "Pending"
  /\ state = "Pending" => /\ r.unwritten # <<>> => r.dirty
                          /\ r.written = IF r.read THEN rows ELSE <<>>
                          /\ rows \o r.unwritten = l

\* The object m of f, which was o before the flush.
FlushedObject(f, m, o, d) ==
  /\ m.state = o.state /\ m.value = o.value /\ m.settled = o.settled /\ m.root = o.root
  /\ ~m.inDatabase => f \notin Stored(d) /\ (f \in known => m.dirty)
  /\ m.inDatabase /\ ~m.dirty /\ f \in Stored(d) => d.rows[f] = RowOf(m)
  /\ m.inDatabase /\ m.dirty => /\ f \in Stored(d) /\ d.rows[f].state = "Pending"
                                /\ m.settled /\ ~m.root
  /\ m.inDatabase /\ m.state = "Pending" => f \in Stored(d)
  /\ \A t \in Type : /\ m.rx[t].read = o.rx[t].read
                     /\ FlushedList(m.state, m.rx[t], d.rx[t][f], ViewReactions(f, t))

\* What the first n entries left, with E still to be looked at.
Flushing(s, n, E) ==
  /\ s \in StoreType /\ Marks(s, n)
  /\ \A f \in Live : s.mem[f] # Absent /\ FlushedObject(f, s.mem[f], mem[f], s.disk) /\ Refers(s.mem[f]) \subseteq Live
  /\ \A f \in Future \ Live : /\ s.mem[f] = Absent /\ s.disk.rows[f] = disk.rows[f]
                              /\ \A t \in Type : s.disk.rx[t][f] = disk.rx[t][f]
  /\ \A i \in 1..n : s.pending[i][2] = "future" =>
       s.mem[s.pending[i][1]].inDatabase /\ s.pending[i][1] \in Stored(s.disk)
  /\ \A f \in Stored(s.disk) : /\ s.disk.rows[f].state = "Pending" => s.disk.rows[f].value = None
                               /\ s.disk.rows[f].value \in Future => Covered(s, s.disk.rows[f].value, E)
  /\ \A f \in Future, t \in Type : \A x \in ToSet(s.disk.rx[t][f]) : Covered(s, x, E)
  /\ Stored(disk) \subseteq Stored(s.disk)

LEMMA FlushStart ==
  ASSUME IInv
  PROVE  Flushing(Store, 0, {})
<1>0. TypeOK
  BY DEF IInv
<1>1. PICK s : s = Store
  OBVIOUS
<1>2. s \in StoreType /\ Marks(s, 0) /\ s.mem = mem /\ s.disk = disk
  BY <1>0, <1>1, StoreFacts DEF IInv
<1>3. ASSUME NEW f \in Live
      PROVE mem[f] # Absent /\ FlushedObject(f, mem[f], mem[f], disk) /\ Refers(mem[f]) \subseteq Live
  <2>1. ObjectOk(f, mem[f], disk, known) /\ Refers(mem[f]) \subseteq Live
    BY DEF IInv, MemInv
  <2>2. f \in Future /\ mem[f] \in FutureDB /\ mem[f] # Absent
    BY <1>0, StoreFacts DEF Live
  <2>3. ASSUME NEW t \in Type
        PROVE  FlushedList(mem[f].state, mem[f].rx[t], disk.rx[t][f], ViewReactions(f, t))
    <3>1. PICK r, rows, state : r = mem[f].rx[t] /\ rows = disk.rx[t][f] /\ state = mem[f].state
      OBVIOUS
    <3>2. ListOk(f, state, r, rows, disk)
      BY <2>1, <3>1 DEF ObjectOk
    <3>3. state = "Pending" => rows \o r.unwritten = ViewReactions(f, t)
      BY <3>1, <3>2 DEF ListOk, ViewReactions, Popped
    <3>4. FlushedList(state, r, rows, ViewReactions(f, t))
      BY <3>2, <3>3 DEF ListOk, FlushedList
    <3> QED BY <3>1, <3>4
  <2> QED BY <2>1, <2>2, <2>3 DEF ObjectOk, FlushedObject
<1>4. \A f \in Future \ Live : mem[f] = Absent
  BY DEF Live
<1>5. \A f \in Stored(disk) : /\ disk.rows[f].state = "Pending" => disk.rows[f].value = None
                              /\ disk.rows[f].value \in Future => Covered(s, disk.rows[f].value, {})
  BY <1>2 DEF IInv, DiskInv, RowOk, Covered
<1>6. \A f \in Future, t \in Type : \A x \in ToSet(disk.rx[t][f]) : Covered(s, x, {})
  BY <1>2 DEF IInv, DiskInv, Covered
<1>7. Flushing(s, 0, {})
  BY <1>2, <1>3, <1>4, <1>5, <1>6 DEF Flushing
<1> QED BY <1>1, <1>7

\* ensureInDatabase of x, which then has a row or will get one.
LEMMA EnsureKeeps ==
  ASSUME TypeOK, NEW s, NEW n, NEW E, Flushing(s, n, E), NEW x \in Live
  PROVE  Flushing(EnsureInDatabase(s, x), n, E \ {x})
<1>0. x \in Future /\ s \in StoreType /\ Marks(s, n)
  BY StoreFacts DEF Flushing
<1>1. PICK m : m = s.mem[x]
  OBVIOUS
<1>2. m \in FutureDB /\ m # Absent
  BY <1>0, <1>1 DEF Flushing, StoreType
<1>3. n \in Nat /\ n <= Len(s.pending) /\ s.pending \in Seq(Write) /\ 1..n \subseteq DOMAIN s.pending
      /\ \A i \in DOMAIN s.pending : i \in 1..n \/ i > n
  <2>1. s.pending \in Seq(Write)
    BY <1>0 DEF StoreType
  <2>2. Len(s.pending) \in Nat /\ DOMAIN s.pending = 1..Len(s.pending) /\ n \in 0..Len(s.pending)
    BY <2>1, <1>0 DEF Marks
  <2> QED BY <2>1, <2>2
<1>4. CASE m.inDatabase /\ x \in Stored(s.disk)
  <2>1. EnsureInDatabase(s, x) = s
    BY <1>1, <1>4, EnsuredAlready
  <2>2. \A y : Covered(s, y, E) => Covered(s, y, E \ {x})
    BY <1>4 DEF Covered
  <2>3. Flushing(s, n, E \ {x})
    BY <2>2 DEF Flushing
  <2> QED BY <2>1, <2>3
<1>5. CASE ~(m.inDatabase /\ x \in Stored(s.disk))
  <2>1. m.dirty \/ <<x, "future">> \notin ToSet(s.pending)
    <3> SUFFICES ASSUME ~m.dirty, NEW i \in DOMAIN s.pending, s.pending[i] = <<x, "future">> PROVE FALSE
      BY DEF ToSet
    <3>1. <<x, "future">> \in Write /\ ~IsDirty(s.mem, <<x, "future">>)
      BY <1>0, <1>1 DEF Write, IsDirty
    <3>2. ~(i > n)
      BY <3>1, <1>0 DEF Marks
    <3>3. i \in 1..n
      BY <3>2, <1>3
    <3> QED BY <3>3, <1>1, <1>5 DEF Flushing
  <2>2. PICK r : r = EnsureInDatabase(s, x)
    OBVIOUS
  <2>3. PICK e : e = Ensured(m)
    OBVIOUS
  <2>4. Put(s, r, x, e, n)
    BY <2>1, <2>2, <2>3, <1>0, <1>1, <1>2, <1>5, PutEnsured
  <2>5. /\ r \in StoreType /\ Marks(r, n) /\ r.disk = s.disk /\ r.mem[x] = e
        /\ \A g \in Future : g # x => r.mem[g] = s.mem[g]
    BY <2>4, <1>0, PutMem
  <2>6. /\ e \in FutureDB /\ ~e.inDatabase /\ e.dirty /\ e.rx = m.rx /\ e # Absent
        /\ e.state = m.state /\ e.value = m.value /\ e.settled = m.settled /\ e.root = m.root
    BY <2>3, <1>2, EnsuredFacts, AbsentIsNone
  <2>7. \A y \in Future : Covered(s, y, E) => Covered(r, y, E \ {x})
    BY <2>5, <2>6 DEF Covered, Due
  <2>8. ASSUME NEW f \in Live
        PROVE r.mem[f] # Absent /\ FlushedObject(f, r.mem[f], mem[f], r.disk) /\ Refers(r.mem[f]) \subseteq Live
    <3>1. f \in Future /\ s.mem[f] # Absent /\ FlushedObject(f, s.mem[f], mem[f], s.disk) /\ Refers(s.mem[f]) \subseteq Live
      BY StoreFacts DEF Flushing
    <3>2. CASE f # x
      BY <3>1, <3>2, <2>5
    <3>3. CASE f = x
      <4>1. Refers(e) = Refers(m)
        BY <2>6 DEF Refers
      <4>2. x \notin Stored(s.disk)
        BY <3>1, <3>3, <1>1, <1>5 DEF FlushedObject
      <4>3. FlushedObject(x, m, mem[x], s.disk)
        BY <3>1, <3>3, <1>1
      <4>4. FlushedObject(x, e, mem[x], s.disk)
        BY <4>2, <4>3, <2>6 DEF FlushedObject
      <4> QED BY <3>1, <3>3, <4>1, <4>4, <2>5, <2>6, <1>1
    <3> QED BY <3>2, <3>3
  <2>9. \A f \in Future \ Live : /\ r.mem[f] = Absent /\ r.disk.rows[f] = disk.rows[f]
                                 /\ \A t \in Type : r.disk.rx[t][f] = disk.rx[t][f]
    BY <2>5 DEF Flushing
  <2>10. ASSUME NEW i \in 1..n, r.pending[i][2] = "future"
         PROVE r.mem[r.pending[i][1]].inDatabase /\ r.pending[i][1] \in Stored(r.disk)
    <3>1. r.pending[i] = s.pending[i] /\ i \in DOMAIN s.pending
      BY <2>4, <1>3 DEF Put, Keeps
    <3>2. s.mem[s.pending[i][1]].inDatabase /\ s.pending[i][1] \in Stored(s.disk) /\ s.pending[i][1] \in Future
      BY <3>1, <2>10 DEF Flushing, Stored
    <3>3. s.pending[i][1] # x
      BY <3>2, <1>1, <1>5
    <3> QED BY <3>1, <3>2, <3>3, <2>5
  <2>11. \A f \in Stored(r.disk) : /\ r.disk.rows[f].state = "Pending" => r.disk.rows[f].value = None
                                   /\ r.disk.rows[f].value \in Future => Covered(r, r.disk.rows[f].value, E \ {x})
    BY <2>5, <2>7 DEF Flushing
  <2>12. ASSUME NEW f \in Future, NEW t \in Type, NEW y \in ToSet(r.disk.rx[t][f])
         PROVE  Covered(r, y, E \ {x})
    <3>1. s.disk.rx[t][f] \in Seq(Future)
      BY <1>0 DEF StoreType, Tables
    <3>2. y \in ToSet(s.disk.rx[t][f]) /\ y \in Future
      BY <3>1, <2>5, ToSetIn
    <3> QED BY <3>2, <2>7 DEF Flushing
  <2>13. Flushing(r, n, E \ {x})
    <3>1. Stored(disk) \subseteq Stored(r.disk)
      BY <2>5 DEF Flushing
    <3> QED BY <2>5, <2>8, <2>9, <2>10, <2>11, <2>12, <3>1 DEF Flushing
  <2> QED BY <2>2, <2>13
<1> QED BY <1>4, <1>5

\* getInternalId of the Futures in l.
LEMMA TouchKeeps ==
  ASSUME TypeOK, NEW s, NEW n, NEW l \in Seq(Future), ToSet(l) \subseteq Live, Flushing(s, n, ToSet(l))
  PROVE  Flushing(Touch(s, l), n, {})
<1>1. PICK N : N = Len(l)
  OBVIOUS
<1>2. N \in Nat /\ DOMAIN l = 1..N
  BY <1>1
<1>3. PICK g : /\ g[0] = s /\ Touch(s, l) = g[N]
               /\ \A k \in 1..N : g[k] = EnsureInDatabase(g[k - 1], l[k])
  BY <1>1, <1>2, TouchSteps
<1>4. PICK T : T = {k \in 0..N : Flushing(g[k], n, {l[i] : i \in k + 1 .. N})}
  OBVIOUS
<1>5. 0 \in T
  <2>1. 0 + 1 = 1 /\ 0 \in 0..N
    BY <1>2
  <2>2. ToSet(l) = {l[i] : i \in 1..N}
    BY <1>2 DEF ToSet
  <2>3. ToSet(l) = {l[i] : i \in 0 + 1 .. N}
    BY <2>1, <2>2
  <2>4. Flushing(g[0], n, {l[i] : i \in 0 + 1 .. N})
    BY <2>3, <1>3
  <2> QED BY <2>1, <2>4, <1>4
<1>6. ASSUME NEW k \in 0 .. N - 1, k \in T PROVE k + 1 \in T
  <2>1. k \in Nat /\ k + 1 \in 1..N /\ k + 1 \in 0..N /\ (k + 1) - 1 = k
    BY <1>2, <1>6
  <2>2. PICK E, D : E = {l[i] : i \in k + 1 .. N} /\ D = {l[i] : i \in (k + 1) + 1 .. N}
    OBVIOUS
  <2>3. Flushing(g[k], n, E)
    BY <2>2, <1>4, <1>6
  <2>4. l[k + 1] \in Live
    BY <2>1, <1>2 DEF ToSet
  <2>5. Flushing(g[k + 1], n, E \ {l[k + 1]})
    <3>1. g[k + 1] = EnsureInDatabase(g[k], l[k + 1])
      BY <2>1, <1>3
    <3>2. Flushing(EnsureInDatabase(g[k], l[k + 1]), n, E \ {l[k + 1]})
      BY <2>3, <2>4, EnsureKeeps
    <3> QED BY <3>1, <3>2
  <2>6. E \ {l[k + 1]} \subseteq D
    <3>1. \A i \in k + 1 .. N : i = k + 1 \/ i \in (k + 1) + 1 .. N
      BY <2>1, <1>2
    <3> QED BY <3>1, <2>2
  <2>7. PICK r : r = g[k + 1]
    OBVIOUS
  <2>8. \A y : Covered(r, y, E \ {l[k + 1]}) => Covered(r, y, D)
    BY <2>6 DEF Covered
  <2>9. Flushing(r, n, D)
    BY <2>5, <2>7, <2>8 DEF Flushing
  <2> QED BY <2>1, <2>2, <2>7, <2>9, <1>4
<1>7. N \in T
  <2>1. \A k \in 0..N : k \in T
    BY <1>2, <1>5, <1>6, UpTo
  <2> QED BY <2>1, <1>2
<1>8. {l[i] : i \in N + 1 .. N} = {}
  BY <1>2
<1> QED BY <1>3, <1>4, <1>7, <1>8

\* The write of an entry takes its mark away.
LEMMA MarkOff ==
  ASSUME NEW s \in StoreType, NEW n, Marks(s, n), n + 1 \in DOMAIN s.pending,
         NEW r \in StoreType, r.pending = s.pending, NEW w, w = s.pending[n + 1], ~IsDirty(r.mem, w),
         \A u \in Write : u # w => (IsDirty(r.mem, u) <=> IsDirty(s.mem, u))
  PROVE  Marks(r, n + 1)
<1>1. s.pending \in Seq(Write)
  BY DEF StoreType
<1>2. /\ n \in Nat /\ Len(s.pending) \in Nat /\ DOMAIN s.pending = 1..Len(s.pending)
      /\ n + 1 \in 0..Len(s.pending) /\ \A i \in DOMAIN s.pending : i > n + 1 <=> i > n /\ i # n + 1
  <2>1. Len(s.pending) \in Nat /\ DOMAIN s.pending = 1..Len(s.pending) /\ n \in 0..Len(s.pending)
    BY <1>1 DEF Marks
  <2> QED BY <2>1
<1>3. \A i, j \in DOMAIN s.pending : s.pending[i] = s.pending[j] => i = j
  BY DEF Marks
<1>4. ASSUME NEW u \in Write
      PROVE  IsDirty(r.mem, u) <=> \E i \in DOMAIN s.pending : i > n + 1 /\ s.pending[i] = u
  <2>1. IsDirty(s.mem, u) <=> \E i \in DOMAIN s.pending : i > n /\ s.pending[i] = u
    BY DEF Marks
  <2>2. CASE u = w
    <3>1. ~\E i \in DOMAIN s.pending : i > n + 1 /\ s.pending[i] = u
      BY <2>2, <1>2, <1>3
    <3> QED BY <3>1, <2>2
  <2>3. CASE u # w
    <3>1. (\E i \in DOMAIN s.pending : i > n /\ s.pending[i] = u)
            <=> \E i \in DOMAIN s.pending : i > n + 1 /\ s.pending[i] = u
      BY <2>3, <1>2
    <3> QED BY <3>1, <2>1, <2>3
  <2> QED BY <2>2, <2>3
<1> QED BY <1>2, <1>3, <1>4 DEF Marks

\* The next entry is that of a dirty object.
LEMMA DirtyEntry ==
  ASSUME TypeOK, NEW s, NEW n, NEW E, Flushing(s, n, E), n + 1 \in DOMAIN s.pending,
         NEW f, NEW t, s.pending[n + 1] = <<f, t>>
  PROVE  /\ f \in Live /\ f \in Future /\ t \in Type \cup {"future"} /\ s.mem[f] \in FutureDB /\ s.mem[f] # Absent
         /\ IsDirty(s.mem, <<f, t>>) /\ n \in Nat /\ s \in StoreType /\ Marks(s, n)
<1>1. s \in StoreType /\ Marks(s, n)
  BY DEF Flushing
<1>2. s.pending \in Seq(Write)
  BY <1>1 DEF StoreType
<1>3. <<f, t>> \in Write /\ n \in Nat /\ n + 1 > n
  BY <1>1, <1>2 DEF Marks
<1>4. f \in Future /\ t \in Type \cup {"future"}
  BY <1>3 DEF Write
<1>5. IsDirty(s.mem, <<f, t>>)
  BY <1>1, <1>3 DEF Marks
<1>6. s.mem[f] # Absent
  BY <1>5 DEF IsDirty
<1>7. f \in Live
  BY <1>4, <1>6 DEF Flushing
<1> QED BY <1>1, <1>3, <1>4, <1>5, <1>6, <1>7 DEF StoreType

\* r is s after the object m of f was written.
Saved(m) == [m EXCEPT !.dirty = FALSE, !.inDatabase = TRUE]
SavedTo(s, r, f, m) ==
  /\ r \in StoreType /\ r.pending = s.pending
  /\ r.mem = [s.mem EXCEPT ![f] = Saved(m)]
  /\ r.disk.rows = [s.disk.rows EXCEPT ![f] = RowOf(m)] /\ r.disk.rx = s.disk.rx

LEMMA SavedFacts ==
  ASSUME NEW m \in FutureDB, NEW e, e = Saved(m)
  PROVE  /\ e \in FutureDB /\ e.inDatabase /\ ~e.dirty /\ e.rx = m.rx /\ RowOf(e) = RowOf(m)
         /\ e.state = m.state /\ e.value = m.value /\ e.settled = m.settled /\ e.root = m.root
<1>1. PICK d : d = [m EXCEPT !.dirty = FALSE]
  OBVIOUS
<1>2. e = [d EXCEPT !.inDatabase = TRUE]
  BY <1>1 DEF Saved
<1>3. /\ e \in FutureDB /\ e.inDatabase /\ ~e.dirty /\ e.rx = m.rx
      /\ e.state = m.state /\ e.value = m.value /\ e.settled = m.settled /\ e.root = m.root
  BY <1>1, <1>2 DEF FutureDB
<1> QED BY <1>3 DEF RowOf

LEMMA RowFacts ==
  ASSUME NEW m \in FutureDB
  PROVE  /\ RowOf(m) \in Row /\ RowOf(m) # NoRow /\ RowOf(m).state = m.state /\ RowOf(m).value = m.value
         /\ RowOf(m).settled = m.settled /\ RowOf(m).root = m.root
<1>1. RowOf(m) \in Row /\ RowOf(m).state = m.state /\ RowOf(m).value = m.value
      /\ RowOf(m).settled = m.settled /\ RowOf(m).root = m.root
  BY DEF RowOf, Row, FutureDB
<1>2. m.state # "none"
  BY DEF FutureDB, Type
<1>3. NoRow.state = "none"
  BY DEF NoRow
<1> QED BY <1>1, <1>2, <1>3

\* Its row is new or up to date, and what it holds is still to be looked at.
LEMMA SavedKeeps ==
  ASSUME IInv, NEW s, NEW n, Flushing(s, n, {}), n + 1 \in DOMAIN s.pending,
         NEW f, s.pending[n + 1] = <<f, "future">>, NEW m, m = s.mem[f], NEW r, SavedTo(s, r, f, m)
  PROVE  Flushing(r, n + 1, {m.value} \cap Future)
<1>0. TypeOK
  BY DEF IInv
<1>1. /\ f \in Live /\ f \in Future /\ m \in FutureDB /\ m # Absent /\ n \in Nat
      /\ s \in StoreType /\ Marks(s, n)
  BY <1>0, DirtyEntry
<1>2. PICK e : e = Saved(m)
  OBVIOUS
<1>3. /\ e \in FutureDB /\ e.inDatabase /\ ~e.dirty /\ e.rx = m.rx /\ RowOf(e) = RowOf(m) /\ e # Absent
      /\ e.state = m.state /\ e.value = m.value /\ e.settled = m.settled /\ e.root = m.root
  BY <1>1, <1>2, SavedFacts, AbsentIsNone
<1>4. /\ r \in StoreType /\ r.pending = s.pending /\ r.mem[f] = e /\ \A g \in Future : g # f => r.mem[g] = s.mem[g]
  BY <1>1, <1>2 DEF SavedTo, StoreType
<1>5. PICK row : row = RowOf(m)
  OBVIOUS
<1>6. /\ r.disk.rows[f] = row /\ r.disk.rx = s.disk.rx /\ \A g \in Future : g # f => r.disk.rows[g] = s.disk.rows[g]
  BY <1>1, <1>5 DEF SavedTo, StoreType, Tables
<1>7. row # NoRow /\ row.state = m.state /\ row.value = m.value
  BY <1>1, <1>5, RowFacts
<1>8. Stored(r.disk) = Stored(s.disk) \cup {f}
  BY <1>1, <1>6, <1>7 DEF Stored
<1>9. PICK E : E = {m.value} \cap Future
  OBVIOUS
<1>10. ASSUME NEW x, Covered(s, x, {}) PROVE Covered(r, x, E)
  <2>1. CASE x \in Stored(s.disk)
    BY <2>1, <1>8 DEF Covered
  <2>2. CASE Due(s, x) /\ x = f
    BY <2>2, <1>8 DEF Covered
  <2>3. CASE Due(s, x) /\ x # f /\ x \in Future
    BY <2>3, <1>4 DEF Covered, Due
  <2>4. CASE Due(s, x) /\ x \notin Future
    <3>1. r.mem[x] = s.mem[x]
      BY <2>4, <1>1 DEF SavedTo, StoreType
    <3> QED BY <3>1, <2>4 DEF Covered, Due
  <2> QED BY <2>1, <2>2, <2>3, <2>4, <1>10 DEF Covered
<1>11. Marks(r, n + 1)
  <2>1. PICK w : w = <<f, "future">>
    OBVIOUS
  <2>2. w[1] = f /\ w[2] = "future"
    BY <2>1
  <2>3. ~IsDirty(r.mem, w)
    BY <2>2, <1>3, <1>4 DEF IsDirty
  <2>4. ASSUME NEW u \in Write, u # w PROVE IsDirty(r.mem, u) <=> IsDirty(s.mem, u)
    <3>1. u[1] \in Future /\ u = <<u[1], u[2]>> /\ (u[1] # f \/ u[2] # "future")
      BY <2>1, <2>4 DEF Write
    <3>2. CASE u[1] # f
      BY <3>1, <3>2, <1>4 DEF IsDirty
    <3>3. CASE u[1] = f /\ u[2] # "future"
      BY <3>3, <1>1, <1>3, <1>4 DEF IsDirty
    <3> QED BY <3>1, <3>2, <3>3
  <2> QED BY <2>1, <2>3, <2>4, <1>1, <1>4, MarkOff
<1>12. ASSUME NEW g \in Live
       PROVE  r.mem[g] # Absent /\ FlushedObject(g, r.mem[g], mem[g], r.disk) /\ Refers(r.mem[g]) \subseteq Live
  <2>1. g \in Future /\ s.mem[g] # Absent /\ FlushedObject(g, s.mem[g], mem[g], s.disk) /\ Refers(s.mem[g]) \subseteq Live
    BY <1>0, StoreFacts DEF Flushing
  <2>2. CASE g # f
    <3>1. r.mem[g] = s.mem[g] /\ r.disk.rows[g] = s.disk.rows[g] /\ (g \in Stored(r.disk) <=> g \in Stored(s.disk))
      BY <2>1, <2>2, <1>4, <1>6, <1>8
    <3> QED BY <2>1, <3>1, <1>6 DEF FlushedObject
  <2>3. CASE g = f
    <3>1. Refers(e) = Refers(m)
      BY <1>3 DEF Refers
    <3>2. FlushedObject(f, m, mem[f], s.disk)
      BY <2>1, <2>3
    <3>3. FlushedObject(f, e, mem[f], r.disk)
      BY <3>2, <1>3, <1>5, <1>6, <1>8 DEF FlushedObject
    <3> QED BY <2>1, <2>3, <3>1, <3>3, <1>3, <1>4
  <2> QED BY <2>2, <2>3
<1>13. \A g \in Future \ Live : /\ r.mem[g] = Absent /\ r.disk.rows[g] = disk.rows[g]
                                /\ \A t \in Type : r.disk.rx[t][g] = disk.rx[t][g]
  <2>1. \A g \in Future \ Live : g # f
    BY <1>1
  <2> QED BY <2>1, <1>4, <1>6 DEF Flushing
<1>14. ASSUME NEW i \in 1 .. n + 1, r.pending[i][2] = "future"
       PROVE  r.mem[r.pending[i][1]].inDatabase /\ r.pending[i][1] \in Stored(r.disk)
  <2>1. CASE i = n + 1
    <3>1. r.pending[i][1] = f
      BY <2>1, <1>4
    <3> QED BY <3>1, <1>3, <1>4, <1>8
  <2>2. CASE i # n + 1
    <3>1. i \in 1..n
      BY <2>2, <1>1
    <3>2. PICK x : x = s.pending[i][1]
      OBVIOUS
    <3>3. s.mem[x].inDatabase /\ x \in Stored(s.disk) /\ x \in Future
      BY <3>1, <3>2, <1>4, <1>14 DEF Flushing, Stored
    <3>4. r.mem[x].inDatabase /\ x \in Stored(r.disk)
      BY <3>3, <1>3, <1>4, <1>8
    <3> QED BY <3>2, <3>4, <1>4
  <2> QED BY <2>1, <2>2
<1>15. ASSUME NEW g \in Stored(r.disk)
       PROVE  /\ r.disk.rows[g].state = "Pending" => r.disk.rows[g].value = None
              /\ r.disk.rows[g].value \in Future => Covered(r, r.disk.rows[g].value, E)
  <2>1. CASE g # f
    <3>1. g \in Stored(s.disk) /\ g \in Future /\ r.disk.rows[g] = s.disk.rows[g]
      BY <2>1, <1>6, <1>8 DEF Stored
    <3> QED BY <3>1, <1>10 DEF Flushing
  <2>2. CASE g = f
    <3>1. FlushedObject(f, m, mem[f], s.disk)
      BY <1>1 DEF Flushing
    <3>2. RowOk(f, mem[f], known)
      BY <1>1 DEF IInv, MemInv, ObjectOk
    <3>3. row.state = "Pending" => row.value = None
      BY <3>1, <3>2, <1>7 DEF FlushedObject, RowOk
    <3> QED BY <2>2, <3>3, <1>6, <1>7, <1>9 DEF Covered
  <2> QED BY <2>1, <2>2
<1>16. \A g \in Future, t \in Type : \A x \in ToSet(r.disk.rx[t][g]) : Covered(r, x, E)
  BY <1>6, <1>10 DEF Flushing
<1>17. Stored(disk) \subseteq Stored(r.disk)
  BY <1>8 DEF Flushing
<1>18. Flushing(r, n + 1, E)
  BY <1>4, <1>11, <1>12, <1>13, <1>14, <1>15, <1>16, <1>17 DEF Flushing
<1> QED BY <1>9, <1>18

\* What ensureInDatabase does to the object m of f.
EnsuredTo(s, r, f, m) ==
  /\ r \in StoreType /\ r.disk = s.disk
  /\ m.inDatabase /\ f \in Stored(s.disk) => r = s
  /\ ~(m.inDatabase /\ f \in Stored(s.disk)) =>
       /\ r.mem = [s.mem EXCEPT ![f] = Ensured(m)]
       /\ r.pending = IF m.dirty THEN s.pending ELSE Add(s.pending, <<f, "future">>)

LEMMA EnsuredStore ==
  ASSUME NEW s \in StoreType, NEW f \in Future, NEW m \in FutureDB, s.mem[f] = m
  PROVE  EnsuredTo(s, EnsureInDatabase(s, f), f, m)
<1>0. PICK r : r = EnsureInDatabase(s, f)
  OBVIOUS
<1> SUFFICES EnsuredTo(s, r, f, m)
  BY <1>0
<1>1. CASE m.inDatabase /\ f \in Stored(s.disk)
  BY <1>0, <1>1, EnsuredAlready DEF EnsuredTo
<1>2. CASE ~(m.inDatabase /\ f \in Stored(s.disk))
  <2>1. PICK d : d = [m EXCEPT !.inDatabase = FALSE]
    OBVIOUS
  <2>2. d \in FutureDB /\ d.dirty = m.dirty
    BY <2>1 DEF FutureDB
  <2>3. PICK u : u = [s EXCEPT !.mem[f].inDatabase = FALSE]
    OBVIOUS
  <2>4. /\ u \in StoreType /\ u.mem = [s.mem EXCEPT ![f] = d] /\ u.mem[f] = d
        /\ u.pending = s.pending /\ u.disk = s.disk
    BY <2>1, <2>2, <2>3 DEF StoreType
  <2>5. r = DirtyFuture(u, f)
    BY <1>0, <1>2, <2>3, Zenon DEF EnsureInDatabase
  <2>6. PICK e : e = [d EXCEPT !.dirty = TRUE]
    OBVIOUS
  <2>7. e = Ensured(m) /\ e \in FutureDB
    BY <2>1, <2>2, <2>6 DEF Ensured, FutureDB
  <2>8. CASE m.dirty
    <3>1. r = u
      BY <2>2, <2>4, <2>5, <2>8 DEF DirtyFuture
    <3>2. d = e
      BY <2>2, <2>6, <2>8 DEF FutureDB
    <3>3. r \in StoreType /\ r.disk = s.disk /\ r.pending = s.pending /\ r.mem = [s.mem EXCEPT ![f] = e]
      BY <3>1, <3>2, <2>4
    <3> QED BY <3>3, <2>7, <2>8, <1>2 DEF EnsuredTo
  <2>9. CASE ~m.dirty
    <3>1. r = [u EXCEPT !.mem[f].dirty = TRUE, !.pending = Add(@, <<f, "future">>)]
      BY <2>2, <2>4, <2>5, <2>9 DEF DirtyFuture
    <3>2. Add(u.pending, <<f, "future">>) \in Seq(Write)
      <4>1. u.pending \in Seq(Write) /\ <<f, "future">> \in Write
        BY <2>4 DEF StoreType, Write
      <4> QED BY <4>1 DEF Add
    <3>3. PICK p : p = Add(u.pending, <<f, "future">>) /\ p \in Seq(Write)
      BY <3>2
    <3>4. PICK k : k = [u EXCEPT !.mem[f].dirty = TRUE]
      OBVIOUS
    <3>5. k \in StoreType /\ k.mem = [u.mem EXCEPT ![f] = e] /\ k.pending = u.pending /\ k.disk = u.disk
      BY <3>4, <2>4, <2>6, <2>7 DEF StoreType
    <3>6. r = [k EXCEPT !.pending = p]
      <4>1. k.pending = u.pending
        BY <3>5
      <4>2. r = [k EXCEPT !.pending = Add(u.pending, <<f, "future">>)]
        BY <3>1, <3>4, Zenon
      <4> QED BY <4>2, <3>3
    <3>7. r.mem = [u.mem EXCEPT ![f] = e] /\ r.pending = p /\ r.disk = u.disk /\ r \in StoreType
      BY <3>3, <3>5, <3>6 DEF StoreType
    <3>8. r.mem = [s.mem EXCEPT ![f] = e]
      BY <3>7, <2>4 DEF StoreType
    <3> QED BY <3>3, <3>7, <3>8, <2>4, <2>7, <2>9, <1>2 DEF EnsuredTo
  <2> QED BY <2>8, <2>9
<1> QED BY <1>1, <1>2

LEMMA SameStore ==
  ASSUME NEW r \in StoreType, NEW u \in StoreType, r.mem = u.mem, r.pending = u.pending, r.disk = u.disk
  PROVE  r = u
BY DEF StoreType

LEMMA TouchNone ==
  ASSUME NEW s
  PROVE  Touch(s, <<>>) = s
<1>1. PICK g : g[0] = s /\ Touch(s, <<>>) = g[Len(<<>>)]
  BY TouchSteps
<1> QED BY <1>1

LEMMA TouchOne ==
  ASSUME NEW s, NEW v
  PROVE  Touch(s, <<v>>) = EnsureInDatabase(s, v)
<1>1. PICK l : l = <<v>>
  OBVIOUS
<1>2. Len(l) = 1 /\ l[1] = v
  BY <1>1
<1>3. PICK g : /\ g[0] = s /\ Touch(s, l) = g[1]
               /\ \A n \in 1..1 : g[n] = EnsureInDatabase(g[n - 1], l[n])
  BY <1>2, TouchSteps
<1>4. 1 \in 1..1 /\ 1 - 1 = 0
  OBVIOUS
<1>5. g[1] = EnsureInDatabase(g[0], v)
  BY <1>2, <1>3, <1>4
<1> QED BY <1>1, <1>3, <1>5

LEMMA SameTables ==
  ASSUME NEW a \in Tables, NEW b \in Tables, a.rows = b.rows, a.rx = b.rx
  PROVE  a = b
BY DEF Tables

\* The conversion of a value that f does not hold itself leaves f's object alone.
Spared(x, r, f) == r \in StoreType /\ r.disk = x.disk /\ r.mem[f] = x.mem[f]

LEMMA TouchHeld ==
  ASSUME NEW x \in StoreType, NEW f \in Future, NEW v, v # f, v \in Future => x.mem[v] \in FutureDB
  PROVE  Spared(x, Touch(x, Held(v)), f)
<1>0. PICK r : r = Touch(x, Held(v))
  OBVIOUS
<1> SUFFICES Spared(x, r, f)
  BY <1>0
<1>1. CASE v \notin Future
  <2>1. Held(v) = <<>>
    BY <1>1 DEF Held
  <2> QED BY <1>0, <2>1, TouchNone DEF Spared
<1>2. CASE v \in Future
  <2>1. Held(v) = <<v>>
    BY <1>2 DEF Held
  <2>2. r = EnsureInDatabase(x, v)
    BY <1>0, <2>1, TouchOne
  <2>3. PICK k : k = x.mem[v] /\ k \in FutureDB
    BY <1>2
  <2>4. EnsuredTo(x, r, v, k)
    BY <2>2, <2>3, <1>2, EnsuredStore, Zenon
  <2>5. CASE k.inDatabase /\ v \in Stored(x.disk)
    BY <2>4, <2>5 DEF EnsuredTo, Spared
  <2>6. CASE ~(k.inDatabase /\ v \in Stored(x.disk))
    <3>1. PICK y : y = Ensured(k)
      OBVIOUS
    <3>2. r \in StoreType /\ r.disk = x.disk /\ r.mem = [x.mem EXCEPT ![v] = y]
      BY <2>4, <2>6, <3>1 DEF EnsuredTo
    <3> QED BY <3>2, <1>2 DEF StoreType, Spared
  <2> QED BY <2>5, <2>6
<1> QED BY <1>1, <1>2

\* x is s after the object m of f was found clean.  u is r with m's row, and with its flags as they
\* are after the write.
Cleaned(s, x, f, m) ==
  /\ x \in StoreType /\ x.pending = s.pending /\ x.disk = s.disk
  /\ x.mem = [s.mem EXCEPT ![f] = [m EXCEPT !.dirty = FALSE]]
Inserted(s, r, u, f, m) ==
  /\ u \in StoreType /\ u.pending = r.pending
  /\ u.mem = [r.mem EXCEPT ![f] = Saved(m)]
  /\ u.disk.rows = [s.disk.rows EXCEPT ![f] = RowOf(m)] /\ u.disk.rx = s.disk.rx

\* The row and the flags of f are written after its value was converted, which changes
\* neither them nor anything that depends on them.
LEMMA SavedThenTouched ==
  ASSUME NEW s \in StoreType, NEW f \in Future, NEW m \in FutureDB, s.mem[f] = m, NEW x, Cleaned(s, x, f, m),
         NEW r, SavedTo(s, r, f, m), m.value # f, m.value \in Future => s.mem[m.value] \in FutureDB,
         NEW u, Inserted(s, Touch(x, Held(m.value)), u, f, m)
  PROVE  u = Touch(r, Held(m.value))
<1>1. PICK d, e : d = [m EXCEPT !.dirty = FALSE] /\ e = Saved(m)
  OBVIOUS
<1>2. d \in FutureDB /\ e \in FutureDB
  BY <1>1, SavedFacts DEF FutureDB
<1>3. PICK v : v = m.value
  OBVIOUS
<1>4. PICK tx, tr : tx = Touch(x, Held(v)) /\ tr = Touch(r, Held(v))
  OBVIOUS
<1>5. /\ r \in StoreType /\ r.pending = s.pending /\ r.mem = [s.mem EXCEPT ![f] = e]
      /\ r.disk.rows = [s.disk.rows EXCEPT ![f] = RowOf(m)] /\ r.disk.rx = s.disk.rx
  BY <1>1 DEF SavedTo
<1>6. /\ u.mem = [tx.mem EXCEPT ![f] = e] /\ u.pending = tx.pending
      /\ x.mem = [s.mem EXCEPT ![f] = d] /\ x.mem[f] = d
      /\ x \in StoreType /\ x.pending = s.pending /\ x.disk = s.disk
  BY <1>1, <1>3, <1>4 DEF StoreType, Cleaned, Inserted
<1>10. u \in StoreType /\ u.disk.rows = [s.disk.rows EXCEPT ![f] = RowOf(m)] /\ u.disk.rx = s.disk.rx
  BY DEF Inserted
<1>7. u.disk = r.disk
  <2>1. u.disk \in Tables /\ r.disk \in Tables
    BY <1>5, <1>10 DEF StoreType
  <2>2. u.disk.rows = r.disk.rows /\ u.disk.rx = r.disk.rx
    BY <1>5, <1>10
  <2> QED BY <2>1, <2>2, SameTables
<1>8. tr \in StoreType /\ tr.mem = u.mem /\ tr.pending = u.pending /\ tr.disk = u.disk
  <2>1. CASE v \notin Future
    <3>1. Held(v) = <<>>
      BY <2>1 DEF Held
    <3>2. tx = x /\ tr = r
      BY <3>1, <1>4, TouchNone
    <3>3. u.mem = r.mem
      BY <3>2, <1>5, <1>6 DEF StoreType
    <3> QED BY <3>2, <3>3, <1>5, <1>6, <1>7
  <2>2. CASE v \in Future
    <3>1. Held(v) = <<v>>
      BY <2>2 DEF Held
    <3>2. tx = EnsureInDatabase(x, v) /\ tr = EnsureInDatabase(r, v)
      BY <3>1, <1>4, TouchOne
    <3>3. PICK k : k = s.mem[v]
      OBVIOUS
    <3>4. k \in FutureDB /\ v # f /\ x.mem[v] = k /\ r.mem[v] = k
      BY <3>3, <2>2, <1>3, <1>5, <1>6 DEF StoreType
    <3>5. v \in Stored(r.disk) <=> v \in Stored(x.disk)
      BY <3>4, <2>2, <1>5, <1>6 DEF Stored, StoreType, Tables
    <3>6. CASE k.inDatabase /\ v \in Stored(x.disk)
      <4>1. tx = x /\ tr = r
        <5>1. /\ x.mem[v].inDatabase /\ v \in Stored(x.disk)
              /\ r.mem[v].inDatabase /\ v \in Stored(r.disk)
          BY <3>4, <3>5, <3>6
        <5> QED BY <5>1, <3>2, EnsuredAlready, Zenon
      <4>2. u.mem = r.mem
        BY <4>1, <1>5, <1>6 DEF StoreType
      <4> QED BY <4>1, <4>2, <1>5, <1>6, <1>7
    <3>7. CASE ~(k.inDatabase /\ v \in Stored(x.disk))
      <4>1. /\ tx \in StoreType /\ tx.disk = x.disk /\ tx.mem = [x.mem EXCEPT ![v] = Ensured(k)]
            /\ tx.pending = IF k.dirty THEN x.pending ELSE Add(x.pending, <<v, "future">>)
        <5>1. EnsuredTo(x, tx, v, k)
          BY <3>2, <3>4, <2>2, <1>6, EnsuredStore, Zenon
        <5> QED BY <5>1, <3>7 DEF EnsuredTo
      <4>2. /\ tr \in StoreType /\ tr.disk = r.disk /\ tr.mem = [r.mem EXCEPT ![v] = Ensured(k)]
            /\ tr.pending = IF k.dirty THEN r.pending ELSE Add(r.pending, <<v, "future">>)
        <5>1. EnsuredTo(r, tr, v, k)
          BY <3>2, <3>4, <2>2, <1>5, EnsuredStore, Zenon
        <5> QED BY <5>1, <3>5, <3>7 DEF EnsuredTo
      <4>3. tr.pending = u.pending /\ tr.disk = u.disk
        BY <4>1, <4>2, <1>5, <1>6, <1>7
      <4>4. PICK y : y = Ensured(k)
        OBVIOUS
      <4>5. tr.mem = u.mem
        <5>1. PICK h : h = s.mem /\ h \in [Future -> FutureDB \cup {Absent}]
          BY DEF StoreType
        <5>2. tr.mem = [[h EXCEPT ![f] = e] EXCEPT ![v] = y]
          BY <4>2, <4>4, <5>1, <1>5
        <5>3. u.mem = [[[h EXCEPT ![f] = d] EXCEPT ![v] = y] EXCEPT ![f] = e]
          BY <4>1, <4>4, <5>1, <1>6
        <5>4. tr.mem = u.mem
          BY <5>1, <5>2, <5>3, <3>4, <2>2
        <5> QED BY <5>4
      <4> QED BY <4>2, <4>3, <4>5
    <3> QED BY <3>6, <3>7
  <2> QED BY <2>1, <2>2
<1>9. tr = u
  BY <1>8, <1>10, SameStore
<1> QED BY <1>1, <1>3, <1>4, <1>8, <1>9

\* SQLFutureDB.write, as the row and flags first and the conversion after.
LEMMA WriteFutureIs ==
  ASSUME NEW s \in StoreType, NEW f \in Future, NEW m \in FutureDB, s.mem[f] = m,
         m.value # f, m.value \in Future => s.mem[m.value] \in FutureDB,
         m.inDatabase => /\ f \in Stored(s.disk)
                         /\ m.state = "Pending" => /\ s.disk.rows[f].state = "Pending" /\ s.disk.rows[f].value = m.value
                                                   /\ m.settled /\ ~m.root
  PROVE  \E r : SavedTo(s, r, f, m) /\ WriteFuture(s, f) = Touch(r, Held(m.value))
<1>1. PICK d, e, row, v : d = [m EXCEPT !.dirty = FALSE] /\ e = Saved(m) /\ row = RowOf(m) /\ v = m.value
  OBVIOUS
<1>2. d \in FutureDB /\ e \in FutureDB /\ row \in Row /\ d.inDatabase = m.inDatabase /\ e = [d EXCEPT !.inDatabase = TRUE]
  <2>1. d \in FutureDB /\ d.inDatabase = m.inDatabase
    BY <1>1 DEF FutureDB
  <2>2. e = [d EXCEPT !.inDatabase = TRUE]
    BY <1>1 DEF Saved
  <2>3. e \in FutureDB
    BY <1>1, SavedFacts, Zenon
  <2>4. row \in Row
    BY <1>1, RowFacts, Zenon
  <2> QED BY <2>1, <2>2, <2>3, <2>4
<1>3. PICK rows : rows = [s.disk.rows EXCEPT ![f] = row]
  OBVIOUS
<1>4. PICK r : r = [mem |-> [s.mem EXCEPT ![f] = e], pending |-> s.pending, disk |-> [rows |-> rows, rx |-> s.disk.rx]]
  OBVIOUS
<1>5. SavedTo(s, r, f, m)
  BY <1>1, <1>2, <1>3, <1>4 DEF SavedTo, StoreType, Tables
<1>6. PICK x : x = [s EXCEPT !.mem[f].dirty = FALSE]
  OBVIOUS
<1>7. x \in StoreType /\ x.mem = [s.mem EXCEPT ![f] = d] /\ x.mem[f] = d /\ x.pending = s.pending /\ x.disk = s.disk
  BY <1>1, <1>2, <1>6 DEF StoreType
<1>8. PICK tx : tx = Touch(x, Held(v))
  OBVIOUS
<1>9. v \in Future => x.mem[v] \in FutureDB
  BY <1>1, <1>7 DEF StoreType
<1>10. tx \in StoreType /\ tx.disk = s.disk /\ tx.mem[f] = d
  <2>1. v # f
    BY <1>1
  <2>2. Spared(x, tx, f)
    BY <2>1, <1>7, <1>8, <1>9, TouchHeld, Zenon
  <2> QED BY <2>2, <1>7 DEF Spared
<1>11. PICK u : u = WriteFuture(s, f)
  OBVIOUS
<1>12. u \in StoreType /\ u.pending = tx.pending /\ u.mem = [tx.mem EXCEPT ![f] = e] /\ u.disk.rows = rows /\ u.disk.rx = s.disk.rx
  <2>1. CASE ~m.inDatabase
    <3>1. u = [tx EXCEPT !.mem[f].inDatabase = TRUE, !.disk.rows[f] = row]
      BY <2>1, <1>1, <1>6, <1>8, <1>11, Zenon DEF WriteFuture, RowOf
    <3>2. PICK k : k = [tx EXCEPT !.mem[f].inDatabase = TRUE]
      OBVIOUS
    <3>3. k \in StoreType /\ k.mem = [tx.mem EXCEPT ![f] = e] /\ k.pending = tx.pending /\ k.disk = s.disk
      BY <3>2, <1>2, <1>10 DEF StoreType
    <3>4. u = [k EXCEPT !.disk.rows[f] = row]
      BY <3>1, <3>2, <3>3, <1>10
    <3> QED BY <3>3, <3>4, <1>2, <1>3 DEF StoreType, Tables
  <2>2. CASE m.inDatabase
    <3>1. PICK old : old = s.disk.rows[f] /\ old \in Row
      BY <2>2 DEF StoreType, Tables, Stored
    <3>2. PICK new : new = IF m.state = "Pending" THEN [old EXCEPT !.root = FALSE, !.settled = TRUE] ELSE row
      OBVIOUS
    <3>3. u = [tx EXCEPT !.disk.rows[f] = new]
      <4>1. u = [tx EXCEPT !.disk.rows[f] = IF m.state = "Pending" THEN [tx.disk.rows[f] EXCEPT !.root = FALSE, !.settled = TRUE] ELSE row]
        BY <2>2, <1>1, <1>6, <1>8, <1>11, Zenon DEF WriteFuture, RowOf
      <4>2. tx.disk.rows[f] = old
        BY <3>1, <1>10
      <4> QED BY <4>1, <4>2, <3>2
    <3>4. new = row
      <4>1. CASE m.state = "Pending"
        <5>1. PICK h : h = [old EXCEPT !.root = FALSE]
          OBVIOUS
        <5>2. new = [h EXCEPT !.settled = TRUE]
          BY <4>1, <5>1, <3>2
        <5>3. /\ old.state = m.state /\ old.value = m.value /\ m.settled = TRUE /\ m.root = FALSE
              /\ row = [state |-> m.state, value |-> m.value, settled |-> m.settled, root |-> m.root]
          BY <4>1, <3>1, <2>2, <1>1 DEF FutureDB, RowOf
        <5>4. new.state = m.state /\ new.value = m.value /\ new.settled = m.settled /\ new.root = m.root /\ new \in Row
          BY <5>1, <5>2, <5>3, <3>1 DEF Row
        <5> QED BY <5>3, <5>4 DEF Row
      <4> QED BY <4>1, <3>2
    <3>5. d = e
      BY <2>2, <1>2 DEF FutureDB
    <3>6. tx.mem = [tx.mem EXCEPT ![f] = e]
      BY <3>5, <1>10 DEF StoreType
    <3>7. u = [tx EXCEPT !.disk.rows[f] = row]
      BY <3>3, <3>4
    <3>8. u \in StoreType /\ u.pending = tx.pending /\ u.mem = tx.mem /\ u.disk.rows = rows /\ u.disk.rx = s.disk.rx
      BY <3>7, <1>2, <1>3, <1>10 DEF StoreType, Tables
    <3> QED BY <3>6, <3>8
  <2> QED BY <2>1, <2>2
<1>13. u = Touch(r, Held(v))
  <2>1. Cleaned(s, x, f, m)
    BY <1>1, <1>7 DEF Cleaned
  <2>2. Inserted(s, Touch(x, Held(m.value)), u, f, m)
    BY <1>1, <1>3, <1>8, <1>12 DEF Inserted
  <2>3. u = Touch(r, Held(m.value))
    BY <2>1, <2>2, <1>5, SavedThenTouched, Zenon
  <2> QED BY <2>3, <1>1
<1> QED BY <1>1, <1>5, <1>11, <1>13

LEMMA WriteFutureKeeps ==
  ASSUME IInv, NEW s, NEW n, Flushing(s, n, {}), n + 1 \in DOMAIN s.pending,
         NEW f, s.pending[n + 1] = <<f, "future">>
  PROVE  Flushing(WriteFuture(s, f), n + 1, {})
<1>0. TypeOK
  BY DEF IInv
<1>1. PICK m : m = s.mem[f]
  OBVIOUS
<1>2. /\ f \in Live /\ f \in Future /\ m \in FutureDB /\ m # Absent /\ n \in Nat
      /\ s \in StoreType /\ Marks(s, n) /\ m.dirty
  BY <1>0, <1>1, DirtyEntry DEF IsDirty
<1>3. /\ FlushedObject(f, m, mem[f], s.disk) /\ Refers(m) \subseteq Live
      /\ RowOk(f, mem[f], known) /\ mem[f].value # f
  BY <1>1, <1>2 DEF Flushing, IInv, MemInv, ObjectOk
<1>4. m.value # f
  BY <1>3 DEF FlushedObject
<1>5. m.value \in Future => m.value \in Live /\ s.mem[m.value] \in FutureDB
  <2>1. m.value \in Future => m.value \in Live
    BY <1>3 DEF Refers
  <2> QED BY <2>1, <1>2 DEF Flushing, StoreType
<1>6. m.inDatabase => /\ f \in Stored(s.disk)
                      /\ m.state = "Pending" => /\ s.disk.rows[f].state = "Pending" /\ s.disk.rows[f].value = m.value
                                                /\ m.settled /\ ~m.root
  <2>1. m.inDatabase => f \in Stored(s.disk) /\ s.disk.rows[f].state = "Pending" /\ m.settled /\ ~m.root
    BY <1>2, <1>3 DEF FlushedObject
  <2>2. m.inDatabase => s.disk.rows[f].value = None
    BY <2>1 DEF Flushing
  <2>3. m.state = "Pending" => m.value = None
    BY <1>3 DEF FlushedObject, RowOk
  <2> QED BY <2>1, <2>2, <2>3
<1>7. PICK r : SavedTo(s, r, f, m) /\ WriteFuture(s, f) = Touch(r, Held(m.value))
  BY <1>1, <1>2, <1>4, <1>5, <1>6, WriteFutureIs, Zenon
<1>8. Flushing(r, n + 1, {m.value} \cap Future)
  BY <1>1, <1>7, SavedKeeps
<1>9. PICK l : l = Held(m.value)
  OBVIOUS
<1>10. l \in Seq(Future) /\ ToSet(l) = {m.value} \cap Future /\ ToSet(l) \subseteq Live
  <2>1. CASE m.value \in Future
    <3>1. l = <<m.value>>
      BY <2>1, <1>9 DEF Held
    <3>2. l \in Seq(Future) /\ DOMAIN l = {1} /\ l[1] = m.value
      BY <3>1, <2>1
    <3> QED BY <3>2, <2>1, <1>5 DEF ToSet
  <2>2. CASE m.value \notin Future
    BY <2>2, <1>9, EmptyList DEF Held
  <2> QED BY <2>1, <2>2
<1>11. Flushing(Touch(r, l), n + 1, {})
  BY <1>0, <1>8, <1>10, TouchKeeps
<1> QED BY <1>7, <1>9, <1>11

\* r is s after a write of the list of f: x is the list and rows are its rows.
Kept(s, r, f, t, x, rows) ==
  /\ r \in StoreType /\ r.pending = s.pending
  /\ \E m \in FutureDB :
       /\ r.mem = [s.mem EXCEPT ![f] = m]
       /\ m.state = s.mem[f].state /\ m.value = s.mem[f].value /\ m.settled = s.mem[f].settled
       /\ m.root = s.mem[f].root /\ m.inDatabase = s.mem[f].inDatabase /\ m.dirty = s.mem[f].dirty
       /\ m.rx[t] = x /\ m.rx[Other(t)] = s.mem[f].rx[Other(t)]
  /\ r.disk.rows = s.disk.rows
  /\ r.disk.rx[t][f] = rows
  /\ \A g \in Future, u \in Type : g # f \/ u # t => r.disk.rx[u][g] = s.disk.rx[u][g]

LEMMA KeptKeeps ==
  ASSUME IInv, NEW s, NEW n, Flushing(s, n, {}), n + 1 \in DOMAIN s.pending,
         NEW f, NEW t \in Type, s.pending[n + 1] = <<f, t>>,
         NEW r, NEW x \in Reactions, NEW rows, Kept(s, r, f, t, x, rows), ~x.dirty,
         x.read = s.mem[f].rx[t].read,
         FlushedList(s.mem[f].state, x, rows, ViewReactions(f, t)),
         ToSet(x.written) \cup ToSet(x.unwritten) \subseteq Live,
         NEW E, ToSet(rows) \subseteq ToSet(s.disk.rx[t][f]) \cup E
  PROVE  Flushing(r, n + 1, E)
<1>0. TypeOK
  BY DEF IInv
<1>1. PICK o : o = s.mem[f]
  OBVIOUS
<1>2. /\ f \in Live /\ f \in Future /\ o \in FutureDB /\ o # Absent /\ n \in Nat
      /\ s \in StoreType /\ Marks(s, n)
  BY <1>0, <1>1, DirtyEntry
<1>3. PICK m \in FutureDB :
             /\ r.mem = [s.mem EXCEPT ![f] = m]
             /\ m.state = o.state /\ m.value = o.value /\ m.settled = o.settled
             /\ m.root = o.root /\ m.inDatabase = o.inDatabase /\ m.dirty = o.dirty
             /\ m.rx[t] = x /\ m.rx[Other(t)] = o.rx[Other(t)]
  BY <1>1 DEF Kept
<1>4. /\ r \in StoreType /\ r.pending = s.pending /\ r.mem[f] = m /\ \A g \in Future : g # f => r.mem[g] = s.mem[g]
  BY <1>2, <1>3 DEF Kept, StoreType
<1>5. /\ r.disk.rows = s.disk.rows /\ Stored(r.disk) = Stored(s.disk) /\ r.disk.rx[t][f] = rows
      /\ \A g \in Future, u \in Type : g # f \/ u # t => r.disk.rx[u][g] = s.disk.rx[u][g]
  BY DEF Kept, Stored
<1>6. m # Absent /\ \A u \in Type : u # t => u = Other(t) /\ m.rx[u] = o.rx[u]
  BY <1>3, AbsentIsNone DEF Type, Other
<1>7. ASSUME NEW y \in Future, Covered(s, y, {}) PROVE Covered(r, y, E)
  <2>1. y # f => r.mem[y] = s.mem[y]
    BY <1>4
  <2> QED BY <2>1, <1>1, <1>3, <1>4, <1>5, <1>6, <1>7 DEF Covered, Due
<1>8. Marks(r, n + 1)
  <2>1. PICK w : w = <<f, t>>
    OBVIOUS
  <2>2. w[1] = f /\ w[2] = t /\ t # "future"
    BY <2>1 DEF Type
  <2>3. ~IsDirty(r.mem, w)
    BY <2>2, <1>3, <1>4 DEF IsDirty
  <2>4. ASSUME NEW u \in Write, u # w PROVE IsDirty(r.mem, u) <=> IsDirty(s.mem, u)
    <3>1. u[1] \in Future /\ u = <<u[1], u[2]>> /\ (u[1] # f \/ u[2] # t) /\ (u[2] # "future" => u[2] \in Type)
      BY <2>1, <2>4 DEF Write
    <3>2. CASE u[1] # f
      BY <3>1, <3>2, <1>4 DEF IsDirty
    <3>3. CASE u[1] = f /\ u[2] = "future"
      BY <3>3, <1>1, <1>2, <1>3, <1>4, <1>6 DEF IsDirty
    <3>4. CASE u[1] = f /\ u[2] # "future" /\ u[2] # t
      BY <3>1, <3>4, <1>1, <1>2, <1>4, <1>6 DEF IsDirty
    <3> QED BY <3>1, <3>2, <3>3, <3>4
  <2> QED BY <2>1, <2>3, <2>4, <1>2, <1>4, MarkOff
<1>9. ASSUME NEW g \in Live
      PROVE  r.mem[g] # Absent /\ FlushedObject(g, r.mem[g], mem[g], r.disk) /\ Refers(r.mem[g]) \subseteq Live
  <2>1. g \in Future /\ s.mem[g] # Absent /\ FlushedObject(g, s.mem[g], mem[g], s.disk) /\ Refers(s.mem[g]) \subseteq Live
    BY <1>0, StoreFacts DEF Flushing
  <2>2. CASE g # f
    <3>1. r.mem[g] = s.mem[g] /\ \A u \in Type : r.disk.rx[u][g] = s.disk.rx[u][g]
      BY <2>1, <2>2, <1>4, <1>5
    <3> QED BY <2>1, <3>1, <1>5 DEF FlushedObject
  <2>3. CASE g = f
    <3>1. FlushedObject(f, o, mem[f], s.disk) /\ Refers(o) \subseteq Live
      BY <2>1, <2>3, <1>1
    <3>2. ASSUME NEW y \in Refers(m) PROVE y \in Live
      <4>1. CASE y \in {m.value} \cap Future
        BY <4>1, <3>1, <1>3 DEF Refers
      <4>2. ASSUME NEW u \in Type, y \in ToSet(m.rx[u].written) \cup ToSet(m.rx[u].unwritten) PROVE y \in Live
        <5>1. CASE u = t
          BY <5>1, <4>2, <1>3
        <5>2. CASE u # t
          BY <5>2, <4>2, <3>1, <1>6 DEF Refers
        <5> QED BY <5>1, <5>2
      <4> QED BY <3>2, <4>1, <4>2 DEF Refers
    <3>3. ASSUME NEW u \in Type
          PROVE  /\ m.rx[u].read = mem[f].rx[u].read
                 /\ FlushedList(m.state, m.rx[u], r.disk.rx[u][f], ViewReactions(f, u))
      <4>1. CASE u = t
        BY <4>1, <3>1, <1>1, <1>3, <1>5 DEF FlushedObject
      <4>2. CASE u # t
        BY <4>2, <3>1, <1>2, <1>3, <1>5, <1>6 DEF FlushedObject
      <4> QED BY <4>1, <4>2
    <3>4. RowOf(m) = RowOf(o)
      BY <1>3 DEF RowOf
    <3>5. /\ m.state = mem[f].state /\ m.value = mem[f].value /\ m.settled = mem[f].settled /\ m.root = mem[f].root
          /\ ~m.inDatabase => f \notin Stored(r.disk) /\ (f \in known => m.dirty)
          /\ m.inDatabase /\ ~m.dirty /\ f \in Stored(r.disk) => r.disk.rows[f] = RowOf(m)
          /\ m.inDatabase /\ m.dirty => /\ f \in Stored(r.disk) /\ r.disk.rows[f].state = "Pending"
                                        /\ m.settled /\ ~m.root
          /\ m.inDatabase /\ m.state = "Pending" => f \in Stored(r.disk)
      BY <3>1, <3>4, <1>3, <1>5 DEF FlushedObject
    <3>6. FlushedObject(f, m, mem[f], r.disk)
      BY <3>3, <3>5 DEF FlushedObject
    <3> QED BY <2>3, <3>2, <3>6, <1>4, <1>6
  <2> QED BY <2>2, <2>3
<1>10. \A g \in Future \ Live : /\ r.mem[g] = Absent /\ r.disk.rows[g] = disk.rows[g]
                                /\ \A u \in Type : r.disk.rx[u][g] = disk.rx[u][g]
  <2>1. \A g \in Future \ Live : g # f
    BY <1>2
  <2> QED BY <2>1, <1>4, <1>5 DEF Flushing
<1>11. ASSUME NEW i \in 1 .. n + 1, r.pending[i][2] = "future"
       PROVE  r.mem[r.pending[i][1]].inDatabase /\ r.pending[i][1] \in Stored(r.disk)
  <2>1. i # n + 1
    BY <1>4, <1>11 DEF Type
  <2>2. i \in 1..n
    BY <2>1, <1>2
  <2>3. PICK y : y = s.pending[i][1]
    OBVIOUS
  <2>4. s.mem[y].inDatabase /\ y \in Stored(s.disk) /\ y \in Future
    BY <2>2, <2>3, <1>4, <1>11 DEF Flushing, Stored
  <2>5. r.mem[y].inDatabase /\ y \in Stored(r.disk)
    BY <2>4, <1>1, <1>3, <1>4, <1>5
  <2> QED BY <2>3, <2>5, <1>4
<1>12. ASSUME NEW g \in Stored(r.disk)
       PROVE  /\ r.disk.rows[g].state = "Pending" => r.disk.rows[g].value = None
              /\ r.disk.rows[g].value \in Future => Covered(r, r.disk.rows[g].value, E)
  BY <1>5, <1>7 DEF Flushing
<1>13. ASSUME NEW g \in Future, NEW u \in Type, NEW y \in ToSet(r.disk.rx[u][g])
       PROVE  Covered(r, y, E)
  <2>1. \A h \in Future, v \in Type : ToSet(s.disk.rx[v][h]) \subseteq Future
    <3>1. \A h \in Future, v \in Type : s.disk.rx[v][h] \in Seq(Future)
      BY <1>2 DEF StoreType, Tables
    <3> QED BY <3>1, ToSetIn
  <2>2. y \in E \/ \E h \in Future, v \in Type : y \in ToSet(s.disk.rx[v][h])
    BY <1>2, <1>5, <1>13
  <2>3. CASE y \in E
    BY <2>3 DEF Covered
  <2>4. CASE \E h \in Future, v \in Type : y \in ToSet(s.disk.rx[v][h])
    BY <2>1, <2>4, <1>7 DEF Flushing
  <2> QED BY <2>2, <2>3, <2>4
<1>14. Stored(disk) \subseteq Stored(r.disk)
  BY <1>5 DEF Flushing
<1> QED BY <1>4, <1>8, <1>9, <1>10, <1>11, <1>12, <1>13, <1>14 DEF Flushing

\* SQLReactionsDB.write.
LEMMA WriteReactionsKeeps ==
  ASSUME IInv, NEW s, NEW n, Flushing(s, n, {}), n + 1 \in DOMAIN s.pending,
         NEW f, NEW t \in Type, s.pending[n + 1] = <<f, t>>
  PROVE  Flushing(WriteReactions(s, f, t), n + 1, {})
<1>0. TypeOK
  BY DEF IInv
<1>1. PICK m, x, rows : m = s.mem[f] /\ x = m.rx[t] /\ rows = s.disk.rx[t][f]
  OBVIOUS
<1>2. /\ f \in Live /\ f \in Future /\ m \in FutureDB /\ m # Absent /\ n \in Nat
      /\ s \in StoreType /\ Marks(s, n) /\ x \in Reactions /\ rows \in Seq(Future)
  <2>1. /\ f \in Live /\ f \in Future /\ m \in FutureDB /\ m # Absent /\ n \in Nat
        /\ s \in StoreType /\ Marks(s, n)
    BY <1>0, <1>1, DirtyEntry
  <2> QED BY <2>1, <1>1 DEF StoreType, FutureDB, Tables
<1>3. PICK l : l = ViewReactions(f, t)
  OBVIOUS
<1>4. FlushedList(m.state, x, rows, l) /\ Refers(m) \subseteq Live
  BY <1>1, <1>2, <1>3 DEF Flushing, FlushedObject
<1>5. ToSet(x.written) \cup ToSet(x.unwritten) \subseteq Live
  BY <1>1, <1>4 DEF Refers
<1>6. PICK k : k = [x EXCEPT !.dirty = FALSE]
  OBVIOUS
<1>7. /\ k \in Reactions /\ ~k.dirty /\ k.read = x.read /\ k.deleted = x.deleted
      /\ k.written = x.written /\ k.unwritten = x.unwritten
  BY <1>2, <1>6 DEF Reactions
<1>8. PICK clean : clean = [s EXCEPT !.mem[f].rx[t].dirty = FALSE]
  OBVIOUS
<1>9. PICK mk : mk = [m EXCEPT !.rx[t] = k]
  OBVIOUS
<1>10. /\ mk \in FutureDB /\ mk.rx[t] = k /\ mk.rx[Other(t)] = m.rx[Other(t)]
       /\ mk.state = m.state /\ mk.value = m.value /\ mk.settled = m.settled
       /\ mk.root = m.root /\ mk.inDatabase = m.inDatabase /\ mk.dirty = m.dirty
  BY <1>2, <1>7, <1>9 DEF FutureDB, Other, Type
<1>11. /\ clean \in StoreType /\ clean.mem = [s.mem EXCEPT ![f] = mk] /\ clean.mem[f] = mk
       /\ clean.pending = s.pending /\ clean.disk = s.disk
  <2>1. [s.mem[f] EXCEPT !.rx[t].dirty = FALSE] = mk
    BY <1>1, <1>6, <1>9
  <2>2. clean = [s EXCEPT !.mem[f] = [s.mem[f] EXCEPT !.rx[t].dirty = FALSE]]
    BY <1>8
  <2>3. clean = [s EXCEPT !.mem[f] = mk]
    BY <2>1, <2>2
  <2> QED BY <2>3, <1>2, <1>10 DEF StoreType
<1>12. CASE x.deleted
  <2>1. PICK r : r = [clean EXCEPT !.disk.rx[t][f] = <<>>]
    OBVIOUS
  <2>2. WriteReactions(s, f, t) = r
    <3>1. s.mem[f].rx[t].deleted
      BY <1>1, <1>12
    <3>2. WriteReactions(s, f, t) = [s EXCEPT !.mem[f].rx[t].dirty = FALSE, !.disk.rx[t][f] = <<>>]
      BY <3>1, Zenon DEF WriteReactions
    <3>3. r = [[s EXCEPT !.mem[f].rx[t].dirty = FALSE] EXCEPT !.disk.rx[t][f] = <<>>]
      BY <2>1, <1>8, Zenon
    <3> QED BY <3>2, <3>3, Zenon
  <2>3. <<>> \in Seq(Future)
    OBVIOUS
  <2>4. /\ r \in StoreType /\ r.mem = clean.mem /\ r.pending = s.pending /\ r.disk.rows = s.disk.rows
        /\ r.disk.rx[t][f] = <<>>
        /\ \A g \in Future, u \in Type : g # f \/ u # t => r.disk.rx[u][g] = s.disk.rx[u][g]
    BY <2>1, <2>3, <1>2, <1>11 DEF StoreType, Tables
  <2>5. Kept(s, r, f, t, k, <<>>)
    BY <2>4, <1>1, <1>10, <1>11 DEF Kept
  <2>6. FlushedList(m.state, k, <<>>, l)
    BY <1>4, <1>7, <1>12 DEF FlushedList
  <2>7. Flushing(r, n + 1, {})
    <3>1. ToSet(<<>>) \subseteq ToSet(s.disk.rx[t][f]) \cup {}
      BY EmptyList
    <3>2. k.read = s.mem[f].rx[t].read /\ FlushedList(s.mem[f].state, k, <<>>, ViewReactions(f, t))
          /\ ToSet(k.written) \cup ToSet(k.unwritten) \subseteq Live
      BY <2>6, <1>1, <1>3, <1>5, <1>7
    <3> QED BY <2>5, <3>1, <3>2, <1>7, KeptKeeps
  <2> QED BY <2>2, <2>7
<1>13. CASE ~x.deleted
  <2>1. PICK w : w = IF x.read THEN x.written \o x.unwritten ELSE x.written
    OBVIOUS
  <2>2. PICK rs : rs = rows \o x.unwritten
    OBVIOUS
  <2>3. x.written \in Seq(Future) /\ x.unwritten \in Seq(Future) /\ w \in Seq(Future) /\ rs \in Seq(Future)
    BY <2>1, <2>2, <1>2 DEF Reactions
  <2>4. PICK y : y = [x EXCEPT !.dirty = FALSE, !.unwritten = <<>>,
                               !.written = IF x.read THEN @ \o x.unwritten ELSE @]
    OBVIOUS
  <2>5. y \in Reactions /\ ~y.dirty /\ y.read = x.read /\ ~y.deleted /\ y.written = w /\ y.unwritten = <<>>
    <3>1. PICK ka : ka = [k EXCEPT !.unwritten = <<>>]
      OBVIOUS
    <3>2. <<>> \in Seq(Future)
      OBVIOUS
    <3>3. /\ ka \in Reactions /\ ka.written = x.written /\ ka.unwritten = <<>>
          /\ ~ka.dirty /\ ka.read = x.read /\ ~ka.deleted
      BY <3>1, <3>2, <1>7, <1>13 DEF Reactions
    <3>4. y = [ka EXCEPT !.written = w]
      <4>1. y = [[[x EXCEPT !.dirty = FALSE] EXCEPT !.unwritten = <<>>] EXCEPT !.written = w]
        BY <2>1, <2>4, Zenon
      <4> QED BY <4>1, <3>1, <1>6, Zenon
    <3> QED BY <3>3, <3>4, <2>3 DEF Reactions
  <2>6. PICK r : r = [s EXCEPT !.mem[f].rx[t] = y, !.disk.rx[t][f] = rs]
    OBVIOUS
  <2>7. WriteReactions(s, f, t) = Touch(r, x.unwritten)
    <3>1. ~s.mem[f].rx[t].deleted
      BY <1>1, <1>13
    <3>2. PICK z, q : /\ z = [s.mem[f].rx[t] EXCEPT !.dirty = FALSE, !.unwritten = <<>>,
                                !.written = IF s.mem[f].rx[t].read THEN @ \o s.mem[f].rx[t].unwritten ELSE @]
                      /\ q = s.disk.rx[t][f] \o s.mem[f].rx[t].unwritten
      OBVIOUS
    <3>3. WriteReactions(s, f, t) = Touch([s EXCEPT !.mem[f].rx[t] = z, !.disk.rx[t][f] = q], s.mem[f].rx[t].unwritten)
      BY <3>1, <3>2, Zenon DEF WriteReactions
    <3>4. s.mem[f].rx[t] = x /\ q = rs
      BY <3>2, <2>2, <1>1
    <3>5. z = y
      BY <3>2, <3>4, <2>4, Zenon
    <3> QED BY <3>3, <3>4, <3>5, <2>6, Zenon
  <2>8. PICK my : my = [m EXCEPT !.rx[t] = y]
    OBVIOUS
  <2>9. /\ my \in FutureDB /\ my.rx[t] = y /\ my.rx[Other(t)] = m.rx[Other(t)]
        /\ my.state = m.state /\ my.value = m.value /\ my.settled = m.settled
        /\ my.root = m.root /\ my.inDatabase = m.inDatabase /\ my.dirty = m.dirty
    BY <2>5, <2>8, <1>2 DEF FutureDB, Other, Type
  <2>10. /\ r \in StoreType /\ r.mem = [s.mem EXCEPT ![f] = my] /\ r.pending = s.pending
         /\ r.disk.rows = s.disk.rows /\ r.disk.rx[t][f] = rs
         /\ \A g \in Future, u \in Type : g # f \/ u # t => r.disk.rx[u][g] = s.disk.rx[u][g]
    <3>1. PICK a : a = [s EXCEPT !.mem[f].rx[t] = y]
      OBVIOUS
    <3>2. a \in StoreType /\ a.mem = [s.mem EXCEPT ![f] = my] /\ a.pending = s.pending /\ a.disk = s.disk
      <4>1. [s.mem[f] EXCEPT !.rx[t] = y] = my
        BY <2>8, <1>1
      <4>2. a = [s EXCEPT !.mem[f] = my]
        BY <3>1, <4>1
      <4> QED BY <4>2, <2>9, <1>2 DEF StoreType
    <3>3. r = [a EXCEPT !.disk.rx[t][f] = rs]
      BY <3>1, <2>6, Zenon
    <3> QED BY <3>2, <3>3, <2>3, <1>2 DEF StoreType, Tables
  <2>11. Kept(s, r, f, t, y, rs)
    BY <2>9, <2>10, <1>1 DEF Kept
  <2>12. rs \o <<>> = rs
    BY <2>3
  <2>13. FlushedList(m.state, y, rs, l)
    <3>1. CASE m.state # "Pending"
      BY <3>1 DEF FlushedList
    <3>2. CASE m.state = "Pending"
      <4>1. x.written = (IF x.read THEN rows ELSE <<>>) /\ rs = l
        BY <3>2, <2>2, <1>4 DEF FlushedList
      <4>2. w = IF x.read THEN rs ELSE <<>>
        BY <4>1, <2>1, <2>2
      <4> QED BY <4>1, <4>2, <2>5, <2>12 DEF FlushedList
    <3> QED BY <3>1, <3>2, <2>5 DEF FlushedList
  <2>14. ToSet(w) \subseteq ToSet(x.written) \cup ToSet(x.unwritten) /\ ToSet(rs) = ToSet(rows) \cup ToSet(x.unwritten)
    BY <2>1, <2>2, <2>3, <1>2, ToSetConcat
  <2>15. ToSet(y.written) \cup ToSet(y.unwritten) \subseteq Live
    BY <2>5, <2>14, <1>5, EmptyList
  <2>16. Flushing(r, n + 1, ToSet(x.unwritten))
    <3>1. ToSet(rs) \subseteq ToSet(s.disk.rx[t][f]) \cup ToSet(x.unwritten)
      BY <2>14, <1>1
    <3>2. y.read = s.mem[f].rx[t].read /\ FlushedList(s.mem[f].state, y, rs, ViewReactions(f, t))
      BY <2>5, <2>13, <1>1, <1>3
    <3> QED BY <2>5, <2>11, <2>15, <3>1, <3>2, KeptKeeps
  <2>17. Flushing(Touch(r, x.unwritten), n + 1, {})
    BY <2>3, <2>16, <1>0, <1>5, TouchKeeps
  <2> QED BY <2>7, <2>17
<1> QED BY <1>12, <1>13

LEMMA WriteEntryKeeps ==
  ASSUME IInv, NEW s, NEW n, Flushing(s, n, {}), n + 1 \in DOMAIN s.pending
  PROVE  Flushing(WriteEntry(s, s.pending[n + 1]), n + 1, {})
<1>1. PICK w : w = s.pending[n + 1]
  OBVIOUS
<1>2. s.pending \in Seq(Write)
  BY DEF Flushing, StoreType
<1>3. w \in Write
  BY <1>1, <1>2
<1>4. PICK f, t : f = w[1] /\ t = w[2]
  OBVIOUS
<1>5. w = <<f, t>> /\ (t = "future" \/ t \in Type)
  BY <1>3, <1>4 DEF Write
<1>6. CASE t = "future"
  <2>1. WriteEntry(s, w) = WriteFuture(s, f)
    BY <1>4, <1>6 DEF WriteEntry
  <2>2. s.pending[n + 1] = <<f, "future">>
    BY <1>1, <1>5, <1>6
  <2>3. Flushing(WriteFuture(s, f), n + 1, {})
    BY <2>2, WriteFutureKeeps
  <2> QED BY <2>1, <2>3, <1>1
<1>7. CASE t \in Type
  <2>1. WriteEntry(s, w) = WriteReactions(s, f, t)
    BY <1>4, <1>7 DEF WriteEntry, Type
  <2>2. s.pending[n + 1] = <<f, t>>
    BY <1>1, <1>5
  <2>3. Flushing(WriteReactions(s, f, t), n + 1, {})
    BY <2>2, <1>7, WriteReactionsKeeps
  <2> QED BY <2>1, <2>3, <1>1
<1> QED BY <1>5, <1>6, <1>7

\* The Set has room for no more entries than the iteration looks at.
LEMMA SetBound ==
  ASSUME NEW s \in StoreType, NEW n, Marks(s, n)
  PROVE  Len(s.pending) \in Nat /\ Len(s.pending) <= 3 * MaxFutures
<1>1. PICK p : p = s.pending /\ p \in Seq(Write)
  BY DEF StoreType
<1>2. PICK L : L = Len(p) /\ L \in Nat /\ p \in [1..L -> Write]
  BY <1>1
<1>3. IsFiniteSet(1..L) /\ Cardinality(1..L) = L
  <2>1. IsFiniteSet(1..L) /\ Cardinality(1..L) = IF 1 > L THEN 0 ELSE L - 1 + 1
    <3>1. 1 \in Int /\ L \in Int
      BY <1>2
    <3> QED BY ONLY <3>1, FS_Interval
  <2> QED BY <2>1, <1>2
<1>4. IsFiniteSet(Write) /\ Cardinality(Write) = 3 * MaxFutures
  <2>1. IsFiniteSet(Future) /\ Cardinality(Future) = MaxFutures
    <3>1. IsFiniteSet(1..MaxFutures) /\ Cardinality(1..MaxFutures) = IF 1 > MaxFutures THEN 0 ELSE MaxFutures - 1 + 1
      BY MaxFuturesAssumption, FS_Interval
    <3> QED BY <3>1, MaxFuturesAssumption DEF Future
  <2>2. IsFiniteSet(Type \cup {"future"}) /\ Cardinality(Type \cup {"future"}) = 3
    <3>1. IsFiniteSet({"Fulfilled"}) /\ Cardinality({"Fulfilled"}) = 1
      BY FS_Singleton
    <3>2. IsFiniteSet({"Fulfilled"} \cup {"Rejected"}) /\ Cardinality({"Fulfilled"} \cup {"Rejected"}) = 2
      BY <3>1, FS_AddElement
    <3>3. {"Fulfilled"} \cup {"Rejected"} = Type
      BY DEF Type
    <3>4. /\ IsFiniteSet(Type \cup {"future"})
          /\ Cardinality(Type \cup {"future"}) = IF "future" \in Type THEN Cardinality(Type) ELSE Cardinality(Type) + 1
      BY <3>2, <3>3, FS_AddElement
    <3>5. "future" \notin Type /\ Cardinality(Type) = 2
      BY <3>2, <3>3 DEF Type
    <3> QED BY <3>4, <3>5
  <2>3. IsFiniteSet(Write) /\ Cardinality(Write) = Cardinality(Future) * Cardinality(Type \cup {"future"})
    BY <2>1, <2>2, FS_Product DEF Write
  <2>4. Cardinality(Write) = MaxFutures * 3
    BY <2>1, <2>2, <2>3
  <2> QED BY <2>3, <2>4, MaxFuturesAssumption
<1>5. ASSUME 3 * MaxFutures < L PROVE FALSE
  <2>1. Cardinality(Write) < Cardinality(1..L)
    BY <1>3, <1>4, <1>5
  <2>2. PICK i \in 1..L, j \in 1..L : i # j /\ p[i] = p[j]
    BY <2>1, <1>2, <1>3, <1>4, FS_PigeonHole
  <2> QED BY <2>2, <1>1, <1>2 DEF Marks
<1> QED BY <1>1, <1>2, <1>5, MaxFuturesAssumption

\* The iteration ends with every entry written.
LEMMA WrittenKeeps ==
  ASSUME IInv
  PROVE  Flushing(Written, Len(Written.pending), {})
<1>1. PICK N : N = 3 * MaxFutures
  OBVIOUS
<1>2. N \in Nat
  BY <1>1, MaxFuturesAssumption
<1>3. PICK g : /\ g[0] = Store /\ Written = g[N]
               /\ \A n \in 1..N : g[n] = NextWritten(g[n - 1], n)
  BY <1>1, WrittenSteps
<1>4. PICK T : T = {n \in 0..N : \E k \in 0..n : Flushing(g[n], k, {}) /\ (k = n \/ k = Len(g[n].pending))}
  OBVIOUS
<1>5. 0 \in T
  <2>1. Flushing(g[0], 0, {})
    BY <1>3, FlushStart
  <2>2. 0 \in 0..0 /\ 0 \in 0..N
    BY <1>2
  <2> QED BY <2>1, <2>2, <1>4
<1>6. ASSUME NEW n \in 0 .. N - 1, n \in T PROVE n + 1 \in T
  <2>1. n \in Nat /\ n + 1 \in 1..N /\ n + 1 \in 0..N /\ (n + 1) - 1 = n
    BY <1>2, <1>6
  <2>2. PICK k \in 0..n : Flushing(g[n], k, {}) /\ (k = n \/ k = Len(g[n].pending))
    BY <1>4, <1>6
  <2>3. PICK s : s = g[n]
    OBVIOUS
  <2>4. g[n + 1] = IF n + 1 \in DOMAIN s.pending THEN WriteEntry(s, s.pending[n + 1]) ELSE s
    BY <2>1, <2>3, <1>3 DEF NextWritten
  <2>5. Len(s.pending) \in Nat /\ DOMAIN s.pending = 1..Len(s.pending) /\ k <= Len(s.pending)
    <3>1. s.pending \in Seq(Write) /\ k \in 0..Len(s.pending)
      BY <2>2, <2>3 DEF Flushing, StoreType, Marks
    <3> QED BY <3>1
  <2>6. CASE n + 1 \in DOMAIN s.pending
    <3>1. k = n
      BY <2>1, <2>2, <2>3, <2>5, <2>6
    <3>2. Flushing(WriteEntry(s, s.pending[n + 1]), n + 1, {})
      BY <3>1, <2>2, <2>3, <2>6, WriteEntryKeeps
    <3>3. n + 1 \in 0 .. n + 1
      BY <2>1
    <3> QED BY <3>2, <3>3, <2>1, <2>4, <2>6, <1>4
  <2>7. CASE n + 1 \notin DOMAIN s.pending
    <3>1. k = Len(s.pending) /\ k \in 0 .. n + 1
      BY <2>1, <2>2, <2>3, <2>5, <2>7
    <3> QED BY <3>1, <2>1, <2>2, <2>3, <2>4, <2>7, <1>4
  <2> QED BY <2>6, <2>7
<1>7. N \in T
  <2>1. \A k \in 0..N : k \in T
    BY <1>2, <1>5, <1>6, UpTo
  <2> QED BY <2>1, <1>2
<1>8. PICK k \in 0..N : Flushing(g[N], k, {}) /\ (k = N \/ k = Len(g[N].pending))
  BY <1>4, <1>7
<1>9. PICK s : s = g[N]
  OBVIOUS
<1>10. k = Len(s.pending)
  <2>1. s \in StoreType /\ Marks(s, k)
    BY <1>8, <1>9 DEF Flushing
  <2>2. Len(s.pending) \in Nat /\ Len(s.pending) <= N
    BY <2>1, <1>1, SetBound
  <2>3. k \in 0..Len(s.pending)
    BY <2>1 DEF Marks
  <2> QED BY <2>2, <2>3, <1>8, <1>9
<1> QED BY <1>3, <1>8, <1>9, <1>10

\* At the end nothing is dirty.
LEMMA AllClean ==
  ASSUME NEW w \in StoreType, Marks(w, Len(w.pending))
  PROVE  /\ \A u \in Write : ~IsDirty(w.mem, u)
         /\ \A f \in Future : w.mem[f] # Absent => ~w.mem[f].dirty /\ \A t \in Type : ~w.mem[f].rx[t].dirty
<1>1. w.pending \in Seq(Write)
  BY DEF StoreType
<1>2. \A i \in DOMAIN w.pending : ~(i > Len(w.pending))
  BY <1>1
<1>3. \A u \in Write : ~IsDirty(w.mem, u)
  BY <1>2 DEF Marks
<1>4. ASSUME NEW f \in Future, w.mem[f] # Absent PROVE ~w.mem[f].dirty /\ \A t \in Type : ~w.mem[f].rx[t].dirty
  <2>1. <<f, "future">> \in Write /\ \A t \in Type : <<f, t>> \in Write /\ t # "future"
    BY DEF Write, Type
  <2>2. ~IsDirty(w.mem, <<f, "future">>) /\ \A t \in Type : ~IsDirty(w.mem, <<f, t>>)
    BY <2>1, <1>3
  <2> QED BY <2>1, <2>2, <1>4 DEF IsDirty
<1> QED BY <1>3, <1>4

\* At the end rows refer to rows.
LEMMA AllStored ==
  ASSUME TypeOK, NEW w, Flushing(w, Len(w.pending), {})
  PROVE  /\ \A x \in Future : Covered(w, x, {}) => x \in Stored(w.disk)
         /\ \A f \in Stored(w.disk) : w.disk.rows[f].value \in Future => w.disk.rows[f].value \in Stored(w.disk)
         /\ \A f \in Future, t \in Type : ToSet(w.disk.rx[t][f]) \subseteq Stored(w.disk)
<1>1. w \in StoreType /\ Marks(w, Len(w.pending))
  BY DEF Flushing
<1>2. \A x \in Future : ~Due(w, x)
  BY <1>1, AllClean DEF Due
<1>3. \A x \in Future : Covered(w, x, {}) => x \in Stored(w.disk)
  BY <1>2 DEF Covered
<1>4. \A f \in Stored(w.disk) : w.disk.rows[f].value \in Future => w.disk.rows[f].value \in Stored(w.disk)
  BY <1>3 DEF Flushing
<1>5. ASSUME NEW f \in Future, NEW t \in Type PROVE ToSet(w.disk.rx[t][f]) \subseteq Stored(w.disk)
  <2>1. w.disk.rx[t][f] \in Seq(Future)
    BY <1>1 DEF StoreType, Tables
  <2>2. ToSet(w.disk.rx[t][f]) \subseteq Future
    BY <2>1, ToSetIn
  <2> QED BY <2>2, <1>3 DEF Flushing
<1> QED BY <1>3, <1>4, <1>5

\* What a flush leaves of f: its row, and its reactions.
Agrees(w, f) ==
  /\ f \in Stored(w.disk) => /\ w.disk.rows[f].state = View(f)
                             /\ View(f) = "Pending" => (w.disk.rows[f].root <=> ViewRoot(f))
                             /\ RowOk(f, w.disk.rows[f], known)
                             /\ f <= created
  /\ View(f) = "Pending" => \A t \in Type : w.disk.rx[t][f] = ViewReactions(f, t)
  /\ View(f) = "Pending" /\ f \in known /\ ViewRoot(f) => f \in Stored(w.disk)
  /\ \A t \in Type : f > created => w.disk.rx[t][f] = <<>>

LEMMA FlushAgrees ==
  ASSUME IInv, NEW w, Flushing(w, Len(w.pending), {}), NEW f \in Future
  PROVE  Agrees(w, f)
<1>0. TypeOK
  BY DEF IInv
<1>1. w \in StoreType /\ Marks(w, Len(w.pending))
  BY DEF Flushing
<1>2. CASE f \in Live
  <2>1. PICK m, o : m = w.mem[f] /\ o = mem[f]
    OBVIOUS
  <2>2. FlushedObject(f, m, o, w.disk) /\ m \in FutureDB
    BY <2>1, <1>1, <1>2 DEF Flushing, StoreType
  <2>3. ~m.dirty /\ \A t \in Type : ~m.rx[t].dirty
    BY <2>1, <1>1, <1>2, AllClean DEF Flushing
  <2>4. RowOk(f, o, known) /\ f <= created
    BY <2>1, <1>2 DEF IInv, MemInv, ObjectOk
  <2>5. View(f) = m.state /\ ViewRoot(f) = o.root /\ m.root = o.root
    BY <2>1, <2>2, <1>2 DEF View, ViewRoot, FlushedObject
  <2>6. ASSUME f \in Stored(w.disk)
        PROVE  /\ w.disk.rows[f].state = View(f) /\ w.disk.rows[f].root = ViewRoot(f)
               /\ RowOk(f, w.disk.rows[f], known)
    <3>1. w.disk.rows[f] = RowOf(m)
      BY <2>2, <2>3, <2>6 DEF FlushedObject
    <3>2. RowOk(f, RowOf(m), known)
      BY <2>2, <2>4 DEF FlushedObject, RowOk, RowOf
    <3> QED BY <3>1, <3>2, <2>2, <2>5, RowFacts
  <2>7. ASSUME View(f) = "Pending", NEW t \in Type PROVE w.disk.rx[t][f] = ViewReactions(f, t)
    <3>1. PICK r, rows, l : r = m.rx[t] /\ rows = w.disk.rx[t][f] /\ l = ViewReactions(f, t)
      OBVIOUS
    <3>2. FlushedList("Pending", r, rows, l) /\ ~r.dirty
      BY <3>1, <2>2, <2>3, <2>5, <2>7 DEF FlushedObject
    <3>3. r.unwritten = <<>> /\ rows \o r.unwritten = l
      BY <3>2 DEF FlushedList
    <3>4. rows \in Seq(Future)
      BY <3>1, <1>1 DEF StoreType, Tables
    <3>5. rows = l
      BY <3>3, <3>4
    <3> QED BY <3>1, <3>5
  <2>8. ASSUME View(f) = "Pending", f \in known PROVE f \in Stored(w.disk)
    BY <2>2, <2>3, <2>5, <2>8 DEF FlushedObject
  <2>9. \A t \in Type : f > created => w.disk.rx[t][f] = <<>>
    <3>1. created \in Int /\ f \in Int
      BY <1>0, MaxFuturesAssumption DEF TypeOK, Future
    <3> QED BY <3>1, <2>4
  <2> QED BY <2>4, <2>6, <2>7, <2>8, <2>9 DEF Agrees
<1>3. CASE f \notin Live
  <2>1. w.disk.rows[f] = disk.rows[f] /\ \A t \in Type : w.disk.rx[t][f] = disk.rx[t][f]
    BY <1>3 DEF Flushing
  <2>2. View(f) = disk.rows[f].state /\ ViewRoot(f) = (f \in Stored(disk) /\ disk.rows[f].root)
        /\ \A t \in Type : ViewReactions(f, t) = disk.rx[t][f]
    BY <1>3 DEF View, ViewRoot, ViewReactions
  <2>3. f \in Stored(w.disk) <=> f \in Stored(disk)
    BY <2>1 DEF Stored
  <2>4. View(f) = "Pending" => f \in Stored(disk)
    <3>1. NoRow.state # "Pending"
      BY DEF NoRow
    <3>2. View(f) = disk.rows[f].state
      BY <2>2
    <3> QED BY <3>1, <3>2 DEF Stored
  <2>5. f \in Stored(disk) => RowOk(f, disk.rows[f], known) /\ f <= created
    BY DEF IInv, DiskInv
  <2>6. \A t \in Type : f > created => disk.rx[t][f] = <<>>
    BY DEF IInv, DiskInv
  <2> QED BY <2>1, <2>2, <2>3, <2>4, <2>5, <2>6 DEF Agrees
<1> QED BY <1>2, <1>3

\* After a flush every Pending Future has a row.
LEMMA AllPendingStored ==
  ASSUME IInv, queue = <<>>, NEW w, Flushing(w, Len(w.pending), {})
  PROVE  PendingNow \subseteq Stored(w.disk)
<1> SUFFICES ASSUME NEW gs, gs = {f \in PendingNow : f \notin Stored(w.disk)}, gs # {} PROVE FALSE
  OBVIOUS
<1>0. TypeOK
  BY DEF IInv
<1>1. \A f \in PendingNow : f \in Future /\ View(f) = "Pending" /\ Agrees(w, f)
  BY FlushAgrees DEF PendingNow
<1>2. Sound(PendingNow, OpenNow, ListsNow, queue) /\ gs \in SUBSET PendingNow
  BY DEF IInv, NowInv
<1>3. PICK f \in gs : SettledFrom(f, gs, PendingNow, OpenNow, ListsNow, queue)
  BY <1>2, Zenon DEF Sound, Grounded
<1>4. f \notin OpenNow
  BY <1>1 DEF OpenNow, Agrees
<1>5. DOMAIN queue = {}
  OBVIOUS
<1>6. PICK g \in PendingNow \ gs : f \in ToSet(ListsNow[g])
  BY <1>3, <1>4, <1>5 DEF SettledFrom
<1>7. g \in Future /\ ListsNow[g] = ViewReactions(g, "Fulfilled") /\ w.disk.rx["Fulfilled"][g] = ViewReactions(g, "Fulfilled")
  BY <1>1 DEF ListsNow, Agrees, Type
<1>8. ToSet(w.disk.rx["Fulfilled"][g]) \subseteq Stored(w.disk)
  BY <1>0, <1>7, AllStored DEF Type
<1> QED BY <1>6, <1>7, <1>8

\* What a flush leaves of the Futures as the session sees them, and what of it is on disk.
LEMMA FlushViews ==
  ASSUME IInv, Flush
  PROVE  /\ created' = created /\ known' = known /\ queue' = queue /\ queue = <<>>
         /\ PendingNow' = PendingNow /\ OpenNow' = OpenNow
         /\ \A f \in Future :
              /\ View(f)' = View(f)
              /\ View(f) = "Pending" => /\ (ViewRoot(f)' <=> ViewRoot(f))
                                        /\ \A t \in Type : ViewReactions(f, t)' = ViewReactions(f, t)
         /\ PendingSaved' = PendingNow /\ OpenSaved' = OpenNow
         /\ \A f \in PendingNow, t \in Type : disk'.rx[t][f] = ViewReactions(f, t)
         /\ \A f \in Stored(disk)' : disk'.rows[f].state = View(f)
         /\ Stored(disk) \subseteq Stored(disk)'
<1>0. TypeOK
  BY DEF IInv
<1>1. PICK w : w = Written
  OBVIOUS
<1>2. /\ created' = created /\ known' = known /\ queue' = queue /\ phase' = "idle" /\ pendingWrites' = <<>>
      /\ mem' = w.mem /\ disk' = w.disk /\ queue = <<>>
  BY <1>1 DEF Flush, IInv, NowInv
<1>3. Flushing(w, Len(w.pending), {})
  BY <1>1, WrittenKeeps
<1>4. \A f \in Future : Agrees(w, f)
  BY <1>3, FlushAgrees
<1>5. PendingNow \subseteq Stored(w.disk)
  BY <1>2, <1>3, AllPendingStored
<1>6. Live' = Live
  BY <1>0, <1>2, <1>3, StoreFacts DEF Live, Flushing
<1>7. ASSUME NEW f \in Future
       PROVE  /\ View(f)' = View(f)
              /\ View(f) = "Pending" => /\ (ViewRoot(f)' <=> ViewRoot(f))
                                        /\ \A t \in Type : ViewReactions(f, t)' = ViewReactions(f, t)
  <2>1. CASE f \in Live
    <3>1. PICK m, o : m = w.mem[f] /\ o = mem[f]
      OBVIOUS
    <3>2. m # Absent /\ FlushedObject(f, m, o, w.disk)
      BY <2>1, <3>1, <1>3 DEF Flushing
    <3>3. View(f) = o.state /\ View(f)' = m.state /\ m.state = o.state
      BY <2>1, <3>1, <3>2, <1>2, <1>6 DEF View, FlushedObject
    <3>4. ViewRoot(f) = o.root /\ ViewRoot(f)' = m.root /\ m.root = o.root
      BY <2>1, <3>1, <3>2, <1>2, <1>6 DEF ViewRoot, FlushedObject
    <3>5. ASSUME View(f) = "Pending", NEW t \in Type PROVE ViewReactions(f, t)' = ViewReactions(f, t)
      <4>1. PICK r, rows, l : r = m.rx[t] /\ rows = w.disk.rx[t][f] /\ l = ViewReactions(f, t)
        OBVIOUS
      <4>2. FlushedList("Pending", r, rows, l)
        BY <4>1, <3>2, <3>3, <3>5 DEF FlushedObject
      <4>3. r.written = (IF r.read THEN rows ELSE <<>>) /\ rows \o r.unwritten = l
        BY <4>2 DEF FlushedList
      <4>4. ViewReactions(f, t)' = (IF r.read THEN r.written ELSE rows) \o r.unwritten
        <5>1. mem'[f].rx[t] = r /\ disk'.rx[t][f] = rows /\ f \in Live'
          BY <2>1, <3>1, <4>1, <1>2, <1>6
        <5>2. ViewReactions(f, t)' = Popped(f, t)'
          BY <5>1 DEF ViewReactions
        <5> QED BY <5>1, <5>2 DEF Popped
      <4> QED BY <4>1, <4>3, <4>4
    <3> QED BY <3>3, <3>4, <3>5
  <2>2. CASE f \notin Live
    <3>1. w.disk.rows[f] = disk.rows[f] /\ \A t \in Type : w.disk.rx[t][f] = disk.rx[t][f]
      BY <2>2, <1>3 DEF Flushing
    <3>2. View(f)' = View(f) /\ \A t \in Type : ViewReactions(f, t)' = ViewReactions(f, t)
      BY <2>2, <3>1, <1>2, <1>6 DEF View, ViewReactions
    <3>3. ViewRoot(f)' <=> ViewRoot(f)
      BY <2>2, <3>1, <1>2, <1>6 DEF ViewRoot, Stored
    <3> QED BY <3>2, <3>3
  <2> QED BY <2>1, <2>2
<1>8. PendingNow' = PendingNow
  BY <1>7 DEF PendingNow
<1>9. OpenNow' = OpenNow
  BY <1>2, <1>7, <1>8 DEF OpenNow, PendingNow
<1>10. PendingSaved' = PendingNow
  <2>1. PendingSaved' = {f \in Stored(w.disk) : w.disk.rows[f].state = "Pending"}
    BY <1>2 DEF PendingSaved
  <2>2. \A f \in Stored(w.disk) : f \in Future /\ w.disk.rows[f].state = View(f)
    BY <1>4 DEF Agrees, Stored
  <2> QED BY <2>1, <2>2, <1>5 DEF PendingNow
<1>11. OpenSaved' = OpenNow
  <2>1. \A f \in PendingNow : w.disk.rows[f].root <=> ViewRoot(f)
    BY <1>4, <1>5 DEF Agrees, PendingNow
  <2> QED BY <2>1, <1>2, <1>10 DEF OpenSaved, OpenNow
<1>12. \A f \in PendingNow, t \in Type : disk'.rx[t][f] = ViewReactions(f, t)
  BY <1>2, <1>4 DEF PendingNow, Agrees
<1>13. \A f \in Stored(disk)' : disk'.rows[f].state = View(f)
  <2>1. \A f \in Stored(w.disk) : f \in Future /\ w.disk.rows[f].state = View(f)
    BY <1>4 DEF Agrees, Stored
  <2> QED BY <2>1, <1>2
<1>14. Stored(disk) \subseteq Stored(disk)'
  BY <1>2, <1>3 DEF Flushing
<1> QED BY <1>2, <1>7, <1>8, <1>9, <1>10, <1>11, <1>12, <1>13, <1>14

LEMMA FlushStep ==
  ASSUME IInv, Flush
  PROVE  IInv'
<1>0. TypeOK
  BY DEF IInv
<1>1. PICK w : w = Written
  OBVIOUS
<1>2. /\ created' = created /\ known' = known /\ queue' = queue /\ phase' = "idle" /\ pendingWrites' = <<>>
      /\ mem' = w.mem /\ disk' = w.disk /\ queue = <<>>
  BY <1>1 DEF Flush, IInv, NowInv
<1>3. Flushing(w, Len(w.pending), {})
  BY <1>1, WrittenKeeps
<1>4. w \in StoreType /\ Marks(w, Len(w.pending))
  BY <1>3 DEF Flushing
<1>5. /\ \A u \in Write : ~IsDirty(w.mem, u)
      /\ \A f \in Future : w.mem[f] # Absent => ~w.mem[f].dirty /\ \A t \in Type : ~w.mem[f].rx[t].dirty
  BY <1>4, AllClean
<1>6. /\ \A f \in Stored(w.disk) : w.disk.rows[f].value \in Future => w.disk.rows[f].value \in Stored(w.disk)
      /\ \A f \in Future, t \in Type : ToSet(w.disk.rx[t][f]) \subseteq Stored(w.disk)
  BY <1>0, <1>3, AllStored
<1>7. \A f \in Future : Agrees(w, f)
  BY <1>3, FlushAgrees
<1>8. PendingNow \subseteq Stored(w.disk)
  BY <1>2, <1>3, AllPendingStored
<1>9. Live' = Live
  BY <1>0, <1>2, <1>3, StoreFacts DEF Live, Flushing
<1>10. TypeOK'
  <2>1. <<>> \in Seq(Write)
    OBVIOUS
  <2> QED BY <2>1, <1>0, <1>2, <1>4 DEF TypeOK, StoreType
<1>11. Marks(Store, 0)'
  <2>1. PICK s : s = Store'
    OBVIOUS
  <2>2. s.pending = <<>> /\ s.mem = w.mem
    BY <2>1, <1>2 DEF Store
  <2>3. \A u \in Write : ~IsDirty(s.mem, u)
    BY <2>2, <1>5
  <2>4. Marks(s, 0)
    BY <2>2, <2>3 DEF Marks
  <2> QED BY <2>1, <2>4 DEF Marks
<1>12. DiskInv'
  <2>1. PICK d : d = w.disk
    OBVIOUS
  <2>2. known \subseteq 1..created
    BY DEF IInv, DiskInv
  <2>3. \A f \in Stored(d) : f <= created /\ RowOk(f, d.rows[f], known)
    BY <2>1, <1>7 DEF Agrees, Stored
  <2>4. \A f \in Future, t \in Type : f > created => d.rx[t][f] = <<>>
    BY <2>1, <1>7 DEF Agrees
  <2> QED BY <2>1, <2>2, <2>3, <2>4, <1>2, <1>6 DEF DiskInv
<1>13. ASSUME NEW f \in Live
       PROVE  f <= created /\ ObjectOk(f, w.mem[f], w.disk, known) /\ Refers(w.mem[f]) \subseteq Live /\ w.mem[f].value # f
  <2>1. PICK m, o : m = w.mem[f] /\ o = mem[f]
    OBVIOUS
  <2>2. f \in Future /\ m # Absent /\ FlushedObject(f, m, o, w.disk) /\ Refers(m) \subseteq Live
    BY <2>1, <1>0, <1>3, StoreFacts DEF Flushing
  <2>3. f <= created /\ RowOk(f, o, known) /\ o.value # f
    BY <2>1 DEF IInv, MemInv, ObjectOk
  <2>4. RowOk(f, m, known)
    BY <2>2, <2>3 DEF FlushedObject, RowOk
  <2>5. m.state = "Pending" => f \in Stored(w.disk)
    <3>1. View(f) = m.state
      BY <2>1, <2>2 DEF View, FlushedObject
    <3> QED BY <3>1, <2>2, <1>8 DEF PendingNow
  <2>6. ASSUME NEW t \in Type PROVE ListOk(f, m.state, m.rx[t], w.disk.rx[t][f], w.disk)
    <3>1. FlushedList(m.state, m.rx[t], w.disk.rx[t][f], ViewReactions(f, t))
      BY <2>2 DEF FlushedObject
    <3> QED BY <3>1, <2>5 DEF FlushedList, ListOk
  <2>7. ObjectOk(f, m, w.disk, known)
    BY <2>2, <2>4, <2>6 DEF FlushedObject, ObjectOk
  <2>8. m.value # f
    BY <2>2, <2>3 DEF FlushedObject
  <2> QED BY <2>1, <2>2, <2>3, <2>7, <2>8
<1>14. MemInv'
  <2>1. DOMAIN queue = {}
    BY <1>2
  <2> QED BY <2>1, <1>2, <1>9, <1>13 DEF MemInv
<1>15. /\ \A f \in Future :
            /\ View(f)' = View(f)
            /\ View(f) = "Pending" => \A t \in Type : ViewReactions(f, t)' = ViewReactions(f, t)
       /\ PendingNow' = PendingNow /\ OpenNow' = OpenNow /\ PendingSaved' = PendingNow /\ OpenSaved' = OpenNow
  BY FlushViews
<1>16. Sound(PendingNow, OpenNow, ListsNow, <<>>)
  BY <1>2 DEF IInv, NowInv
<1>17. NowInv'
  <2>1. PICK L, M : L = ListsNow /\ M = ListsNow'
    OBVIOUS
  <2>2. \A g \in PendingNow : M[g] = L[g]
    BY <2>1, <1>15 DEF ListsNow, PendingNow, Type
  <2>3. Sound(PendingNow, OpenNow, M, <<>>)
    BY <2>1, <2>2, <1>16, SoundSame
  <2>4. \A g \in PendingNow' : ViewReactions(g, "Rejected")' = ViewReactions(g, "Fulfilled")'
    BY <1>15 DEF IInv, NowInv, PendingNow, Type
  <2> QED BY <2>1, <2>3, <2>4, <1>2, <1>15 DEF NowInv
<1>18. SavedInv'
  <2>1. PICK L, M : L = ListsNow /\ M = w.disk.rx["Fulfilled"]
    OBVIOUS
  <2>2. \A g \in PendingNow : M[g] = L[g]
    BY <2>1, <1>7 DEF ListsNow, PendingNow, Type, Agrees
  <2>3. Sound(PendingNow, OpenNow, M, <<>>)
    BY <2>1, <2>2, <1>16, SoundSame
  <2>4. \A g \in PendingNow : w.disk.rx["Rejected"][g] = w.disk.rx["Fulfilled"][g]
    BY <1>7 DEF IInv, NowInv, PendingNow, Type, Agrees
  <2> QED BY <2>1, <2>3, <2>4, <1>2, <1>15 DEF SavedInv
<1> QED BY <1>10, <1>11, <1>12, <1>14, <1>17, <1>18 DEF IInv

----------------------------------------------------------------------------
(* A settled Future keeps its outcome.                                     *)

\* What f has settled with, as its object says or, when there is none, its row.
Inherits(f) ==
  /\ f \in Live /\ mem[f].state # "Pending" /\ mem'[f] # Absent => SameOutcome(mem'[f], mem[f])
  /\ f \notin Live /\ f \in Stored(disk) /\ mem'[f] # Absent => SameOutcome(mem'[f], disk.rows[f])

LEMMA RowTypes ==
  ASSUME TypeOK, NEW f \in Future
  PROVE  /\ f \in Stored(disk) => disk.rows[f].state \in Type \cup {"Pending"}
         /\ f \notin Stored(disk) => disk.rows[f] = NoRow
         /\ NoRow.state \notin Type /\ Absent.state \notin Type /\ "Pending" \notin Type
<1>1. disk.rows[f] \in Row \cup {NoRow}
  BY DEF TypeOK, Tables
<1> QED BY <1>1 DEF Stored, Row, NoRow, Absent, Type

\* An object whose row is settled has the outcome of the row.
LEMMA SettledRow ==
  ASSUME IInv, NEW f \in Live, f \in Stored(disk), disk.rows[f].state # "Pending"
  PROVE  SameOutcome(mem[f], disk.rows[f]) /\ mem[f].state # "Pending"
<1>1. PICK m : m = mem[f]
  OBVIOUS
<1>2. ObjectOk(f, m, disk, known)
  BY <1>1 DEF IInv, MemInv
<1>3. disk.rows[f] = RowOf(m)
  <2>1. m.inDatabase /\ ~m.dirty
    BY <1>2 DEF ObjectOk
  <2> QED BY <2>1, <1>2 DEF ObjectOk
<1> QED BY <1>1, <1>3 DEF RowOf, SameOutcome

\* A step that leaves the tables alone and that no object loses its outcome in.
LEMMA MemoryStep ==
  ASSUME IInv, disk' = disk, NEW f \in Future, Inherits(f)
  PROVE  KeepsOutcome(f)
<1>0. TypeOK
  BY DEF IInv
<1>1. CASE f \notin Stored(disk)
  <2>1. disk.rows[f] = NoRow /\ NoRow.state \notin Type /\ Absent.state \notin Type /\ "Pending" \notin Type
    BY <1>0, <1>1, RowTypes
  <2>2. mem[f].state \in Type => f \in Live
    BY <2>1 DEF Live
  <2> QED BY <2>1, <2>2 DEF KeepsOutcome, Inherits
<1>2. CASE f \in Stored(disk) /\ disk.rows[f].state = "Pending"
  <2>1. "Pending" \notin Type /\ Absent.state \notin Type
    BY <1>0, RowTypes
  <2>2. mem[f].state \in Type => f \in Live
    BY <2>1 DEF Live
  <2> QED BY <2>1, <2>2, <1>2 DEF KeepsOutcome, Inherits
<1>3. CASE f \in Stored(disk) /\ disk.rows[f].state # "Pending"
  <2>1. CASE f \in Live
    <3>1. SameOutcome(mem[f], disk.rows[f]) /\ mem[f].state # "Pending"
      BY <1>3, <2>1, SettledRow
    <3>2. mem'[f] # Absent => SameOutcome(mem'[f], mem[f])
      BY <2>1, <3>1 DEF Inherits
    <3> QED BY <3>1, <3>2 DEF KeepsOutcome, SameOutcome
  <2>2. CASE f \notin Live
    <3>1. mem[f].state \notin Type
      BY <2>2, <1>0, RowTypes DEF Live
    <3>2. mem'[f] # Absent => SameOutcome(mem'[f], disk.rows[f])
      BY <2>2, <1>3 DEF Inherits
    <3> QED BY <3>1, <3>2 DEF KeepsOutcome, SameOutcome
  <2> QED BY <2>1, <2>2
<1> QED BY <1>1, <1>2, <1>3

\* An object that stays as it is, or goes.
LEMMA SameObject ==
  ASSUME TypeOK, NEW f \in Future, mem'[f] \in {mem[f], Absent}
  PROVE  Inherits(f)
<1>1. f \notin Live => mem[f] = Absent
  BY StoreFacts
<1> QED BY <1>1 DEF Inherits, SameOutcome

\* A step that puts one object: a new one, or a Pending one, or one that keeps its outcome.
LEMMA PutStep ==
  ASSUME IInv, NEW n \in Future, NEW s, NEW r, NEW m, NEW k, Put(s, r, n, m, k), SetStore(r), s.mem = mem,
         \/ n \in Live /\ mem[n].state = "Pending"
         \/ n \notin Live /\ n \notin Stored(disk)
  PROVE  \A f \in Future : Inherits(f)
<1>1. mem' = [mem EXCEPT ![n] = m] /\ TypeOK
  BY DEF Put, SetStore, IInv
<1>2. ASSUME NEW f \in Future, f # n PROVE Inherits(f)
  <2>1. mem'[f] = mem[f]
    BY <1>1, <1>2 DEF TypeOK
  <2> QED BY <2>1, <1>1, SameObject
<1>3. Inherits(n)
  BY DEF Inherits
<1> QED BY <1>2, <1>3

LEMMA CreateKeeps ==
  ASSUME IInv, Create \/ (\E f \in Live : NextOn(f) /\ mem[f].state # "Pending")
  PROVE  disk' = disk /\ \A f \in Future : Inherits(f)
<1> PICK n : n = Fresh
  OBVIOUS
<1>1. PICK r : r = EnsureInDatabase([Store EXCEPT !.mem[n] = NewDB(PendingRow(TRUE), FALSE)], n)
  OBVIOUS
<1>2. n \in Future /\ disk' = disk /\ SetStore(r)
  BY <1>1 DEF Create, NextOn
<1>3. PICK m : Put(Store, r, n, m, 0)
  BY <1>1, <1>2, NewRoot
<1>4. n \notin Live /\ n \notin Stored(disk) /\ Store.mem = mem
  BY <1>2, FreshFacts DEF Store
<1> QED BY <1>2, <1>3, <1>4, PutStep

LEMMA CreateSettledKeeps ==
  ASSUME IInv, CreateSettled
  PROVE  disk' = disk /\ \A f \in Future : Inherits(f)
<1> PICK n : n = Fresh
  OBVIOUS
<1> PICK m : m = NewDB([state |-> "Rejected", value |-> Plain, settled |-> TRUE, root |-> FALSE], FALSE)
  OBVIOUS
<1>1. n \in Future /\ disk' = disk /\ mem' = [mem EXCEPT ![n] = m] /\ TypeOK
  BY DEF CreateSettled, IInv
<1>2. n \notin Live /\ n \notin Stored(disk)
  BY <1>1, FreshFacts
<1>3. ASSUME NEW f \in Future, f # n PROVE Inherits(f)
  <2>1. mem'[f] = mem[f]
    BY <1>1, <1>3 DEF TypeOK
  <2> QED BY <2>1, <1>1, SameObject
<1>4. Inherits(n)
  BY <1>2 DEF Inherits
<1> QED BY <1>1, <1>3, <1>4

LEMMA NextOnKeeps ==
  ASSUME IInv, NEW f \in Live, NextOn(f), mem[f].state = "Pending"
  PROVE  disk' = disk /\ \A g \in Future : Inherits(g)
<1>0. TypeOK
  BY DEF IInv
<1> PICK n : n = Fresh
  OBVIOUS
<1> PICK row : row = PendingRow(FALSE)
  OBVIOUS
<1> PICK m : m = NewDB(row, FALSE)
  OBVIOUS
<1> PICK s : s = [Store EXCEPT !.mem[n] = m]
  OBVIOUS
<1> PICK r : r = PushReactions(s, f, n)
  OBVIOUS
<1>1. n \in Future /\ disk' = disk /\ SetStore(r)
  BY DEF NextOn
<1>2. f \in Future /\ f # n /\ mem[f] \in FutureDB /\ n \notin Live /\ n \notin Stored(disk) /\ mem[n] = Absent
  BY <1>0, <1>1, StoreFacts, FreshFacts
<1>3. row \in Row
  BY DEF PendingRow, Row, Value
<1>4. m \in FutureDB /\ ~m.dirty /\ \A t \in Type : ~m.rx[t].dirty
  <2>1. Constructed(m, row)
    BY <1>3, ConstructedFacts
  <2> QED BY <2>1 DEF Constructed
<1>5. Store \in StoreType /\ Marks(Store, 0) /\ Store.mem = mem
  BY <1>0, StoreFacts DEF IInv
<1>6. Put(Store, s, n, m, 0)
  BY <1>1, <1>2, <1>4, <1>5, PutSame
<1>7. s \in StoreType /\ Marks(s, 0) /\ s.mem[f] = mem[f] /\ s.mem = [mem EXCEPT ![n] = m]
  BY <1>2, <1>5, <1>6 DEF Put
<1>8. PICK p : Put(s, r, f, p, 0)
  BY <1>1, <1>2, <1>7, PutPushed
<1>9. mem' = [s.mem EXCEPT ![f] = p]
  BY <1>1, <1>8 DEF Put, SetStore
<1>10. ASSUME NEW g \in Future, g # n, g # f PROVE Inherits(g)
  <2>1. PICK a : a = s.mem
    OBVIOUS
  <2>2. a[g] = mem[g] /\ a \in [Future -> FutureDB \cup {Absent}]
    <3>1. mem \in [Future -> FutureDB \cup {Absent}] /\ a = [mem EXCEPT ![n] = m]
      BY <2>1, <1>0, <1>7 DEF TypeOK
    <3> QED BY <3>1, <1>4, <1>10
  <2>3. mem' = [a EXCEPT ![f] = p]
    BY <2>1, <1>9
  <2>4. mem'[g] = mem[g]
    BY <2>2, <2>3, <1>2, <1>10
  <2> QED BY <2>4, <1>0, SameObject
<1>11. Inherits(n) /\ Inherits(f)
  BY <1>2 DEF Inherits
<1> QED BY <1>1, <1>10, <1>11

LEMMA SettleKeeps ==
  ASSUME IInv, NEW f \in Live, mem[f].state = "Pending", NEW t \in Type, NEW v \in Value,
         NEW rest, Settle(f, t, v, rest)
  PROVE  \A g \in Future : Inherits(g)
<1>0. TypeOK /\ f \in Future
  BY StoreFacts DEF IInv
<1>1. PICK r : r = Settled(Store, f, t, v)
  OBVIOUS
<1>2. PICK o, h, p : Outgrown(r, o, h, p, f, t, v)
  BY <1>1, PutSettled
<1>3. mem' = r.mem
  BY <1>1 DEF Settle, SetStore
<1>4. ASSUME NEW g \in Future, g # f PROVE Inherits(g)
  <2>1. mem'[g] = h.mem[g] /\ o.mem[g] = mem[g] /\ Filled(o, h, ToSet(Popped(f, t)))
    BY <1>2, <1>3, <1>4 DEF Outgrown
  <2>2. CASE h.mem[g] = o.mem[g]
    BY <2>1, <2>2, <1>0, SameObject
  <2>3. CASE o.mem[g] = Absent /\ ReadFrom(h.mem[g], disk.rows[g])
    BY <2>1, <2>3 DEF Inherits, Live, ReadFrom, SameOutcome
  <2> QED BY <2>1, <2>2, <2>3 DEF Filled
<1>5. Inherits(f)
  BY DEF Inherits
<1> QED BY <1>4, <1>5

LEMMA ResolveKeeps ==
  ASSUME IInv, NEW f \in Live \cap known, ~mem[f].settled,
         ResolveWith(f) \/ \E g \in Future : ResolveWithFuture(f, g)
  PROVE  disk' = disk /\ \A g \in Future : Inherits(g)
<1>0. TypeOK
  BY DEF IInv
<1>1. f \in Future /\ mem[f] \in FutureDB
  BY <1>0, StoreFacts
<1>2. mem[f].state = "Pending"
  <2>1. RowOk(f, mem[f], known)
    BY DEF IInv, MemInv, ObjectOk
  <2> QED BY <2>1 DEF RowOk
<1>3. CASE ResolveWith(f)
  <2>1. PICK t \in Type, v \in Value : Settle(f, t, v, queue)
    <3>1. \A g \in Live : g \in Value
      BY DEF Value, Live
    <3> QED BY <3>1, <1>3 DEF ResolveWith, Type, Value
  <2>2. disk' = disk
    BY <1>3 DEF ResolveWith
  <2> QED BY <2>1, <2>2, <1>2, SettleKeeps
<1>4. ASSUME NEW g \in Future, ResolveWithFuture(f, g) PROVE disk' = disk /\ \A h \in Future : Inherits(h)
  <2>1. PICK r : r = Lock(Store, f)
    OBVIOUS
  <2>2. SetStore(r) /\ disk' = disk
    BY <2>1, <1>4 DEF ResolveWithFuture
  <2>3. Store \in StoreType /\ Marks(Store, 0) /\ Store.mem = mem /\ Store.mem[f] = mem[f]
    BY <1>0, StoreFacts DEF IInv
  <2>4. PICK p : Put(Store, r, f, p, 0)
    BY <2>1, <2>3, <1>1, PutLocked
  <2> QED BY <2>2, <2>3, <2>4, <1>1, <1>2, PutStep
<1> QED BY <1>3, <1>4

LEMMA LookupKeeps ==
  ASSUME IInv, NEW f \in Future, GetFutureDB(f)
  PROVE  disk' = disk /\ \A g \in Future : Inherits(g)
<1>0. TypeOK
  BY DEF IInv
<1> PICK r : r = Load(Store, {f})
  OBVIOUS
<1>1. disk' = disk /\ mem' = r.mem
  BY DEF GetFutureDB, SetStore
<1>2. Store \in StoreType /\ Marks(Store, 0) /\ Store.mem = mem /\ Store.disk = disk
  BY <1>0, StoreFacts DEF IInv
<1>3. Filled(Store, r, {f})
  BY <1>2, LoadFills
<1>4. ASSUME NEW g \in Future PROVE Inherits(g)
  <2>1. CASE r.mem[g] = mem[g]
    BY <2>1, <1>0, <1>1, SameObject
  <2>2. CASE mem[g] = Absent /\ ReadFrom(r.mem[g], disk.rows[g])
    BY <2>2, <1>1 DEF Inherits, Live, ReadFrom, SameOutcome
  <2> QED BY <2>1, <2>2, <1>2, <1>3 DEF Filled
<1> QED BY <1>1, <1>4

LEMMA RunKeeps ==
  ASSUME IInv, RunJob
  PROVE  disk' = disk /\ \A g \in Future : Inherits(g)
<1>0. TypeOK
  BY DEF IInv
<1>1. PICK j : j = Head(queue)
  OBVIOUS
<1>2. /\ queue # <<>> /\ disk' = disk /\ j \in Job /\ j.next \in Live /\ j.from \in Live /\ mem[j.next].state = "Pending"
  BY <1>1, HeadFacts DEF RunJob
<1>3. CASE j.type # "adopt"
  <2>1. PICK t, v : t = j.type /\ v = j.value
    OBVIOUS
  <2>2. t \in Type /\ v \in Value
    BY <2>1, <1>2, <1>3 DEF Job
  <2>3. Settle(j.next, t, v, Tail(queue))
    BY <2>1, <1>1, <1>3 DEF RunJob
  <2> QED BY <2>2, <2>3, <1>2, SettleKeeps
<1>4. CASE j.type = "adopt" /\ mem[j.from].state = "Pending"
  <2>1. PICK f, n : f = j.from /\ n = j.next
    OBVIOUS
  <2>2. PICK r : r = PushReactions(Store, f, n)
    OBVIOUS
  <2>3. SetStore(r)
    BY <2>1, <2>2, <1>1, <1>4 DEF RunJob
  <2>4. Store \in StoreType /\ Marks(Store, 0) /\ Store.mem = mem
    BY <1>0, StoreFacts DEF IInv
  <2>5. f \in Future /\ n \in Future /\ f \in Live /\ mem[f] \in FutureDB /\ mem[f].state = "Pending"
    BY <2>1, <1>0, <1>2, <1>4, StoreFacts
  <2>6. PICK p : Put(Store, r, f, p, 0)
    BY <2>2, <2>4, <2>5, PutPushed
  <2> QED BY <2>3, <2>4, <2>5, <2>6, <1>2, PutStep
<1>5. CASE j.type = "adopt" /\ mem[j.from].state # "Pending"
  <2>1. mem' = mem
    BY <1>1, <1>5 DEF RunJob, store
  <2> QED BY <2>1, <1>0, <1>2, SameObject
<1> QED BY <1>3, <1>4, <1>5

\* A flush writes the outcomes that objects have, over rows that are Pending or have the same.
LEMMA FlushKeeps ==
  ASSUME IInv, Flush, NEW f \in Future
  PROVE  KeepsOutcome(f)
<1>0. TypeOK
  BY DEF IInv
<1>1. PICK w : w = Written
  OBVIOUS
<1>2. mem' = w.mem /\ disk' = w.disk
  BY <1>1 DEF Flush
<1>3. Flushing(w, Len(w.pending), {})
  BY <1>1, WrittenKeeps
<1>4. CASE f \notin Live
  <2>1. mem[f] = Absent /\ mem'[f] = mem[f] /\ disk'.rows[f] = disk.rows[f] /\ Absent.state \notin Type
    BY <1>0, <1>2, <1>3, <1>4, RowTypes, StoreFacts DEF Flushing
  <2> QED BY <2>1 DEF KeepsOutcome, SameOutcome
<1>5. CASE f \in Live
  <2>1. PICK m, o : m = w.mem[f] /\ o = mem[f]
    OBVIOUS
  <2>2. m # Absent /\ FlushedObject(f, m, o, w.disk) /\ w \in StoreType /\ Marks(w, Len(w.pending))
    BY <2>1, <1>3, <1>5 DEF Flushing
  <2>3. ~m.dirty
    BY <2>1, <2>2, AllClean
  <2>4. SameOutcome(m, o)
    BY <2>2 DEF FlushedObject, SameOutcome
  <2>5. f \in Stored(w.disk) => SameOutcome(w.disk.rows[f], o)
    BY <2>2, <2>3 DEF FlushedObject, RowOf, SameOutcome
  <2>6. f \notin Stored(w.disk) => w.disk.rows[f] = NoRow
    BY DEF Stored
  <2>7. disk.rows[f].state \in Type => SameOutcome(o, disk.rows[f])
    <3>1. disk.rows[f].state \in Type => f \in Stored(disk) /\ disk.rows[f].state # "Pending"
      BY <1>0, RowTypes
    <3> QED BY <3>1, <2>1, <1>5, SettledRow
  <2> QED BY <2>1, <2>4, <2>5, <2>6, <2>7, <1>2 DEF KeepsOutcome, SameOutcome
<1> QED BY <1>4, <1>5

LEMMA CollectKeeps ==
  ASSUME IInv, Collect, NEW f \in Future
  PROVE  KeepsOutcome(f)
<1>0. TypeOK
  BY DEF IInv
<1>1. mem' = mem /\ disk'.rows[f] \in {disk.rows[f], NoRow}
  BY DEF Collect, store
<1>2. disk.rows[f].state \in Type /\ f \in Live => SameOutcome(mem[f], disk.rows[f])
  <2>1. disk.rows[f].state \in Type => f \in Stored(disk) /\ disk.rows[f].state # "Pending"
    BY <1>0, RowTypes
  <2> QED BY <2>1, SettledRow
<1>3. (mem'[f] # Absent => f \in Live) /\ (mem[f].state \in Type => f \in Live)
  BY <1>0, <1>1, RowTypes DEF Live
<1>4. disk.rows[f].state \in Type \cup {"Pending"} \/ disk.rows[f] = NoRow
  BY <1>0, RowTypes
<1> QED BY <1>1, <1>2, <1>3, <1>4 DEF KeepsOutcome, SameOutcome

LEMMA StepKeeps ==
  ASSUME IInv, [Next]_vars, NEW f \in Future
  PROVE  KeepsOutcome(f)
<1>0. TypeOK
  BY DEF IInv
<1>1. (disk' = disk /\ \A g \in Future : Inherits(g)) => KeepsOutcome(f)
  BY MemoryStep
<1>2. (disk' = disk /\ mem' = mem) => KeepsOutcome(f)
  BY <1>0, <1>1, SameObject
<1>3. CASE UserStep
  <2>1. CASE Create
    BY <2>1, <1>1, CreateKeeps
  <2>2. CASE CreateSettled
    BY <2>2, <1>1, CreateSettledKeeps
  <2>3. ASSUME NEW g \in Live, NextOn(g) PROVE KeepsOutcome(f)
    BY <2>3, <1>1, CreateKeeps, NextOnKeeps
  <2>4. ASSUME NEW g \in Live \cap known, ResolveWith(g) \/ \E h \in Live \ Waiters({g}) : ResolveWithFuture(g, h)
        PROVE  KeepsOutcome(f)
    <3>1. ~mem[g].settled /\ (ResolveWith(g) \/ \E h \in Future : ResolveWithFuture(g, h))
      BY <2>4 DEF ResolveWith, ResolveWithFuture, Live
    <3> QED BY <3>1, <1>1, ResolveKeeps
  <2>5. ASSUME NEW g \in Future, GetFutureDB(g) PROVE KeepsOutcome(f)
    BY <2>5, <1>1, LookupKeeps
  <2>6. CASE CallFlush
    BY <2>6, <1>2 DEF CallFlush, store
  <2> QED BY <2>1, <2>2, <2>3, <2>4, <2>5, <2>6, <1>3 DEF UserStep
<1>4. CASE SystemStep
  <2>1. CASE RunJob
    BY <2>1, <1>1, RunKeeps
  <2>2. CASE Flush
    BY <2>2, FlushKeeps
  <2>3. CASE Collect
    BY <2>3, CollectKeeps
  <2>4. ASSUME NEW g \in Future, Evict(g) PROVE KeepsOutcome(f)
    <3>1. disk' = disk /\ \A h \in Future : mem'[h] \in {mem[h], Absent}
      BY <2>4, <1>0 DEF Evict, TypeOK
    <3> QED BY <3>1, <1>0, <1>1, SameObject
  <2>5. CASE Crash
    <3>1. disk' = disk /\ \A h \in Future : mem'[h] \in {mem[h], Absent}
      BY <2>5 DEF Crash
    <3> QED BY <3>1, <1>0, <1>1, SameObject
  <2> QED BY <2>1, <2>2, <2>3, <2>4, <2>5, <1>4 DEF SystemStep
<1>5. CASE UNCHANGED vars
  BY <1>5, <1>2 DEF vars, store
<1> QED BY <1>3, <1>4, <1>5 DEF Next

----------------------------------------------------------------------------
(* The theorems.                                                           *)

LEMMA InitInv ==
  ASSUME Init
  PROVE  IInv
<1>1. /\ created = 0 /\ known = {} /\ pendingWrites = <<>> /\ phase = "idle" /\ queue = <<>>
      /\ \A f \in Future : mem[f] = Absent
      /\ \A f \in Future : disk.rows[f] = NoRow /\ \A t \in Type : disk.rx[t][f] = <<>>
  BY DEF Init, Empty
<1>2. Live = {} /\ Stored(disk) = {}
  BY <1>1 DEF Live, Stored
<1>3. TypeOK
  <2>1. <<>> \in Seq(Future) /\ <<>> \in Seq(Write) /\ <<>> \in Seq(Job) /\ 0 \in 0..MaxFutures
    BY MaxFuturesAssumption
  <2>2. disk \in Tables
    BY <2>1 DEF Init, Empty, Tables
  <2>3. mem \in [Future -> FutureDB \cup {Absent}]
    BY DEF Init
  <2> QED BY <2>1, <2>2, <2>3, <1>1 DEF TypeOK
<1>4. Marks(Store, 0)
  <2>1. PICK s : s = Store
    OBVIOUS
  <2>2. s.pending = <<>> /\ s.mem = mem
    BY <2>1, <1>1 DEF Store
  <2>3. \A w \in Write : ~IsDirty(s.mem, w)
    BY <2>2, <1>1 DEF IsDirty, Write
  <2>4. Marks(s, 0)
    BY <2>2, <2>3 DEF Marks
  <2> QED BY <2>1, <2>4
<1>5. PendingNow = {} /\ PendingSaved = {}
  <2>1. NoRow.state # "Pending"
    BY DEF NoRow
  <2> QED BY <2>1, <1>1, <1>2 DEF PendingNow, PendingSaved, View
<1>6. \A L : Sound({}, {}, L, <<>>)
  BY DEF Sound, Once, Grounded
<1>7. NowInv /\ SavedInv
  <2>1. OpenNow = {} /\ OpenSaved = {}
    BY <1>5 DEF OpenNow, OpenSaved
  <2> QED BY <2>1, <1>1, <1>5, <1>6 DEF NowInv, SavedInv
<1>8. DiskInv
  BY <1>1, <1>2, EmptyList DEF DiskInv
<1>9. MemInv
  BY <1>1, <1>2 DEF MemInv
<1> QED BY <1>3, <1>4, <1>7, <1>8, <1>9 DEF IInv

LEMMA UserInv ==
  ASSUME IInv, UserStep, phase # "ready", NoSelfHolding'
  PROVE  IInv'
<1>1. CASE Create
  BY <1>1, CreateStep
<1>2. CASE CreateSettled
  BY <1>2, CreateSettledStep
<1>3. ASSUME NEW f \in Live, NextOn(f) PROVE IInv'
  <2>1. CASE mem[f].state = "Pending"
    BY <1>3, <2>1, NextOnPending
  <2>2. CASE mem[f].state # "Pending"
    BY <1>3, <2>2, NextOnSettled
  <2> QED BY <2>1, <2>2
<1>4. ASSUME NEW f \in Live \cap known, ResolveWith(f) PROVE IInv'
  BY <1>4, ResolveWithStep
<1>5. ASSUME NEW f \in Live \cap known, NEW g \in Live \ Waiters({f}), ResolveWithFuture(f, g) PROVE IInv'
  BY <1>5, ResolveWithFutureStep
<1>6. ASSUME NEW f \in Future, GetFutureDB(f) PROVE IInv'
  BY <1>6, GetFutureDBStep
<1>7. CASE CallFlush
  BY <1>7, CallFlushStep
<1> QED BY <1>1, <1>2, <1>3, <1>4, <1>5, <1>6, <1>7 DEF UserStep

LEMMA SystemInv ==
  ASSUME IInv, SystemStep, NoSelfHolding'
  PROVE  IInv'
<1>1. CASE phase # "ready" /\ RunJob
  <2>1. CASE Head(queue).type # "adopt"
    BY <1>1, <2>1, RunSettle
  <2>2. CASE Head(queue).type = "adopt" /\ mem[Head(queue).from].state = "Pending"
    BY <1>1, <2>2, RunAdopt
  <2>3. CASE Head(queue).type = "adopt" /\ mem[Head(queue).from].state # "Pending"
    BY <1>1, <2>3, RunAdopted
  <2> QED BY <2>1, <2>2, <2>3
<1>2. CASE Flush
  BY <1>2, FlushStep
<1>3. CASE Collect
  BY <1>3, CollectStep
<1>4. ASSUME NEW f \in Future, Evict(f) PROVE IInv'
  BY <1>4, EvictStep
<1>5. CASE Crash
  BY <1>5, CrashStep
<1> QED BY <1>1, <1>2, <1>3, <1>4, <1>5 DEF SystemStep

LEMMA StutterInv ==
  ASSUME IInv, UNCHANGED vars
  PROVE  IInv'
<1>1. /\ created' = created /\ known' = known /\ disk' = disk /\ mem' = mem /\ queue' = queue
      /\ pendingWrites' = pendingWrites /\ phase' = phase
  BY DEF vars, store
<1>2. Store' = Store /\ Live' = Live
  BY <1>1 DEF Store, Live
<1>3. TypeOK' /\ Marks(Store, 0)' /\ MemInv'
  BY <1>1, <1>2 DEF IInv, TypeOK, Marks, MemInv
<1>4. SavedInv' /\ DiskInv'
  <2>1. Grown
    BY <1>1 DEF Grown
  <2> QED BY <2>1, <1>1, DiskFrame
<1>5. NowInv'
  <2>1. \A f \in Future : SameView(f)
    BY <1>1, SameViews
  <2> QED BY <2>1, <1>1, NowSame DEF IInv, NowInv
<1> QED BY <1>3, <1>4, <1>5 DEF IInv

LEMMA Inductive == Spec => []IInv
<1>1. Init => IInv
  BY InitInv
<1>2. IInv /\ [Next]_vars => IInv'
  BY UserInv, SystemInv, StutterInv DEF Next
<1> QED BY <1>1, <1>2, PTL DEF Spec

\* Every object, row, entry of the Set and job has its type.
THEOREM StoreTypes == Spec => []TypeOK
<1>1. IInv => TypeOK
  BY DEF IInv
<1> QED BY <1>1, Inductive, PTL

\* Every Pending Future, in memory or only on disk, before and after a restart, can still be
\* settled: by user code that knows it and whose root it is, by a job of the engine, or as a
\* reaction in both lists of another Pending Future.
THEOREM NothingIsForgotten == Spec => []NothingForgotten
<1>1. ASSUME IInv PROVE NothingForgotten
  <2> SUFFICES ASSUME NEW f \in Future, View(f) = "Pending"
               PROVE  \/ f \in known /\ ViewRoot(f)
                      \/ \E i \in DOMAIN queue : queue[i].next = f
                      \/ \E g \in Future : /\ View(g) = "Pending"
                                           /\ \A t \in Type : f \in ToSet(ViewReactions(g, t))
    BY DEF NothingForgotten
  <2>1. {f} \in SUBSET PendingNow /\ {f} # {}
    BY DEF PendingNow
  <2>2. Sound(PendingNow, OpenNow, ListsNow, queue)
    BY <1>1 DEF IInv, NowInv
  <2>3. PICK x \in {f} : SettledFrom(x, {f}, PendingNow, OpenNow, ListsNow, queue)
    BY <2>1, <2>2, Zenon DEF Sound, Grounded
  <2>4. SettledFrom(f, {f}, PendingNow, OpenNow, ListsNow, queue)
    BY <2>3
  <2>5. CASE f \in OpenNow
    BY <2>5 DEF OpenNow
  <2>6. ASSUME NEW g \in PendingNow, f \in ToSet(ListsNow[g])
        PROVE  \E h \in Future : View(h) = "Pending" /\ \A t \in Type : f \in ToSet(ViewReactions(h, t))
    <3>1. g \in Future /\ View(g) = "Pending" /\ ListsNow[g] = ViewReactions(g, "Fulfilled")
      BY DEF PendingNow, ListsNow
    <3>2. ViewReactions(g, "Rejected") = ViewReactions(g, "Fulfilled")
      BY <1>1 DEF IInv, NowInv
    <3>3. \A t \in Type : f \in ToSet(ViewReactions(g, t))
      BY <2>6, <3>1, <3>2 DEF Type
    <3> QED BY <3>1, <3>3
  <2> QED BY <2>4, <2>5, <2>6 DEF SettledFrom
<1> QED BY <1>1, Inductive, PTL

\* Every Future that a row refers to, as a value or as a reaction, has a row: a flush writes
\* what it refers to in the same transaction, and a collection keeps it.
THEOREM RowsComplete == Spec => []NoDanglingRows
<1>1. IInv => NoDanglingRows
  BY DEF IInv, DiskInv, NoDanglingRows, Stored
<1> QED BY <1>1, Inductive, PTL

\* An object that is not to be written agrees with its row, one that was never inserted has
\* none, and one that is to be written is in the Set of pending writes.
THEOREM WrittenBack == Spec => []WriteBack
<1>1. ASSUME IInv PROVE WriteBack
  <2> SUFFICES ASSUME NEW f \in Live
               PROVE  /\ mem[f].inDatabase /\ ~mem[f].dirty /\ f \in Stored(disk) =>
                           /\ disk.rows[f].state = mem[f].state
                           /\ disk.rows[f].value = mem[f].value
                           /\ disk.rows[f].settled = mem[f].settled
                           /\ disk.rows[f].root = mem[f].root
                      /\ ~mem[f].inDatabase => f \notin Stored(disk)
                      /\ \A w \in {"future"} \cup Type :
                           (IF w = "future" THEN mem[f].dirty ELSE mem[f].rx[w].dirty) =>
                             Contains(pendingWrites, <<f, w>>)
    BY DEF WriteBack
  <2>1. TypeOK /\ ObjectOk(f, mem[f], disk, known)
    BY <1>1 DEF IInv, MemInv
  <2>2. f \in Future /\ mem[f] \in FutureDB /\ mem[f] # Absent
    BY <2>1, StoreFacts DEF Live
  <2>3. PICK m : m = mem[f]
    OBVIOUS
  <2>4. m.inDatabase /\ ~m.dirty /\ f \in Stored(disk) =>
          /\ disk.rows[f].state = m.state /\ disk.rows[f].value = m.value
          /\ disk.rows[f].settled = m.settled /\ disk.rows[f].root = m.root
    BY <2>1, <2>2, <2>3, RowFacts DEF ObjectOk
  <2>5. ~m.inDatabase => f \notin Stored(disk)
    BY <2>1, <2>3 DEF ObjectOk
  <2>6. ASSUME NEW w \in {"future"} \cup Type, IF w = "future" THEN m.dirty ELSE m.rx[w].dirty
        PROVE  Contains(pendingWrites, <<f, w>>)
    <3>1. <<f, w>> \in Write
      BY <2>2 DEF Write
    <3>2. PICK s : s = Store /\ s.mem = mem /\ s.pending = pendingWrites /\ Marks(s, 0)
      BY <1>1 DEF Store, IInv
    <3>3. IsDirty(s.mem, <<f, w>>)
      BY <2>2, <2>3, <2>6, <3>2 DEF IsDirty
    <3>4. \E i \in DOMAIN s.pending : s.pending[i] = <<f, w>>
      BY <3>1, <3>2, <3>3 DEF Marks
    <3> QED BY <3>2, <3>4 DEF Contains
  <2> QED BY <2>3, <2>4, <2>5, <2>6
<1> QED BY <1>1, Inductive, PTL

\* Nobody is to settle a Future twice, and no Pending Futures wait only for each other: not
\* in memory, and not on disk, where a crash at any time leaves the next session.
THEOREM LedgerIsSound ==
  Spec => [](Sound(PendingNow, OpenNow, ListsNow, queue) /\ Sound(PendingSaved, OpenSaved, disk.rx["Fulfilled"], <<>>))
<1>1. IInv => Sound(PendingNow, OpenNow, ListsNow, queue) /\ Sound(PendingSaved, OpenSaved, disk.rx["Fulfilled"], <<>>)
  BY DEF IInv, NowInv, SavedInv
<1> QED BY <1>1, Inductive, PTL

\* A settled Future keeps its outcome: the object has it as long as there is one, and the row
\* from the flush that writes it until a collection removes it; no crash, eviction, lookup or
\* later flush changes it.
THEOREM OutcomesAreDurable == Spec => OutcomesDurable
<1>1. IInv /\ [Next]_vars => [\A f \in Future : KeepsOutcome(f)]_vars
  BY StepKeeps
<1> QED BY <1>1, Inductive, PTL DEF Spec, OutcomesDurable
=============================================================================
