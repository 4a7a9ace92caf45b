----------------------------- MODULE RingProofs -----------------------------
(***************************************************************************)
(* Proofs about RingRouter, for any number of routers, any capacities,     *)
(* bandwidth and workload, and links that refuse or not: its types and     *)
(* bounds, and that a packet is in one place.                              *)
(*                                                                         *)
(* A tick cuts what it receives from the previous router's part of the     *)
(* ring, sorts it, and puts it, with what waits, behind its own part or    *)
(* behind what was ejected (TickMoves).  The sends of the outputs move     *)
(* packets within these lists only.  The rest is about sets of packets     *)
(* (SetsKept).                                                             *)
(***************************************************************************)
EXTENDS RingRouter, SequenceTheorems, FiniteSetTheorems, WellFoundedInduction, TLAPS

Distinct(s) == \A i, j \in DOMAIN s : s[i] = s[j] => i = j

-----------------------------------------------------------------------------
(* Sequences and the sets of their elements.                               *)

\* A set of numbers that is not empty has a least one.
LEMMA LeastNumber ==
    ASSUME NEW T, T \subseteq Nat, T # {}
    PROVE  \E x \in T : \A y \in T : x <= y
<1> DEFINE R == OpToRel(<, Nat)
<1>1. \A x, y \in Nat : y < x => <<y, x>> \in R
  <2> SUFFICES ASSUME NEW x \in Nat, NEW y \in Nat, y < x
               PROVE  <<y, x>> \in OpToRel(<, Nat)
    OBVIOUS
  <2> DEFINE ss == <<y, x>>
  <2>1. ss \in Nat \X Nat /\ ss[1] < ss[2]
    OBVIOUS
  <2> QED BY <2>1 DEF OpToRel
<1>2. IsWellFoundedOn(R, Nat)
  BY NatLessThanWellFounded
<1> HIDE DEF R
<1>3. PICK x \in T : \A y \in T : ~(<<y, x>> \in R)
  BY <1>2, WFMin
<1>4. ASSUME NEW y \in T
      PROVE  x <= y
  <2>1. x \in Nat /\ y \in Nat
    OBVIOUS
  <2>2. ~(y < x)
    BY <1>1, <1>3, <2>1
  <2> QED BY <2>1, <2>2
<1> QED BY <1>4

\* The n-th prefix of the packets that Sorted collects.
Collects(first, r, ring, leave, m) ==
    first = [n \in 0 .. m |->
                IF n = 0 THEN <<>>
                ELSE IF Ejects(r, ring[n]) = leave THEN Append(first[n - 1], ring[n])
                ELSE first[n - 1]]

\* The loop over the ring input ends (Process, packet by packet).
LEMMA CollectsExists ==
    ASSUME NEW r, NEW ring, NEW leave, NEW N \in Nat
    PROVE  \E first : Collects(first, r, ring, leave, N)
<1> DEFINE Bad == {m \in Nat : ~ \E first : Collects(first, r, ring, leave, m)}
<1>1. SUFFICES ASSUME Bad # {} PROVE FALSE
  OBVIOUS
<1>2. PICK m \in Bad : \A y \in Bad : m <= y
  BY <1>1, LeastNumber
<1>3. m # 0
  <2> DEFINE F == [n \in 0 .. 0 |-> <<>>]
  <2>1. Collects(F, r, ring, leave, 0)
    BY DEF Collects
  <2> QED BY <2>1
<1>4. m - 1 \in Nat /\ m - 1 \notin Bad
  BY <1>2, <1>3
<1>5. PICK F : Collects(F, r, ring, leave, m - 1)
  BY <1>4
<1> DEFINE G == [n \in 0 .. m |->
                   IF n < m THEN F[n]
                   ELSE IF Ejects(r, ring[n]) = leave THEN Append(F[n - 1], ring[n])
                   ELSE F[n - 1]]
<1>6. \A n \in 0 .. m : G[n] = IF n = 0 THEN <<>>
            ELSE IF Ejects(r, ring[n]) = leave THEN Append(G[n - 1], ring[n])
            ELSE G[n - 1]
  <2>1. \A n \in 0 .. m - 1 : F[n] = IF n = 0 THEN <<>>
            ELSE IF Ejects(r, ring[n]) = leave THEN Append(F[n - 1], ring[n])
            ELSE F[n - 1]
    BY <1>4, <1>5 DEF Collects
  <2>2. \A n \in 0 .. m - 1 : G[n] = F[n]
    OBVIOUS
  <2>3. G[m] = IF Ejects(r, ring[m]) = leave THEN Append(F[m - 1], ring[m])
               ELSE F[m - 1]
    OBVIOUS
  <2> HIDE DEF G
  <2>4. ASSUME NEW n \in 0 .. m
        PROVE  G[n] = IF n = 0 THEN <<>>
            ELSE IF Ejects(r, ring[n]) = leave THEN Append(G[n - 1], ring[n])
            ELSE G[n - 1]
    <3>1. CASE n = m
      <4>1. n - 1 \in 0 .. m - 1 /\ n # 0
        BY <1>3, <1>4, <3>1
      <4>2. G[n - 1] = F[n - 1]
        BY <4>1, <2>2
      <4> QED BY <2>3, <3>1, <4>1, <4>2
    <3>2. CASE n = 0
      BY <1>3, <1>4, <2>1, <2>2, <3>2
    <3>3. CASE n # m /\ n # 0
      <4>1. n \in 0 .. m - 1 /\ n - 1 \in 0 .. m - 1
        BY <1>4, <3>3
      <4>2. G[n - 1] = F[n - 1] /\ G[n] = F[n]
        BY <4>1, <2>2
      <4> QED BY <2>1, <3>3, <4>1, <4>2
    <3> QED BY <3>1, <3>2, <3>3
  <2> QED BY <2>4
<1>7. G = [n \in 0 .. m |-> G[n]]
  OBVIOUS
<1> HIDE DEF G
<1>8. Collects(G, r, ring, leave, m)
  BY <1>6, <1>7 DEF Collects
<1> QED BY <1>8

\* q holds those of the first n packets that leave the ring, or the others.
SortedInto(q, r, ring, leave, n) ==
    /\ Len(q) <= n
    /\ \A j \in DOMAIN q : \E k \in 1 .. n : Ejects(r, ring[k]) = leave /\ ring[k] = q[j]
    /\ \A k \in 1 .. n : Ejects(r, ring[k]) = leave => \E j \in DOMAIN q : q[j] = ring[k]
    /\ Distinct(ring) => Distinct(q)

\* One packet more (one turn of the loop).
LEMMA SortOne ==
    ASSUME NEW S, NEW r, NEW ring \in Seq(S), NEW leave, NEW n \in 1 .. Len(ring),
           NEW q \in Seq(S), SortedInto(q, r, ring, leave, n - 1),
           NEW u, u = IF Ejects(r, ring[n]) = leave THEN Append(q, ring[n]) ELSE q
    PROVE  u \in Seq(S) /\ SortedInto(u, r, ring, leave, n)
<1>1. ring[n] \in S /\ n \in DOMAIN ring /\ n \in Nat /\ \A k \in 1 .. n : k \in DOMAIN ring
  OBVIOUS
<1>2. Len(q) \in Nat /\ DOMAIN q = 1 .. Len(q)
  BY LenProperties
<1>3. /\ \A k \in 1 .. n : k = n \/ k \in 1 .. n - 1
      /\ \A k \in 1 .. n - 1 : k \in 1 .. n /\ k # n
      /\ n \in 1 .. n
  BY <1>1
<1>4. CASE (Ejects(r, ring[n]) = leave) = FALSE
  <2>1. u = q
    BY <1>4
  <2>2. Len(q) <= n
    BY <1>1, <1>2 DEF SortedInto
  <2>3. SortedInto(q, r, ring, leave, n)
    BY <1>3, <1>4, <2>2 DEF SortedInto
  <2> QED BY <2>1, <2>3
<1>5. CASE Ejects(r, ring[n]) = leave
  <2> DEFINE e == ring[n]
  <2>1. /\ u \in Seq(S) /\ Len(u) = Len(q) + 1 /\ u[Len(q) + 1] = e
        /\ \A i \in 1 .. Len(q) : u[i] = q[i]
    BY <1>1, <1>5, AppendProperties
  <2>2. DOMAIN u = 1 .. Len(q) + 1
    BY <2>1, LenProperties
  <2>3. \A j \in DOMAIN u : j = Len(q) + 1 \/ (j \in DOMAIN q /\ u[j] = q[j])
    BY <1>2, <2>1, <2>2
  <2>4. /\ Len(q) + 1 \in DOMAIN u /\ Len(q) + 1 \notin DOMAIN q
        /\ \A j \in DOMAIN q : j \in DOMAIN u /\ u[j] = q[j]
    BY <1>2, <2>1, <2>2
  <2>5. Len(u) <= n
    BY <1>1, <1>2, <2>1 DEF SortedInto
  <2> HIDE DEF e
  <2>6. ASSUME NEW j \in DOMAIN u
        PROVE  \E k \in 1 .. n : Ejects(r, ring[k]) = leave /\ ring[k] = u[j]
    <3>1. CASE j = Len(q) + 1
      BY <1>3, <1>5, <2>1, <3>1 DEF e
    <3>2. CASE j \in DOMAIN q /\ u[j] = q[j]
      BY <1>3, <3>2 DEF SortedInto
    <3> QED BY <2>3, <3>1, <3>2
  <2>7. ASSUME NEW k \in 1 .. n, Ejects(r, ring[k]) = leave
        PROVE  \E j \in DOMAIN u : u[j] = ring[k]
    <3>1. CASE k = n
      BY <2>1, <2>4, <3>1 DEF e
    <3>2. CASE k \in 1 .. n - 1
      <4>1. PICK j \in DOMAIN q : q[j] = ring[k]
        BY <2>7, <3>2 DEF SortedInto
      <4> QED BY <2>4, <4>1
    <3> QED BY <1>3, <3>1, <3>2
  <2>8. ASSUME Distinct(ring)
        PROVE  Distinct(u)
    <3>1. \A j \in DOMAIN q : q[j] # e
      <4>1. SUFFICES ASSUME NEW j \in DOMAIN q, q[j] = e PROVE FALSE
        OBVIOUS
      <4>2. PICK k \in 1 .. n - 1 : ring[k] = e
        BY <4>1 DEF SortedInto
      <4>3. k = n
        BY <1>1, <1>3, <2>8, <4>2 DEF Distinct, e
      <4> QED BY <1>3, <4>3
    <3>2. Distinct(q)
      BY <2>8 DEF SortedInto
    <3>3. ASSUME NEW i \in DOMAIN u, NEW j \in DOMAIN u, u[i] = u[j]
          PROVE  i = j
      <4>1. CASE i \in DOMAIN q /\ j \in DOMAIN q
        BY <2>4, <3>2, <3>3, <4>1 DEF Distinct
      <4>2. CASE i \notin DOMAIN q /\ j \notin DOMAIN q
        BY <2>3, <4>2
      <4>3. CASE i \in DOMAIN q /\ j \notin DOMAIN q
        BY <2>1, <2>3, <2>4, <3>1, <3>3, <4>3
      <4>4. CASE i \notin DOMAIN q /\ j \in DOMAIN q
        BY <2>1, <2>3, <2>4, <3>1, <3>3, <4>4
      <4> QED BY <4>1, <4>2, <4>3, <4>4
    <3> QED BY <3>3 DEF Distinct
  <2> QED BY <2>1, <2>5, <2>6, <2>7, <2>8 DEF SortedInto
<1> QED BY <1>4, <1>5

\* Process divides the ring input: each packet goes to one side, once.
LEMMA SortedProps ==
    ASSUME NEW S, NEW r, NEW ring \in Seq(S), NEW leave
    PROVE  /\ Sorted(r, ring, leave) \in Seq(S)
           /\ \A p : p \in ToSet(Sorted(r, ring, leave)) <=>
                         p \in ToSet(ring) /\ Ejects(r, p) = leave
           /\ Distinct(ring) => Distinct(Sorted(r, ring, leave))
<1> DEFINE N == Len(ring)
<1>1. N \in Nat /\ DOMAIN ring = 1 .. N
  BY LenProperties
<1>2. \E first : Collects(first, r, ring, leave, N)
  BY <1>1, CollectsExists
<1> DEFINE F == CHOOSE first : first = [n \in 0 .. N |->
                   IF n = 0 THEN <<>>
                   ELSE IF Ejects(r, ring[n]) = leave THEN Append(first[n - 1], ring[n])
                   ELSE first[n - 1]]
<1>3. Sorted(r, ring, leave) = F[N]
  BY DEF Sorted
<1>4. Collects(F, r, ring, leave, N)
  BY <1>2 DEF Collects
<1> HIDE DEF F
<1>5. \A n \in 0 .. N : F[n] = IF n = 0 THEN <<>>
            ELSE IF Ejects(r, ring[n]) = leave THEN Append(F[n - 1], ring[n])
            ELSE F[n - 1]
  BY <1>4 DEF Collects
<1> DEFINE Bad == {n \in Nat : n <= N /\
                       ~(F[n] \in Seq(S) /\ SortedInto(F[n], r, ring, leave, n))}
<1>6. Bad = {}
  <2>1. SUFFICES ASSUME Bad # {} PROVE FALSE
    OBVIOUS
  <2>2. PICK n \in Bad : \A y \in Bad : n <= y
    BY <2>1, LeastNumber
  <2>3. n # 0
    <3>1. SUFFICES ASSUME n = 0
                   PROVE F[n] \in Seq(S) /\ SortedInto(F[n], r, ring, leave, n)
      OBVIOUS
    <3>2. F[n] = <<>> /\ <<>> \in Seq(S) /\ Len(<<>>) = 0 /\ DOMAIN <<>> = {}
      BY <1>1, <1>5, <3>1, EmptySeq
    <3>3. 1 .. n = {}
      BY <3>1
    <3> QED BY <3>1, <3>2, <3>3 DEF SortedInto, Distinct
  <2>4. n - 1 \in Nat /\ n - 1 <= N /\ n - 1 \notin Bad /\ n \in 1 .. N
    BY <1>1, <2>2, <2>3
  <2>5. F[n - 1] \in Seq(S) /\ SortedInto(F[n - 1], r, ring, leave, n - 1)
    BY <2>4
  <2>6. F[n] = IF Ejects(r, ring[n]) = leave THEN Append(F[n - 1], ring[n])
               ELSE F[n - 1]
    BY <1>5, <2>3, <2>4
  <2>7. F[n] \in Seq(S) /\ SortedInto(F[n], r, ring, leave, n)
    BY <2>4, <2>5, <2>6, SortOne
  <2> QED BY <2>7
<1>7. F[N] \in Seq(S) /\ SortedInto(F[N], r, ring, leave, N)
  BY <1>1, <1>6
<1> HIDE DEF Bad, N
<1>8. PICK s : s = Sorted(r, ring, leave)
  OBVIOUS
<1>9. /\ s \in Seq(S)
      /\ Distinct(ring) => Distinct(s)
      /\ \A j \in DOMAIN s : \E k \in DOMAIN ring : Ejects(r, ring[k]) = leave /\ ring[k] = s[j]
      /\ \A k \in DOMAIN ring : Ejects(r, ring[k]) = leave => \E j \in DOMAIN s : s[j] = ring[k]
  BY <1>1, <1>3, <1>7, <1>8, Zenon DEF SortedInto
<1>10. ASSUME NEW p \in ToSet(s)
       PROVE  p \in ToSet(ring) /\ Ejects(r, p) = leave
  <2>1. PICK j \in DOMAIN s : p = s[j]
    BY <1>10 DEF ToSet
  <2>2. PICK k \in DOMAIN ring : Ejects(r, ring[k]) = leave /\ ring[k] = s[j]
    BY <1>9
  <2>3. ring[k] = p
    BY <2>1, <2>2
  <2> QED BY <2>2, <2>3, Zenon DEF ToSet
<1>11. ASSUME NEW p \in ToSet(ring), Ejects(r, p) = leave
       PROVE  p \in ToSet(s)
  <2>1. PICK k \in DOMAIN ring : p = ring[k]
    BY <1>11 DEF ToSet
  <2>2. PICK j \in DOMAIN s : s[j] = ring[k]
    BY <1>9, <1>11, <2>1, Zenon
  <2> QED BY <2>1, <2>2 DEF ToSet
<1>12. \A p : p \in ToSet(s) <=> p \in ToSet(ring) /\ Ejects(r, p) = leave
  BY <1>10, <1>11, Zenon
<1> QED BY <1>8, <1>9, <1>12, Zenon

\* Appending a list to another adds its elements.
LEMMA Joined ==
    ASSUME NEW S, NEW s \in Seq(S), NEW t \in Seq(S)
    PROVE  /\ s \o t \in Seq(S) /\ Len(s \o t) = Len(s) + Len(t)
           /\ ToSet(s \o t) = ToSet(s) \cup ToSet(t)
           /\ Distinct(s \o t) <=> /\ Distinct(s) /\ Distinct(t)
                                   /\ ToSet(s) \cap ToSet(t) = {}
<1> DEFINE u == s \o t
           a == Len(s)
           b == Len(t)
<1>1. /\ u \in Seq(S) /\ Len(u) = a + b
      /\ \A i \in 1 .. a + b : u[i] = IF i <= a THEN s[i] ELSE t[i - a]
  BY ConcatProperties
<1>2. DOMAIN s = 1 .. a /\ a \in Nat /\ DOMAIN t = 1 .. b /\ b \in Nat /\ DOMAIN u = 1 .. a + b
  BY <1>1, LenProperties
<1> HIDE DEF u, a, b
<1>3. /\ \A i \in DOMAIN s : i \in DOMAIN u /\ u[i] = s[i]
      /\ \A i \in DOMAIN t : a + i \in DOMAIN u /\ a + i \notin DOMAIN s /\ u[a + i] = t[i]
  BY <1>1, <1>2
<1>4. \A i \in DOMAIN u : \/ i \in DOMAIN s /\ u[i] = s[i]
                          \/ i - a \in DOMAIN t /\ u[i] = t[i - a]
  BY <1>1, <1>2
<1>5. ToSet(u) = ToSet(s) \cup ToSet(t)
  <2>1. \A p \in ToSet(s) : p \in ToSet(u)
    BY <1>3 DEF ToSet
  <2>2. \A p \in ToSet(t) : p \in ToSet(u)
    BY <1>3 DEF ToSet
  <2>3. \A p \in ToSet(u) : p \in ToSet(s) \/ p \in ToSet(t)
    BY <1>4 DEF ToSet
  <2> QED BY <2>1, <2>2, <2>3
<1>6. ASSUME Distinct(u)
      PROVE  Distinct(s) /\ Distinct(t) /\ ToSet(s) \cap ToSet(t) = {}
  <2>1. Distinct(s)
    BY <1>3, <1>6 DEF Distinct
  <2>2. ASSUME NEW i \in DOMAIN t, NEW j \in DOMAIN t, t[i] = t[j]
        PROVE  i = j
    <3>1. a + i = a + j
      BY <1>3, <1>6, <2>2 DEF Distinct
    <3> QED BY <1>2, <3>1
  <2>3. ASSUME NEW i \in DOMAIN s, NEW j \in DOMAIN t, s[i] = t[j]
        PROVE  FALSE
    <3>1. i = a + j
      BY <1>3, <1>6, <2>3 DEF Distinct
    <3> QED BY <1>3, <3>1
  <2>4. ToSet(s) \cap ToSet(t) = {}
    BY <2>3 DEF ToSet
  <2> QED BY <2>1, <2>2, <2>4 DEF Distinct
<1>7. ASSUME Distinct(s), Distinct(t), ToSet(s) \cap ToSet(t) = {}
      PROVE  Distinct(u)
  <2>1. \A i \in DOMAIN s : \A j \in DOMAIN t : s[i] # t[j]
    BY <1>7 DEF ToSet
  <2>2. ASSUME NEW i \in DOMAIN u, NEW j \in DOMAIN u, u[i] = u[j]
        PROVE  i = j
    <3>1. CASE i \in DOMAIN s /\ u[i] = s[i] /\ j \in DOMAIN s /\ u[j] = s[j]
      BY <1>7, <2>2, <3>1 DEF Distinct
    <3>2. CASE i - a \in DOMAIN t /\ u[i] = t[i - a] /\ j - a \in DOMAIN t /\ u[j] = t[j - a]
      <4>1. i - a = j - a
        BY <1>7, <2>2, <3>2 DEF Distinct
      <4> QED BY <1>2, <4>1
    <3>3. CASE i \in DOMAIN s /\ u[i] = s[i] /\ j - a \in DOMAIN t /\ u[j] = t[j - a]
      BY <2>1, <2>2, <3>3
    <3>4. CASE i - a \in DOMAIN t /\ u[i] = t[i - a] /\ j \in DOMAIN s /\ u[j] = s[j]
      BY <2>1, <2>2, <3>4
    <3> QED BY <1>4, <3>1, <3>2, <3>3, <3>4
  <2> QED BY <2>2 DEF Distinct
<1> QED BY <1>1, <1>5, <1>6, <1>7 DEF u, a, b

\* Cutting a list in two and putting it together again.
LEMMA Cut ==
    ASSUME NEW S, NEW q \in Seq(S), NEW n \in 0 .. Len(q)
    PROVE  /\ SubSeq(q, 1, n) \in Seq(S) /\ Len(SubSeq(q, 1, n)) = n
           /\ SubSeq(q, n + 1, Len(q)) \in Seq(S)
           /\ Len(SubSeq(q, n + 1, Len(q))) = Len(q) - n
           /\ SubSeq(q, 1, n) \o SubSeq(q, n + 1, Len(q)) = q
<1> DEFINE N == Len(q)
<1>1. N \in Nat /\ n \in Nat /\ n <= N /\ \A i \in 1 .. N : q[i] \in S
  BY LenProperties, ElementOfSeq
<1>2. /\ 1 \in 1 .. N + 1 /\ n \in 1 - 1 .. N /\ N \in n .. N
      /\ n + 1 \in Int /\ N \in Int /\ 1 \in Int /\ n \in Int
      /\ \A i \in 1 .. n : i \in 1 .. N
      /\ \A i \in n + 1 .. N : i \in 1 .. N
  BY <1>1
<1>3. SubSeq(q, 1, n) \o SubSeq(q, n + 1, N) = SubSeq(q, 1, N)
  BY <1>2, ConcatAdjacentSubSeq
<1>4. SubSeq(q, 1, N) = q
  BY SubSeqFull
<1>5. /\ SubSeq(q, 1, n) \in Seq(S)
      /\ Len(SubSeq(q, 1, n)) = IF 1 <= n THEN n - 1 + 1 ELSE 0
  BY <1>1, <1>2, SubSeqProperties
<1>6. /\ SubSeq(q, n + 1, N) \in Seq(S)
      /\ Len(SubSeq(q, n + 1, N)) = IF n + 1 <= N THEN N - (n + 1) + 1 ELSE 0
  BY <1>1, <1>2, SubSeqProperties
<1>7. PICK x, y : x = Len(SubSeq(q, 1, n)) /\ y = Len(SubSeq(q, n + 1, N))
  OBVIOUS
<1>8. x = n
  BY <1>1, <1>5, <1>7
<1>9. PICK c \in Nat : c = N
  BY <1>1
<1>10. y = IF n + 1 <= c THEN c - (n + 1) + 1 ELSE 0
  BY <1>6, <1>7, <1>9
<1>11. y = c - n
  BY <1>1, <1>9, <1>10
<1> QED BY <1>3, <1>4, <1>5, <1>6, <1>7, <1>8, <1>9, <1>11

\* The least of two numbers (min in Process).
LEMMA LeastOfTwo ==
    ASSUME NEW a \in Int, NEW b \in Int
    PROVE  Min({a, b}) = IF a <= b THEN a ELSE b
<1>1. PICK c : c = IF a <= b THEN a ELSE b
  OBVIOUS
<1>2. c \in {a, b} /\ \A y \in {a, b} : c <= y
  BY <1>1
<1>3. \A x \in {a, b} : (\A y \in {a, b} : x <= y) => x = c
  BY <1>1
<1> QED BY <1>1, <1>2, <1>3 DEF Min

-----------------------------------------------------------------------------
(* The invariant.                                                          *)

AnyPacket == [from : Routers, no : Nat, target : Routers]

RouterType == [localIn : Seq(AnyPacket), ringOut : Seq(AnyPacket),
               localOut : Seq(AnyPacket), buffer : Seq(AnyPacket)]

Types ==
    /\ todo \in Workloads
    /\ accepted \in [Routers -> Nat]
    /\ link \in [Routers -> Seq(AnyPacket)]
    /\ delivered \in [Routers -> Seq(AnyPacket)]
    /\ router \in [Routers -> RouterType]

Sizes ==
    \A r \in Routers :
        /\ accepted[r] <= Len(todo[r])
        /\ Len(router[r].localIn) <= Capacity /\ Len(router[r].ringOut) <= Capacity
        /\ Len(router[r].localOut) <= Capacity
        /\ Len(router[r].buffer) <= BufferCapacity

\* The list s is the last packets of worker r, of which a were accepted.
Lined(r, s, a) ==
    Len(s) <= a /\ \A i \in 1 .. Len(s) : s[i] = Packet(r, a - Len(s) + i)

\* The worker's order is the order in which its packets wait.
InLine == \A r \in Routers : Lined(r, Waiting(r), accepted[r])

\* The packets that wait, that are on the ring and that were ejected, by router.
WaitSet == [r \in Routers |-> ToSet(Waiting(r))]
RingSet == [r \in Routers |-> ToSet(Ring(r))]
OutSet  == [r \in Routers |-> ToSet(Ejections(r))]

\* The sets of W, G and E are disjoint from each other and from D.
Disjoint(W, G, E, D) ==
    /\ \A q \in Routers : \A r \in Routers :
           /\ q # r => /\ W[q] \cap W[r] = {}
                       /\ G[q] \cap G[r] = {}
                       /\ E[q] \cap E[r] = {}
           /\ W[q] \cap G[r] = {} /\ W[q] \cap E[r] = {} /\ G[q] \cap E[r] = {}
    /\ \A r \in Routers : W[r] \cap D = {} /\ G[r] \cap D = {} /\ E[r] \cap D = {}

\* Together they are P.
Cover(W, G, E, D, P) ==
    /\ D \subseteq P
    /\ \A r \in Routers : W[r] \subseteq P /\ G[r] \subseteq P /\ E[r] \subseteq P
    /\ \A p \in P : p \in D \/ \E r \in Routers : p \in W[r] \/ p \in G[r] \/ p \in E[r]

\* A packet is in one of the lists, once, or dropped.
Apart ==
    /\ \A r \in Routers : Distinct(Ring(r)) /\ Distinct(Ejections(r))
    /\ Disjoint(WaitSet, RingSet, OutSet, dropped)

\* What the routers have accepted, and nothing else, is somewhere.
Whole == Cover(WaitSet, RingSet, OutSet, dropped, Packets)

AtTarget == \A r \in Routers : \A p \in ToSet(Ejections(r)) : p.target = r

RingInv == Types /\ Sizes /\ InLine /\ Apart /\ Whole /\ AtTarget

-----------------------------------------------------------------------------
(* One call of Process.                                                    *)

\* What a tick receives from the ring and from the worker.
Incoming(r, m) == SubSeq(link[Previous(r)], 1, m)
Remaining(r, m) == SubSeq(link[Previous(r)], m + 1, Len(link[Previous(r)]))
New(r, n) == [k \in 1 .. n |-> Packet(r, accepted[r] + k)]
Local(r, n) == router[r].localIn \o New(r, n)

\* What goes to the ring output in one batch.
Batch(r, ring, local) ==
    Forwarded(r, ring) \o (IF MayInject(r, local) THEN router[r].buffer \o local ELSE <<>>)

\* What an output takes of a batch.
Taken(q, batch) == IF Fits(q, batch) THEN batch ELSE <<>>

\* There is a router before each router.
LEMMA PreviousIn ==
    ASSUME NEW r \in Routers
    PROVE  Previous(r) \in Routers
<1>1. NumRouters \in Nat \ {0}
  BY RingAssumption
<1> QED BY <1>1 DEF Previous, Routers

\* The fields of a router.
LEMMA RouterFields ==
    ASSUME Types, NEW r \in Routers
    PROVE  /\ router[r].localIn \in Seq(AnyPacket) /\ router[r].ringOut \in Seq(AnyPacket)
           /\ router[r].localOut \in Seq(AnyPacket) /\ router[r].buffer \in Seq(AnyPacket)
           /\ link[r] \in Seq(AnyPacket) /\ delivered[r] \in Seq(AnyPacket)
           /\ router[r] = [localIn |-> router[r].localIn, ringOut |-> router[r].ringOut,
                           localOut |-> router[r].localOut, buffer |-> router[r].buffer]
<1>1. router[r] \in RouterType
  BY DEF Types
<1>2. link[r] \in Seq(AnyPacket) /\ delivered[r] \in Seq(AnyPacket)
  BY DEF Types
<1> QED BY <1>1, <1>2 DEF RouterType

\* OutputQueue.InjectPackets keeps the capacity.
LEMMA Injected ==
    ASSUME NEW q \in Seq(AnyPacket), NEW batch \in Seq(AnyPacket), Len(q) <= Capacity
    PROVE  /\ Inject(q, batch) = q \o Taken(q, batch)
           /\ Taken(q, batch) \in Seq(AnyPacket)
           /\ Inject(q, batch) \in Seq(AnyPacket) /\ Len(Inject(q, batch)) <= Capacity
<1>1. CASE Fits(q, batch)
  <2>1. Inject(q, batch) = q \o batch /\ Taken(q, batch) = batch
    BY <1>1 DEF Inject, Taken
  <2>2. q \o batch \in Seq(AnyPacket) /\ Len(q \o batch) = Len(q) + Len(batch)
    BY Joined
  <2> QED BY <1>1, <2>1, <2>2 DEF Fits
<1>2. CASE ~Fits(q, batch)
  <2>1. Inject(q, batch) = q /\ Taken(q, batch) = <<>> /\ <<>> \in Seq(AnyPacket)
    BY <1>2 DEF Inject, Taken
  <2>2. q \o <<>> = q
    BY ConcatEmptySeq
  <2> QED BY <2>1, <2>2
<1> QED BY <1>1, <1>2

\* What a call of Process returns, in whole lists.
Processed(r, ring, local, p) ==
    /\ p.ringOut = router[r].ringOut
                       \o Taken(router[r].ringOut, Batch(r, ring, local))
    /\ p.localOut = router[r].localOut
                        \o Taken(router[r].localOut, Ejected(r, ring))
    /\ p.buffer \o p.localIn = IF MayInject(r, local) THEN <<>>
                               ELSE router[r].buffer \o local
    /\ p.lost = (IF Fits(router[r].ringOut, Batch(r, ring, local)) THEN {}
                 ELSE ToSet(Batch(r, ring, local)))
                \cup (IF Fits(router[r].localOut, Ejected(r, ring)) THEN {}
                      ELSE ToSet(Ejected(r, ring)))
    /\ p.ringOut \in Seq(AnyPacket) /\ Len(p.ringOut) <= Capacity
    /\ p.localOut \in Seq(AnyPacket) /\ Len(p.localOut) <= Capacity
    /\ p.buffer \in Seq(AnyPacket) /\ Len(p.buffer) <= BufferCapacity
    /\ p.localIn \in Seq(AnyPacket) /\ Len(p.localIn) <= Capacity
    /\ Batch(r, ring, local) \in Seq(AnyPacket) /\ Ejected(r, ring) \in Seq(AnyPacket)
    /\ Taken(router[r].ringOut, Batch(r, ring, local)) \in Seq(AnyPacket)
    /\ Taken(router[r].localOut, Ejected(r, ring)) \in Seq(AnyPacket)

\* Process moves whole lists: forwarded packets and what waited go behind the
\* ring output, ejected ones behind the output to the worker, and what is not
\* injected waits in its order.
LEMMA ProcessMoves ==
    ASSUME Types, Sizes, NEW r \in Routers, NEW ring \in Seq(AnyPacket),
           NEW local \in Seq(AnyPacket), Len(local) <= Capacity
    PROVE  Processed(r, ring, local, Process(r, ring, local))
<1>0. PICK p : p = Process(r, ring, local)
  OBVIOUS
<1> DEFINE old == router[r]
           n == Buffered(r, local)
<1>1. /\ old.localIn \in Seq(AnyPacket) /\ old.ringOut \in Seq(AnyPacket)
      /\ old.localOut \in Seq(AnyPacket) /\ old.buffer \in Seq(AnyPacket)
      /\ Len(old.ringOut) <= Capacity /\ Len(old.localOut) <= Capacity
      /\ Len(old.buffer) <= BufferCapacity
  BY RouterFields DEF Sizes
<1>2. Forwarded(r, ring) \in Seq(AnyPacket) /\ Ejected(r, ring) \in Seq(AnyPacket)
  BY SortedProps DEF Forwarded, Ejected
<1>3. old.buffer \o local \in Seq(AnyPacket)
  BY <1>1, Joined
<1>4. Batch(r, ring, local) \in Seq(AnyPacket)
  <2>1. CASE MayInject(r, local)
    <3>1. Batch(r, ring, local) = Forwarded(r, ring) \o (old.buffer \o local)
      BY <2>1 DEF Batch
    <3>2. Forwarded(r, ring) \o (old.buffer \o local) \in Seq(AnyPacket)
      BY <1>2, <1>3, Joined
    <3> QED BY <3>1, <3>2
  <2>2. CASE ~MayInject(r, local)
    <3>1. Batch(r, ring, local) = Forwarded(r, ring) \o <<>>
      BY <2>2 DEF Batch
    <3>2. Forwarded(r, ring) \o <<>> = Forwarded(r, ring)
      BY <1>2, ConcatEmptySeq
    <3> QED BY <1>2, <3>1, <3>2
  <2> QED BY <2>1, <2>2
<1>5. /\ p.ringOut = Inject(old.ringOut, Batch(r, ring, local))
      /\ p.localOut = Inject(old.localOut, Ejected(r, ring))
      /\ p.buffer = IF MayInject(r, local) THEN <<>> ELSE old.buffer \o SubSeq(local, 1, n)
      /\ p.localIn = IF MayInject(r, local) THEN <<>> ELSE SubSeq(local, n + 1, Len(local))
      /\ p.lost = (IF Fits(old.ringOut, Batch(r, ring, local)) THEN {}
                   ELSE ToSet(Batch(r, ring, local)))
                  \cup (IF Fits(old.localOut, Ejected(r, ring)) THEN {}
                        ELSE ToSet(Ejected(r, ring)))
  BY <1>0 DEF Process, Batch
<1>6. /\ Len(local) \in Nat /\ Len(old.buffer) \in Nat
      /\ Capacity \in Nat /\ BufferCapacity \in Nat
  BY <1>1, RingAssumption
<1>7. /\ n \in 0 .. Len(local) /\ n + Len(old.buffer) <= BufferCapacity
  <2>1. PICK a \in Nat, b \in Nat : a = Len(local) /\ b = Len(old.buffer)
    BY <1>6
  <2>2. BufferCapacity - b \in Int /\ b <= BufferCapacity /\ a \in Int
    BY <1>1, <1>6, <2>1
  <2>3. Min({a, BufferCapacity - b}) = IF a <= BufferCapacity - b THEN a ELSE BufferCapacity - b
    BY <2>2, LeastOfTwo
  <2>4. n = IF a <= BufferCapacity - b THEN a ELSE BufferCapacity - b
    BY <2>1, <2>3 DEF Buffered
  <2>5. n \in 0 .. a /\ n + b <= BufferCapacity
    BY <1>6, <2>2, <2>4
  <2> QED BY <2>1, <2>5
<1> HIDE DEF n
<1>8. /\ SubSeq(local, 1, n) \in Seq(AnyPacket) /\ Len(SubSeq(local, 1, n)) = n
      /\ SubSeq(local, n + 1, Len(local)) \in Seq(AnyPacket)
      /\ Len(SubSeq(local, n + 1, Len(local))) = Len(local) - n
      /\ SubSeq(local, 1, n) \o SubSeq(local, n + 1, Len(local)) = local
  BY <1>7, Cut
<1>9. /\ p.ringOut = old.ringOut \o Taken(old.ringOut, Batch(r, ring, local))
      /\ p.localOut = old.localOut \o Taken(old.localOut, Ejected(r, ring))
      /\ p.ringOut \in Seq(AnyPacket) /\ Len(p.ringOut) <= Capacity
      /\ p.localOut \in Seq(AnyPacket) /\ Len(p.localOut) <= Capacity
      /\ Taken(old.ringOut, Batch(r, ring, local)) \in Seq(AnyPacket)
      /\ Taken(old.localOut, Ejected(r, ring)) \in Seq(AnyPacket)
  <2>1. PICK a, b : a = Batch(r, ring, local) /\ b = Ejected(r, ring)
    OBVIOUS
  <2>2. PICK u, v : u = old.ringOut /\ v = old.localOut
    OBVIOUS
  <2>3. a \in Seq(AnyPacket) /\ u \in Seq(AnyPacket) /\ Len(u) <= Capacity
    BY <1>1, <1>4, <2>1, <2>2
  <2>4. b \in Seq(AnyPacket) /\ v \in Seq(AnyPacket) /\ Len(v) <= Capacity
    BY <1>1, <1>2, <2>1, <2>2
  <2>5. p.ringOut = Inject(u, a) /\ p.localOut = Inject(v, b)
    BY <1>5, <2>1, <2>2
  <2>6. /\ Inject(u, a) = u \o Taken(u, a) /\ Taken(u, a) \in Seq(AnyPacket)
        /\ Inject(u, a) \in Seq(AnyPacket) /\ Len(Inject(u, a)) <= Capacity
    BY <2>3, Injected
  <2>7. /\ Inject(v, b) = v \o Taken(v, b) /\ Taken(v, b) \in Seq(AnyPacket)
        /\ Inject(v, b) \in Seq(AnyPacket) /\ Len(Inject(v, b)) <= Capacity
    BY <2>4, Injected
  <2> QED BY <2>1, <2>2, <2>5, <2>6, <2>7, Zenon
<1>10. /\ p.buffer \o p.localIn = IF MayInject(r, local) THEN <<>> ELSE old.buffer \o local
       /\ p.buffer \in Seq(AnyPacket) /\ Len(p.buffer) <= BufferCapacity
       /\ p.localIn \in Seq(AnyPacket) /\ Len(p.localIn) <= Capacity
  <2>1. CASE MayInject(r, local)
    <3>1. p.buffer = <<>> /\ p.localIn = <<>> /\ <<>> \in Seq(AnyPacket) /\ Len(<<>>) = 0
      BY <1>5, <2>1
    <3>2. <<>> \o <<>> = <<>>
      BY <3>1, ConcatEmptySeq
    <3>3. 0 <= Capacity /\ 0 <= BufferCapacity
      BY <1>6
    <3> QED BY <2>1, <3>1, <3>2, <3>3
  <2>2. CASE ~MayInject(r, local)
    <3>1. PICK h, t, b : h = SubSeq(local, 1, n) /\ t = SubSeq(local, n + 1, Len(local))
                         /\ b = old.buffer
      OBVIOUS
    <3>2. /\ h \in Seq(AnyPacket) /\ Len(h) = n /\ t \in Seq(AnyPacket)
          /\ Len(t) = Len(local) - n /\ h \o t = local /\ b \in Seq(AnyPacket)
      BY <1>1, <1>8, <3>1, Zenon
    <3>3. p.buffer = b \o h /\ p.localIn = t
      BY <1>5, <2>2, <3>1, Zenon
    <3>4. b \o h \in Seq(AnyPacket) /\ Len(b \o h) = Len(b) + Len(h)
      <4>1. b \in Seq(AnyPacket) /\ h \in Seq(AnyPacket)
        BY <3>2
      <4> QED BY <4>1, ConcatProperties
    <3>5. (b \o h) \o t = b \o (h \o t)
      <4>1. b \in Seq(AnyPacket) /\ h \in Seq(AnyPacket) /\ t \in Seq(AnyPacket)
        BY <3>2
      <4> QED BY <4>1, ConcatAssociative
    <3>6. p.buffer \o p.localIn = b \o local
      BY <3>2, <3>3, <3>5, Zenon
    <3>7. Len(b \o h) <= BufferCapacity
      <4>1. PICK c \in Nat : c = Len(b)
        BY <1>6, <3>1
      <4>2. Len(b \o h) = c + n /\ n + c <= BufferCapacity
        BY <1>7, <3>1, <3>2, <3>4, <4>1, Zenon
      <4>3. n \in Int
        BY <1>6, <1>7
      <4> QED BY <1>6, <4>2, <4>3
    <3>8. Len(t) <= Capacity
      <4>1. PICK a \in Nat : a = Len(local)
        BY <1>6
      <4>2. n \in 0 .. a /\ Len(t) = a - n /\ a <= Capacity
        BY <1>7, <3>2, <4>1, Zenon
      <4> QED BY <1>6, <4>2
    <3> QED BY <2>2, <3>1, <3>2, <3>3, <3>4, <3>6, <3>7, <3>8, Zenon
  <2> QED BY <2>1, <2>2
<1> HIDE DEF old
<1>11. Processed(r, ring, local, p)
  BY <1>2, <1>4, <1>5, <1>9, <1>10, Zenon DEF old, Processed
<1> QED BY <1>0, <1>11, Zenon

-----------------------------------------------------------------------------
(* One tick.                                                               *)

\* What a worker sends in a cycle is the next of its packets, in order.
LEMMA NewProps ==
    ASSUME Types, NEW r \in Routers, NEW n \in Nat, n <= Len(todo[r]) - accepted[r]
    PROVE  /\ New(r, n) \in Seq(AnyPacket) /\ Len(New(r, n)) = n
           /\ \A k \in 1 .. n : New(r, n)[k] = Packet(r, accepted[r] + k)
<1>1. todo \in [Routers -> Seq(Routers)]
  BY RingAssumption DEF Types
<1>2. todo[r] \in Seq(Routers) /\ accepted[r] \in Nat
  BY <1>1 DEF Types
<1>3. Len(todo[r]) \in Nat
  BY <1>2
<1>4. \A k \in 1 .. n : accepted[r] + k \in 1 .. Len(todo[r]) /\ accepted[r] + k \in Nat
  BY <1>2, <1>3
<1>5. ASSUME NEW k \in 1 .. n
      PROVE  Packet(r, accepted[r] + k) \in AnyPacket
  <2>1. todo[r][accepted[r] + k] \in Routers
    BY <1>2, <1>4, ElementOfSeq
  <2> QED BY <1>4, <2>1 DEF Packet, AnyPacket
<1> DEFINE s == New(r, n)
<1>6. s \in [1 .. n -> AnyPacket] /\ \A k \in 1 .. n : s[k] = Packet(r, accepted[r] + k)
  BY <1>5 DEF New
<1> HIDE DEF s
<1>7. s \in Seq(AnyPacket) /\ Len(s) = n
  BY <1>6
<1> QED BY <1>6, <1>7 DEF s

\* Three lists in a row.
LEMMA InARow ==
    ASSUME NEW a \in Seq(AnyPacket), NEW b \in Seq(AnyPacket), NEW c \in Seq(AnyPacket)
    PROVE  (a \o b) \o c = a \o (b \o c)
  BY ConcatAssociative

\* A burst is a part of the queue (OutputQueue.Tick).
LEMMA FirstIn ==
    ASSUME NEW q \in Seq(AnyPacket)
    PROVE  First(q) \in 0 .. Len(q) /\ 0 \in 0 .. Len(q)
<1>1. PICK a \in Nat : a = Len(q)
  OBVIOUS
<1>2. Bandwidth \in Nat
  BY RingAssumption
<1>3. Min({Bandwidth, a}) = IF Bandwidth <= a THEN Bandwidth ELSE a
  BY <1>2, LeastOfTwo
<1>4. Min({Bandwidth, a}) \in 0 .. a /\ 0 \in 0 .. a
  BY <1>2, <1>3
<1> QED BY <1>1, <1>4 DEF First

\* Sending a burst moves it from one end of a list to the other part of it.
LEMMA Sent ==
    ASSUME NEW l \in Seq(AnyPacket), NEW q \in Seq(AnyPacket), NEW n \in 0 .. Len(q)
    PROVE  /\ (l \o SubSeq(q, 1, n)) \o Rest(q, n) = l \o q
           /\ l \o SubSeq(q, 1, n) \in Seq(AnyPacket)
           /\ Rest(q, n) \in Seq(AnyPacket) /\ Len(Rest(q, n)) <= Len(q)
<1>1. PICK h, t : h = SubSeq(q, 1, n) /\ t = SubSeq(q, n + 1, Len(q))
  OBVIOUS
<1>2. h \in Seq(AnyPacket) /\ t \in Seq(AnyPacket) /\ Len(t) = Len(q) - n /\ h \o t = q
  BY <1>1, Cut
<1>3. (l \o h) \o t = l \o (h \o t)
  <2>1. h \in Seq(AnyPacket) /\ t \in Seq(AnyPacket)
    BY <1>2
  <2> QED BY <2>1, ConcatAssociative
<1>4. l \o h \in Seq(AnyPacket)
  <2>1. h \in Seq(AnyPacket)
    BY <1>2
  <2> QED BY <2>1, ConcatProperties
<1>5. PICK a \in Nat : a = Len(q)
  OBVIOUS
<1>6. Len(t) = a - n /\ n \in 0 .. a
  BY <1>2, <1>5
<1>7. Len(t) <= a
  BY <1>6
<1> QED BY <1>1, <1>2, <1>3, <1>4, <1>5, <1>7 DEF Rest

\* What a tick does: it takes ring from the previous router's part of the ring,
\* and Process moves it, and what the worker sent, in whole lists.
Moves(r, n, ring, local, left) ==
    /\ Ring(Previous(r)) = ring \o left
    /\ \A q \in Routers :
         Ring(q)' = (IF q = Previous(r) THEN left ELSE Ring(q))
                        \o (IF q = r THEN Taken(router[r].ringOut, Batch(r, ring, local))
                            ELSE <<>>)
    /\ \A q \in Routers :
         Ejections(q)' = Ejections(q)
             \o (IF q = r THEN Taken(router[r].localOut, Ejected(r, ring)) ELSE <<>>)
    /\ \A q \in Routers :
         Waiting(q)' = IF q # r THEN Waiting(q)
                       ELSE IF MayInject(r, local) THEN <<>> ELSE Waiting(r) \o New(r, n)
    /\ dropped' = dropped
                    \cup (IF Fits(router[r].ringOut, Batch(r, ring, local)) THEN {}
                          ELSE ToSet(Batch(r, ring, local)))
                    \cup (IF Fits(router[r].localOut, Ejected(r, ring)) THEN {}
                          ELSE ToSet(Ejected(r, ring)))

\* BaseNode.Tick moves whole lists, and keeps their types and sizes.
LEMMA TickMoves ==
    ASSUME Types, Sizes, NEW r \in Routers, NEW m \in 0 .. Bandwidth, NEW n \in 0 .. Bandwidth,
           NEW x, NEW y, Tick(r, m, n, x, y)
    PROVE  /\ Incoming(r, m) \in Seq(AnyPacket) /\ Local(r, n) \in Seq(AnyPacket)
           /\ New(r, n) \in Seq(AnyPacket)
           /\ router[r].buffer \o Local(r, n) = Waiting(r) \o New(r, n)
           /\ \E left \in Seq(AnyPacket) : Moves(r, n, Incoming(r, m), Local(r, n), left)
           /\ Types' /\ Sizes'
<1> DEFINE prev == Previous(r)
           old == router[r]
<1>1. prev \in Routers /\ Bandwidth \in Nat /\ Capacity \in Nat /\ m \in Nat /\ n \in Nat
  <2>1. Bandwidth \in Nat /\ Capacity \in Nat
    BY RingAssumption
  <2> QED BY <2>1, PreviousIn
<1>2. \A q \in Routers :
        /\ router[q].localIn \in Seq(AnyPacket) /\ router[q].ringOut \in Seq(AnyPacket)
        /\ router[q].localOut \in Seq(AnyPacket) /\ router[q].buffer \in Seq(AnyPacket)
        /\ link[q] \in Seq(AnyPacket) /\ delivered[q] \in Seq(AnyPacket)
  BY RouterFields
<1>3. /\ m <= Len(link[prev]) /\ n <= Len(todo[r]) - accepted[r]
      /\ Len(old.localIn) + n <= Capacity
      /\ accepted' = [accepted EXCEPT ![r] = @ + n] /\ todo' = todo
  BY DEF Tick
<1>4. PICK p \in {Process(r, Incoming(r, m), Local(r, n))} :
        \E send \in {IF x THEN First(p.ringOut) ELSE 0},
           eject \in {IF y THEN First(p.localOut) ELSE 0} :
        /\ router' = [router EXCEPT ![r] =
               [localIn |-> p.localIn, buffer |-> p.buffer,
                ringOut |-> Rest(p.ringOut, send), localOut |-> Rest(p.localOut, eject)]]
        /\ link' = [q \in Routers |->
               (IF q = Previous(r) THEN Rest(link[q], m) ELSE link[q])
                   \o (IF q = r THEN SubSeq(p.ringOut, 1, send) ELSE <<>>)]
        /\ delivered' = [delivered EXCEPT ![r] = @ \o SubSeq(p.localOut, 1, eject)]
        /\ dropped' = dropped \cup p.lost
  BY Zenon DEF Tick, Incoming, Local, New
<1>5. New(r, n) \in Seq(AnyPacket) /\ Len(New(r, n)) = n
  BY <1>1, <1>3, NewProps
<1>6. /\ Local(r, n) \in Seq(AnyPacket) /\ Len(Local(r, n)) = Len(old.localIn) + n
      /\ old.buffer \o Local(r, n) = Waiting(r) \o New(r, n)
  <2>1. PICK a, b, c : a = old.buffer /\ b = old.localIn /\ c = New(r, n)
    OBVIOUS
  <2>2. a \in Seq(AnyPacket) /\ b \in Seq(AnyPacket) /\ c \in Seq(AnyPacket)
    BY <1>2, <1>5, <2>1
  <2>3. b \o c \in Seq(AnyPacket) /\ Len(b \o c) = Len(b) + Len(c) /\ (a \o b) \o c = a \o (b \o c)
    <3>1. (a \o b) \o c = a \o (b \o c)
      BY <2>2, InARow, Zenon
    <3>2. b \o c \in Seq(AnyPacket) /\ Len(b \o c) = Len(b) + Len(c)
      BY <2>2, Joined
    <3> QED BY <3>1, <3>2, Zenon
  <2> QED BY <1>5, <2>1, <2>3, Zenon DEF Local, Waiting
<1>7. /\ Incoming(r, m) \in Seq(AnyPacket) /\ Remaining(r, m) \in Seq(AnyPacket)
      /\ Incoming(r, m) \o Remaining(r, m) = link[prev]
  <2>1. link[prev] \in Seq(AnyPacket) /\ m \in 0 .. Len(link[prev])
    BY <1>1, <1>2, <1>3
  <2> QED BY <2>1, Cut DEF Incoming, Remaining
<1>8. Len(Local(r, n)) <= Capacity
  BY <1>3, <1>6
<1>9. PICK ring \in Seq(AnyPacket), local \in Seq(AnyPacket) :
        ring = Incoming(r, m) /\ local = Local(r, n)
  BY <1>6, <1>7
<1>10. p = Process(r, ring, local) /\ Len(local) <= Capacity
  BY <1>4, <1>8, <1>9
<1> DEFINE put == Taken(old.ringOut, Batch(r, ring, local))
           out == Taken(old.localOut, Ejected(r, ring))
<1>11. /\ p.ringOut = old.ringOut \o put /\ p.localOut = old.localOut \o out
       /\ p.buffer \o p.localIn = IF MayInject(r, local) THEN <<>> ELSE old.buffer \o local
       /\ p.lost = (IF Fits(old.ringOut, Batch(r, ring, local)) THEN {}
                    ELSE ToSet(Batch(r, ring, local)))
                   \cup (IF Fits(old.localOut, Ejected(r, ring)) THEN {}
                         ELSE ToSet(Ejected(r, ring)))
       /\ p.ringOut \in Seq(AnyPacket) /\ Len(p.ringOut) <= Capacity
       /\ p.localOut \in Seq(AnyPacket) /\ Len(p.localOut) <= Capacity
       /\ p.buffer \in Seq(AnyPacket) /\ Len(p.buffer) <= BufferCapacity
       /\ p.localIn \in Seq(AnyPacket) /\ Len(p.localIn) <= Capacity
       /\ put \in Seq(AnyPacket) /\ out \in Seq(AnyPacket)
  <2>1. Processed(r, ring, local, Process(r, ring, local))
    BY <1>10, ProcessMoves
  <2> QED BY <1>10, <2>1, Zenon DEF Processed
<1>12. PICK send \in 0 .. Len(p.ringOut), eject \in 0 .. Len(p.localOut) :
        /\ router' = [router EXCEPT ![r] =
               [localIn |-> p.localIn, buffer |-> p.buffer,
                ringOut |-> Rest(p.ringOut, send), localOut |-> Rest(p.localOut, eject)]]
        /\ link' = [q \in Routers |->
               (IF q = Previous(r) THEN Rest(link[q], m) ELSE link[q])
                   \o (IF q = r THEN SubSeq(p.ringOut, 1, send) ELSE <<>>)]
        /\ delivered' = [delivered EXCEPT ![r] = @ \o SubSeq(p.localOut, 1, eject)]
        /\ dropped' = dropped \cup p.lost
  <2>1. /\ First(p.ringOut) \in 0 .. Len(p.ringOut) /\ 0 \in 0 .. Len(p.ringOut)
        /\ First(p.localOut) \in 0 .. Len(p.localOut) /\ 0 \in 0 .. Len(p.localOut)
    BY <1>11, FirstIn
  <2>2. /\ \A s \in {IF x THEN First(p.ringOut) ELSE 0} : s \in 0 .. Len(p.ringOut)
        /\ \A s \in {IF y THEN First(p.localOut) ELSE 0} : s \in 0 .. Len(p.localOut)
    BY <2>1, Zenon
  <2> QED BY <1>4, <2>2, Zenon
<1> DEFINE lk(q) == IF q = Previous(r) THEN Remaining(r, m) ELSE link[q]
           left == Remaining(r, m) \o router[Previous(r)].ringOut
           body(q) == lk(q) \o router[q].ringOut
<1>13. /\ \A q \in Routers : lk(q) \in Seq(AnyPacket) /\ body(q) \in Seq(AnyPacket)
       /\ left \in Seq(AnyPacket)
       /\ \A q \in Routers : body(q) = IF q = Previous(r) THEN left ELSE Ring(q)
  <2>1. \A q \in Routers : lk(q) \in Seq(AnyPacket)
    BY <1>2, <1>7
  <2>2. \A q \in Routers : body(q) \in Seq(AnyPacket)
    BY <1>2, <2>1, ConcatProperties
  <2>3. left \in Seq(AnyPacket)
    BY <1>1, <1>2, <1>7, ConcatProperties
  <2> QED BY <2>1, <2>2, <2>3, Zenon DEF Ring
<1>14. Ring(Previous(r)) = ring \o left
  <2>1. PICK a, b, c : a = ring /\ b = Remaining(r, m) /\ c = router[Previous(r)].ringOut
    OBVIOUS
  <2>2. a \in Seq(AnyPacket) /\ b \in Seq(AnyPacket) /\ c \in Seq(AnyPacket)
    BY <1>1, <1>2, <1>7, <2>1
  <2>3. (a \o b) \o c = a \o (b \o c)
    BY <2>2, InARow, Zenon
  <2> QED BY <1>7, <1>9, <2>1, <2>3, Zenon DEF Ring
<1>15. ASSUME NEW q \in Routers
       PROVE  /\ router'[q] = IF q = r
                  THEN [localIn |-> p.localIn, buffer |-> p.buffer,
                        ringOut |-> Rest(p.ringOut, send),
                        localOut |-> Rest(p.localOut, eject)]
                  ELSE router[q]
              /\ link'[q] = lk(q) \o (IF q = r THEN SubSeq(p.ringOut, 1, send) ELSE <<>>)
              /\ delivered'[q] = IF q = r THEN delivered[r] \o SubSeq(p.localOut, 1, eject)
                                 ELSE delivered[q]
  <2>1. router'[q] = IF q = r
                     THEN [localIn |-> p.localIn, buffer |-> p.buffer,
                           ringOut |-> Rest(p.ringOut, send),
                           localOut |-> Rest(p.localOut, eject)]
                     ELSE router[q]
    BY <1>12 DEF Types
  <2>2. delivered'[q] = IF q = r THEN delivered[r] \o SubSeq(p.localOut, 1, eject)
                        ELSE delivered[q]
    BY <1>12 DEF Types
  <2>3. link'[q] = (IF q = Previous(r) THEN Rest(link[q], m) ELSE link[q])
                       \o (IF q = r THEN SubSeq(p.ringOut, 1, send) ELSE <<>>)
    BY <1>12
  <2>4. lk(q) = IF q = Previous(r) THEN Rest(link[q], m) ELSE link[q]
    BY Zenon DEF Rest, Remaining
  <2> QED BY <2>1, <2>2, <2>3, <2>4, Zenon
<1> HIDE DEF lk, left, body, put, out
<1>16. /\ (lk(r) \o SubSeq(p.ringOut, 1, send)) \o Rest(p.ringOut, send) = lk(r) \o p.ringOut
       /\ lk(r) \o SubSeq(p.ringOut, 1, send) \in Seq(AnyPacket)
       /\ Rest(p.ringOut, send) \in Seq(AnyPacket)
       /\ Len(Rest(p.ringOut, send)) <= Len(p.ringOut)
  BY <1>11, <1>13, Sent
<1>17. /\ (delivered[r] \o SubSeq(p.localOut, 1, eject)) \o Rest(p.localOut, eject)
              = delivered[r] \o p.localOut
       /\ delivered[r] \o SubSeq(p.localOut, 1, eject) \in Seq(AnyPacket)
       /\ Rest(p.localOut, eject) \in Seq(AnyPacket)
       /\ Len(Rest(p.localOut, eject)) <= Len(p.localOut)
  BY <1>2, <1>11, Sent
<1>18. ASSUME NEW q \in Routers
       PROVE  Ring(q)' = body(q) \o (IF q = r THEN put ELSE <<>>)
  <2>1. CASE q = r
    <3>1. Ring(q)' = lk(r) \o (old.ringOut \o put)
      <4>1. /\ router'[q].ringOut = Rest(p.ringOut, send)
            /\ link'[q] = lk(r) \o SubSeq(p.ringOut, 1, send)
        <5>1. /\ router'[q] = [localIn |-> p.localIn, buffer |-> p.buffer,
                              ringOut |-> Rest(p.ringOut, send),
                              localOut |-> Rest(p.localOut, eject)]
              /\ link'[q] = lk(r) \o SubSeq(p.ringOut, 1, send)
          BY <1>15, <2>1, Zenon
        <5> QED BY <5>1
      <4> QED BY <1>11, <1>16, <4>1, Zenon DEF Ring
    <3>2. PICK a, b, c : a = lk(r) /\ b = old.ringOut /\ c = put
      OBVIOUS
    <3>3. a \in Seq(AnyPacket) /\ b \in Seq(AnyPacket) /\ c \in Seq(AnyPacket)
      BY <1>2, <1>11, <1>13, <3>2
    <3>4. (a \o b) \o c = a \o (b \o c)
      BY <3>3, InARow, Zenon
    <3> QED BY <2>1, <3>1, <3>2, <3>4, Zenon DEF body
  <2>2. CASE q # r
    <3>1. link'[q] = lk(q) \o <<>> /\ router'[q] = router[q]
      BY <1>15, <2>2, Zenon
    <3>2. lk(q) \o <<>> = lk(q) /\ body(q) \o <<>> = body(q)
      BY <1>13, ConcatEmptySeq
    <3> QED BY <2>2, <3>1, <3>2, Zenon DEF Ring, body
  <2> QED BY <2>1, <2>2
<1>19. ASSUME NEW q \in Routers
       PROVE  Ejections(q)' = Ejections(q) \o (IF q = r THEN out ELSE <<>>)
  <2>1. CASE q = r
    <3>1. Ejections(q)' = delivered[r] \o (old.localOut \o out)
      <4>1. /\ router'[q].localOut = Rest(p.localOut, eject)
            /\ delivered'[q] = delivered[r] \o SubSeq(p.localOut, 1, eject)
        <5>1. /\ router'[q] = [localIn |-> p.localIn, buffer |-> p.buffer,
                              ringOut |-> Rest(p.ringOut, send),
                              localOut |-> Rest(p.localOut, eject)]
              /\ delivered'[q] = delivered[r] \o SubSeq(p.localOut, 1, eject)
          BY <1>15, <2>1, Zenon
        <5> QED BY <5>1
      <4> QED BY <1>11, <1>17, <4>1, Zenon DEF Ejections
    <3>2. PICK a, b, c : a = delivered[r] /\ b = old.localOut /\ c = out
      OBVIOUS
    <3>3. a \in Seq(AnyPacket) /\ b \in Seq(AnyPacket) /\ c \in Seq(AnyPacket)
      BY <1>2, <1>11, <3>2
    <3>4. (a \o b) \o c = a \o (b \o c)
      BY <3>3, InARow, Zenon
    <3> QED BY <2>1, <3>1, <3>2, <3>4, Zenon DEF Ejections
  <2>2. CASE q # r
    <3>1. delivered'[q] = delivered[q] /\ router'[q] = router[q]
      BY <1>15, <2>2, Zenon
    <3>2. delivered[q] \o router[q].localOut \in Seq(AnyPacket)
      BY <1>2, ConcatProperties
    <3>3. (delivered[q] \o router[q].localOut) \o <<>> = delivered[q] \o router[q].localOut
      BY <3>2, ConcatEmptySeq
    <3> QED BY <2>2, <3>1, <3>3, Zenon DEF Ejections
  <2> QED BY <2>1, <2>2
<1>20. ASSUME NEW q \in Routers
       PROVE  Waiting(q)' = IF q # r THEN Waiting(q)
                            ELSE IF MayInject(r, local) THEN <<>>
                            ELSE Waiting(r) \o New(r, n)
  <2>1. CASE q = r
    <3>1. router'[q].buffer = p.buffer /\ router'[q].localIn = p.localIn
      BY <1>15, <2>1
    <3> QED BY <1>6, <1>9, <1>11, <2>1, <3>1, Zenon DEF Waiting
  <2>2. CASE q # r
    BY <1>15, <2>2, Zenon DEF Waiting
  <2> QED BY <2>1, <2>2
<1>21. dropped' = dropped \cup (IF Fits(old.ringOut, Batch(r, ring, local)) THEN {}
                                ELSE ToSet(Batch(r, ring, local)))
                          \cup (IF Fits(old.localOut, Ejected(r, ring)) THEN {}
                                ELSE ToSet(Ejected(r, ring)))
  <2>1. PICK d, a, b :
          /\ d = p.lost
          /\ a = IF Fits(old.ringOut, Batch(r, ring, local)) THEN {}
                 ELSE ToSet(Batch(r, ring, local))
          /\ b = IF Fits(old.localOut, Ejected(r, ring)) THEN {} ELSE ToSet(Ejected(r, ring))
    OBVIOUS
  <2>2. d = a \cup b /\ dropped' = dropped \cup d
    BY <1>11, <1>12, <2>1, Zenon
  <2>3. dropped \cup (a \cup b) = dropped \cup a \cup b
    OBVIOUS
  <2> QED BY <2>1, <2>2, <2>3, Zenon
<1>22. Moves(r, n, ring, local, left)
  <2>1. \A q \in Routers :
          Ring(q)' = (IF q = Previous(r) THEN left ELSE Ring(q)) \o (IF q = r THEN put ELSE <<>>)
    BY <1>13, <1>18, Zenon
  <2> QED BY <1>14, <1>19, <1>20, <1>21, <2>1, Zenon DEF Moves, put, out
<1>23. Types'
  <2>1. ASSUME NEW q \in Routers
        PROVE  /\ link'[q] \in Seq(AnyPacket) /\ delivered'[q] \in Seq(AnyPacket)
               /\ router'[q] \in RouterType
    <3>1. CASE q = r
      <4>1. link'[q] \in Seq(AnyPacket) /\ delivered'[q] \in Seq(AnyPacket)
        BY <1>15, <1>16, <1>17, <3>1, Zenon
      <4>2. router'[q] = [localIn |-> p.localIn, buffer |-> p.buffer,
                          ringOut |-> Rest(p.ringOut, send),
                          localOut |-> Rest(p.localOut, eject)]
        BY <1>15, <3>1, Zenon
      <4> QED BY <1>11, <1>16, <1>17, <4>1, <4>2 DEF RouterType
    <3>2. CASE q # r
      <4>1. link'[q] = lk(q) \o <<>> /\ router'[q] = router[q] /\ delivered'[q] = delivered[q]
        BY <1>15, <3>2, Zenon
      <4>2. lk(q) \o <<>> = lk(q)
        BY <1>13, ConcatEmptySeq
      <4>3. router[q] \in RouterType
        BY DEF Types
      <4> QED BY <1>2, <1>13, <4>1, <4>2, <4>3, Zenon
    <3> QED BY <3>1, <3>2
  <2>2. link' \in [Routers -> Seq(AnyPacket)]
    <3>1. link' = [q \in Routers |-> link'[q]]
      BY <1>12, Zenon
    <3> QED BY <2>1, <3>1
  <2>3. delivered' \in [Routers -> Seq(AnyPacket)]
    <3>1. delivered' = [q \in Routers |-> delivered'[q]]
      BY <1>12 DEF Types
    <3> QED BY <2>1, <3>1
  <2>4. router' \in [Routers -> RouterType]
    <3>1. router' = [q \in Routers |-> router'[q]]
      BY <1>12 DEF Types
    <3> QED BY <2>1, <3>1
  <2>5. accepted' \in [Routers -> Nat]
    <3>1. accepted \in [Routers -> Nat]
      BY DEF Types
    <3>2. accepted[r] + n \in Nat
      BY <1>1, <3>1
    <3> QED BY <1>3, <3>1, <3>2
  <2> QED BY <1>3, <2>2, <2>3, <2>4, <2>5 DEF Types
<1>24. Sizes'
  <2>1. ASSUME NEW q \in Routers
        PROVE  /\ accepted'[q] <= Len(todo'[q])
               /\ Len(router'[q].localIn) <= Capacity /\ Len(router'[q].ringOut) <= Capacity
               /\ Len(router'[q].localOut) <= Capacity
               /\ Len(router'[q].buffer) <= BufferCapacity
    <3>1. accepted'[q] <= Len(todo'[q])
      <4>1. accepted \in [Routers -> Nat] /\ accepted[q] <= Len(todo[q]) /\ accepted[r] \in Nat
        BY DEF Types, Sizes
      <4>2. PICK a : a = Len(todo[r])
        OBVIOUS
      <4>3. todo[r] \in Seq(Routers)
        BY RingAssumption DEF Types
      <4>4. a \in Nat /\ n <= a - accepted[r]
        BY <1>3, <4>2, <4>3
      <4>5. accepted[r] + n <= a
        BY <1>1, <4>1, <4>4
      <4> QED BY <1>3, <4>1, <4>2, <4>5
    <3>2. CASE q = r
      <4>1. /\ router'[q].localIn = p.localIn /\ router'[q].buffer = p.buffer
            /\ router'[q].ringOut = Rest(p.ringOut, send)
            /\ router'[q].localOut = Rest(p.localOut, eject)
        BY <1>15, <3>2
      <4>2. \A a, b \in Nat : a <= b /\ b <= Capacity => a <= Capacity
        BY <1>1
      <4>3. /\ Len(p.ringOut) \in Nat /\ Len(Rest(p.ringOut, send)) \in Nat
            /\ Len(p.localOut) \in Nat /\ Len(Rest(p.localOut, eject)) \in Nat
        BY <1>11, <1>16, <1>17, LenProperties
      <4> QED BY <1>11, <1>16, <1>17, <3>1, <4>1, <4>2, <4>3, Zenon
    <3>3. CASE q # r
      <4>1. router'[q] = router[q]
        BY <1>15, <3>3, Zenon
      <4> QED BY <3>1, <4>1, Zenon DEF Sizes
    <3> QED BY <3>2, <3>3
  <2> QED BY <2>1 DEF Sizes
<1> QED BY <1>5, <1>6, <1>7, <1>9, <1>13, <1>22, <1>23, <1>24, Zenon

-----------------------------------------------------------------------------
(* The same moves as sets of packets.                                      *)

\* W, G, E and D after a tick of r: A leaves the ring behind before, of which X
\* is ejected and F goes on, with the packets B of the batch; N is new.
SetMoves(r, before, A, L, X, F, B, N, goes, fits, room, W, G, E, D, V, H, K, C) ==
    /\ G[before] = A \cup L /\ A \cap L = {} /\ X \cup F = A /\ X \cap F = {}
    /\ B = F \cup (IF goes THEN W[r] \cup N ELSE {})
    /\ \A q \in Routers : V[q] = IF q # r THEN W[q] ELSE IF goes THEN {} ELSE W[r] \cup N
    /\ \A q \in Routers : H[q] = (IF q = before THEN L ELSE G[q])
                                     \cup (IF q = r /\ fits THEN B ELSE {})
    /\ \A q \in Routers : K[q] = E[q] \cup (IF q = r /\ room THEN X ELSE {})
    /\ C = D \cup (IF fits THEN {} ELSE B) \cup (IF room THEN {} ELSE X)

\* A tick loses nothing but what it drops, and puts nothing in two places.
LEMMA SetsKept ==
    ASSUME NEW r \in Routers, NEW before \in Routers, NEW A, NEW L, NEW X, NEW F, NEW B, NEW N,
           NEW goes \in BOOLEAN, NEW fits \in BOOLEAN, NEW room \in BOOLEAN,
           NEW W, NEW G, NEW E, NEW D, NEW V, NEW H, NEW K, NEW C, NEW P, NEW Q,
           SetMoves(r, before, A, L, X, F, B, N, goes, fits, room, W, G, E, D, V, H, K, C),
           Disjoint(W, G, E, D), Cover(W, G, E, D, P), N \cap P = {}, Q = P \cup N
    PROVE  Disjoint(V, H, K, C) /\ Cover(V, H, K, C, Q)
<1>1. ASSUME NEW e
      PROVE  /\ e \in N => /\ \A q \in Routers : e \notin W[q] /\ e \notin G[q] /\ e \notin E[q]
                           /\ e \notin D
             /\ e \in A => /\ e \in G[before] /\ e \notin L
                           /\ \A q \in Routers : q # before => e \notin G[q]
                           /\ \A q \in Routers : e \notin W[q] /\ e \notin E[q]
                           /\ e \notin D /\ e \notin N
             /\ e \in L => e \in G[before] /\ e \notin A
             /\ e \in G[before] => e \in A \/ e \in L
             /\ e \in A <=> e \in X \/ e \in F
             /\ ~(e \in X /\ e \in F)
             /\ e \in B <=> e \in F \/ (goes /\ (e \in W[r] \/ e \in N))
             /\ \A q \in Routers : e \in V[q] <=>
                    IF q # r THEN e \in W[q] ELSE ~goes /\ (e \in W[r] \/ e \in N)
             /\ \A q \in Routers : e \in H[q] <=>
                    \/ (IF q = before THEN e \in L ELSE e \in G[q])
                    \/ (q = r /\ fits /\ e \in B)
             /\ \A q \in Routers : e \in K[q] <=> e \in E[q] \/ (q = r /\ room /\ e \in X)
             /\ e \in C <=> e \in D \/ (~fits /\ e \in B) \/ (~room /\ e \in X)
  <2>1. /\ e \in N => /\ \A q \in Routers : e \notin W[q] /\ e \notin G[q] /\ e \notin E[q]
                      /\ e \notin D
    BY DEF Cover
  <2>2. /\ e \in L => e \in G[before] /\ e \notin A
        /\ e \in G[before] => e \in A \/ e \in L
        /\ e \in A <=> e \in X \/ e \in F
        /\ ~(e \in X /\ e \in F)
        /\ e \in A => e \in G[before] /\ e \notin L
    BY DEF SetMoves
  <2>3. e \in A => /\ \A q \in Routers : q # before => e \notin G[q]
                   /\ \A q \in Routers : e \notin W[q] /\ e \notin E[q]
                   /\ e \notin D /\ e \notin N
    BY <2>1, <2>2 DEF Disjoint
  <2>4. e \in B <=> e \in F \/ (goes /\ (e \in W[r] \/ e \in N))
    BY DEF SetMoves
  <2>5. \A q \in Routers : e \in V[q] <=>
            IF q # r THEN e \in W[q] ELSE ~goes /\ (e \in W[r] \/ e \in N)
    BY DEF SetMoves
  <2>6. \A q \in Routers : e \in H[q] <=> \/ (IF q = before THEN e \in L ELSE e \in G[q])
                                          \/ (q = r /\ fits /\ e \in B)
    BY DEF SetMoves
  <2>7. \A q \in Routers : e \in K[q] <=> e \in E[q] \/ (q = r /\ room /\ e \in X)
    BY DEF SetMoves
  <2>8. e \in C <=> e \in D \/ (~fits /\ e \in B) \/ (~room /\ e \in X)
    BY DEF SetMoves
  <2> QED BY <2>1, <2>2, <2>3, <2>4, <2>5, <2>6, <2>7, <2>8, Zenon
<1>2. ASSUME NEW e
      PROVE  /\ \A q \in Routers : \A s \in Routers :
                  /\ q # s => /\ ~(e \in W[q] /\ e \in W[s])
                              /\ ~(e \in G[q] /\ e \in G[s])
                              /\ ~(e \in E[q] /\ e \in E[s])
                  /\ ~(e \in W[q] /\ e \in G[s]) /\ ~(e \in W[q] /\ e \in E[s])
                  /\ ~(e \in G[q] /\ e \in E[s])
             /\ \A q \in Routers : e \in D => e \notin W[q] /\ e \notin G[q] /\ e \notin E[q]
  BY DEF Disjoint
<1>3. ASSUME NEW q \in Routers, NEW s \in Routers, NEW e, q # s
      PROVE  /\ ~(e \in V[q] /\ e \in V[s]) /\ ~(e \in H[q] /\ e \in H[s])
             /\ ~(e \in K[q] /\ e \in K[s])
  <2>1. ~(e \in V[q] /\ e \in V[s])
    BY <1>1, <1>2, <1>3
  <2>2. ~(e \in H[q] /\ e \in H[s])
    BY <1>1, <1>2, <1>3
  <2>3. ~(e \in K[q] /\ e \in K[s])
    BY <1>1, <1>2, <1>3
  <2> QED BY <2>1, <2>2, <2>3
<1>4. ASSUME NEW q \in Routers, NEW s \in Routers, NEW e
      PROVE  ~(e \in V[q] /\ e \in H[s]) /\ ~(e \in V[q] /\ e \in K[s])
             /\ ~(e \in H[q] /\ e \in K[s])
  <2>1. ~(e \in V[q] /\ e \in H[s])
    BY <1>1, <1>2
  <2>2. ~(e \in V[q] /\ e \in K[s])
    BY <1>1, <1>2
  <2>3. ~(e \in H[q] /\ e \in K[s])
    BY <1>1, <1>2
  <2> QED BY <2>1, <2>2, <2>3
<1>5. ASSUME NEW q \in Routers, NEW e, e \in C
      PROVE  e \notin V[q] /\ e \notin H[q] /\ e \notin K[q]
  <2>1. e \notin V[q]
    BY <1>1, <1>2, <1>5
  <2>2. e \notin H[q]
    BY <1>1, <1>2, <1>5
  <2>3. e \notin K[q]
    BY <1>1, <1>2, <1>5
  <2> QED BY <2>1, <2>2, <2>3
<1>6. Disjoint(V, H, K, C)
  <2>1. \A q \in Routers : \A s \in Routers :
          /\ q # s => V[q] \cap V[s] = {} /\ H[q] \cap H[s] = {} /\ K[q] \cap K[s] = {}
          /\ V[q] \cap H[s] = {} /\ V[q] \cap K[s] = {} /\ H[q] \cap K[s] = {}
    BY <1>3, <1>4
  <2>2. \A q \in Routers : V[q] \cap C = {} /\ H[q] \cap C = {} /\ K[q] \cap C = {}
    BY <1>5
  <2> QED BY <2>1, <2>2 DEF Disjoint
<1>7. ASSUME NEW e
      PROVE  /\ e \in Q <=> e \in P \/ e \in N
             /\ e \in D => e \in P
             /\ \A q \in Routers : e \in W[q] \/ e \in G[q] \/ e \in E[q] => e \in P
             /\ e \in P => e \in D \/ \E q \in Routers : e \in W[q] \/ e \in G[q] \/ e \in E[q]
  <2>1. e \in Q <=> e \in P \/ e \in N
    OBVIOUS
  <2>2. /\ e \in D => e \in P
        /\ \A q \in Routers : e \in W[q] \/ e \in G[q] \/ e \in E[q] => e \in P
    BY DEF Cover
  <2>3. e \in P => e \in D \/ \E q \in Routers : e \in W[q] \/ e \in G[q] \/ e \in E[q]
    BY DEF Cover
  <2> QED BY <2>1, <2>2, <2>3
<1>8. ASSUME NEW e
      PROVE  /\ e \in C => e \in Q
             /\ \A q \in Routers : e \in V[q] \/ e \in H[q] \/ e \in K[q] => e \in Q
  BY <1>1, <1>7
<1>9. ASSUME NEW e \in Q
      PROVE  e \in C \/ \E q \in Routers : e \in V[q] \/ e \in H[q] \/ e \in K[q]
  <2>1. CASE e \in N
    BY <1>1, <2>1
  <2>2. CASE e \in D
    BY <1>1, <2>2
  <2>3. ASSUME NEW q \in Routers, e \in W[q]
        PROVE  e \in C \/ \E s \in Routers : e \in V[s] \/ e \in H[s] \/ e \in K[s]
    BY <1>1, <2>3
  <2>4. ASSUME NEW q \in Routers, e \in E[q]
        PROVE  e \in C \/ \E s \in Routers : e \in V[s] \/ e \in H[s] \/ e \in K[s]
    BY <1>1, <2>4
  <2>5. ASSUME NEW q \in Routers, e \in G[q]
        PROVE  e \in C \/ \E s \in Routers : e \in V[s] \/ e \in H[s] \/ e \in K[s]
    <3>1. CASE q # before \/ e \in L
      BY <1>1, <2>5, <3>1
    <3>2. CASE e \in X
      BY <1>1, <3>2
    <3>3. CASE e \in F
      BY <1>1, <3>3
    <3> QED BY <1>1, <2>5, <3>1, <3>2, <3>3
  <2> QED BY <1>7, <2>1, <2>2, <2>3, <2>4, <2>5
<1>10. Cover(V, H, K, C, Q)
  <2>1. C \subseteq Q
    BY <1>8
  <2>2. \A q \in Routers : V[q] \subseteq Q /\ H[q] \subseteq Q /\ K[q] \subseteq Q
    BY <1>8
  <2> QED BY <1>9, <2>1, <2>2 DEF Cover
<1> QED BY <1>6, <1>10

-----------------------------------------------------------------------------
(* Lists of packets in the worker's order.                                 *)

\* Packets in line are all different.
LEMMA LinedDistinct ==
    ASSUME NEW r \in Routers, NEW s \in Seq(AnyPacket), NEW a \in Nat, Lined(r, s, a)
    PROVE  Distinct(s)
<1>1. PICK c \in Nat : c = Len(s) /\ DOMAIN s = 1 .. c
  BY LenProperties
<1>2. ASSUME NEW i \in 1 .. c
      PROVE  s[i].no = a - c + i
  <2>1. s[i] = Packet(r, a - c + i)
    BY <1>1, Zenon DEF Lined
  <2> QED BY <2>1 DEF Packet
<1>3. ASSUME NEW i \in 1 .. c, NEW j \in 1 .. c, s[i] = s[j]
      PROVE  i = j
  <2>1. a - c + i = a - c + j
    BY <1>2, <1>3
  <2> QED BY <1>1, <2>1
<1> QED BY <1>1, <1>3 DEF Distinct

\* New packets come behind those that wait.
LEMMA LinedGrows ==
    ASSUME Types, NEW r \in Routers, NEW s \in Seq(AnyPacket), Lined(r, s, accepted[r]),
           NEW n \in Nat, n <= Len(todo[r]) - accepted[r]
    PROVE  Lined(r, s \o New(r, n), accepted[r] + n)
<1>1. New(r, n) \in Seq(AnyPacket) /\ Len(New(r, n)) = n
      /\ \A k \in 1 .. n : New(r, n)[k] = Packet(r, accepted[r] + k)
  BY NewProps
<1>2. PICK t, u, a, c : /\ t = New(r, n) /\ u = s \o t /\ a = accepted[r] /\ c = Len(s)
  OBVIOUS
<1>3. t \in Seq(AnyPacket) /\ Len(t) = n /\ \A k \in 1 .. n : t[k] = Packet(r, a + k)
  BY <1>1, <1>2
<1>4. /\ u \in Seq(AnyPacket) /\ Len(u) = Len(s) + Len(t)
      /\ \A i \in 1 .. Len(s) + Len(t) : u[i] = IF i <= Len(s) THEN s[i] ELSE t[i - Len(s)]
  <2>1. t \in Seq(AnyPacket)
    BY <1>3
  <2> QED BY <1>2, <2>1, ConcatProperties
<1>5. a \in Nat /\ c \in Nat /\ Len(u) = c + n
      /\ \A i \in 1 .. c + n : u[i] = IF i <= c THEN s[i] ELSE t[i - c]
  <2>1. a \in Nat /\ c \in Nat
    BY <1>2 DEF Types
  <2> QED BY <1>2, <1>3, <1>4, <2>1, Zenon
<1>6. c <= a /\ \A i \in 1 .. c : s[i] = Packet(r, a - c + i)
  BY <1>2, Zenon DEF Lined
<1>7. ASSUME NEW i \in 1 .. c + n
      PROVE  u[i] = Packet(r, (a + n) - (c + n) + i)
  <2>1. (a + n) - (c + n) + i = a - c + i
    BY <1>5
  <2>2. CASE i <= c
    <3>1. i \in 1 .. c
      BY <1>5, <2>2
    <3> QED BY <1>5, <1>6, <2>1, <2>2, <3>1
  <2>3. CASE ~(i <= c)
    <3>1. i - c \in 1 .. n /\ a + (i - c) = a - c + i
      BY <1>5, <2>3
    <3>2. u[i] = t[i - c]
      BY <1>5, <2>3
    <3> QED BY <1>3, <2>1, <3>1, <3>2, Zenon
  <2> QED BY <2>2, <2>3
<1>8. c + n <= a + n
  BY <1>5, <1>6
<1>9. Len(u) = c + n
  BY <1>5
<1>10. Len(u) <= a + n /\ \A i \in 1 .. Len(u) : u[i] = Packet(r, (a + n) - Len(u) + i)
  BY <1>7, <1>8, <1>9, Zenon
<1>11. Lined(r, u, a + n)
  BY <1>10, Zenon DEF Lined
<1> QED BY <1>2, <1>11, Zenon

\* A new packet was not there before, and accepted says so.
LEMMA NewIsNew ==
    ASSUME Types, NEW r \in Routers, NEW n \in Nat, n <= Len(todo[r]) - accepted[r],
           accepted' = [accepted EXCEPT ![r] = @ + n], todo' = todo
    PROVE  /\ ToSet(New(r, n)) \cap Packets = {}
           /\ Packets' = Packets \cup ToSet(New(r, n))
<1>1. accepted \in [Routers -> Nat] /\ accepted[r] \in Nat
  BY DEF Types
<1>2. PICK s : s = New(r, n)
  OBVIOUS
<1>3. s \in Seq(AnyPacket) /\ Len(s) = n /\ \A k \in 1 .. n : s[k] = Packet(r, accepted[r] + k)
  BY <1>2, NewProps
<1>4. DOMAIN s = 1 .. n
  BY <1>3, LenProperties
<1>5. \A e : e \in ToSet(s) <=> \E k \in 1 .. n : e = Packet(r, accepted[r] + k)
  <2>1. ASSUME NEW e, e \in ToSet(s)
        PROVE  \E k \in 1 .. n : e = Packet(r, accepted[r] + k)
    BY <1>3, <1>4, <2>1 DEF ToSet
  <2>2. ASSUME NEW e, NEW k \in 1 .. n, e = Packet(r, accepted[r] + k)
        PROVE  e \in ToSet(s)
    <3>1. e = s[k] /\ k \in DOMAIN s
      BY <1>3, <1>4, <2>2
    <3> QED BY <3>1, Zenon DEF ToSet
  <2> QED BY <2>1, <2>2, Zenon
<1>6. \A e : e \in Packets <=> \E q \in Routers : \E k \in 1 .. accepted[q] : e = Packet(q, k)
  BY DEF Packets
<1>7. \A e : e \in Packets' <=> \E q \in Routers : \E k \in 1 .. accepted'[q] : e = Packet(q, k)
  BY DEF Packets, Packet
<1>8. \A q \in Routers : accepted'[q] = IF q = r THEN accepted[r] + n ELSE accepted[q]
  BY <1>1
<1>9. ASSUME NEW e, e \in ToSet(s), e \in Packets
      PROVE  FALSE
  <2>1. PICK k \in 1 .. n : e = Packet(r, accepted[r] + k)
    BY <1>5, <1>9
  <2>2. PICK q \in Routers : \E j \in 1 .. accepted[q] : e = Packet(q, j)
    BY <1>6, <1>9
  <2>5. PICK j \in 1 .. accepted[q] : e = Packet(q, j)
    BY <2>2
  <2>3. e.from = r /\ e.no = accepted[r] + k
    BY <2>1 DEF Packet
  <2>4. e.from = q /\ e.no = j
    BY <2>5 DEF Packet
  <2> QED BY <1>1, <2>3, <2>4
<1>10. ASSUME NEW e, e \in Packets'
       PROVE  e \in Packets \/ e \in ToSet(s)
  <2>4. PICK q \in Routers : \E k \in 1 .. accepted'[q] : e = Packet(q, k)
    BY <1>7, <1>10
  <2>1. PICK k \in 1 .. accepted'[q] : e = Packet(q, k)
    BY <2>4
  <2>2. CASE k \in 1 .. accepted[q]
    BY <1>6, <2>1, <2>2
  <2>3. CASE k \notin 1 .. accepted[q]
    <3>1. q = r
      BY <1>8, <2>3
    <3>2. k - accepted[r] \in 1 .. n /\ accepted[r] + (k - accepted[r]) = k
      BY <1>1, <1>8, <2>3, <3>1
    <3> QED BY <1>5, <2>1, <3>1, <3>2
  <2> QED BY <2>2, <2>3
<1>11. ASSUME NEW e, e \in Packets
       PROVE  e \in Packets'
  <2>4. PICK q \in Routers : \E k \in 1 .. accepted[q] : e = Packet(q, k)
    BY <1>6, <1>11
  <2>1. PICK k \in 1 .. accepted[q] : e = Packet(q, k)
    BY <2>4
  <2>2. accepted[q] \in Nat /\ accepted[q] <= accepted'[q] /\ accepted'[q] \in Nat
    BY <1>1, <1>8
  <2>3. k \in 1 .. accepted'[q]
    BY <2>2
  <2> QED BY <1>7, <2>1, <2>3
<1>12. ASSUME NEW e, e \in ToSet(s)
       PROVE  e \in Packets'
  <2>1. PICK k \in 1 .. n : e = Packet(r, accepted[r] + k)
    BY <1>5, <1>12
  <2>2. accepted[r] + k \in 1 .. accepted'[r]
    BY <1>1, <1>8
  <2> QED BY <1>7, <2>1, <2>2
<1>13. ToSet(s) \cap Packets = {}
  BY <1>9
<1>14. Packets' = Packets \cup ToSet(s)
  BY <1>10, <1>11, <1>12
<1> QED BY <1>2, <1>13, <1>14

-----------------------------------------------------------------------------
(* A tick keeps the invariant.                                             *)

\* The lists of a router.
LEMMA ListTypes ==
    ASSUME Types, NEW q \in Routers
    PROVE  Ring(q) \in Seq(AnyPacket) /\ Ejections(q) \in Seq(AnyPacket)
           /\ Waiting(q) \in Seq(AnyPacket)
<1>1. /\ router[q].localIn \in Seq(AnyPacket) /\ router[q].ringOut \in Seq(AnyPacket)
      /\ router[q].localOut \in Seq(AnyPacket) /\ router[q].buffer \in Seq(AnyPacket)
      /\ link[q] \in Seq(AnyPacket) /\ delivered[q] \in Seq(AnyPacket)
  BY RouterFields
<1>2. link[q] \o router[q].ringOut \in Seq(AnyPacket)
  BY <1>1, Joined
<1>3. delivered[q] \o router[q].localOut \in Seq(AnyPacket)
  BY <1>1, Joined
<1>4. router[q].buffer \o router[q].localIn \in Seq(AnyPacket)
  BY <1>1, Joined
<1> QED BY <1>2, <1>3, <1>4, Zenon DEF Ring, Ejections, Waiting

\* Ring input and batch of a tick, as sets and without repetition.
Divides(r, n, ring, local, left) ==
    /\ Ejected(r, ring) \in Seq(AnyPacket) /\ Distinct(Ejected(r, ring))
    /\ Batch(r, ring, local) \in Seq(AnyPacket) /\ Distinct(Batch(r, ring, local))
    /\ RingSet[Previous(r)] = ToSet(ring) \cup ToSet(left)
    /\ ToSet(ring) \cap ToSet(left) = {} /\ Distinct(left)
    /\ ToSet(Ejected(r, ring)) \cup ToSet(Forwarded(r, ring)) = ToSet(ring)
    /\ ToSet(Ejected(r, ring)) \cap ToSet(Forwarded(r, ring)) = {}
    /\ ToSet(Batch(r, ring, local)) =
           ToSet(Forwarded(r, ring))
             \cup (IF MayInject(r, local) THEN WaitSet[r] \cup ToSet(New(r, n)) ELSE {})
    /\ \A p \in ToSet(Ejected(r, ring)) : p.target = r

\* Process takes every packet of the ring input to one side, and puts what
\* waits behind what goes on.
LEMMA TickDivides ==
    ASSUME RingInv, NEW r \in Routers, NEW n \in Nat, n <= Len(todo[r]) - accepted[r],
           NEW ring \in Seq(AnyPacket), NEW local \in Seq(AnyPacket),
           NEW left \in Seq(AnyPacket), Ring(Previous(r)) = ring \o left,
           router[r].buffer \o local = Waiting(r) \o New(r, n),
           ToSet(New(r, n)) \cap Packets = {}
    PROVE  Divides(r, n, ring, local, left)
<1>1. Previous(r) \in Routers /\ Types
  BY PreviousIn DEF RingInv
<1>2. Distinct(ring \o left)
  BY <1>1 DEF RingInv, Apart
<1>3. /\ ToSet(ring \o left) = ToSet(ring) \cup ToSet(left)
      /\ Distinct(ring) /\ Distinct(left) /\ ToSet(ring) \cap ToSet(left) = {}
  BY <1>2, Joined
<1>4. RingSet[Previous(r)] = ToSet(ring) \cup ToSet(left)
  BY <1>1, <1>3 DEF RingSet
<1>5. /\ Ejected(r, ring) \in Seq(AnyPacket) /\ Distinct(Ejected(r, ring))
      /\ \A p : p \in ToSet(Ejected(r, ring)) <=> p \in ToSet(ring) /\ Ejects(r, p) = TRUE
  BY <1>3, SortedProps, Zenon DEF Ejected
<1>6. /\ Forwarded(r, ring) \in Seq(AnyPacket) /\ Distinct(Forwarded(r, ring))
      /\ \A p : p \in ToSet(Forwarded(r, ring)) <=> p \in ToSet(ring) /\ Ejects(r, p) = FALSE
  BY <1>3, SortedProps, Zenon DEF Forwarded
<1>7. \A p : Ejects(r, p) \in BOOLEAN
  BY DEF Ejects
<1>8. /\ ToSet(Ejected(r, ring)) \cup ToSet(Forwarded(r, ring)) = ToSet(ring)
      /\ ToSet(Ejected(r, ring)) \cap ToSet(Forwarded(r, ring)) = {}
  BY <1>5, <1>6, <1>7
<1>9. \A p \in ToSet(Ejected(r, ring)) : p.target = r
  BY <1>5 DEF Ejects
<1>10. PICK w, t : w = Waiting(r) /\ t = New(r, n)
  OBVIOUS
<1>11. w \in Seq(AnyPacket) /\ t \in Seq(AnyPacket)
  BY <1>1, <1>10, ListTypes, NewProps
<1>12. w \o t \in Seq(AnyPacket) /\ ToSet(w \o t) = ToSet(w) \cup ToSet(t)
  BY <1>11, Joined
<1>13. Distinct(w \o t)
  <2>1. Lined(r, w, accepted[r]) /\ accepted[r] \in Nat
    BY <1>1, <1>10 DEF RingInv, InLine, Types
  <2>2. Lined(r, w \o t, accepted[r] + n)
    BY <1>1, <1>10, <1>11, <2>1, LinedGrows, Zenon
  <2>3. accepted[r] + n \in Nat
    BY <2>1
  <2> QED BY <1>12, <2>2, <2>3, LinedDistinct
<1>14. ToSet(w) = WaitSet[r]
  BY <1>10 DEF WaitSet
<1>15. ToSet(Forwarded(r, ring)) \cap ToSet(w \o t) = {}
  <2>1. ToSet(Forwarded(r, ring)) \subseteq RingSet[Previous(r)]
    BY <1>4, <1>8
  <2>2. WaitSet[r] \cap RingSet[Previous(r)] = {}
    BY <1>1 DEF RingInv, Apart, Disjoint
  <2>3. RingSet[Previous(r)] \subseteq Packets
    BY <1>1 DEF RingInv, Whole, Cover
  <2>4. ToSet(t) \cap Packets = {}
    BY <1>10
  <2> QED BY <1>12, <1>14, <2>1, <2>2, <2>3, <2>4
<1>16. /\ Batch(r, ring, local) \in Seq(AnyPacket) /\ Distinct(Batch(r, ring, local))
       /\ ToSet(Batch(r, ring, local)) =
            ToSet(Forwarded(r, ring))
              \cup (IF MayInject(r, local) THEN WaitSet[r] \cup ToSet(New(r, n)) ELSE {})
  <2>1. PICK f, u : f = Forwarded(r, ring) /\ u = w \o t
    OBVIOUS
  <2>2. /\ f \in Seq(AnyPacket) /\ Distinct(f) /\ u \in Seq(AnyPacket) /\ Distinct(u)
        /\ ToSet(f) \cap ToSet(u) = {}
    BY <1>6, <1>12, <1>13, <1>15, <2>1
  <2>3. /\ f \o u \in Seq(AnyPacket) /\ Distinct(f \o u)
        /\ ToSet(f \o u) = ToSet(f) \cup ToSet(u)
    BY <2>2, Joined
  <2>4. CASE MayInject(r, local)
    <3>1. Batch(r, ring, local) = f \o u
      BY <1>10, <2>1, <2>4, Zenon DEF Batch
    <3>2. ToSet(u) = WaitSet[r] \cup ToSet(New(r, n))
      BY <1>10, <1>12, <1>14, <2>1, Zenon
    <3> QED BY <2>1, <2>3, <2>4, <3>1, <3>2, Zenon
  <2>5. CASE ~MayInject(r, local)
    <3>1. Batch(r, ring, local) = f \o <<>>
      BY <2>1, <2>5, Zenon DEF Batch
    <3>2. f \o <<>> = f
      BY <2>2, ConcatEmptySeq
    <3>3. ToSet(f) = ToSet(f) \cup {}
      OBVIOUS
    <3> QED BY <2>1, <2>2, <2>5, <3>1, <3>2, <3>3, Zenon
  <2> QED BY <2>4, <2>5
<1> QED BY <1>3, <1>4, <1>5, <1>8, <1>9, <1>16, Zenon DEF Divides

\* What an output takes of a batch, as a set.
LEMMA TakenSet ==
    ASSUME NEW q, NEW batch \in Seq(AnyPacket), Distinct(batch)
    PROVE  /\ Taken(q, batch) \in Seq(AnyPacket) /\ Distinct(Taken(q, batch))
           /\ ToSet(Taken(q, batch)) = IF Fits(q, batch) THEN ToSet(batch) ELSE {}
<1>1. <<>> \in Seq(AnyPacket) /\ DOMAIN <<>> = {} /\ Distinct(<<>>) /\ ToSet(<<>>) = {}
  BY EmptySeq DEF Distinct, ToSet
<1> QED BY <1>1, Zenon DEF Taken

\* The moves of a tick, as moves of sets.
LEMMA TickSets ==
    ASSUME RingInv, NEW r \in Routers, NEW n \in Nat, NEW ring \in Seq(AnyPacket),
           NEW local \in Seq(AnyPacket), NEW left \in Seq(AnyPacket),
           New(r, n) \in Seq(AnyPacket),
           Moves(r, n, ring, local, left), Divides(r, n, ring, local, left)
    PROVE  SetMoves(r, Previous(r), ToSet(ring), ToSet(left), ToSet(Ejected(r, ring)),
                    ToSet(Forwarded(r, ring)), ToSet(Batch(r, ring, local)),
                    ToSet(New(r, n)), MayInject(r, local),
                    Fits(router[r].ringOut, Batch(r, ring, local)),
                    Fits(router[r].localOut, Ejected(r, ring)),
                    WaitSet, RingSet, OutSet, dropped,
                    WaitSet', RingSet', OutSet', dropped')
<1>1. PICK put, out : /\ put = Taken(router[r].ringOut, Batch(r, ring, local))
                      /\ out = Taken(router[r].localOut, Ejected(r, ring))
  OBVIOUS
<1>2. /\ put \in Seq(AnyPacket)
      /\ ToSet(put) = IF Fits(router[r].ringOut, Batch(r, ring, local))
                      THEN ToSet(Batch(r, ring, local)) ELSE {}
  BY <1>1, TakenSet DEF Divides
<1>3. /\ out \in Seq(AnyPacket)
      /\ ToSet(out) = IF Fits(router[r].localOut, Ejected(r, ring))
                      THEN ToSet(Ejected(r, ring)) ELSE {}
  BY <1>1, TakenSet DEF Divides
<1>4. /\ <<>> \in Seq(AnyPacket) /\ ToSet(<<>>) = {}
  BY EmptySeq DEF ToSet
<1>5. Types
  BY DEF RingInv
<1>6. \A q \in Routers : WaitSet'[q] = ToSet(Waiting(q)') /\ WaitSet[q] = ToSet(Waiting(q))
  BY DEF WaitSet
<1>7. \A q \in Routers : RingSet'[q] = ToSet(Ring(q)') /\ RingSet[q] = ToSet(Ring(q))
  BY DEF RingSet
<1>8. \A q \in Routers : OutSet'[q] = ToSet(Ejections(q)') /\ OutSet[q] = ToSet(Ejections(q))
  BY DEF OutSet
<1>9. ASSUME NEW q \in Routers
      PROVE  WaitSet'[q] = IF q # r THEN WaitSet[q]
                           ELSE IF MayInject(r, local) THEN {}
                           ELSE WaitSet[r] \cup ToSet(New(r, n))
  <2>1. Waiting(q)' = IF q # r THEN Waiting(q)
                      ELSE IF MayInject(r, local) THEN <<>> ELSE Waiting(r) \o New(r, n)
    BY Zenon DEF Moves
  <2>2. ToSet(Waiting(r) \o New(r, n)) = ToSet(Waiting(r)) \cup ToSet(New(r, n))
    BY <1>5, ListTypes, Joined
  <2> QED BY <1>4, <1>6, <2>1, <2>2, Zenon
<1>10. ASSUME NEW q \in Routers
       PROVE  RingSet'[q] = (IF q = Previous(r) THEN ToSet(left) ELSE RingSet[q])
                \cup (IF q = r /\ Fits(router[r].ringOut, Batch(r, ring, local))
                      THEN ToSet(Batch(r, ring, local)) ELSE {})
  <2>1. PICK a, b : /\ a = IF q = Previous(r) THEN left ELSE Ring(q)
                    /\ b = IF q = r THEN put ELSE <<>>
    OBVIOUS
  <2>2. Ring(q)' = a \o b
    BY <1>1, <2>1, Zenon DEF Moves
  <2>3. a \in Seq(AnyPacket) /\ b \in Seq(AnyPacket)
    BY <1>2, <1>4, <1>5, <2>1, ListTypes, Zenon
  <2>4. ToSet(a \o b) = ToSet(a) \cup ToSet(b)
    BY <2>3, Joined
  <2>5. ToSet(a) = IF q = Previous(r) THEN ToSet(left) ELSE RingSet[q]
    BY <1>7, <2>1, Zenon
  <2>6. ToSet(b) = IF q = r /\ Fits(router[r].ringOut, Batch(r, ring, local))
                   THEN ToSet(Batch(r, ring, local)) ELSE {}
    BY <1>2, <1>4, <2>1, Zenon
  <2> QED BY <1>7, <2>2, <2>4, <2>5, <2>6, Zenon
<1>11. ASSUME NEW q \in Routers
       PROVE  OutSet'[q] = OutSet[q]
                \cup (IF q = r /\ Fits(router[r].localOut, Ejected(r, ring))
                      THEN ToSet(Ejected(r, ring)) ELSE {})
  <2>1. PICK a, b : a = Ejections(q) /\ b = IF q = r THEN out ELSE <<>>
    OBVIOUS
  <2>2. Ejections(q)' = a \o b
    BY <1>1, <2>1, Zenon DEF Moves
  <2>3. a \in Seq(AnyPacket) /\ b \in Seq(AnyPacket)
    BY <1>3, <1>4, <1>5, <2>1, ListTypes, Zenon
  <2>4. ToSet(a \o b) = ToSet(a) \cup ToSet(b)
    BY <2>3, Joined
  <2>5. ToSet(b) = IF q = r /\ Fits(router[r].localOut, Ejected(r, ring))
                   THEN ToSet(Ejected(r, ring)) ELSE {}
    BY <1>3, <1>4, <2>1, Zenon
  <2> QED BY <1>8, <2>1, <2>2, <2>4, <2>5, Zenon
<1>12. /\ RingSet[Previous(r)] = ToSet(ring) \cup ToSet(left)
       /\ ToSet(ring) \cap ToSet(left) = {}
       /\ ToSet(Ejected(r, ring)) \cup ToSet(Forwarded(r, ring)) = ToSet(ring)
       /\ ToSet(Ejected(r, ring)) \cap ToSet(Forwarded(r, ring)) = {}
       /\ ToSet(Batch(r, ring, local)) =
            ToSet(Forwarded(r, ring))
              \cup (IF MayInject(r, local) THEN WaitSet[r] \cup ToSet(New(r, n)) ELSE {})
  BY Zenon DEF Divides
<1>13. dropped' = dropped
         \cup (IF Fits(router[r].ringOut, Batch(r, ring, local)) THEN {}
               ELSE ToSet(Batch(r, ring, local)))
         \cup (IF Fits(router[r].localOut, Ejected(r, ring)) THEN {}
               ELSE ToSet(Ejected(r, ring)))
  BY Zenon DEF Moves
<1> QED BY <1>9, <1>10, <1>11, <1>12, <1>13, Zenon DEF SetMoves

\* A packet that a tick puts behind a list is not in it.
LEMMA TickDistinct ==
    ASSUME RingInv, NEW r \in Routers, NEW n \in Nat, NEW ring \in Seq(AnyPacket),
           NEW local \in Seq(AnyPacket), NEW left \in Seq(AnyPacket),
           Moves(r, n, ring, local, left), Divides(r, n, ring, local, left),
           ToSet(New(r, n)) \cap Packets = {}, NEW q \in Routers
    PROVE  Distinct(Ring(q)') /\ Distinct(Ejections(q)')
<1>1. Previous(r) \in Routers /\ Types
  BY PreviousIn DEF RingInv
<1>2. PICK put, out : /\ put = Taken(router[r].ringOut, Batch(r, ring, local))
                      /\ out = Taken(router[r].localOut, Ejected(r, ring))
  OBVIOUS
<1>3. put \in Seq(AnyPacket) /\ Distinct(put) /\ ToSet(put) \subseteq ToSet(Batch(r, ring, local))
  BY <1>2, TakenSet DEF Divides
<1>4. out \in Seq(AnyPacket) /\ Distinct(out) /\ ToSet(out) \subseteq ToSet(Ejected(r, ring))
  BY <1>2, TakenSet DEF Divides
<1>5. <<>> \in Seq(AnyPacket) /\ ToSet(<<>>) = {} /\ Distinct(<<>>)
  BY EmptySeq DEF ToSet, Distinct
<1>6. /\ Ring(q) \in Seq(AnyPacket) /\ Ejections(q) \in Seq(AnyPacket)
      /\ Distinct(Ring(q)) /\ Distinct(Ejections(q))
      /\ ToSet(Ring(q)) = RingSet[q] /\ ToSet(Ejections(q)) = OutSet[q]
  BY <1>1, ListTypes DEF RingInv, Apart, RingSet, OutSet
<1>7. /\ WaitSet[r] \cap RingSet[q] = {}
      /\ q # Previous(r) => RingSet[Previous(r)] \cap RingSet[q] = {}
      /\ RingSet[Previous(r)] \cap OutSet[q] = {}
      /\ WaitSet[r] \cap RingSet[Previous(r)] = {}
  BY <1>1 DEF RingInv, Apart, Disjoint
<1>8. RingSet[q] \subseteq Packets /\ RingSet[Previous(r)] \subseteq Packets
  BY <1>1 DEF RingInv, Whole, Cover
<1>9. PICK F, X, A, L, B, N : /\ F = ToSet(Forwarded(r, ring)) /\ X = ToSet(Ejected(r, ring))
                              /\ A = ToSet(ring) /\ L = ToSet(left)
                              /\ B = ToSet(Batch(r, ring, local)) /\ N = ToSet(New(r, n))
  OBVIOUS
<1>10. /\ RingSet[Previous(r)] = A \cup L /\ A \cap L = {} /\ X \cup F = A
       /\ B \subseteq F \cup WaitSet[r] \cup N /\ Distinct(left)
  <2>1. B = F \cup (IF MayInject(r, local) THEN WaitSet[r] \cup N ELSE {})
    BY <1>9, Zenon DEF Divides
  <2>2. B \subseteq F \cup WaitSet[r] \cup N
    BY <2>1
  <2> QED BY <1>9, <2>2, Zenon DEF Divides
<1>11. PICK a, b, c : /\ a = IF q = Previous(r) THEN left ELSE Ring(q)
                      /\ b = IF q = r THEN put ELSE <<>>
                      /\ c = IF q = r THEN out ELSE <<>>
  OBVIOUS
<1>12. Ring(q)' = a \o b /\ Ejections(q)' = Ejections(q) \o c
  BY <1>2, <1>11, Zenon DEF Moves
<1>13. a \in Seq(AnyPacket) /\ b \in Seq(AnyPacket) /\ c \in Seq(AnyPacket)
  BY <1>3, <1>4, <1>5, <1>6, <1>11, Zenon
<1>14. Distinct(a) /\ Distinct(b) /\ Distinct(c)
  BY <1>3, <1>4, <1>5, <1>6, <1>10, <1>11, Zenon
<1>15. ToSet(b) \subseteq B /\ ToSet(c) \subseteq X
  BY <1>3, <1>4, <1>5, <1>9, <1>11
<1>16. N \cap Packets = {}
  BY <1>9
<1>17. ToSet(a) \cap B = {}
  <2>1. CASE q = Previous(r)
    <3>1. ToSet(a) = L
      BY <1>9, <1>11, <2>1
    <3> QED BY <1>7, <1>8, <1>10, <1>16, <3>1
  <2>2. CASE q # Previous(r)
    <3>1. ToSet(a) = RingSet[q]
      BY <1>6, <1>11, <2>2
    <3> QED BY <1>7, <1>8, <1>10, <1>16, <2>2, <3>1
  <2> QED BY <2>1, <2>2
<1>18. Distinct(a \o b)
  <2>1. ToSet(a) \cap ToSet(b) = {}
    BY <1>15, <1>17
  <2> QED BY <1>13, <1>14, <2>1, Joined
<1>19. Distinct(Ejections(q) \o c)
  <2>1. ToSet(Ejections(q)) \cap ToSet(c) = {}
    BY <1>6, <1>7, <1>10, <1>15
  <2> QED BY <1>6, <1>13, <1>14, <2>1, Joined
<1> QED BY <1>12, <1>18, <1>19, Zenon

\* The worker's order is kept.
LEMMA TickInLine ==
    ASSUME Types, InLine, NEW r \in Routers, NEW n \in Nat, n <= Len(todo[r]) - accepted[r],
           accepted' = [accepted EXCEPT ![r] = @ + n], todo' = todo,
           NEW goes,
           \A q \in Routers : Waiting(q)' = IF q # r THEN Waiting(q)
                              ELSE IF goes THEN <<>> ELSE Waiting(r) \o New(r, n)
    PROVE  InLine'
<1>1. accepted \in [Routers -> Nat] /\ accepted[r] \in Nat /\ accepted[r] + n \in Nat
  <2>1. accepted \in [Routers -> Nat]
    BY DEF Types
  <2> QED BY <2>1
<1>2. ASSUME NEW q \in Routers
      PROVE  Lined(q, Waiting(q)', accepted'[q])
  <2>1. CASE q # r
    <3>1. Waiting(q)' = Waiting(q) /\ accepted'[q] = accepted[q]
      BY <1>1, <2>1
    <3>2. Lined(q, Waiting(q), accepted[q])
      BY DEF InLine
    <3> QED BY <3>1, <3>2, Zenon
  <2>2. CASE q = r /\ goes
    <3>1. Waiting(q)' = <<>> /\ accepted'[q] = accepted[r] + n
      BY <1>1, <2>2
    <3>2. Lined(q, <<>>, accepted[r] + n)
      BY <1>1, EmptySeq DEF Lined
    <3> QED BY <3>1, <3>2, Zenon
  <2>3. CASE q = r /\ ~goes
    <3>1. Waiting(q)' = Waiting(r) \o New(r, n) /\ accepted'[q] = accepted[r] + n
      BY <1>1, <2>3
    <3>2. Lined(r, Waiting(r), accepted[r]) /\ Waiting(r) \in Seq(AnyPacket)
      BY ListTypes DEF InLine
    <3>3. Lined(r, Waiting(r) \o New(r, n), accepted[r] + n)
      BY <3>2, LinedGrows, Zenon
    <3> QED BY <2>3, <3>1, <3>3, Zenon
  <2> QED BY <2>1, <2>2, <2>3
<1>3. \A q, k : Packet(q, k)' = Packet(q, k)
  BY DEF Packet
<1>4. ASSUME NEW q \in Routers
      PROVE  Lined(q, Waiting(q), accepted[q])'
  <2>1. /\ Len(Waiting(q)') <= accepted'[q]
        /\ \A i \in 1 .. Len(Waiting(q)') :
              Waiting(q)'[i] = Packet(q, accepted'[q] - Len(Waiting(q)') + i)
    BY <1>2 DEF Lined
  <2> QED BY <2>1 DEF Lined, Packet
<1> QED BY <1>4 DEF InLine

\* A tick keeps the invariant.
LEMMA TickKeeps ==
    ASSUME RingInv, NEW r \in Routers, NEW m \in 0 .. Bandwidth, NEW n \in 0 .. Bandwidth,
           NEW x, NEW y, Tick(r, m, n, x, y)
    PROVE  RingInv'
<1>1. Types /\ Sizes /\ InLine /\ Apart /\ Whole /\ AtTarget
  BY DEF RingInv
<1>2. /\ Incoming(r, m) \in Seq(AnyPacket) /\ Local(r, n) \in Seq(AnyPacket)
      /\ New(r, n) \in Seq(AnyPacket)
      /\ router[r].buffer \o Local(r, n) = Waiting(r) \o New(r, n)
      /\ \E left \in Seq(AnyPacket) : Moves(r, n, Incoming(r, m), Local(r, n), left)
      /\ Types' /\ Sizes'
  BY <1>1, TickMoves
<1>3. PICK ring, local : ring = Incoming(r, m) /\ local = Local(r, n)
  OBVIOUS
<1>4. PICK left \in Seq(AnyPacket) : Moves(r, n, ring, local, left)
  BY <1>2, <1>3, Zenon
<1>5. /\ ring \in Seq(AnyPacket) /\ local \in Seq(AnyPacket)
      /\ router[r].buffer \o local = Waiting(r) \o New(r, n)
  BY <1>2, <1>3, Zenon
<1>6. /\ n <= Len(todo[r]) - accepted[r]
      /\ accepted' = [accepted EXCEPT ![r] = @ + n] /\ todo' = todo
  BY Zenon DEF Tick
<1>7. n \in Nat
  BY RingAssumption
<1>8. ToSet(New(r, n)) \cap Packets = {} /\ Packets' = Packets \cup ToSet(New(r, n))
  BY <1>1, <1>6, <1>7, NewIsNew, Zenon
<1>9. Divides(r, n, ring, local, left)
  <2>1. Ring(Previous(r)) = ring \o left
    BY <1>4, Zenon DEF Moves
  <2> QED BY <1>5, <1>6, <1>7, <1>8, <2>1, TickDivides, Zenon
<1>10. PICK A, L, X, F, B, N : /\ A = ToSet(ring) /\ L = ToSet(left)
                               /\ X = ToSet(Ejected(r, ring)) /\ F = ToSet(Forwarded(r, ring))
                               /\ B = ToSet(Batch(r, ring, local)) /\ N = ToSet(New(r, n))
  OBVIOUS
<1>11. PICK goes, fits, room : /\ goes = MayInject(r, local)
                               /\ fits = Fits(router[r].ringOut, Batch(r, ring, local))
                               /\ room = Fits(router[r].localOut, Ejected(r, ring))
  OBVIOUS
<1>12. goes \in BOOLEAN /\ fits \in BOOLEAN /\ room \in BOOLEAN
  BY <1>11 DEF MayInject, Fits
<1>13. SetMoves(r, Previous(r), A, L, X, F, B, N, goes, fits, room,
                WaitSet, RingSet, OutSet, dropped, WaitSet', RingSet', OutSet', dropped')
  BY <1>2, <1>4, <1>5, <1>7, <1>9, <1>10, <1>11, TickSets, Zenon
<1>14. N \cap Packets = {} /\ Packets' = Packets \cup N
  BY <1>8, <1>10, Zenon
<1>15. /\ Disjoint(WaitSet', RingSet', OutSet', dropped')
       /\ Cover(WaitSet', RingSet', OutSet', dropped', Packets')
  <2>1. Disjoint(WaitSet, RingSet, OutSet, dropped)
        /\ Cover(WaitSet, RingSet, OutSet, dropped, Packets)
    BY <1>1, Zenon DEF Apart, Whole
  <2>2. Previous(r) \in Routers
    BY PreviousIn
  <2> QED BY <1>12, <1>13, <1>14, <2>1, <2>2, SetsKept
<1>16. Whole'
  BY <1>15 DEF Whole, Cover
<1>17. Apart'
  <2>1. \A q \in Routers : Distinct(Ring(q)') /\ Distinct(Ejections(q)')
    BY <1>4, <1>5, <1>7, <1>8, <1>9, TickDistinct, Zenon
  <2> QED BY <1>15, <2>1 DEF Apart, Disjoint, Distinct
<1>18. InLine'
  <2>1. \A q \in Routers :
          Waiting(q)' = IF q # r THEN Waiting(q)
                        ELSE IF MayInject(r, local) THEN <<>> ELSE Waiting(r) \o New(r, n)
    BY <1>4, Zenon DEF Moves
  <2> QED BY <1>1, <1>6, <1>7, <2>1, TickInLine, Zenon
<1>19. AtTarget'
  <2>1. ASSUME NEW q \in Routers, NEW p \in ToSet(Ejections(q)')
        PROVE  p.target = q
    <3>1. p \in OutSet'[q]
      BY <2>1 DEF OutSet
    <3>2. OutSet'[q] = OutSet[q] \cup (IF q = r /\ room THEN X ELSE {})
      BY <1>13, Zenon DEF SetMoves
    <3>3. CASE p \in OutSet[q]
      BY <1>1, <3>3 DEF OutSet, AtTarget
    <3>4. CASE p \in X /\ q = r
      BY <1>9, <1>10, <3>4, Zenon DEF Divides
    <3> QED BY <3>1, <3>2, <3>3, <3>4
  <2> QED BY <2>1, Zenon DEF AtTarget
<1> QED BY <1>2, <1>16, <1>17, <1>18, <1>19 DEF RingInv

\* A ring starts empty.
LEMMA InitRing == Init => RingInv
<1>1. SUFFICES ASSUME Init PROVE RingInv
  OBVIOUS
<1>2. /\ todo \in Workloads /\ accepted = [r \in Routers |-> 0] /\ dropped = {}
      /\ link = [r \in Routers |-> <<>>] /\ delivered = [r \in Routers |-> <<>>]
      /\ router = [r \in Routers |-> NewRouter]
  BY <1>1 DEF Init
<1>3. <<>> \in Seq(AnyPacket) /\ Len(<<>>) = 0 /\ DOMAIN <<>> = {} /\ <<>> \o <<>> = <<>>
  BY EmptySeq, ConcatEmptySeq
<1>4. ToSet(<<>>) = {} /\ Distinct(<<>>)
  BY <1>3 DEF ToSet, Distinct
<1>5. ASSUME NEW r \in Routers
      PROVE  /\ router[r].localIn = <<>> /\ router[r].ringOut = <<>>
             /\ router[r].localOut = <<>> /\ router[r].buffer = <<>>
             /\ link[r] = <<>> /\ delivered[r] = <<>> /\ accepted[r] = 0
  BY <1>2 DEF NewRouter
<1>6. \A r \in Routers : Ring(r) = <<>> /\ Ejections(r) = <<>> /\ Waiting(r) = <<>>
  BY <1>3, <1>5 DEF Ring, Ejections, Waiting
<1>7. \A r \in Routers : WaitSet[r] = {} /\ RingSet[r] = {} /\ OutSet[r] = {}
  BY <1>4, <1>6 DEF WaitSet, RingSet, OutSet
<1>8. Types
  BY <1>2, <1>3 DEF Types, NewRouter, RouterType
<1>9. Sizes
  <2>1. \A r \in Routers : Len(todo[r]) \in Nat
    BY <1>2, RingAssumption
  <2> QED BY <1>3, <1>5, <2>1, RingAssumption DEF Sizes
<1>10. InLine
  BY <1>3, <1>5, <1>6 DEF InLine, Lined
<1>11. Apart
  <2>1. Disjoint(WaitSet, RingSet, OutSet, dropped)
    BY <1>7 DEF Disjoint
  <2> QED BY <1>4, <1>6, <2>1, Zenon DEF Apart
<1>12. Packets = {}
  <2>1. \A e : e \in Packets => \E q \in Routers : \E k \in 1 .. accepted[q] : TRUE
    BY DEF Packets
  <2> QED BY <1>5, <2>1
<1>13. Whole
  BY <1>2, <1>7, <1>12 DEF Whole, Cover
<1>14. AtTarget
  BY <1>4, <1>6 DEF AtTarget
<1> QED BY <1>8, <1>9, <1>10, <1>11, <1>13, <1>14 DEF RingInv

\* RingInv is inductive.
LEMMA RingStep == RingInv /\ [Next]_vars => RingInv'
<1>1. SUFFICES ASSUME RingInv, [Next]_vars PROVE RingInv'
  OBVIOUS
<1>2. CASE UNCHANGED vars
  <2>1. /\ todo' = todo /\ link' = link /\ router' = router /\ accepted' = accepted
        /\ delivered' = delivered /\ dropped' = dropped
    BY <1>2 DEF vars
  <2>2. \A q \in Routers : /\ Waiting(q)' = Waiting(q) /\ Ring(q)' = Ring(q)
                            /\ Ejections(q)' = Ejections(q)
    BY <2>1 DEF Waiting, Ring, Ejections
  <2>3. /\ WaitSet' = WaitSet /\ RingSet' = RingSet /\ OutSet' = OutSet
        /\ Packets' = Packets
    BY <2>1 DEF WaitSet, RingSet, OutSet, Packets, Packet, Waiting, Ring, Ejections
  <2>4. Types' /\ Sizes'
    BY <1>1, <2>1 DEF RingInv, Types, Sizes
  <2>5. InLine'
    BY <1>1, <2>1, <2>2 DEF RingInv, InLine, Lined, Packet
  <2>6. Apart'
    <3>1. \A q \in Routers : Distinct(Ring(q)') /\ Distinct(Ejections(q)')
      BY <1>1, <2>2 DEF RingInv, Apart
    <3>2. Disjoint(WaitSet', RingSet', OutSet', dropped')
      BY <1>1, <2>1, <2>3 DEF RingInv, Apart
    <3> QED BY <3>1, <3>2 DEF Apart, Disjoint, Distinct
  <2>7. Whole'
    BY <1>1, <2>1, <2>3 DEF RingInv, Whole, Cover
  <2>8. AtTarget'
    BY <1>1, <2>2 DEF RingInv, AtTarget
  <2> QED BY <2>4, <2>5, <2>6, <2>7, <2>8 DEF RingInv
<1>3. ASSUME NEW r \in Routers, Ready(r)
      PROVE  RingInv'
  <2>1. PICK m \in 0 .. Bandwidth, n \in 0 .. Bandwidth : Tick(r, m, n, TRUE, TRUE)
    BY <1>3, Zenon DEF Ready
  <2> QED BY <1>1, <2>1, TickKeeps, Zenon
<1>4. ASSUME NEW r \in Routers, Refused(r)
      PROVE  RingInv'
  <2>1. PICK m \in 0 .. Bandwidth, n \in 0 .. Bandwidth, b \in BOOLEAN : Tick(r, m, n, b, ~b)
    BY <1>4, Zenon DEF Refused
  <2> QED BY <1>1, <2>1, TickKeeps, Zenon
<1> QED BY <1>1, <1>2, <1>3, <1>4, Zenon DEF Next

-----------------------------------------------------------------------------
(* What the invariant says.                                                *)

\* The invariant gives the types and bounds that TypeOK asks for.
LEMMA RingInvTypes == RingInv => TypeOK
<1>1. SUFFICES ASSUME RingInv PROVE TypeOK
  OBVIOUS
<1>2. Types /\ Sizes /\ Whole
  BY <1>1 DEF RingInv
<1>3. ASSUME NEW r \in Routers
      PROVE  /\ ToSet(router[r].buffer) \subseteq Packets
             /\ ToSet(router[r].localIn) \subseteq Packets
             /\ ToSet(router[r].ringOut) \subseteq Packets
             /\ ToSet(router[r].localOut) \subseteq Packets
             /\ ToSet(link[r]) \subseteq Packets /\ ToSet(delivered[r]) \subseteq Packets
  <2>1. /\ router[r].localIn \in Seq(AnyPacket) /\ router[r].ringOut \in Seq(AnyPacket)
        /\ router[r].localOut \in Seq(AnyPacket) /\ router[r].buffer \in Seq(AnyPacket)
        /\ link[r] \in Seq(AnyPacket) /\ delivered[r] \in Seq(AnyPacket)
    BY <1>2, RouterFields
  <2>2. /\ ToSet(Waiting(r)) \subseteq Packets /\ ToSet(Ring(r)) \subseteq Packets
        /\ ToSet(Ejections(r)) \subseteq Packets
    BY <1>2 DEF Whole, Cover, WaitSet, RingSet, OutSet
  <2>3. ToSet(Waiting(r)) = ToSet(router[r].buffer) \cup ToSet(router[r].localIn)
    BY <2>1, Joined DEF Waiting
  <2>4. ToSet(Ring(r)) = ToSet(link[r]) \cup ToSet(router[r].ringOut)
    BY <2>1, Joined DEF Ring
  <2>5. ToSet(Ejections(r)) = ToSet(delivered[r]) \cup ToSet(router[r].localOut)
    BY <2>1, Joined DEF Ejections
  <2> QED BY <2>2, <2>3, <2>4, <2>5
<1>4. dropped \subseteq Packets
  BY <1>2 DEF Whole, Cover
<1> QED BY <1>2, <1>3, <1>4 DEF TypeOK, Types, Sizes

\* All that a router holds, once.
LEMMA HeldOnce ==
    ASSUME RingInv, NEW r \in Routers
    PROVE  /\ Held(r) \in Seq(AnyPacket) /\ Distinct(Held(r))
           /\ ToSet(Held(r)) = WaitSet[r] \cup RingSet[r] \cup OutSet[r]
<1>1. PICK w, g, e : w = Waiting(r) /\ g = Ring(r) /\ e = Ejections(r)
  OBVIOUS
<1>2. w \in Seq(AnyPacket) /\ g \in Seq(AnyPacket) /\ e \in Seq(AnyPacket)
  BY <1>1, ListTypes DEF RingInv
<1>3. Distinct(g) /\ Distinct(e)
  BY <1>1 DEF RingInv, Apart
<1>4. Distinct(w)
  <2>1. Lined(r, w, accepted[r]) /\ accepted[r] \in Nat
    BY <1>1 DEF RingInv, InLine, Types
  <2> QED BY <1>2, <2>1, LinedDistinct
<1>5. ToSet(w) = WaitSet[r] /\ ToSet(g) = RingSet[r] /\ ToSet(e) = OutSet[r]
  BY <1>1 DEF WaitSet, RingSet, OutSet
<1>6. /\ WaitSet[r] \cap RingSet[r] = {} /\ WaitSet[r] \cap OutSet[r] = {}
      /\ RingSet[r] \cap OutSet[r] = {}
  BY DEF RingInv, Apart, Disjoint
<1>7. PICK u : u = w \o g
  OBVIOUS
<1>8. u \in Seq(AnyPacket) /\ Distinct(u) /\ ToSet(u) = WaitSet[r] \cup RingSet[r]
  <2>1. ToSet(w) \cap ToSet(g) = {}
    BY <1>5, <1>6
  <2>2. /\ w \o g \in Seq(AnyPacket) /\ Distinct(w \o g)
        /\ ToSet(w \o g) = ToSet(w) \cup ToSet(g)
    BY <1>2, <1>3, <1>4, <2>1, Joined
  <2> QED BY <1>5, <1>7, <2>2, Zenon
<1>9. /\ u \o e \in Seq(AnyPacket) /\ Distinct(u \o e)
      /\ ToSet(u \o e) = ToSet(u) \cup ToSet(e)
  <2>1. ToSet(u) \cap ToSet(e) = {}
    BY <1>5, <1>6, <1>8
  <2> QED BY <1>2, <1>3, <1>8, <2>1, Joined
<1>10. Held(r) = u \o e
  BY <1>1, <1>7, Zenon DEF Held
<1> QED BY <1>5, <1>8, <1>9, <1>10, Zenon

\* The invariant says where each packet is.
LEMMA RingInvConserves == RingInv => Conserved
<1>1. SUFFICES ASSUME RingInv PROVE Conserved
  OBVIOUS
<1>2. \A r \in Routers : Distinct(Held(r)) /\ \A p : p \in ToSet(Held(r)) <=>
          p \in WaitSet[r] \/ p \in RingSet[r] \/ p \in OutSet[r]
  BY <1>1, HeldOnce
<1>3. \A r \in Routers : \A p : p \in ToSet(Held(r)) <=> \E i \in DOMAIN Held(r) : Held(r)[i] = p
  BY DEF ToSet
<1>4. \A p, e : e \in Places(p) <=>
          \E r \in Routers : \E i \in DOMAIN Held(r) : Held(r)[i] = p /\ e = <<r, i>>
  BY DEF Places
<1>5. ASSUME NEW p \in Packets
      PROVE  Cardinality(Places(p)) = IF p \in dropped THEN 0 ELSE 1
  <2>1. CASE p \in dropped
    <3>1. \A r \in Routers : p \notin WaitSet[r] /\ p \notin RingSet[r] /\ p \notin OutSet[r]
      BY <1>1, <2>1 DEF RingInv, Apart, Disjoint
    <3>2. \A r \in Routers : ~ \E i \in DOMAIN Held(r) : Held(r)[i] = p
      BY <1>2, <1>3, <3>1, Zenon
    <3>3. \A e : e \notin Places(p)
      BY <1>4, <3>2, Zenon
    <3>4. Places(p) = {}
      BY <3>3
    <3> QED BY <2>1, <3>4, FS_EmptySet
  <2>2. CASE p \notin dropped
    <3>1. PICK r \in Routers : p \in WaitSet[r] \/ p \in RingSet[r] \/ p \in OutSet[r]
      BY <1>1, <2>2 DEF RingInv, Whole, Cover
    <3>2. PICK i \in DOMAIN Held(r) : Held(r)[i] = p
      BY <1>2, <1>3, <3>1, Zenon
    <3>3. ASSUME NEW q \in Routers, q # r
          PROVE  p \notin WaitSet[q] /\ p \notin RingSet[q] /\ p \notin OutSet[q]
      BY <1>1, <3>1, <3>3 DEF RingInv, Apart, Disjoint
    <3>4. ASSUME NEW q \in Routers, NEW j \in DOMAIN Held(q), Held(q)[j] = p
          PROVE  q = r /\ j = i
      <4>1. p \in WaitSet[q] \/ p \in RingSet[q] \/ p \in OutSet[q]
        BY <1>2, <1>3, <3>4, Zenon
      <4>2. q = r
        BY <3>3, <4>1
      <4>3. Distinct(Held(r))
        BY <1>2
      <4> QED BY <3>2, <3>4, <4>2, <4>3 DEF Distinct
    <3>5. \A e : e \in Places(p) <=> e = <<r, i>>
      BY <1>4, <3>2, <3>4, Zenon
    <3>6. Places(p) = {<<r, i>>}
      BY <3>5
    <3>7. Cardinality({<<r, i>>}) = 1
      BY FS_Singleton
    <3> QED BY <2>2, <3>6, <3>7
  <2> QED BY <2>1, <2>2
<1>6. ASSUME NEW r \in Routers
      PROVE  /\ \A p \in ToSet(Ejections(r)) : p.target = r
             /\ Waiting(r) = [i \in 1 .. Len(Waiting(r)) |->
                                 Packet(r, accepted[r] - Len(Waiting(r)) + i)]
  <2>1. \A p \in ToSet(Ejections(r)) : p.target = r
    BY <1>1 DEF RingInv, AtTarget
  <2>2. PICK w : w = Waiting(r)
    OBVIOUS
  <2>3. w \in Seq(AnyPacket)
    BY <1>1, <2>2, ListTypes DEF RingInv
  <2>4. w = [i \in 1 .. Len(w) |-> w[i]]
    BY <2>3
  <2>5. \A i \in 1 .. Len(w) : w[i] = Packet(r, accepted[r] - Len(w) + i)
    BY <1>1, <2>2, Zenon DEF RingInv, InLine, Lined
  <2>6. w = [i \in 1 .. Len(w) |-> Packet(r, accepted[r] - Len(w) + i)]
    BY <2>4, <2>5
  <2> QED BY <2>1, <2>2, <2>6, Zenon
<1> QED BY <1>5, <1>6, Zenon DEF Conserved

\* The invariant holds in every state of a ring.
LEMMA RingInvariant == Spec => []RingInv
  BY InitRing, RingStep, PTL DEF Spec

\* No queue of a BufferlessRingRouter grows past its capacity and the injection
\* buffer not past its own, whatever the bandwidth, the capacities, the number
\* of routers and the workload, and whether links refuse or not; and they hold
\* nothing but packets that the workers have sent.
THEOREM RingTypes == Spec => []TypeOK
<1>1. RingInv => TypeOK
  BY RingInvTypes
<1> QED BY <1>1, RingInvariant, PTL

\* A packet that a router has accepted is in one place of the ring, once, or one
\* of the batches dropped it whose InjectPackets error Process ignores; it leaves
\* the ring only at its target, and waits to be injected in the worker's order.
THEOREM PacketsInOnePlace == Spec => []Conserved
<1>1. RingInv => Conserved
  BY RingInvConserves
<1> QED BY <1>1, RingInvariant, PTL
=============================================================================
