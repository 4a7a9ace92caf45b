----------------------------- MODULE FlowProofs -----------------------------
(***************************************************************************)
(* Proofs about FlowPath, for any capacities, bandwidths, latency, workload *)
(* and schedule of the components.                                          *)
(***************************************************************************)
EXTENDS FlowPath, SequenceTheorems, FiniteSetTheorems, WellFoundedInduction, TLAPS

\* A set of numbers that is not empty has a least one.
LEMMA LeastNumber ==
    ASSUME NEW T, T \subseteq Nat, T # {}
    PROVE  \E x \in T : \A y \in T : x <= y
<1> DEFINE R == OpToRel(<, Nat)
<1>1. \A x, y \in Nat : y < x => <<y, x>> \in R
  <2> SUFFICES ASSUME NEW x \in Nat, NEW y \in Nat, y < x
               PROVE  <<y, x>> \in OpToRel(<, Nat)
    OBVIOUS
  <2> DEFINE ss == <<y, x>>
  <2>1. ss \in Nat \X Nat /\ ss[1] < ss[2]
    OBVIOUS
  <2> QED BY <2>1 DEF OpToRel
<1>2. IsWellFoundedOn(R, Nat)
  BY NatLessThanWellFounded
<1> HIDE DEF R
<1>3. PICK x \in T : \A y \in T : ~(<<y, x>> \in R)
  BY <1>2, WFMin
<1>4. ASSUME NEW y \in T
      PROVE  x <= y
  <2>1. x \in Nat /\ y \in Nat
    OBVIOUS
  <2>2. ~(y < x)
    BY <1>1, <1>3, <2>1
  <2> QED BY <2>1, <2>2
<1> QED BY <1>4

\* The n-th prefix of the packets that StampedFor collects.
Collects(first, packets, c, m) ==
    first = [n \in 0 .. m |->
                IF n = 0 THEN <<>>
                ELSE IF packets[n].cycle = c THEN Append(first[n - 1], packets[n].packet)
                ELSE first[n - 1]]

\* The loop over the packets of a call ends (the sends of a link or a queue,
\* packet by packet).
LEMMA CollectsExists ==
    ASSUME NEW packets, NEW c, NEW N \in Nat
    PROVE  \E first : Collects(first, packets, c, N)
<1> DEFINE Bad == {m \in Nat : ~ \E first : Collects(first, packets, c, m)}
<1>1. SUFFICES ASSUME Bad # {} PROVE FALSE
  OBVIOUS
<1>2. PICK m \in Bad : \A y \in Bad : m <= y
  BY <1>1, LeastNumber
<1>3. m # 0
  <2> DEFINE F == [n \in 0 .. 0 |-> <<>>]
  <2>1. Collects(F, packets, c, 0)
    BY DEF Collects
  <2> QED BY <2>1
<1>4. m - 1 \in Nat /\ m - 1 \notin Bad
  BY <1>2, <1>3
<1>5. PICK F : Collects(F, packets, c, m - 1)
  BY <1>4
<1> DEFINE G == [n \in 0 .. m |->
                   IF n < m THEN F[n]
                   ELSE IF packets[n].cycle = c THEN Append(F[n - 1], packets[n].packet)
                   ELSE F[n - 1]]
<1>6. \A n \in 0 .. m : G[n] = IF n = 0 THEN <<>>
            ELSE IF packets[n].cycle = c THEN Append(G[n - 1], packets[n].packet)
            ELSE G[n - 1]
  <2>1. \A n \in 0 .. m - 1 : F[n] = IF n = 0 THEN <<>>
            ELSE IF packets[n].cycle = c THEN Append(F[n - 1], packets[n].packet)
            ELSE F[n - 1]
    BY <1>4, <1>5 DEF Collects
  <2>2. \A n \in 0 .. m - 1 : G[n] = F[n]
    OBVIOUS
  <2>3. G[m] = IF packets[m].cycle = c THEN Append(F[m - 1], packets[m].packet)
               ELSE F[m - 1]
    OBVIOUS
  <2> HIDE DEF G
  <2>4. ASSUME NEW n \in 0 .. m
        PROVE  G[n] = IF n = 0 THEN <<>>
            ELSE IF packets[n].cycle = c THEN Append(G[n - 1], packets[n].packet)
            ELSE G[n - 1]
    <3>1. CASE n = m
      <4>1. n - 1 \in 0 .. m - 1 /\ n # 0
        BY <1>3, <1>4, <3>1
      <4>2. G[n - 1] = F[n - 1]
        BY <4>1, <2>2
      <4> QED BY <2>3, <3>1, <4>1, <4>2
    <3>2. CASE n = 0
      BY <1>3, <1>4, <2>1, <2>2, <3>2
    <3>3. CASE n # m /\ n # 0
      <4>1. n \in 0 .. m - 1 /\ n - 1 \in 0 .. m - 1
        BY <1>4, <3>3
      <4>2. G[n - 1] = F[n - 1] /\ G[n] = F[n]
        BY <4>1, <2>2
      <4> QED BY <2>1, <3>3, <4>1, <4>2
    <3> QED BY <3>1, <3>2, <3>3
  <2> QED BY <2>4
<1>7. G = [n \in 0 .. m |-> G[n]]
  OBVIOUS
<1> HIDE DEF G
<1>8. Collects(G, packets, c, m)
  BY <1>6, <1>7 DEF Collects
<1> QED BY <1>8
Stamps(S) == [cycle : Nat, packet : S]

Distinct(s) == \A i, j \in DOMAIN s : s[i] = s[j] => i = j

DistinctPackets(s) == \A i, j \in DOMAIN s : s[i].packet = s[j].packet => i = j

\* q holds the packets with stamp c among the first n.
Gathered(q, packets, c, n) ==
    /\ Len(q) <= n
    /\ \A j \in DOMAIN q : \E k \in 1 .. n : packets[k].cycle = c /\ packets[k].packet = q[j]
    /\ \A k \in 1 .. n : packets[k].cycle = c => \E j \in DOMAIN q : q[j] = packets[k].packet
    /\ DistinctPackets(packets) => Distinct(q)

\* One packet more (one turn of the loop).
LEMMA GatherOne ==
    ASSUME NEW S, NEW packets \in Seq(Stamps(S)), NEW c, NEW n \in 1 .. Len(packets),
           NEW q \in Seq(S), Gathered(q, packets, c, n - 1),
           NEW r, r = IF packets[n].cycle = c THEN Append(q, packets[n].packet) ELSE q
    PROVE  r \in Seq(S) /\ Gathered(r, packets, c, n)
<1>1. packets[n] \in Stamps(S) /\ packets[n].packet \in S /\ n \in DOMAIN packets
      /\ n \in Nat /\ Len(packets) \in Nat /\ \A k \in 1 .. n : k \in DOMAIN packets
  <2>1. DOMAIN packets = 1 .. Len(packets) /\ Len(packets) \in Nat
        /\ packets[n] \in Stamps(S)
    BY LenProperties, ElementOfSeq
  <2>2. packets[n].packet \in S
    BY <2>1 DEF Stamps
  <2> QED BY <2>1, <2>2
<1>2. Len(q) \in Nat /\ DOMAIN q = 1 .. Len(q)
  BY LenProperties
<1>3. CASE packets[n].cycle # c
  <2>1. r = q
    BY <1>3
  <2>2. \A k \in 1 .. n - 1 : k \in 1 .. n
    BY <1>1
  <2>3. \A k \in 1 .. n : k = n \/ k \in 1 .. n - 1
    BY <1>1
  <2>4. Len(q) <= n
    BY <1>1, <1>2 DEF Gathered
  <2>5. Gathered(q, packets, c, n)
    BY <1>3, <2>2, <2>3, <2>4 DEF Gathered
  <2> QED BY <2>1, <2>5
<1>4. CASE packets[n].cycle = c
  <2> DEFINE e == packets[n].packet
  <2>1. /\ r \in Seq(S) /\ Len(r) = Len(q) + 1 /\ r[Len(q) + 1] = e
        /\ \A i \in 1 .. Len(q) : r[i] = q[i]
    BY <1>1, <1>4, AppendProperties
  <2>2. DOMAIN r = 1 .. Len(q) + 1
    BY <2>1, LenProperties
  <2>3. \A j \in DOMAIN r : j = Len(q) + 1 \/ (j \in DOMAIN q /\ r[j] = q[j])
    BY <1>2, <2>1, <2>2
  <2>4. Len(q) + 1 \in DOMAIN r /\ \A j \in DOMAIN q : j \in DOMAIN r /\ r[j] = q[j]
    BY <1>2, <2>1, <2>2
  <2>5. \A k \in 1 .. n : k = n \/ k \in 1 .. n - 1
    BY <1>1
  <2>6. \A k \in 1 .. n - 1 : k \in 1 .. n /\ k # n
    BY <1>1
  <2>7. n \in 1 .. n
    BY <1>1
  <2> HIDE DEF e
  <2>8. Len(r) <= n
    BY <1>1, <1>2, <2>1 DEF Gathered
  <2>9. ASSUME NEW j \in DOMAIN r
        PROVE  \E k \in 1 .. n : packets[k].cycle = c /\ packets[k].packet = r[j]
    <3>1. CASE j = Len(q) + 1
      BY <1>4, <2>1, <2>7, <3>1 DEF e
    <3>2. CASE j \in DOMAIN q /\ r[j] = q[j]
      BY <2>6, <3>2 DEF Gathered
    <3> QED BY <2>3, <3>1, <3>2
  <2>10. ASSUME NEW k \in 1 .. n, packets[k].cycle = c
         PROVE  \E j \in DOMAIN r : r[j] = packets[k].packet
    <3>1. CASE k = n
      BY <2>1, <2>4, <3>1 DEF e
    <3>2. CASE k \in 1 .. n - 1
      <4>1. PICK j \in DOMAIN q : q[j] = packets[k].packet
        BY <2>10, <3>2 DEF Gathered
      <4> QED BY <2>4, <4>1
    <3> QED BY <2>5, <3>1, <3>2
  <2>11. ASSUME DistinctPackets(packets)
         PROVE  Distinct(r)
    <3>1. \A j \in DOMAIN q : q[j] # e
      <4>1. SUFFICES ASSUME NEW j \in DOMAIN q, q[j] = e PROVE FALSE
        OBVIOUS
      <4>2. PICK k \in 1 .. n - 1 : packets[k].packet = e
        BY <4>1 DEF Gathered
      <4>3. k = n
        BY <1>1, <2>6, <2>11, <4>2 DEF DistinctPackets, e
      <4> QED BY <2>6, <4>3
    <3>2. Distinct(q)
      BY <2>11 DEF Gathered
    <3>3. ASSUME NEW i \in DOMAIN r, NEW j \in DOMAIN r, r[i] = r[j]
          PROVE  i = j
      <4>1. CASE i \in DOMAIN q /\ j \in DOMAIN q
        BY <2>4, <3>2, <3>3, <4>1 DEF Distinct
      <4>2. CASE i \notin DOMAIN q /\ j \notin DOMAIN q
        BY <2>3, <4>2
      <4>3. CASE i \in DOMAIN q /\ j \notin DOMAIN q
        BY <2>1, <2>3, <2>4, <3>1, <3>3, <4>3
      <4>4. CASE i \notin DOMAIN q /\ j \in DOMAIN q
        BY <2>1, <2>3, <2>4, <3>1, <3>3, <4>4
      <4> QED BY <4>1, <4>2, <4>3, <4>4
    <3> QED BY <3>3 DEF Distinct
  <2> QED BY <2>1, <2>8, <2>9, <2>10, <2>11 DEF Gathered
<1> QED BY <1>3, <1>4

\* StampedFor collects exactly the packets of its cycle, each once (the channel
\* and the per-cycle cache of a port keep what is sent).
LEMMA StampedForProps ==
    ASSUME NEW S, NEW packets \in Seq(Stamps(S)), NEW c
    PROVE  /\ StampedFor(packets, c) \in Seq(S)
           /\ Gathered(StampedFor(packets, c), packets, c, Len(packets))
<1> DEFINE N == Len(packets)
<1>1. N \in Nat
  BY LenProperties
<1>2. \E first : Collects(first, packets, c, N)
  BY <1>1, CollectsExists
<1> DEFINE F == CHOOSE first : first = [n \in 0 .. N |->
                   IF n = 0 THEN <<>>
                   ELSE IF packets[n].cycle = c THEN Append(first[n - 1], packets[n].packet)
                   ELSE first[n - 1]]
<1>3. StampedFor(packets, c) = F[N]
  BY DEF StampedFor
<1>4. Collects(F, packets, c, N)
  BY <1>2 DEF Collects
<1> HIDE DEF F
<1>5. \A n \in 0 .. N : F[n] = IF n = 0 THEN <<>>
            ELSE IF packets[n].cycle = c THEN Append(F[n - 1], packets[n].packet)
            ELSE F[n - 1]
  BY <1>4 DEF Collects
<1> DEFINE Bad == {n \in Nat : n <= N /\ ~(F[n] \in Seq(S) /\ Gathered(F[n], packets, c, n))}
<1>6. Bad = {}
  <2>1. SUFFICES ASSUME Bad # {} PROVE FALSE
    OBVIOUS
  <2>2. PICK n \in Bad : \A y \in Bad : n <= y
    BY <2>1, LeastNumber
  <2>3. n # 0
    <3>1. SUFFICES ASSUME n = 0 PROVE F[n] \in Seq(S) /\ Gathered(F[n], packets, c, n)
      OBVIOUS
    <3>2. F[n] = <<>> /\ <<>> \in Seq(S) /\ Len(<<>>) = 0 /\ DOMAIN <<>> = {}
      BY <1>1, <1>5, <3>1, EmptySeq
    <3>3. 1 .. n = {}
      BY <3>1
    <3> QED BY <3>1, <3>2, <3>3 DEF Gathered, Distinct
  <2>4. n - 1 \in Nat /\ n - 1 <= N /\ n - 1 \notin Bad /\ n \in 1 .. N
    BY <1>1, <2>2, <2>3
  <2>5. F[n - 1] \in Seq(S) /\ Gathered(F[n - 1], packets, c, n - 1)
    BY <2>4
  <2>6. F[n] = IF packets[n].cycle = c THEN Append(F[n - 1], packets[n].packet)
               ELSE F[n - 1]
    BY <1>5, <2>3, <2>4
  <2>7. F[n] \in Seq(S) /\ Gathered(F[n], packets, c, n)
    BY <2>4, <2>5, <2>6, GatherOne
  <2> QED BY <2>7
<1> QED BY <1>1, <1>3, <1>6
-----------------------------------------------------------------------------
(* The handlers of a link.                                                 *)

BufferedState(S) ==
    [slots : [0 .. Latency - 1 -> Seq(Stamps(S))], totalBackpressure : Nat,
     pendingPackets : Seq(S)]

BufferlessState(S) == [pending : Seq(S)]

\* Packets are stamped one by one (PacketWithCycle).
LEMMA StampedProps ==
    ASSUME NEW S, NEW q \in Seq(S), NEW c \in Nat
    PROVE  /\ Stamped(c, q) \in Seq(Stamps(S)) /\ Len(Stamped(c, q)) = Len(q)
           /\ DOMAIN Stamped(c, q) = DOMAIN q
           /\ \A i \in DOMAIN q : Stamped(c, q)[i] = [cycle |-> c, packet |-> q[i]]
<1>1. DOMAIN q = 1 .. Len(q) /\ Len(q) \in Nat /\ \A i \in DOMAIN q : q[i] \in S
  BY LenProperties, ElementOfSeq
<1>2. \A i \in DOMAIN q : [cycle |-> c, packet |-> q[i]] \in Stamps(S)
  BY <1>1 DEF Stamps
<1> DEFINE t == Stamped(c, q)
<1>3. t = [i \in 1 .. Len(q) |-> [cycle |-> c, packet |-> q[i]]]
  BY <1>1 DEF Stamped
<1>4. t \in [1 .. Len(q) -> Stamps(S)]
  BY <1>1, <1>2, <1>3
<1> HIDE DEF t
<1>5. t \in Seq(Stamps(S))
  BY <1>1, <1>4, SeqDef
<1>6. DOMAIN t = 1 .. Len(q) /\ Len(t) = Len(q)
  BY <1>1, <1>4, <1>5, LenProperties
<1>7. \A i \in DOMAIN q : t[i] = [cycle |-> c, packet |-> q[i]]
  BY <1>1, <1>3
<1> QED BY <1>1, <1>5, <1>6, <1>7 DEF t

\* A sequence is cut in two (the sends from the head of a list).
LEMMA CutProps ==
    ASSUME NEW S, NEW q \in Seq(S), NEW n \in 0 .. Len(q)
    PROVE  /\ SubSeq(q, 1, n) \in Seq(S) /\ Len(SubSeq(q, 1, n)) = n
           /\ DOMAIN SubSeq(q, 1, n) = 1 .. n
           /\ \A i \in 1 .. n : i \in DOMAIN q /\ SubSeq(q, 1, n)[i] = q[i]
           /\ SubSeq(q, n + 1, Len(q)) \in Seq(S)
           /\ Len(SubSeq(q, n + 1, Len(q))) = Len(q) - n
           /\ DOMAIN SubSeq(q, n + 1, Len(q)) = 1 .. Len(q) - n
           /\ \A i \in 1 .. Len(q) - n :
                 n + i \in DOMAIN q /\ SubSeq(q, n + 1, Len(q))[i] = q[n + i]
<1>1. DOMAIN q = 1 .. Len(q) /\ Len(q) \in Nat /\ \A i \in 1 .. Len(q) : q[i] \in S
  BY LenProperties, ElementOfSeq
<1>2. n \in Nat /\ n <= Len(q)
  BY <1>1
<1>3. /\ SubSeq(q, 1, n) \in Seq(S)
      /\ Len(SubSeq(q, 1, n)) = IF 1 <= n THEN n - 1 + 1 ELSE 0
      /\ \A i \in 1 .. n - 1 + 1 : SubSeq(q, 1, n)[i] = q[1 + i - 1]
  <2>1. \A i \in 1 .. n : q[i] \in S
    BY <1>1, <1>2
  <2> QED BY <1>2, <2>1, SubSeqProperties
<1>4. /\ SubSeq(q, n + 1, Len(q)) \in Seq(S)
      /\ Len(SubSeq(q, n + 1, Len(q))) = IF n + 1 <= Len(q) THEN Len(q) - (n + 1) + 1 ELSE 0
      /\ \A i \in 1 .. Len(q) - (n + 1) + 1 :
            SubSeq(q, n + 1, Len(q))[i] = q[n + 1 + i - 1]
  <2>1. \A i \in n + 1 .. Len(q) : q[i] \in S
    BY <1>1, <1>2
  <2>2. n + 1 \in Int /\ Len(q) \in Int
    BY <1>1, <1>2
  <2> QED BY <2>1, <2>2, SubSeqProperties
<1>5. Len(SubSeq(q, 1, n)) = n /\ \A i \in 1 .. n : SubSeq(q, 1, n)[i] = q[i]
  <2>1. n - 1 + 1 = n /\ \A i \in 1 .. n : 1 + i - 1 = i
    BY <1>2
  <2> QED BY <1>2, <1>3, <2>1
<1>6. /\ Len(SubSeq(q, n + 1, Len(q))) = Len(q) - n
      /\ \A i \in 1 .. Len(q) - n : SubSeq(q, n + 1, Len(q))[i] = q[n + i]
  <2> DEFINE t == SubSeq(q, n + 1, Len(q))
             N == Len(q)
  <2>1. /\ N \in Nat /\ n \in Nat /\ n <= N
        /\ Len(t) = IF n + 1 <= N THEN N - (n + 1) + 1 ELSE 0
        /\ \A i \in 1 .. N - (n + 1) + 1 : t[i] = q[n + 1 + i - 1]
    BY <1>1, <1>2, <1>4
  <2> HIDE DEF t, N
  <2>2. Len(t) = N - n
    BY <2>1
  <2>3. ASSUME NEW i \in 1 .. N - n
        PROVE  t[i] = q[n + i]
    <3>1. i \in 1 .. N - (n + 1) + 1 /\ n + 1 + i - 1 = n + i
      BY <2>1
    <3> QED BY <2>1, <3>1
  <2> QED BY <2>2, <2>3 DEF t, N
<1>7. /\ DOMAIN SubSeq(q, 1, n) = 1 .. n
      /\ DOMAIN SubSeq(q, n + 1, Len(q)) = 1 .. Len(q) - n
  BY <1>3, <1>4, <1>5, <1>6, LenProperties
<1>8. /\ \A i \in 1 .. n : i \in DOMAIN q
      /\ \A i \in 1 .. Len(q) - n : n + i \in DOMAIN q
  BY <1>1, <1>2
<1> QED BY <1>3, <1>4, <1>5, <1>6, <1>7, <1>8

\* Two lists are put together (append of slices).
LEMMA JoinProps ==
    ASSUME NEW S, NEW q \in Seq(S), NEW r \in Seq(S)
    PROVE  /\ q \o r \in Seq(S) /\ Len(q \o r) = Len(q) + Len(r)
           /\ \A i \in DOMAIN q : i \in DOMAIN (q \o r) /\ (q \o r)[i] = q[i]
           /\ \A i \in DOMAIN r : Len(q) + i \in DOMAIN (q \o r)
                                  /\ (q \o r)[Len(q) + i] = r[i]
           /\ \A i \in DOMAIN (q \o r) :
                 \/ i \in DOMAIN q /\ (q \o r)[i] = q[i]
                 \/ i - Len(q) \in DOMAIN r /\ (q \o r)[i] = r[i - Len(q)]
<1> DEFINE t == q \o r
<1>1. /\ t \in Seq(S) /\ Len(t) = Len(q) + Len(r)
      /\ \A i \in 1 .. Len(q) + Len(r) : t[i] = IF i <= Len(q) THEN q[i] ELSE r[i - Len(q)]
  BY ConcatProperties
<1>2. /\ DOMAIN q = 1 .. Len(q) /\ Len(q) \in Nat /\ DOMAIN r = 1 .. Len(r) /\ Len(r) \in Nat
  BY LenProperties
<1> HIDE DEF t
<1>3. DOMAIN t = 1 .. Len(q) + Len(r)
  BY <1>1, LenProperties
<1>4. \A i \in DOMAIN q : i \in DOMAIN t /\ t[i] = q[i]
  BY <1>1, <1>2, <1>3
<1>5. \A i \in DOMAIN r : Len(q) + i \in DOMAIN t /\ t[Len(q) + i] = r[i]
  BY <1>1, <1>2, <1>3
<1>6. \A i \in DOMAIN t : \/ i \in DOMAIN q /\ t[i] = q[i]
                          \/ i - Len(q) \in DOMAIN r /\ t[i] = r[i - Len(q)]
  BY <1>1, <1>2, <1>3
<1> QED BY <1>1, <1>4, <1>5, <1>6 DEF t
Bounded(h) == \A i \in 0 .. Latency - 1 : Len(h.slots[i]) <= Bandwidth

\* What waits for room in the slot of the cycle, how much of it enters, and
\* the slot that it makes.
Waits(h, incoming) == h.pendingPackets \o incoming

Enters(h, c, incoming) ==
    Smaller(Bandwidth - Len(h.slots[SlotIndex(h, c)]), Len(Waits(h, incoming)))

Filled(h, c, incoming) ==
    h.slots[SlotIndex(h, c)]
        \o Stamped(c, SubSeq(Waits(h, incoming), 1, Enters(h, c, incoming)))

\* The index of the slot of a cycle is one of the slots, however large the
\* backpressure has become (calculateSlotIndex).
LEMMA SlotIndexType ==
    ASSUME NEW h, h.totalBackpressure \in Nat, NEW c \in Nat
    PROVE  SlotIndex(h, c) \in 0 .. Latency - 1
<1>1. c - h.totalBackpressure \in Int /\ Latency \in Nat \ {0}
  BY LinkAssumption
<1> DEFINE d == c - h.totalBackpressure
<1> HIDE DEF d
<1>2. d % Latency \in 0 .. Latency - 1
  BY <1>1 DEF d
<1> QED BY <1>2 DEF SlotIndex, d

\* Filling moves the head of the waiting packets to the slot of the cycle, as
\* many as there is room for (steps 1 and 2 of Process).
LEMMA FillProps ==
    ASSUME NEW S, NEW h \in BufferedState(S), Bounded(h), NEW c \in Nat,
           NEW incoming \in Seq(S)
    PROVE  /\ SlotIndex(h, c) \in 0 .. Latency - 1
           /\ Waits(h, incoming) \in Seq(S)
           /\ Enters(h, c, incoming) \in 0 .. Len(Waits(h, incoming))
           /\ Filled(h, c, incoming) \in Seq(Stamps(S))
           /\ Len(Filled(h, c, incoming)) <= Bandwidth
           /\ Fill(h, c, incoming) =
                [slots |-> [h.slots EXCEPT ![SlotIndex(h, c)] = Filled(h, c, incoming)],
                 totalBackpressure |-> h.totalBackpressure,
                 pendingPackets |-> SubSeq(Waits(h, incoming), Enters(h, c, incoming) + 1,
                                           Len(Waits(h, incoming)))]
           /\ Fill(h, c, incoming) \in BufferedState(S) /\ Bounded(Fill(h, c, incoming))
<1> DEFINE i == SlotIndex(h, c)
           w == Waits(h, incoming)
           n == Enters(h, c, incoming)
           q == Filled(h, c, incoming)
           p == SubSeq(w, n + 1, Len(w))
           g == Fill(h, c, incoming)
           slots == [h.slots EXCEPT ![i] = q]
<1>1. /\ h.slots \in [0 .. Latency - 1 -> Seq(Stamps(S))]
      /\ h.totalBackpressure \in Nat /\ h.pendingPackets \in Seq(S)
      /\ h = [slots |-> h.slots, totalBackpressure |-> h.totalBackpressure,
              pendingPackets |-> h.pendingPackets]
  BY DEF BufferedState
<1>2. i \in 0 .. Latency - 1
  BY <1>1, SlotIndexType
<1>3. w \in Seq(S)
  BY <1>1, ConcatProperties DEF Waits
<1>4. h.slots[i] \in Seq(Stamps(S)) /\ Len(h.slots[i]) \in Nat
      /\ Len(h.slots[i]) <= Bandwidth /\ Len(w) \in Nat
  BY <1>1, <1>2, <1>3, LenProperties DEF Bounded
<1>5. n \in 0 .. Len(w) /\ n <= Bandwidth - Len(h.slots[i])
  <2> DEFINE room == Bandwidth - Len(h.slots[i])
  <2>1. n = IF room < Len(w) THEN room ELSE Len(w)
    BY DEF Enters, Smaller
  <2>2. room \in Nat
    BY <1>4, LinkAssumption
  <2> HIDE DEF room, w, n, i
  <2>3. n \in 0 .. Len(w) /\ n <= room
    BY <1>4, <2>1, <2>2
  <2> QED BY <2>3 DEF room
<1>6. /\ SubSeq(w, 1, n) \in Seq(S) /\ Len(SubSeq(w, 1, n)) = n /\ p \in Seq(S)
  BY <1>3, <1>5, CutProps
<1>7. Stamped(c, SubSeq(w, 1, n)) \in Seq(Stamps(S))
      /\ Len(Stamped(c, SubSeq(w, 1, n))) = n
  BY <1>6, StampedProps
<1>8. q \in Seq(Stamps(S)) /\ Len(q) = Len(h.slots[i]) + n
  <2>1. q = h.slots[i] \o Stamped(c, SubSeq(w, 1, n))
    BY DEF Filled
  <2> QED BY <1>4, <1>7, <2>1, ConcatProperties
<1>9. Len(q) <= Bandwidth
  BY <1>4, <1>5, <1>8, LinkAssumption
<1>10. g = [slots |-> slots, totalBackpressure |-> h.totalBackpressure, pendingPackets |-> p]
  <2>1. g = [h EXCEPT !.slots = slots, !.pendingPackets = p]
    BY DEF Fill, Waits, Enters, Filled
  <2> HIDE DEF g, slots, p
  <2> QED BY <1>1, <2>1
<1>11. /\ slots \in [0 .. Latency - 1 -> Seq(Stamps(S))]
       /\ \A k \in 0 .. Latency - 1 : slots[k] = IF k = i THEN q ELSE h.slots[k]
  <2> HIDE DEF q, i
  <2> QED BY <1>1, <1>2, <1>8
<1> HIDE DEF g, slots, p, q, n, w, i
<1>12. g \in BufferedState(S)
  <2> DEFINE T == Seq(Stamps(S))
  <2>1. slots \in [0 .. Latency - 1 -> T] /\ h.totalBackpressure \in Nat /\ p \in Seq(S)
    BY <1>1, <1>6, <1>11
  <2>2. BufferedState(S) = [slots : [0 .. Latency - 1 -> T], totalBackpressure : Nat,
                            pendingPackets : Seq(S)]
    BY DEF BufferedState
  <2> HIDE DEF T
  <2> QED BY <1>10, <2>1, <2>2
<1>13. Bounded(g)
  <2>1. ASSUME NEW k \in 0 .. Latency - 1
        PROVE  Len(g.slots[k]) <= Bandwidth
    <3>1. g.slots[k] = IF k = i THEN q ELSE h.slots[k]
      BY <1>10, <1>11
    <3>2. Len(h.slots[k]) <= Bandwidth
      BY DEF Bounded
    <3> QED BY <1>9, <3>1, <3>2
  <2> QED BY <2>1 DEF Bounded
<1>14. g = Fill(h, c, incoming) /\ i = SlotIndex(h, c) /\ w = Waits(h, incoming)
       /\ n = Enters(h, c, incoming) /\ q = Filled(h, c, incoming)
       /\ p = SubSeq(w, n + 1, Len(w)) /\ slots = [h.slots EXCEPT ![i] = q]
  BY DEF g, i, w, n, q, p, slots
<1> QED BY <1>2, <1>3, <1>5, <1>8, <1>9, <1>10, <1>12, <1>13, <1>14

\* A ready downstream takes the whole slot; otherwise it stays and the ring is
\* shifted by one cycle (step 3 of Process).
LEMMA SendProps ==
    ASSUME NEW S, NEW g \in BufferedState(S), Bounded(g), NEW c \in Nat,
           NEW ready \in BOOLEAN
    PROVE  /\ Send(g, c, ready).state \in BufferedState(S)
           /\ Bounded(Send(g, c, ready).state)
           /\ Send(g, c, ready).sent \in Seq(Stamps(S))
           /\ Len(Send(g, c, ready).sent) <= Bandwidth
           /\ Send(g, c, ready) =
                [state |-> [slots |-> IF ready THEN [g.slots EXCEPT ![SlotIndex(g, c)] = <<>>]
                                      ELSE g.slots,
                            totalBackpressure |-> IF ready THEN g.totalBackpressure
                                                  ELSE g.totalBackpressure + 1,
                            pendingPackets |-> g.pendingPackets],
                 sent  |-> IF ready THEN g.slots[SlotIndex(g, c)] ELSE <<>>]
<1> DEFINE i == SlotIndex(g, c)
           r == Send(g, c, ready)
           T == Seq(Stamps(S))
           slots == IF ready THEN [g.slots EXCEPT ![i] = <<>>] ELSE g.slots
           back == IF ready THEN g.totalBackpressure ELSE g.totalBackpressure + 1
           sent == IF ready THEN g.slots[i] ELSE <<>>
           p == g.pendingPackets
<1>1. /\ g.slots \in [0 .. Latency - 1 -> T]
      /\ g.totalBackpressure \in Nat /\ p \in Seq(S)
      /\ g = [slots |-> g.slots, totalBackpressure |-> g.totalBackpressure,
              pendingPackets |-> g.pendingPackets]
  BY DEF BufferedState
<1>2. i \in 0 .. Latency - 1
  BY <1>1, SlotIndexType
<1>3. /\ <<>> \in T /\ Len(<<>>) = 0
      /\ g.slots[i] \in T /\ Len(g.slots[i]) <= Bandwidth /\ 0 <= Bandwidth
  BY <1>1, <1>2, EmptySeq, LinkAssumption DEF Bounded
<1>4. r = [state |-> [slots |-> slots, totalBackpressure |-> back, pendingPackets |-> p],
           sent |-> sent]
  BY <1>1 DEF Send
<1>5. BufferedState(S) = [slots : [0 .. Latency - 1 -> T], totalBackpressure : Nat,
                          pendingPackets : Seq(S)]
  BY DEF BufferedState
<1> HIDE DEF T
<1>6. /\ slots \in [0 .. Latency - 1 -> T] /\ back \in Nat
      /\ \A k \in 0 .. Latency - 1 : slots[k] = g.slots[k] \/ slots[k] = <<>>
  BY <1>1, <1>2, <1>3
<1>7. sent \in T /\ Len(sent) <= Bandwidth
  BY <1>3
<1>8. r = Send(g, c, ready)
  OBVIOUS
<1> HIDE DEF r, slots, back, sent, p
<1>9. r.state \in BufferedState(S) /\ r.sent \in T /\ Len(r.sent) <= Bandwidth
  BY <1>1, <1>4, <1>5, <1>6, <1>7
<1>10. Bounded(r.state)
  <2>1. ASSUME NEW k \in 0 .. Latency - 1
        PROVE  Len(r.state.slots[k]) <= Bandwidth
    <3>1. r.state.slots[k] = g.slots[k] \/ r.state.slots[k] = <<>>
      BY <1>4, <1>6
    <3>2. Len(g.slots[k]) <= Bandwidth
      BY DEF Bounded
    <3> QED BY <1>3, <3>1, <3>2
  <2> QED BY <2>1 DEF Bounded
<1> QED BY <1>4, <1>8, <1>9, <1>10 DEF T, slots, back, sent, p

\* What a bufferless link offers, and how many of it are refused.
Offers(h, incoming) == h.pending \o incoming

Refuses(h, incoming, ready) == IF ready \/ Offers(h, incoming) = <<>> THEN 0 ELSE 1

\* A refusal keeps one packet of a bufferless link, and the others are sent in
\* order (Process of BufferlessLinkType).
LEMMA BufferlessProps ==
    ASSUME NEW S, NEW h \in BufferlessState(S), NEW c \in Nat,
           NEW incoming \in Seq(S), NEW ready \in BOOLEAN
    PROVE  /\ Offers(h, incoming) \in Seq(S)
           /\ Refuses(h, incoming, ready) \in 0 .. Len(Offers(h, incoming))
           /\ BufferlessProcess(h, c, incoming, ready) =
                [state |-> [pending |-> SubSeq(Offers(h, incoming), 1,
                                               Refuses(h, incoming, ready))],
                 sent  |-> Stamped(c, SubSeq(Offers(h, incoming),
                                             Refuses(h, incoming, ready) + 1,
                                             Len(Offers(h, incoming)))),
                 readyNext |-> TRUE]
           /\ BufferlessProcess(h, c, incoming, ready).state \in BufferlessState(S)
           /\ BufferlessProcess(h, c, incoming, ready).sent \in Seq(Stamps(S))
           /\ \A j \in DOMAIN BufferlessProcess(h, c, incoming, ready).sent :
                 BufferlessProcess(h, c, incoming, ready).sent[j].cycle = c
<1> DEFINE w == Offers(h, incoming)
           n == Refuses(h, incoming, ready)
           r == BufferlessProcess(h, c, incoming, ready)
           kept == SubSeq(w, 1, n)
           rest == SubSeq(w, n + 1, Len(w))
           sent == Stamped(c, rest)
<1>1. h.pending \in Seq(S) /\ h = [pending |-> h.pending]
  BY DEF BufferlessState
<1>2. w \in Seq(S)
  BY <1>1, ConcatProperties DEF Offers
<1>3. n \in 0 .. Len(w)
  <2>1. Len(w) \in Nat /\ (w # <<>> => Len(w) \in Nat \ {0})
    BY <1>2, EmptySeq, LenProperties
  <2> QED BY <2>1 DEF Refuses
<1>4. kept \in Seq(S) /\ rest \in Seq(S)
  BY <1>2, <1>3, CutProps
<1>5. r = [state |-> [pending |-> kept], sent |-> sent, readyNext |-> TRUE]
  <2>1. r = [state |-> [h EXCEPT !.pending = kept], sent |-> sent, readyNext |-> TRUE]
    BY DEF BufferlessProcess, Offers, Refuses
  <2> HIDE DEF kept, sent, r
  <2>2. [h EXCEPT !.pending = kept] = [pending |-> kept]
    BY <1>1
  <2> QED BY <2>1, <2>2
<1>6. sent \in Seq(Stamps(S)) /\ \A j \in DOMAIN sent : sent[j].cycle = c
  <2> HIDE DEF rest
  <2>1. /\ sent \in Seq(Stamps(S)) /\ DOMAIN sent = DOMAIN rest
        /\ \A i \in DOMAIN rest : sent[i] = [cycle |-> c, packet |-> rest[i]]
    BY <1>4, StampedProps
  <2> QED BY <2>1
<1>7. r = BufferlessProcess(h, c, incoming, ready) /\ w = Offers(h, incoming)
      /\ n = Refuses(h, incoming, ready) /\ kept = SubSeq(w, 1, n)
      /\ sent = Stamped(c, SubSeq(w, n + 1, Len(w)))
  OBVIOUS
<1> HIDE DEF r, kept, sent, rest, w, n
<1>8. r.state \in BufferlessState(S)
  BY <1>4, <1>5 DEF BufferlessState
<1>9. r.sent \in Seq(Stamps(S)) /\ \A j \in DOMAIN r.sent : r.sent[j].cycle = c
  BY <1>5, <1>6
<1> QED BY <1>2, <1>3, <1>5, <1>7, <1>8, <1>9
-----------------------------------------------------------------------------
(* Ports and the types of the variables.                                   *)

PortState(S) ==
    [done : -1 .. LastCycle, decision : [Horizon -> {"unset", "ready", "notReady"}],
     mail : [Cycles -> Seq(S)]]

\* What UpdateReady makes of the decisions.
DecidedAlso(decision, cycles, ready) ==
    [c \in Horizon |-> IF c \in cycles /\ decision[c] = "unset"
                       THEN IF ready THEN "ready" ELSE "notReady"
                       ELSE decision[c]]

\* What a batch of sends makes of the mail.
MailedAlso(mail, packets) == [c \in Cycles |-> mail[c] \o StampedFor(packets, c)]

\* UpdateReady changes the decisions of a port, and only those.
LEMMA UpdateReadyProps ==
    ASSUME NEW S, NEW p \in PortState(S), NEW cycles, NEW ready \in BOOLEAN
    PROVE  /\ UpdateReady(p, cycles, ready) \in PortState(S)
           /\ UpdateReady(p, cycles, ready) =
                [done |-> p.done, decision |-> DecidedAlso(p.decision, cycles, ready),
                 mail |-> p.mail]
<1> DEFINE D == {"unset", "ready", "notReady"}
           T == Seq(S)
           dec == DecidedAlso(p.decision, cycles, ready)
<1>1. /\ p = [done |-> p.done, decision |-> p.decision, mail |-> p.mail]
      /\ p.done \in -1 .. LastCycle /\ p.decision \in [Horizon -> D]
      /\ p.mail \in [Cycles -> T]
  BY DEF PortState
<1>2. dec \in [Horizon -> D]
  BY <1>1 DEF DecidedAlso
<1>3. UpdateReady(p, cycles, ready) = [p EXCEPT !.decision = dec]
  BY DEF UpdateReady, DecidedAlso, Decided
<1>4. PortState(S) = [done : -1 .. LastCycle, decision : [Horizon -> D], mail : [Cycles -> T]]
  BY DEF PortState
<1> HIDE DEF dec, D, T
<1>5. UpdateReady(p, cycles, ready) = [done |-> p.done, decision |-> dec, mail |-> p.mail]
  BY <1>1, <1>3
<1>6. UpdateReady(p, cycles, ready) \in PortState(S)
  BY <1>1, <1>2, <1>4, <1>5
<1> QED BY <1>5, <1>6 DEF dec

\* An operation of a port changes one part of it (TrySend, MarkDone and Receive of the ahead port).
LEMMA PortProps ==
    ASSUME NEW S, NEW p \in PortState(S),
           NEW packets \in Seq(Stamps(S)), NEW c \in Cycles
    PROVE  /\ SendAll(p, packets) \in PortState(S)
           /\ SendAll(p, packets) =
                [done |-> p.done, decision |-> p.decision,
                 mail |-> MailedAlso(p.mail, packets)]
           /\ MarkDone(p, c) \in PortState(S)
           /\ MarkDone(p, c) = [done |-> c, decision |-> p.decision, mail |-> p.mail]
           /\ Received(p, c) \in PortState(S)
           /\ Received(p, c) = [done |-> p.done, decision |-> p.decision,
                                mail |-> [p.mail EXCEPT ![c] = <<>>]]
<1> DEFINE D == {"unset", "ready", "notReady"}
           T == Seq(S)
           mail == MailedAlso(p.mail, packets)
           rec == [p.mail EXCEPT ![c] = <<>>]
<1>1. /\ p = [done |-> p.done, decision |-> p.decision, mail |-> p.mail]
      /\ p.done \in -1 .. LastCycle /\ p.decision \in [Horizon -> D]
      /\ p.mail \in [Cycles -> T]
  BY DEF PortState
<1>3. mail \in [Cycles -> T]
  <2>1. \A d \in Cycles : p.mail[d] \o StampedFor(packets, d) \in T
    BY <1>1, StampedForProps, ConcatProperties
  <2> QED BY <2>1 DEF MailedAlso
<1>4. rec \in [Cycles -> T]
  BY <1>1, EmptySeq
<1>5. c \in -1 .. LastCycle
  BY FlowPathAssumption DEF Cycles
<1>7. SendAll(p, packets) = [p EXCEPT !.mail = mail]
  BY DEF SendAll, MailedAlso
<1>8. MarkDone(p, c) = [p EXCEPT !.done = c]
  BY DEF MarkDone
<1>9. Received(p, c) = [p EXCEPT !.mail = rec]
  BY <1>1 DEF Received
<1> HIDE DEF mail, rec
<1>10. /\ SendAll(p, packets) = [done |-> p.done, decision |-> p.decision, mail |-> mail]
       /\ MarkDone(p, c) = [done |-> c, decision |-> p.decision, mail |-> p.mail]
       /\ Received(p, c) = [done |-> p.done, decision |-> p.decision, mail |-> rec]
  BY <1>1, <1>7, <1>8, <1>9
<1>11. PortState(S) = [done : -1 .. LastCycle, decision : [Horizon -> D], mail : [Cycles -> T]]
  BY DEF PortState
<1> HIDE DEF D, T
<1>12. /\ SendAll(p, packets) \in PortState(S)
       /\ MarkDone(p, c) \in PortState(S) /\ Received(p, c) \in PortState(S)
  BY <1>1, <1>3, <1>4, <1>5, <1>10, <1>11
<1> QED BY <1>10, <1>12 DEF mail, rec

HandlerOK(h, S) ==
    IF kind = "buffered" THEN h \in BufferedState(S) /\ Bounded(h)
    ELSE h \in BufferlessState(S)

P == 1 .. src.accepted

TypeInv ==
    /\ kind \in {"buffered", "bufferless"}
    /\ inject \in [Cycles -> Nat] /\ drain \in [Cycles -> Nat]
    /\ target \in -1 .. LastCycle
    /\ src \in [cycle : 0 .. LastCycle + 1, phase : {"process", "send"},
                ahead : 0 .. LastCycle + 1, accepted : Nat]
    /\ oq \in Seq(P) /\ Len(oq) <= OutCapacity
    /\ iq \in Seq(P) /\ Len(iq) <= InCapacity
    /\ link = [cycle |-> link.cycle, handler |-> link.handler]
    /\ link.cycle \in 0 .. LastCycle + 1 /\ HandlerOK(link.handler, P)
    /\ sink \in [cycle : 0 .. LastCycle + 1, nextUpdateCycle : Nat]
    /\ A \in PortState(P) /\ B \in PortState(P)
    /\ arrived \in [Cycles -> Seq(P)]
    /\ fault \in {"none", "overflow", "panic"}

Processed(h, c, incoming, ready) ==
    IF kind = "buffered" THEN BufferedProcess(h, c, incoming, ready)
    ELSE BufferlessProcess(h, c, incoming, ready)

\* Either handler keeps the type of its state and no slot holds more than the
\* bandwidth (Process of the two link types).
LEMMA ProcessType ==
    ASSUME NEW S, NEW h, HandlerOK(h, S), NEW c \in Nat, NEW incoming \in Seq(S),
           NEW ready \in BOOLEAN
    PROVE  /\ HandlerOK(Processed(h, c, incoming, ready).state, S)
           /\ Processed(h, c, incoming, ready).sent \in Seq(Stamps(S))
           /\ Processed(h, c, incoming, ready).readyNext \in BOOLEAN
<1>1. CASE kind = "buffered"
  <2> DEFINE g == Fill(h, c, incoming)
             r == Send(g, c, ready)
  <2>1. h \in BufferedState(S) /\ Bounded(h)
    BY <1>1 DEF HandlerOK
  <2>2. g \in BufferedState(S) /\ Bounded(g)
    BY <2>1, FillProps
  <2>3. r.state \in BufferedState(S) /\ Bounded(r.state) /\ r.sent \in Seq(Stamps(S))
    <3> HIDE DEF g
    <3> QED BY <2>2, SendProps
  <2>4. Processed(h, c, incoming, ready) =
          [state |-> r.state, sent |-> r.sent, readyNext |-> CheckSpace(r.state, c + 1)]
    BY <1>1 DEF Processed, BufferedProcess
  <2>5. CheckSpace(r.state, c + 1) \in BOOLEAN
    BY DEF CheckSpace
  <2> HIDE DEF r
  <2> QED BY <1>1, <2>3, <2>4, <2>5 DEF HandlerOK
<1>2. CASE kind # "buffered"
  <2> DEFINE r == BufferlessProcess(h, c, incoming, ready)
  <2>1. h \in BufferlessState(S)
    BY <1>2 DEF HandlerOK
  <2>2. r.state \in BufferlessState(S) /\ r.sent \in Seq(Stamps(S)) /\ r.readyNext = TRUE
    BY <2>1, BufferlessProps DEF BufferlessProcess
  <2>3. Processed(h, c, incoming, ready) = r
    BY <1>2 DEF Processed
  <2> HIDE DEF r
  <2> QED BY <1>2, <2>2, <2>3 DEF HandlerOK
<1> QED BY <1>1, <1>2

\* Packets accepted later do not change the types of those before.
LEMMA TypesGrow ==
    ASSUME NEW S, NEW T, S \subseteq T
    PROVE  /\ \A q \in Seq(S) : q \in Seq(T)
           /\ \A p \in PortState(S) : p \in PortState(T)
           /\ \A h : HandlerOK(h, S) => HandlerOK(h, T)
<1>1. \A q \in Seq(S) : q \in Seq(T)
  BY SeqMonotonic
<1>2. ASSUME NEW p \in PortState(S) PROVE p \in PortState(T)
  <2> DEFINE D == {"unset", "ready", "notReady"}
             U == Seq(S)
             V == Seq(T)
  <2>1. p \in [done : -1 .. LastCycle, decision : [Horizon -> D], mail : [Cycles -> U]]
    BY DEF PortState
  <2>2. \A q \in U : q \in V
    BY <1>1
  <2> HIDE DEF D, U, V
  <2>3. p \in [done : -1 .. LastCycle, decision : [Horizon -> D], mail : [Cycles -> V]]
    BY <2>1, <2>2
  <2> QED BY <2>3 DEF PortState, D, V
<1>3. ASSUME NEW h, HandlerOK(h, S) PROVE HandlerOK(h, T)
  <2>1. CASE kind = "buffered"
    <3> DEFINE U == Seq(Stamps(S))
               V == Seq(Stamps(T))
               X == Seq(S)
               Y == Seq(T)
    <3>1. Stamps(S) \subseteq Stamps(T)
      BY DEF Stamps
    <3>2. \A q \in U : q \in V
      BY <3>1, SeqMonotonic
    <3>3. \A q \in X : q \in Y
      BY <1>1
    <3>4. h \in [slots : [0 .. Latency - 1 -> U], totalBackpressure : Nat, pendingPackets : X]
          /\ Bounded(h)
      BY <1>3, <2>1 DEF HandlerOK, BufferedState
    <3> HIDE DEF U, V, X, Y
    <3>5. h \in [slots : [0 .. Latency - 1 -> V], totalBackpressure : Nat, pendingPackets : Y]
      BY <3>2, <3>3, <3>4
    <3> QED BY <2>1, <3>4, <3>5 DEF HandlerOK, BufferedState, V, Y
  <2>2. CASE kind # "buffered"
    <3>1. h \in BufferlessState(S)
      BY <1>3, <2>2 DEF HandlerOK
    <3>2. h \in BufferlessState(T)
      BY <1>1, <3>1 DEF BufferlessState
    <3> QED BY <2>2, <3>2 DEF HandlerOK
  <2> QED BY <2>1, <2>2
<1> QED BY <1>1, <1>2, <1>3

\* The outcome of the cycle of the link.
Outcome == Processed(link.handler, link.cycle, Incoming(link.cycle), IsReady(B, link.cycle))

\* The mail of the first port without what the link takes in its cycle.
Taken == IF link.cycle < Latency THEN A.mail
         ELSE [A.mail EXCEPT ![link.cycle - Latency] = <<>>]

\* A step of the link in terms of the parts it changes (Tick of the link).
LEMMA LinkStep ==
    ASSUME TypeInv, LinkTick
    PROVE  /\ link.cycle \in Cycles /\ link.cycle <= target /\ fault # "panic"
           /\ link.cycle >= Latency => /\ link.cycle - Latency \in Cycles
                                       /\ Closed(A, link.cycle - Latency)
           /\ Asks(link.cycle) => Decided(B, link.cycle)
           /\ Incoming(link.cycle) \in Seq(P)
           /\ HandlerOK(Outcome.state, P) /\ Outcome.sent \in Seq(Stamps(P))
           /\ Outcome.readyNext \in BOOLEAN
           /\ link' = [cycle |-> link.cycle + 1, handler |-> Outcome.state]
           /\ A' = [done |-> A.done,
                    decision |-> DecidedAlso(A.decision, {link.cycle + 1}, Outcome.readyNext),
                    mail |-> Taken]
           /\ A' \in PortState(P)
           /\ B' = [done |-> link.cycle, decision |-> B.decision,
                    mail |-> MailedAlso(B.mail, Outcome.sent)]
           /\ B' \in PortState(P)
           /\ fault' = IF Contradicts(A, {link.cycle + 1}, Outcome.readyNext) THEN "panic"
                       ELSE fault
           /\ UNCHANGED <<kind, inject, drain, target, src, oq, sink, iq, arrived>>
<1> DEFINE c == link.cycle
           up == IF c < Latency THEN A ELSE Received(A, c - Latency)
<1>1. c \in Nat /\ c <= target /\ target <= LastCycle /\ target \in Int
      /\ LastCycle \in Nat /\ Latency \in Nat
  BY FlowPathAssumption, LinkAssumption DEF TypeInv, LinkTick
<1>2. c \in Cycles /\ (c >= Latency => c - Latency \in Cycles)
  BY <1>1 DEF Cycles
<1>3. A \in PortState(P) /\ B \in PortState(P) /\ HandlerOK(link.handler, P)
  BY DEF TypeInv
<1>4. Incoming(c) \in Seq(P)
  <2>1. CASE c < Latency
    BY <2>1, EmptySeq DEF Incoming
  <2>2. CASE ~(c < Latency)
    <3>1. A.mail \in [Cycles -> Seq(P)] /\ c - Latency \in Cycles
      BY <1>1, <1>2, <1>3, <2>2 DEF PortState
    <3> QED BY <2>2, <3>1 DEF Incoming
  <2> QED BY <2>1, <2>2
<1>5. HandlerOK(Outcome.state, P) /\ Outcome.sent \in Seq(Stamps(P))
      /\ Outcome.readyNext \in BOOLEAN
  <2>1. IsReady(B, c) \in BOOLEAN
    BY DEF IsReady
  <2> QED BY <1>1, <1>3, <1>4, <2>1, ProcessType DEF Outcome
<1>6. up \in PortState(P)
      /\ up = [done |-> A.done, decision |-> A.decision, mail |-> Taken]
  <2>1. CASE c < Latency
    <3>1. A = [done |-> A.done, decision |-> A.decision, mail |-> A.mail]
      BY <1>3 DEF PortState
    <3> QED BY <1>3, <2>1, <3>1 DEF Taken
  <2>2. CASE ~(c < Latency)
    <3>1. c - Latency \in Cycles
      BY <1>1, <1>2, <2>2
    <3>2. /\ Received(A, c - Latency) \in PortState(P)
          /\ Received(A, c - Latency) = [done |-> A.done, decision |-> A.decision,
                                         mail |-> [A.mail EXCEPT ![c - Latency] = <<>>]]
      BY <1>3, <1>5, <3>1, PortProps
    <3> QED BY <2>2, <3>2 DEF Taken
  <2> QED BY <2>1, <2>2
<1>7. /\ A' = UpdateReady(up, {c + 1}, Outcome.readyNext)
      /\ B' = MarkDone(SendAll(B, Outcome.sent), c)
      /\ link' = [cycle |-> c + 1, handler |-> Outcome.state]
      /\ fault' = IF Contradicts(A, {c + 1}, Outcome.readyNext) THEN "panic" ELSE fault
  BY DEF LinkTick, Outcome, Processed
<1> HIDE DEF up
<1>8. /\ A' \in PortState(P)
      /\ A' = [done |-> up.done, decision |-> DecidedAlso(up.decision, {c + 1}, Outcome.readyNext),
               mail |-> up.mail]
  <2> DEFINE cs == {c + 1}
             b == Outcome.readyNext
  <2>1. b \in BOOLEAN /\ A' = UpdateReady(up, cs, b) /\ c \in Cycles
    BY <1>2, <1>5, <1>7
  <2>2. up \in PortState(P) /\ Outcome.sent \in Seq(Stamps(P))
    BY <1>5, <1>6
  <2> HIDE DEF cs, b, c
  <2>3. /\ UpdateReady(up, cs, b) \in PortState(P)
        /\ UpdateReady(up, cs, b) = [done |-> up.done,
                                     decision |-> DecidedAlso(up.decision, cs, b),
                                     mail |-> up.mail]
    BY <2>1, <2>2, UpdateReadyProps
  <2>4. cs = {c + 1} /\ b = Outcome.readyNext
    BY DEF cs, b
  <2> QED BY <2>1, <2>3, <2>4
<1>9. A' = [done |-> A.done, decision |-> DecidedAlso(A.decision, {c + 1}, Outcome.readyNext),
            mail |-> Taken]
  BY <1>6, <1>8
<1> DEFINE s == SendAll(B, Outcome.sent)
<1>10. s \in PortState(P) /\ s = [done |-> B.done, decision |-> B.decision,
                                  mail |-> MailedAlso(B.mail, Outcome.sent)]
  BY <1>2, <1>3, <1>5, PortProps
<1>11. B' = MarkDone(s, c)
  BY <1>7
<1> HIDE DEF s
<1>12. B' \in PortState(P) /\ B' = [done |-> c, decision |-> s.decision, mail |-> s.mail]
  BY <1>2, <1>5, <1>10, <1>11, PortProps
<1>13. B' = [done |-> c, decision |-> B.decision, mail |-> MailedAlso(B.mail, Outcome.sent)]
  BY <1>10, <1>12
<1>14. /\ fault # "panic" /\ (c >= Latency => Closed(A, c - Latency))
       /\ (Asks(c) => Decided(B, c))
       /\ UNCHANGED <<kind, inject, drain, target, src, oq, sink, iq, arrived>>
  BY DEF LinkTick
<1> QED BY <1>1, <1>2, <1>4, <1>5, <1>7, <1>8, <1>9, <1>12, <1>13, <1>14

\* What fits is stored in order (Tick of the input queue).
LEMMA StoreProps ==
    ASSUME NEW S, NEW q \in Seq(S), Len(q) <= InCapacity, NEW r \in Seq(S)
    PROVE  /\ Store(q, r) \in Seq(S) /\ Len(Store(q, r)) <= InCapacity
           /\ Len(q) <= Len(Store(q, r)) /\ Len(Store(q, r)) <= Len(q) + Len(r)
           /\ ~Overflows(q, r) => Store(q, r) = q \o r
<1> DEFINE n == Least(Len(r), InCapacity - Len(q))
<1>1. Len(q) \in Nat /\ Len(r) \in Nat /\ InCapacity \in Nat
  BY LenProperties, QueuesAssumption
<1>2. n \in 0 .. Len(r) /\ n <= InCapacity - Len(q)
      /\ (~Overflows(q, r) => n = Len(r))
  BY <1>1 DEF Least, Overflows
<1>3. Store(q, r) = q \o SubSeq(r, 1, n)
  BY DEF Store
<1> HIDE DEF n
<1>4. SubSeq(r, 1, n) \in Seq(S) /\ Len(SubSeq(r, 1, n)) = n
      /\ \A i \in 1 .. n : SubSeq(r, 1, n)[i] = r[i]
  BY <1>2, CutProps
<1>5. Store(q, r) \in Seq(S) /\ Len(Store(q, r)) = Len(q) + n
  BY <1>3, <1>4, ConcatProperties
<1>6. n = Len(r) => SubSeq(r, 1, n) = r
  BY <1>4, SeqEqual
<1>7. ~Overflows(q, r) => Store(q, r) = q \o r
  BY <1>2, <1>3, <1>6
<1>8. Len(q) + n <= InCapacity /\ Len(q) <= Len(q) + n /\ Len(q) + n <= Len(q) + Len(r)
  BY <1>1, <1>2
<1> QED BY <1>5, <1>7, <1>8

\* Division by the bandwidth of the queue.
LEMMA DivBasic ==
    ASSUME NEW a \in Nat, NEW b \in Nat \ {0}
    PROVE  a \div b \in Nat /\ b * (a \div b) <= a /\ a < b * ((a \div b) + 1)
OBVIOUS

\* The product with a bandwidth is no less than the factor.
LEMMA MulUp ==
    ASSUME NEW b \in Nat \ {0}, NEW x \in Nat
    PROVE  b * x \in Nat /\ x <= b * x
<1>1. b * x = (b - 1) * x + x
  OBVIOUS
<1>2. b - 1 \in Nat
  OBVIOUS
<1>3. (b - 1) * x \in Nat
  BY <1>2
<1> QED BY <1>1, <1>3

\* The number of cycles a queue can take a burst is a number, and it reaches no
\* further than the queue has room (remainReadyCycle).
LEMMA RemainType ==
    ASSUME NEW S, NEW q \in Seq(S), Len(q) <= InCapacity
    PROVE  RemainReadyCycle(q) \in Nat /\ RemainReadyCycle(q) <= InCapacity
<1>1. /\ InCapacity - Len(q) \in Nat /\ InBandwidth \in Nat \ {0} /\ InCapacity \in Nat
      /\ Len(q) \in Nat
  BY LenProperties, QueuesAssumption
<1> DEFINE a == InCapacity - Len(q)
           x == a \div InBandwidth
<1>2. x \in Nat /\ InBandwidth * x <= a
  BY <1>1, DivBasic
<1>3. RemainReadyCycle(q) = x
  BY DEF RemainReadyCycle
<1>4. a <= InCapacity
  BY <1>1
<1> HIDE DEF a, x
<1>5. x <= InBandwidth * x /\ InBandwidth * x \in Nat
  BY <1>1, <1>2, MulUp
<1>6. a \in Nat
  BY <1>1 DEF a
<1> QED BY <1>1, <1>2, <1>3, <1>4, <1>5, <1>6

\* What the sink holds after its Tick, before its handler frees some.
Stored == Store(iq, B.mail[sink.cycle])

Freed == Least(drain[sink.cycle], Len(Stored))

Decl == Declared(Stored, sink.cycle, sink.nextUpdateCycle)

Blank(mail, c) == [mail EXCEPT ![c] = <<>>]

\* A step of the sink in terms of the parts it changes (Tick of the input queue
\* and the handler of the node).
LEMMA SinkStep ==
    ASSUME TypeInv, SinkTick
    PROVE  /\ sink.cycle \in Cycles /\ sink.cycle <= target /\ fault = "none"
           /\ Closed(B, sink.cycle)
           /\ B.mail[sink.cycle] \in Seq(P)
           /\ Stored \in Seq(P) /\ Len(Stored) <= InCapacity
           /\ Freed \in 0 .. Len(Stored) /\ Decl.ready \in BOOLEAN
           /\ arrived' = [arrived EXCEPT ![sink.cycle] = B.mail[sink.cycle]]
           /\ B' \in PortState(P) /\ B'.done = B.done
           /\ B'.mail = Blank(B.mail, sink.cycle)
           /\ UNCHANGED <<kind, inject, drain, target, src, oq, link, A>>
           /\ \/ /\ Overflows(iq, B.mail[sink.cycle])
                 /\ fault' = "overflow" /\ iq' = Stored /\ sink' = sink
                 /\ B'.decision = B.decision
              \/ /\ ~Overflows(iq, B.mail[sink.cycle])
                 /\ fault' = IF Contradicts(B, Decl.cycles, Decl.ready) THEN "panic" ELSE "none"
                 /\ iq' = SubSeq(Stored, Freed + 1, Len(Stored))
                 /\ B'.decision = DecidedAlso(B.decision, Decl.cycles, Decl.ready)
                 /\ sink' = [cycle |-> sink.cycle + 1,
                             nextUpdateCycle |->
                                NextUpdateCycle(Stored, sink.cycle, sink.nextUpdateCycle)]
                 /\ sink'.nextUpdateCycle \in Nat
<1> DEFINE c == sink.cycle
           r == Received(B, c)
<1>1. c \in Nat /\ c <= target /\ target <= LastCycle /\ target \in Int
      /\ LastCycle \in Nat /\ sink.nextUpdateCycle \in Nat
  BY FlowPathAssumption DEF TypeInv, SinkTick
<1>2. c \in Cycles
  BY <1>1 DEF Cycles
<1>3. B \in PortState(P) /\ iq \in Seq(P) /\ Len(iq) <= InCapacity /\ drain[c] \in Nat
  BY <1>2 DEF TypeInv
<1>4. B.mail[c] \in Seq(P)
  <2>1. B.mail \in [Cycles -> Seq(P)]
    BY <1>3 DEF PortState
  <2> QED BY <1>2, <2>1
<1>5. Stored \in Seq(P) /\ Len(Stored) <= InCapacity
  BY <1>3, <1>4, StoreProps DEF Stored
<1>6. Freed \in 0 .. Len(Stored)
  <2>1. Len(Stored) \in Nat
    BY <1>5, LenProperties
  <2> QED BY <1>3, <2>1 DEF Freed, Least
<1>7. RemainReadyCycle(Stored) \in Nat
  BY <1>5, RemainType
<1>8. Decl.ready \in BOOLEAN
  BY DEF Decl, Declared
<1>9. /\ r \in PortState(P)
      /\ r = [done |-> B.done, decision |-> B.decision, mail |-> Blank(B.mail, c)]
  <2>1. <<>> \in Seq(Stamps(P))
    BY EmptySeq
  <2> QED BY <1>2, <1>3, <1>8, <2>1, PortProps DEF Blank
<1> HIDE DEF r
<1>10. /\ UpdateReady(r, Decl.cycles, Decl.ready) \in PortState(P)
       /\ UpdateReady(r, Decl.cycles, Decl.ready) =
            [done |-> r.done, decision |-> DecidedAlso(r.decision, Decl.cycles, Decl.ready),
             mail |-> r.mail]
  BY <1>8, <1>9, UpdateReadyProps
<1>11. NextUpdateCycle(Stored, c, sink.nextUpdateCycle) \in Nat
  BY <1>1, <1>7 DEF NextUpdateCycle
<1>12. /\ fault = "none" /\ Closed(B, c)
       /\ arrived' = [arrived EXCEPT ![c] = B.mail[c]]
       /\ UNCHANGED <<kind, inject, drain, target, src, oq, link, A>>
  BY DEF SinkTick
<1>13. CASE Overflows(iq, B.mail[c])
  <2>1. fault' = "overflow" /\ iq' = Stored /\ sink' = sink /\ B' = r
    BY <1>13 DEF SinkTick, Stored, r
  <2> QED BY <1>1, <1>2, <1>4, <1>5, <1>6, <1>8, <1>9, <1>12, <1>13, <2>1
<1>14. CASE ~Overflows(iq, B.mail[c])
  <2>1. /\ fault' = IF Contradicts(B, Decl.cycles, Decl.ready) THEN "panic" ELSE "none"
        /\ iq' = SubSeq(Stored, Freed + 1, Len(Stored))
        /\ B' = UpdateReady(r, Decl.cycles, Decl.ready)
        /\ sink' = [cycle |-> c + 1,
                    nextUpdateCycle |-> NextUpdateCycle(Stored, c, sink.nextUpdateCycle)]
    BY <1>14 DEF SinkTick, Stored, Freed, Decl, r
  <2>2. sink'.nextUpdateCycle \in Nat
    BY <1>11, <2>1
  <2>3. /\ B' \in PortState(P) /\ B'.done = B.done /\ B'.mail = Blank(B.mail, c)
        /\ B'.decision = DecidedAlso(B.decision, Decl.cycles, Decl.ready)
    BY <1>9, <1>10, <2>1
  <2> QED BY <1>1, <1>2, <1>4, <1>5, <1>6, <1>8, <1>12, <1>14, <2>1, <2>2, <2>3
<1> QED BY <1>13, <1>14

\* What a cycle of the source injects: the next numbers.
Fresh == [i \in 1 .. inject[src.cycle] |-> src.accepted + i]

\* All packets of a burst are accepted, or none (InjectPackets).
LEMMA SourceProcessStep ==
    ASSUME TypeInv, SourceProcess
    PROVE  /\ Fresh \in Seq(1 .. src.accepted + inject[src.cycle])
           /\ Len(Fresh) = inject[src.cycle] /\ inject[src.cycle] \in Nat
           /\ \/ /\ oq' = oq /\ src'.accepted = src.accepted
              \/ /\ oq' = oq \o Fresh
                 /\ src'.accepted = src.accepted + inject[src.cycle]
           /\ oq' \in Seq(P') /\ Len(oq') <= OutCapacity
           /\ P \subseteq P'
           /\ src.cycle \in Cycles
           /\ src' = [cycle |-> src.cycle, phase |-> "send",
                      ahead |-> IF src.ahead > src.cycle THEN src.ahead ELSE src.cycle,
                      accepted |-> src'.accepted]
           /\ src'.accepted \in Nat
           /\ UNCHANGED <<kind, inject, drain, target, link, sink, iq, A, B, arrived, fault>>
<1> DEFINE c == src.cycle
           k == inject[c]
           N == 1 .. src.accepted + k
           ahead == IF src.ahead > c THEN src.ahead ELSE c
           acc == src.accepted + Len(oq') - Len(oq)
<1>1. /\ c \in Nat /\ c <= target /\ target <= LastCycle /\ target \in Int
      /\ LastCycle \in Nat /\ src.accepted \in Nat /\ oq \in Seq(P)
      /\ Len(oq) <= OutCapacity /\ OutCapacity \in Nat
      /\ src = [cycle |-> src.cycle, phase |-> src.phase, ahead |-> src.ahead,
                accepted |-> src.accepted]
  BY FlowPathAssumption, QueuesAssumption DEF TypeInv, SourceProcess
<1>2. c \in Cycles /\ k \in Nat
  <2>1. c \in Cycles
    BY <1>1 DEF Cycles
  <2> QED BY <2>1 DEF TypeInv
<1>3. Fresh \in Seq(N) /\ Len(Fresh) = k
  <2>1. Fresh \in [1 .. k -> N]
    BY <1>1, <1>2 DEF Fresh
  <2>2. Fresh \in Seq(N)
    BY <1>2, <2>1, SeqDef
  <2> QED BY <1>2, <2>1, <2>2, LenProperties
<1>4. oq \in Seq(N) /\ P \subseteq N
  <2>1. P \subseteq N
    BY <1>1, <1>2 DEF P
  <2> QED BY <1>1, <2>1, SeqMonotonic
<1>5. oq \o Fresh \in Seq(N) /\ Len(oq \o Fresh) = Len(oq) + k
  BY <1>3, <1>4, ConcatProperties
<1>6. /\ oq' = Inject(oq, Fresh)
      /\ src' = [src EXCEPT !.phase = "send", !.accepted = acc, !.ahead = ahead]
      /\ UNCHANGED <<kind, inject, drain, target, link, sink, iq, A, B, arrived, fault>>
  BY DEF SourceProcess, Fresh
<1>7. Len(oq) \in Nat
  BY <1>1, LenProperties
<1> HIDE DEF ahead
<1>8. src' = [cycle |-> c, phase |-> "send", ahead |-> ahead, accepted |-> acc]
  <2> HIDE DEF acc
  <2> QED BY <1>1, <1>6
<1>9. CASE Len(oq) + Len(Fresh) > OutCapacity
  <2>1. oq' = oq
    BY <1>6, <1>9 DEF Inject
  <2>2. acc = src.accepted
    BY <1>1, <1>7, <2>1
  <2>3. src'.accepted = src.accepted
    BY <1>8, <2>2
  <2>4. P' = P
    BY <2>3 DEF P
  <2> QED BY <1>1, <1>2, <1>3, <1>6, <1>8, <2>1, <2>2, <2>3, <2>4 DEF ahead
<1>10. CASE ~(Len(oq) + Len(Fresh) > OutCapacity)
  <2>1. oq' = oq \o Fresh /\ Len(oq') = Len(oq) + k /\ Len(oq') <= OutCapacity
    BY <1>1, <1>2, <1>3, <1>5, <1>6, <1>7, <1>10 DEF Inject
  <2>2. acc = src.accepted + k
    BY <1>1, <1>2, <1>7, <2>1
  <2>3. src'.accepted = src.accepted + k
    BY <1>8, <2>2
  <2>4. P' = N
    BY <2>3 DEF P
  <2>5. src.accepted + k \in Nat
    BY <1>1, <1>2
  <2> QED BY <1>2, <1>3, <1>4, <1>5, <1>6, <1>8, <2>1, <2>2, <2>3, <2>4, <2>5 DEF ahead
<1> QED BY <1>9, <1>10

\* How many packets the source sends, and which.
Leaves == SendCount(oq, IsReady(A, src.ahead))

Head1 == SubSeq(oq, 1, Leaves)

\* A Tick of the output queue sends from the head of the queue, into the
\* compartment of its cycle.
LEMMA SourceSendStep ==
    ASSUME TypeInv, SourceSend
    PROVE  /\ src.ahead \in Cycles /\ src.ahead <= target
           /\ oq # <<>> => Decided(A, src.ahead)
           /\ Leaves \in 0 .. Len(oq)
           /\ Head1 \in Seq(P) /\ Stamped(src.ahead, Head1) \in Seq(Stamps(P))
           /\ oq' = SubSeq(oq, Leaves + 1, Len(oq)) /\ oq' \in Seq(P)
           /\ Len(oq') <= OutCapacity
           /\ A' = [done |-> src.ahead, decision |-> A.decision,
                    mail |-> MailedAlso(A.mail, Stamped(src.ahead, Head1))]
           /\ A' \in PortState(P)
           /\ src' = [cycle |-> src.cycle, phase |-> "send", ahead |-> src.ahead + 1,
                      accepted |-> src.accepted]
           /\ UNCHANGED <<kind, inject, drain, target, link, sink, iq, B, arrived, fault>>
<1> DEFINE c == src.ahead
           n == Leaves
           t == Stamped(c, Head1)
           s == SendAll(A, t)
<1>1. /\ c \in Nat /\ c <= target /\ target <= LastCycle /\ target \in Int
      /\ LastCycle \in Nat /\ src.accepted \in Nat /\ oq \in Seq(P)
      /\ Len(oq) <= OutCapacity /\ OutCapacity \in Nat
      /\ src.phase = "send"
      /\ src = [cycle |-> src.cycle, phase |-> src.phase, ahead |-> src.ahead,
                accepted |-> src.accepted]
  BY FlowPathAssumption, QueuesAssumption DEF TypeInv, SourceSend, MayTick
<1>2. c \in Cycles
  BY <1>1 DEF Cycles
<1>3. Len(oq) \in Nat /\ n \in 0 .. Len(oq)
  <2>1. Len(oq) \in Nat /\ OutBandwidth \in Nat
    BY <1>1, LenProperties, QueuesAssumption
  <2> QED BY <2>1 DEF Leaves, SendCount, Least
<1> HIDE DEF n
<1>4. /\ SubSeq(oq, 1, n) \in Seq(P)
      /\ SubSeq(oq, n + 1, Len(oq)) \in Seq(P)
      /\ Len(SubSeq(oq, n + 1, Len(oq))) = Len(oq) - n
  BY <1>1, <1>3, CutProps
<1>5. Head1 \in Seq(P)
  BY <1>4 DEF Head1, n
<1>6. t \in Seq(Stamps(P))
  BY <1>1, <1>5, StampedProps
<1>7. A \in PortState(P)
  BY DEF TypeInv
<1>8. /\ oq # <<>> => Decided(A, c)
      /\ A' = MarkDone(s, c)
      /\ oq' = SubSeq(oq, n + 1, Len(oq))
      /\ src' = [src EXCEPT !.ahead = c + 1]
      /\ UNCHANGED <<kind, inject, drain, target, link, sink, iq, B, arrived, fault>>
  BY DEF SourceSend, Head1, Leaves, n
<1> HIDE DEF t
<1>9. /\ s \in PortState(P)
      /\ s = [done |-> A.done, decision |-> A.decision, mail |-> MailedAlso(A.mail, t)]
  BY <1>2, <1>6, <1>7, PortProps
<1> HIDE DEF s
<1>10. A' \in PortState(P) /\ A' = [done |-> c, decision |-> s.decision, mail |-> s.mail]
  BY <1>2, <1>6, <1>8, <1>9, PortProps
<1>11. A' = [done |-> c, decision |-> A.decision, mail |-> MailedAlso(A.mail, t)]
  BY <1>9, <1>10
<1>12. Len(oq') <= OutCapacity
  BY <1>1, <1>3, <1>4, <1>8
<1>13. src' = [cycle |-> src.cycle, phase |-> "send", ahead |-> c + 1,
               accepted |-> src.accepted]
  BY <1>1, <1>8
<1>14. t = Stamped(c, Head1) /\ n = Leaves
  BY DEF t, n
<1> QED BY <1>1, <1>2, <1>3, <1>4, <1>5, <1>6, <1>8, <1>10, <1>11, <1>12, <1>13, <1>14
-----------------------------------------------------------------------------
\* The initial state has the types.
LEMMA InitTypes == Init => TypeInv
<1> SUFFICES ASSUME Init PROVE TypeInv
  OBVIOUS
<1>1. /\ kind \in {"buffered", "bufferless"}
      /\ inject \in [Cycles -> Nat] /\ drain \in [Cycles -> Nat]
  BY FlowPathAssumption DEF Init
<1>2. /\ LastCycle \in Nat /\ InCapacity \in Nat /\ OutCapacity \in Nat
      /\ Bandwidth \in Nat /\ Latency \in Nat
  BY FlowPathAssumption, QueuesAssumption, LinkAssumption
<1>3. target \in -1 .. LastCycle
      /\ src \in [cycle : 0 .. LastCycle + 1, phase : {"process", "send"},
                  ahead : 0 .. LastCycle + 1, accepted : Nat]
      /\ sink \in [cycle : 0 .. LastCycle + 1, nextUpdateCycle : Nat]
      /\ fault \in {"none", "overflow", "panic"}
  BY <1>2 DEF Init
<1>4. oq \in Seq(P) /\ Len(oq) <= OutCapacity /\ iq \in Seq(P) /\ Len(iq) <= InCapacity
  BY <1>2, EmptySeq DEF Init
<1>5. link = [cycle |-> link.cycle, handler |-> link.handler] /\ link.cycle \in 0 .. LastCycle + 1
  BY <1>2 DEF Init
<1>6. HandlerOK(link.handler, P)
  <2>1. CASE kind = "buffered"
    <3>1. link.handler = BufferedInit
      BY <2>1 DEF Init
    <3>2. BufferedInit \in BufferedState(P)
      BY EmptySeq DEF BufferedInit, BufferedState
    <3>3. Bounded(BufferedInit)
      BY <1>2, EmptySeq DEF BufferedInit, Bounded
    <3> QED BY <2>1, <3>1, <3>2, <3>3 DEF HandlerOK
  <2>2. CASE kind # "buffered"
    <3>1. link.handler = BufferlessInit
      BY <2>2 DEF Init
    <3>2. BufferlessInit \in BufferlessState(P)
      BY EmptySeq DEF BufferlessInit, BufferlessState
    <3> QED BY <2>2, <3>1, <3>2 DEF HandlerOK
  <2> QED BY <2>1, <2>2
<1>7. ASSUME NEW cycles PROVE NewPort(cycles) \in PortState(P)
  <2> DEFINE T == Seq(P)
  <2>1. <<>> \in T
    BY EmptySeq
  <2>2. -1 \in -1 .. LastCycle
    BY <1>2
  <2> HIDE DEF T
  <2>3. [c \in Cycles |-> <<>>] \in [Cycles -> T]
    BY <2>1
  <2>4. [c \in Horizon |-> IF c \in cycles THEN "ready" ELSE "unset"]
          \in [Horizon -> {"unset", "ready", "notReady"}]
    OBVIOUS
  <2> QED BY <2>2, <2>3, <2>4 DEF NewPort, PortState, T
<1>8. A \in PortState(P) /\ B \in PortState(P)
  BY <1>7 DEF Init
<1>9. arrived \in [Cycles -> Seq(P)]
  BY EmptySeq DEF Init
<1> QED BY <1>1, <1>3, <1>4, <1>5, <1>6, <1>8, <1>9 DEF TypeInv

\* Every step of a component keeps them.
LEMMA TypesKept == TypeInv /\ [Next]_vars => TypeInv'
<1> SUFFICES ASSUME TypeInv, [Next]_vars PROVE TypeInv'
  OBVIOUS
<1>0. LastCycle \in Nat /\ target \in Int /\ target <= LastCycle /\ -1 <= target
  BY FlowPathAssumption DEF TypeInv
<1>1. CASE AdvanceTo
  <2>1. /\ target' \in -1 .. LastCycle
        /\ UNCHANGED <<kind, inject, drain, src, oq, link, sink, iq, A, B, arrived, fault>>
    BY <1>0, <1>1 DEF AdvanceTo
  <2>2. P' = P
    BY <2>1 DEF P
  <2>3. HandlerOK(link.handler, P)'
    BY <2>1, <2>2 DEF TypeInv, HandlerOK
  <2> QED BY <2>1, <2>2, <2>3 DEF TypeInv
<1>2. CASE SourceProcess
  <2>1. /\ oq' \in Seq(P') /\ Len(oq') <= OutCapacity /\ P \subseteq P'
        /\ src.cycle \in Cycles
        /\ src' = [cycle |-> src.cycle, phase |-> "send",
                   ahead |-> IF src.ahead > src.cycle THEN src.ahead ELSE src.cycle,
                   accepted |-> src'.accepted]
        /\ src'.accepted \in Nat
        /\ UNCHANGED <<kind, inject, drain, target, link, sink, iq, A, B, arrived, fault>>
    BY <1>2, SourceProcessStep
  <2>2. src' \in [cycle : 0 .. LastCycle + 1, phase : {"process", "send"},
                  ahead : 0 .. LastCycle + 1, accepted : Nat]
    BY <1>0, <2>1 DEF TypeInv, Cycles
  <2>3. iq' \in Seq(P') /\ A' \in PortState(P') /\ B' \in PortState(P')
        /\ HandlerOK(link.handler, P')
    BY <2>1, TypesGrow DEF TypeInv
  <2>4. HandlerOK(link.handler, P)'
    BY <2>1, <2>3 DEF HandlerOK
  <2>5. arrived' \in [Cycles -> Seq(P')]
    <3>1. arrived \in [Cycles -> Seq(P)]
      BY DEF TypeInv
    <3>2. \A q \in Seq(P) : q \in Seq(P')
      BY <2>1, SeqMonotonic
    <3>3. \A c \in Cycles : arrived[c] \in Seq(P')
      BY <3>1, <3>2
    <3> QED BY <2>1, <3>1, <3>3
  <2> QED BY <2>1, <2>2, <2>3, <2>4, <2>5 DEF TypeInv
<1>3. CASE SourceSend
  <2>1. /\ src.ahead \in Cycles
        /\ oq' \in Seq(P) /\ Len(oq') <= OutCapacity
        /\ A' \in PortState(P)
        /\ src' = [cycle |-> src.cycle, phase |-> "send", ahead |-> src.ahead + 1,
                   accepted |-> src.accepted]
        /\ UNCHANGED <<kind, inject, drain, target, link, sink, iq, B, arrived, fault>>
    BY <1>3, SourceSendStep
  <2>2. src' \in [cycle : 0 .. LastCycle + 1, phase : {"process", "send"},
                  ahead : 0 .. LastCycle + 1, accepted : Nat]
    <3>1. src.accepted \in Nat /\ src.cycle \in 0 .. LastCycle + 1
      BY DEF TypeInv
    <3>2. src.ahead + 1 \in 0 .. LastCycle + 1
      BY <1>0, <2>1 DEF Cycles
    <3> QED BY <2>1, <3>1, <3>2
  <2>3. P' = P
    BY <2>1 DEF P
  <2>4. HandlerOK(link.handler, P)'
    BY <2>1, <2>3 DEF TypeInv, HandlerOK
  <2> QED BY <2>1, <2>2, <2>3, <2>4 DEF TypeInv
<1>4. CASE SourceNext
  <2>1. /\ src' = [cycle |-> src.cycle + 1, phase |-> "process", ahead |-> src.ahead,
                   accepted |-> src.accepted]
        /\ src.ahead > src.cycle
        /\ UNCHANGED <<kind, inject, drain, target, oq, link, sink, iq, A, B, arrived, fault>>
    BY <1>4 DEF SourceNext, TypeInv
  <2>2. src' \in [cycle : 0 .. LastCycle + 1, phase : {"process", "send"},
                  ahead : 0 .. LastCycle + 1, accepted : Nat]
    BY <1>0, <2>1 DEF TypeInv
  <2>3. P' = P
    BY <2>1 DEF P
  <2>4. HandlerOK(link.handler, P)'
    BY <2>1, <2>3 DEF TypeInv, HandlerOK
  <2> QED BY <2>1, <2>2, <2>3, <2>4 DEF TypeInv
<1>5. CASE LinkTick
  <2>1. /\ link.cycle \in Cycles
        /\ HandlerOK(Outcome.state, P)
        /\ link' = [cycle |-> link.cycle + 1, handler |-> Outcome.state]
        /\ A' \in PortState(P) /\ B' \in PortState(P)
        /\ fault' = IF Contradicts(A, {link.cycle + 1}, Outcome.readyNext) THEN "panic"
                    ELSE fault
        /\ UNCHANGED <<kind, inject, drain, target, src, oq, sink, iq, arrived>>
    BY <1>5, LinkStep
  <2>2. P' = P
    BY <2>1 DEF P
  <2>3. HandlerOK(link.handler, P)'
    BY <2>1, <2>2 DEF HandlerOK
  <2>4. link' = [cycle |-> link'.cycle, handler |-> link'.handler]
        /\ link'.cycle \in 0 .. LastCycle + 1
    BY <1>0, <2>1 DEF Cycles
  <2>5. fault' \in {"none", "overflow", "panic"}
    BY <2>1 DEF TypeInv
  <2> QED BY <2>1, <2>2, <2>3, <2>4, <2>5 DEF TypeInv
<1>6. CASE SinkTick
  <2>1. /\ sink.cycle \in Cycles
        /\ B.mail[sink.cycle] \in Seq(P)
        /\ Stored \in Seq(P) /\ Len(Stored) <= InCapacity
        /\ Freed \in 0 .. Len(Stored)
        /\ arrived' = [arrived EXCEPT ![sink.cycle] = B.mail[sink.cycle]]
        /\ B' \in PortState(P)
        /\ UNCHANGED <<kind, inject, drain, target, src, oq, link, A>>
        /\ \/ fault' = "overflow" /\ iq' = Stored /\ sink' = sink
           \/ /\ fault' \in {"panic", "none"}
              /\ iq' = SubSeq(Stored, Freed + 1, Len(Stored))
              /\ sink' = [cycle |-> sink.cycle + 1,
                          nextUpdateCycle |->
                             NextUpdateCycle(Stored, sink.cycle, sink.nextUpdateCycle)]
              /\ sink'.nextUpdateCycle \in Nat
    BY <1>6, SinkStep
  <2>2. P' = P
    BY <2>1 DEF P
  <2>3. HandlerOK(link.handler, P)'
    BY <2>1, <2>2 DEF TypeInv, HandlerOK
  <2>4. arrived' \in [Cycles -> Seq(P)]
    <3> DEFINE T == Seq(P)
    <3>1. arrived \in [Cycles -> T] /\ B.mail[sink.cycle] \in T
      BY <2>1 DEF TypeInv
    <3> HIDE DEF T
    <3>2. arrived' \in [Cycles -> T]
      BY <2>1, <3>1
    <3> QED BY <3>2 DEF T
  <2>5. sink' \in [cycle : 0 .. LastCycle + 1, nextUpdateCycle : Nat]
    <3>1. CASE sink' = sink
      BY <3>1 DEF TypeInv
    <3>2. CASE /\ sink' = [cycle |-> sink.cycle + 1,
                           nextUpdateCycle |->
                             NextUpdateCycle(Stored, sink.cycle, sink.nextUpdateCycle)]
               /\ sink'.nextUpdateCycle \in Nat
      <4>1. sink.cycle + 1 \in 0 .. LastCycle + 1
        BY <1>0, <2>1 DEF Cycles
      <4> QED BY <3>2, <4>1
    <3> QED BY <2>1, <3>1, <3>2
  <2>6. iq' \in Seq(P) /\ Len(iq') <= InCapacity
    <3>1. CASE iq' = Stored
      BY <2>1, <3>1
    <3>2. CASE iq' = SubSeq(Stored, Freed + 1, Len(Stored))
      <4>1. iq' \in Seq(P) /\ Len(iq') = Len(Stored) - Freed /\ Len(Stored) \in Nat
        BY <2>1, <3>2, CutProps, LenProperties
      <4>2. Len(iq') <= InCapacity
        BY <2>1, <4>1, QueuesAssumption
      <4> QED BY <4>1, <4>2
    <3> QED BY <2>1, <3>1, <3>2
  <2>7. fault' \in {"none", "overflow", "panic"}
    BY <2>1
  <2> QED BY <2>1, <2>2, <2>3, <2>4, <2>5, <2>6, <2>7 DEF TypeInv
<1>7. CASE UNCHANGED vars
  <2>1. UNCHANGED <<kind, inject, drain, target, src, oq, link, sink, iq, A, B, arrived, fault>>
    BY <1>7 DEF vars
  <2>2. P' = P
    BY <2>1 DEF P
  <2>3. HandlerOK(link.handler, P)'
    BY <2>1, <2>2 DEF TypeInv, HandlerOK
  <2> QED BY <2>1, <2>2, <2>3 DEF TypeInv
<1>8. CASE Finished
  BY <1>7, <1>8 DEF Finished
<1> QED BY <1>1, <1>2, <1>3, <1>4, <1>5, <1>6, <1>7, <1>8 DEF Next, Source

\* In every reachable state.
LEMMA TypesHold == Spec => []TypeInv
<1> QED BY InitTypes, TypesKept, PTL DEF Spec

\* The types that the runs check: no queue and no slot of the link ever holds
\* more than its capacity, whatever the workload and the schedule.
THEOREM TypeCorrect == Spec => []TypeOK
<1>1. TypeInv => TypeOK
  <2> SUFFICES ASSUME TypeInv PROVE TypeOK
    OBVIOUS
  <2>1. ASSUME kind = "buffered"
        PROVE  \A i \in DOMAIN link.handler.slots : Len(link.handler.slots[i]) <= Bandwidth
    <3>1. link.handler \in BufferedState(P) /\ Bounded(link.handler)
      BY <2>1 DEF TypeInv, HandlerOK
    <3>2. DOMAIN link.handler.slots = 0 .. Latency - 1
      BY <3>1 DEF BufferedState
    <3> QED BY <3>1, <3>2 DEF Bounded
  <2>2. A.done \in -1 .. LastCycle /\ B.done \in -1 .. LastCycle
    BY DEF TypeInv, PortState
  <2> QED BY <2>1, <2>2 DEF TypeInv, TypeOK, P
<1> QED BY <1>1, TypesHold, PTL
-----------------------------------------------------------------------------
(* The cycle of a buffered link, part by part.                             *)

SlotsAfter(h, c, incoming, ready) ==
    [h.slots EXCEPT ![SlotIndex(h, c)] = IF ready THEN <<>> ELSE Filled(h, c, incoming)]

Remains(h, c, incoming) ==
    SubSeq(Waits(h, incoming), Enters(h, c, incoming) + 1, Len(Waits(h, incoming)))

\* The slot of the cycle is filled and, when the downstream is ready, sent and
\* cleared; no other slot changes (Process of BufferedLinkType).
LEMMA BufferedProps ==
    ASSUME NEW S, NEW h \in BufferedState(S), Bounded(h), NEW c \in Nat,
           NEW incoming \in Seq(S), NEW ready \in BOOLEAN
    PROVE  /\ BufferedProcess(h, c, incoming, ready).state.slots
                = SlotsAfter(h, c, incoming, ready)
           /\ BufferedProcess(h, c, incoming, ready).state.pendingPackets
                = Remains(h, c, incoming)
           /\ BufferedProcess(h, c, incoming, ready).sent
                = IF ready THEN Filled(h, c, incoming) ELSE <<>>
           /\ BufferedProcess(h, c, incoming, ready).readyNext
                = CheckSpace(BufferedProcess(h, c, incoming, ready).state, c + 1)
           /\ BufferedProcess(h, c, incoming, ready).state \in BufferedState(S)
           /\ BufferedProcess(h, c, incoming, ready).state.totalBackpressure
                = IF ready THEN h.totalBackpressure ELSE h.totalBackpressure + 1
<1> DEFINE i == SlotIndex(h, c)
           q == Filled(h, c, incoming)
           g == Fill(h, c, incoming)
           s == Send(g, c, ready)
           r == BufferedProcess(h, c, incoming, ready)
           rest == Remains(h, c, incoming)
           T == Seq(Stamps(S))
<1>1. /\ g \in BufferedState(S) /\ Bounded(g) /\ i \in 0 .. Latency - 1
      /\ g = [slots |-> [h.slots EXCEPT ![i] = q], totalBackpressure |-> h.totalBackpressure,
              pendingPackets |-> rest]
      /\ q \in T
  BY FillProps DEF Remains
<1>2. r = [state |-> s.state, sent |-> s.sent, readyNext |-> CheckSpace(s.state, c + 1)]
  BY DEF BufferedProcess
<1>3. h.slots \in [0 .. Latency - 1 -> T]
  BY DEF BufferedState
<1> HIDE DEF g, q, T, rest
<1>4. SlotIndex(g, c) = i
  BY <1>1 DEF SlotIndex
<1>5. /\ s = [state |-> [slots |-> IF ready THEN [g.slots EXCEPT ![SlotIndex(g, c)] = <<>>]
                                   ELSE g.slots,
                         totalBackpressure |-> IF ready THEN g.totalBackpressure
                                               ELSE g.totalBackpressure + 1,
                         pendingPackets |-> g.pendingPackets],
              sent  |-> IF ready THEN g.slots[SlotIndex(g, c)] ELSE <<>>]
      /\ s.state \in BufferedState(S)
  <2>1. g \in BufferedState(S) /\ Bounded(g)
    BY <1>1
  <2> HIDE DEF i
  <2> QED BY <2>1, SendProps
<1> HIDE DEF s, i, r
<1>6. g.slots = [h.slots EXCEPT ![i] = q] /\ g.slots[i] = q
  BY <1>1, <1>3
<1>7. [g.slots EXCEPT ![i] = <<>>] = [h.slots EXCEPT ![i] = <<>>]
  BY <1>1, <1>3, <1>6
<1>8. s.state.slots = [h.slots EXCEPT ![i] = IF ready THEN <<>> ELSE q]
  BY <1>4, <1>5, <1>6, <1>7
<1>9. s.state.pendingPackets = rest /\ s.sent = IF ready THEN q ELSE <<>>
  BY <1>1, <1>4, <1>5, <1>6
<1>10. s.state.slots = SlotsAfter(h, c, incoming, ready)
  BY <1>8 DEF SlotsAfter, i, q
<1>11. s.state.totalBackpressure = IF ready THEN h.totalBackpressure
                                   ELSE h.totalBackpressure + 1
  BY <1>1, <1>5
<1>12. /\ r.state.slots = SlotsAfter(h, c, incoming, ready)
       /\ r.state.pendingPackets = rest /\ r.sent = IF ready THEN q ELSE <<>>
       /\ r.readyNext = CheckSpace(r.state, c + 1) /\ r.state \in BufferedState(S)
       /\ r.state.totalBackpressure = s.state.totalBackpressure
  BY <1>2, <1>5, <1>9, <1>10
<1> QED BY <1>11, <1>12 DEF r, rest, q

\* What is in a filled slot was in it before, or enters it in the cycle, in the
\* order in which it waited.
LEMMA FilledProps ==
    ASSUME NEW S, NEW h \in BufferedState(S), Bounded(h), NEW c \in Nat,
           NEW incoming \in Seq(S)
    PROVE  LET slot == h.slots[SlotIndex(h, c)]
           IN  \A j \in DOMAIN Filled(h, c, incoming) :
                  \/ /\ j \in DOMAIN slot
                     /\ Filled(h, c, incoming)[j] = slot[j]
                  \/ /\ j - Len(slot) \in 1 .. Enters(h, c, incoming)
                     /\ Filled(h, c, incoming)[j] =
                          [cycle |-> c, packet |-> Waits(h, incoming)[j - Len(slot)]]
<1> DEFINE i == SlotIndex(h, c)
           w == Waits(h, incoming)
           n == Enters(h, c, incoming)
           q == Filled(h, c, incoming)
           head == SubSeq(w, 1, n)
           t == Stamped(c, head)
<1>1. /\ i \in 0 .. Latency - 1 /\ w \in Seq(S) /\ n \in 0 .. Len(w)
  BY FillProps
<1>2. h.slots[i] \in Seq(Stamps(S))
  BY <1>1 DEF BufferedState
<1>3. q = h.slots[i] \o t
  BY DEF Filled
<1> HIDE DEF w, n, q
<1>4. /\ head \in Seq(S) /\ DOMAIN head = 1 .. n /\ \A k \in 1 .. n : head[k] = w[k]
  BY <1>1, CutProps
<1> HIDE DEF head
<1>5. /\ t \in Seq(Stamps(S)) /\ DOMAIN t = DOMAIN head
      /\ \A k \in DOMAIN head : t[k] = [cycle |-> c, packet |-> head[k]]
  BY <1>4, StampedProps
<1> HIDE DEF t, i
<1>6. \A j \in DOMAIN q : \/ j \in DOMAIN h.slots[i] /\ q[j] = h.slots[i][j]
                          \/ j - Len(h.slots[i]) \in DOMAIN t /\ q[j] = t[j - Len(h.slots[i])]
  BY <1>2, <1>3, <1>5, JoinProps
<1>7. \A j \in DOMAIN q : \/ j \in DOMAIN h.slots[i] /\ q[j] = h.slots[i][j]
                          \/ /\ j - Len(h.slots[i]) \in 1 .. n
                             /\ q[j] = [cycle |-> c, packet |-> w[j - Len(h.slots[i])]]
  BY <1>4, <1>5, <1>6
<1> QED BY <1>7 DEF i, q, n, w
-----------------------------------------------------------------------------
(* The second port: which of its cycles hold packets.                      *)

Refused(e) == B.decision[e] = "notReady"

Granted(e) == B.decision[e] = "ready"

\* A packet that stays in a slot was refused in the cycle it is stamped with.
Stale(x) == x.cycle < link.cycle /\ Refused(x.cycle)

SlotsStale ==
    kind = "buffered" =>
        \A i \in 0 .. Latency - 1 : \A j \in DOMAIN link.handler.slots[i] :
            Stale(link.handler.slots[i][j])

StrandInv ==
    /\ B.done = link.cycle - 1 /\ sink.cycle <= link.cycle
    /\ SlotsStale
    /\ \A e \in Cycles : e >= link.cycle => B.mail[e] = <<>>
    /\ \A e \in Cycles : e < sink.cycle /\ B.mail[e] # <<>> => Refused(e)

\* A packet with another stamp adds nothing to the compartment of a cycle.
LEMMA NoneStamped ==
    ASSUME NEW S, NEW packets \in Seq(Stamps(S)), NEW c,
           \A k \in DOMAIN packets : packets[k].cycle # c
    PROVE  StampedFor(packets, c) = <<>>
<1> DEFINE q == StampedFor(packets, c)
<1>1. q \in Seq(S) /\ Gathered(q, packets, c, Len(packets))
  BY StampedForProps
<1>2. DOMAIN packets = 1 .. Len(packets) /\ DOMAIN q = 1 .. Len(q) /\ Len(q) \in Nat
  BY <1>1, LenProperties
<1> HIDE DEF q
<1>3. \A j \in DOMAIN q : FALSE
  BY <1>1, <1>2 DEF Gathered
<1>4. Len(q) = 0
  BY <1>2, <1>3
<1> QED BY <1>1, <1>4, EmptySeq DEF q

\* Every cycle of the run has a decision slot.
LEMMA CyclesInHorizon == Cycles \subseteq Horizon /\ Cycles \subseteq Nat
<1>1. LastCycle \in Nat /\ InCapacity \in Nat /\ Latency \in Nat
  BY FlowPathAssumption, QueuesAssumption, LinkAssumption
<1> QED BY <1>1 DEF Cycles, Horizon

\* The link sends what it stamps in its cycle, or what was refused in an
\* earlier one; what it keeps was refused (step 3 of Process).
LEMMA LinkStamps ==
    ASSUME TypeInv, SlotsStale, LinkTick
    PROVE  /\ \A j \in DOMAIN Outcome.sent :
                 Outcome.sent[j].cycle = link.cycle \/ Stale(Outcome.sent[j])
           /\ kind = "buffered" => Outcome.sent = <<>> \/ Granted(link.cycle)
           /\ SlotsStale'
<1> DEFINE c == link.cycle
           h == link.handler
           in == Incoming(c)
           ready == IsReady(B, c)
<1>1. /\ c \in Cycles /\ in \in Seq(P) /\ (Asks(c) => Decided(B, c))
      /\ link' = [cycle |-> c + 1, handler |-> Outcome.state]
      /\ kind' = kind
      /\ B' = [done |-> c, decision |-> B.decision, mail |-> MailedAlso(B.mail, Outcome.sent)]
      /\ ready \in BOOLEAN
  BY LinkStep DEF IsReady
<1>2. c \in Nat /\ c \in Horizon
  BY <1>1, CyclesInHorizon
<1>3. CASE kind = "buffered"
  <2> DEFINE i == SlotIndex(h, c)
             q == Filled(h, c, in)
  <2>1. h \in BufferedState(P) /\ Bounded(h)
    BY <1>3 DEF TypeInv, HandlerOK
  <2>2. /\ Outcome.state.slots = [h.slots EXCEPT ![i] = IF ready THEN <<>> ELSE q]
        /\ Outcome.sent = IF ready THEN q ELSE <<>>
    <3>1. Outcome = BufferedProcess(h, c, in, ready)
      BY <1>3 DEF Outcome, Processed
    <3> HIDE DEF ready, h, in
    <3> QED BY <1>1, <1>2, <2>1, <3>1, BufferedProps DEF SlotsAfter
  <2>3. i \in 0 .. Latency - 1
    BY <1>1, <1>2, <2>1, FillProps
  <2>4. \A j \in DOMAIN h.slots[i] : Stale(h.slots[i][j])
    BY <1>3, <2>3 DEF SlotsStale
  <2>5. ASSUME NEW j \in DOMAIN q
        PROVE  q[j].cycle = c \/ Stale(q[j])
    <3>1. \/ j \in DOMAIN h.slots[i] /\ q[j] = h.slots[i][j]
          \/ q[j] = [cycle |-> c, packet |-> Waits(h, in)[j - Len(h.slots[i])]]
      <4> HIDE DEF h, in
      <4> QED BY <1>1, <1>2, <2>1, FilledProps
    <3> HIDE DEF q
    <3> QED BY <2>4, <3>1
  <2>6. ready <=> Granted(c)
    BY DEF IsReady, Granted
  <2>7. ~ready => Refused(c)
    <3>1. Decided(B, c)
      BY <1>1, <1>3 DEF Asks
    <3>2. B.decision[c] \in {"unset", "ready", "notReady"}
      BY <1>2 DEF TypeInv, PortState
    <3> QED BY <3>1, <3>2 DEF Decided, IsReady, Refused
  <2>8. \A j \in DOMAIN Outcome.sent :
            Outcome.sent[j].cycle = c \/ Stale(Outcome.sent[j])
    <3>1. DOMAIN <<>> = {}
      BY EmptySeq
    <3> HIDE DEF q, ready
    <3> QED BY <2>2, <2>5, <3>1
  <2>9. Outcome.sent = <<>> \/ Granted(c)
    BY <2>2, <2>6
  <2>10. SlotsStale'
    <3>1. SUFFICES ASSUME NEW k \in 0 .. Latency - 1, NEW j \in DOMAIN link'.handler.slots[k]
                   PROVE  /\ link'.handler.slots[k][j].cycle < link'.cycle
                          /\ B'.decision[link'.handler.slots[k][j].cycle] = "notReady"
      BY DEF SlotsStale, Stale, Refused
    <3> DEFINE x == link'.handler.slots[k][j]
    <3>2. link'.handler.slots = [h.slots EXCEPT ![i] = IF ready THEN <<>> ELSE q]
      BY <1>1, <2>2
    <3>3. h.slots \in [0 .. Latency - 1 -> Seq(Stamps(P))]
      BY <2>1 DEF BufferedState
    <3>4. \/ k # i /\ link'.handler.slots[k] = h.slots[k]
          \/ k = i /\ link'.handler.slots[k] = IF ready THEN <<>> ELSE q
      <4> HIDE DEF q, i, ready, h
      <4> QED BY <2>3, <3>2, <3>3
    <3>5. DOMAIN <<>> = {}
      BY EmptySeq
    <3>6. Stale(x) \/ (x.cycle = c /\ Refused(c))
      <4>1. CASE k # i /\ link'.handler.slots[k] = h.slots[k]
        BY <1>3, <4>1 DEF SlotsStale
      <4>2. CASE k = i /\ link'.handler.slots[k] = IF ready THEN <<>> ELSE q
        <5>1. ~ready
          BY <3>1, <3>5, <4>2
        <5>2. j \in DOMAIN q /\ x = q[j]
          BY <4>2, <5>1
        <5> QED BY <2>5, <2>7, <5>1, <5>2
      <4> QED BY <3>4, <4>1, <4>2
    <3>7. link'.cycle = c + 1 /\ B'.decision = B.decision /\ link.cycle = c
      BY <1>1
    <3> HIDE DEF x, c
    <3>8. Stale(x) => x.cycle < c /\ Refused(x.cycle)
      BY <3>7 DEF Stale
    <3>9. x.cycle \in Nat
      <4>1. link'.handler.slots \in [0 .. Latency - 1 -> Seq(Stamps(P))]
        <5>1. HandlerOK(Outcome.state, P)
          BY LinkStep
        <5>2. Outcome.state \in BufferedState(P)
          BY <1>3, <5>1 DEF HandlerOK
        <5> QED BY <1>1, <5>2 DEF BufferedState
      <4>2. link'.handler.slots[k] \in Seq(Stamps(P))
        BY <4>1
      <4>3. x \in Stamps(P)
        BY <3>1, <4>2, ElementOfSeq, LenProperties DEF x
      <4> QED BY <4>3 DEF Stamps
    <3>10. x.cycle < c + 1
      BY <1>2, <3>6, <3>8, <3>9
    <3>11. Refused(x.cycle)
      BY <3>6, <3>8
    <3>12. x.cycle < link'.cycle /\ B'.decision[x.cycle] = "notReady"
      BY <3>7, <3>10, <3>11 DEF Refused
    <3> QED BY <3>12 DEF x
  <2> QED BY <2>8, <2>9, <2>10
<1>4. CASE kind # "buffered"
  <2> DEFINE r == BufferlessProcess(h, c, in, ready)
  <2>1. h \in BufferlessState(P)
    BY <1>4 DEF TypeInv, HandlerOK
  <2>2. Outcome = r
    BY <1>4 DEF Outcome, Processed
  <2>3. \A j \in DOMAIN r.sent : r.sent[j].cycle = c
    <3>1. ready \in BOOLEAN /\ in \in Seq(P) /\ c \in Nat
      BY <1>1, <1>2
    <3> HIDE DEF ready, h, in, c
    <3>2. \A j \in DOMAIN BufferlessProcess(h, c, in, ready).sent :
             BufferlessProcess(h, c, in, ready).sent[j].cycle = c
      BY <2>1, <3>1, BufferlessProps
    <3> QED BY <3>2
  <2>4. SlotsStale'
    BY <1>1, <1>4 DEF SlotsStale
  <2> HIDE DEF r
  <2> QED BY <1>4, <2>2, <2>3, <2>4
<1> QED BY <1>3, <1>4

\* A decision is never taken back (UpdateReady changes undecided cycles only).
LEMMA DecisionsStay ==
    ASSUME NEW decision \in [Horizon -> {"unset", "ready", "notReady"}], NEW cycles,
           NEW ready \in BOOLEAN
    PROVE  \A e \in Horizon :
              /\ decision[e] # "unset" =>
                    DecidedAlso(decision, cycles, ready)[e] = decision[e]
              /\ decision[e] = "unset" /\ e \in cycles =>
                    DecidedAlso(decision, cycles, ready)[e] =
                       IF ready THEN "ready" ELSE "notReady"
              /\ e \notin cycles => DecidedAlso(decision, cycles, ready)[e] = decision[e]
  BY DEF DecidedAlso

\* A stamp that no packet of a batch has leaves the mail of its cycle alone.
LEMMA MailStays ==
    ASSUME NEW S, NEW mail \in [Cycles -> Seq(S)], NEW packets \in Seq(Stamps(S)),
           NEW e \in Cycles, \A k \in DOMAIN packets : packets[k].cycle # e
    PROVE  MailedAlso(mail, packets)[e] = mail[e]
<1>1. StampedFor(packets, e) = <<>>
  BY NoneStamped
<1>2. mail[e] \in Seq(S) /\ MailedAlso(mail, packets)[e] = mail[e] \o <<>>
  BY <1>1 DEF MailedAlso
<1> QED BY <1>2, ConcatEmptySeq

\* Initially nothing is in a slot or in the port.
LEMMA StrandInit == Init => StrandInv
<1> SUFFICES ASSUME Init PROVE StrandInv
  OBVIOUS
<1>1. B.done = -1 /\ link.cycle = 0 /\ sink.cycle = 0
      /\ \A e \in Cycles : B.mail[e] = <<>>
  BY DEF Init, NewPort
<1>2. SlotsStale
  <2>1. SUFFICES ASSUME kind = "buffered", NEW i \in 0 .. Latency - 1,
                        NEW j \in DOMAIN link.handler.slots[i]
                 PROVE  FALSE
    BY DEF SlotsStale
  <2>2. link.handler.slots[i] = <<>>
    BY <2>1 DEF Init, BufferedInit
  <2> QED BY <2>1, <2>2, EmptySeq
<1> QED BY <1>1, <1>2 DEF StrandInv

\* The link puts a packet under an earlier cycle only if that was refused, and
\* the sink empties the compartment of its cycle.
LEMMA StrandKept == TypeInv /\ StrandInv /\ [Next]_vars => StrandInv'
<1> SUFFICES ASSUME TypeInv, StrandInv, [Next]_vars PROVE StrandInv'
  OBVIOUS
<1>0. /\ B.done = link.cycle - 1 /\ sink.cycle <= link.cycle /\ SlotsStale
      /\ \A e \in Cycles : e >= link.cycle => B.mail[e] = <<>>
      /\ \A e \in Cycles : e < sink.cycle /\ B.mail[e] # <<>> => Refused(e)
      /\ link.cycle \in Nat /\ sink.cycle \in Nat
      /\ B.mail \in [Cycles -> Seq(P)]
      /\ B.decision \in [Horizon -> {"unset", "ready", "notReady"}]
  BY DEF StrandInv, TypeInv, PortState
<1>1. ASSUME UNCHANGED <<kind, link, sink, B>>
      PROVE  StrandInv'
  BY <1>0, <1>1 DEF StrandInv, SlotsStale, Stale, Refused
<1>2. CASE LinkTick
  <2> DEFINE c == link.cycle
  <2>1. /\ c \in Cycles
        /\ link' = [cycle |-> c + 1, handler |-> Outcome.state]
        /\ B' = [done |-> c, decision |-> B.decision,
                 mail |-> MailedAlso(B.mail, Outcome.sent)]
        /\ Outcome.sent \in Seq(Stamps(P))
        /\ UNCHANGED <<kind, sink>>
    BY <1>2, LinkStep
  <2>2. /\ \A j \in DOMAIN Outcome.sent :
              Outcome.sent[j].cycle = c \/ Stale(Outcome.sent[j])
        /\ SlotsStale'
    BY <1>0, <1>2, LinkStamps
  <2>3. B'.done = link'.cycle - 1 /\ sink'.cycle <= link'.cycle
    BY <1>0, <2>1
  <2>4. ASSUME NEW e \in Cycles, e >= link'.cycle
        PROVE  B'.mail[e] = <<>>
    <3>1. e \in Nat /\ e > c
      BY <1>0, <2>1, <2>4, CyclesInHorizon
    <3>2. \A j \in DOMAIN Outcome.sent : Outcome.sent[j].cycle # e
      BY <1>0, <2>2, <3>1 DEF Stale
    <3>3. B'.mail[e] = B.mail[e]
      BY <1>0, <2>1, <3>2, MailStays
    <3> QED BY <1>0, <3>1, <3>3
  <2>5. ASSUME NEW e \in Cycles, e < sink'.cycle, B'.mail[e] # <<>>
        PROVE  Refused(e)'
    <3>1. e \in Nat /\ e < sink.cycle /\ e < c
      BY <1>0, <2>1, <2>5, CyclesInHorizon
    <3>2. CASE \A j \in DOMAIN Outcome.sent : Outcome.sent[j].cycle # e
      <4>1. B'.mail[e] = B.mail[e]
        BY <1>0, <2>1, <3>2, MailStays
      <4> QED BY <1>0, <2>1, <2>5, <3>1, <4>1 DEF Refused
    <3>3. CASE \E j \in DOMAIN Outcome.sent : Outcome.sent[j].cycle = e
      <4>1. PICK j \in DOMAIN Outcome.sent : Outcome.sent[j].cycle = e
        BY <3>3
      <4>2. Stale(Outcome.sent[j])
        BY <1>0, <2>2, <3>1, <4>1
      <4> QED BY <2>1, <4>1, <4>2 DEF Stale, Refused
    <3> QED BY <3>2, <3>3
  <2> QED BY <2>2, <2>3, <2>4, <2>5 DEF StrandInv
<1>3. CASE SinkTick
  <2> DEFINE c == sink.cycle
  <2>1. /\ c \in Cycles /\ Closed(B, c)
        /\ B'.done = B.done /\ B'.mail = Blank(B.mail, c)
        /\ UNCHANGED <<kind, link>>
        /\ sink' = sink \/ sink'.cycle = c + 1
    BY <1>3, SinkStep
  <2>2. Decl.ready \in BOOLEAN /\ \/ B'.decision = B.decision
                                  \/ B'.decision = DecidedAlso(B.decision, Decl.cycles, Decl.ready)
    BY <1>3, SinkStep
  <2>3. \A e \in Horizon : Refused(e) => Refused(e)'
    BY <1>0, <2>2, DecisionsStay DEF Refused
  <2>4. B'.done = link'.cycle - 1 /\ sink'.cycle <= link'.cycle
    BY <1>0, <2>1 DEF Closed
  <2>5. \A e \in Cycles : B'.mail[e] = IF e = c THEN <<>> ELSE B.mail[e]
    BY <1>0, <2>1 DEF Blank
  <2>6. \A e \in Cycles : e >= link'.cycle => B'.mail[e] = <<>>
    BY <1>0, <2>1, <2>5
  <2>7. ASSUME NEW e \in Cycles, e < sink'.cycle, B'.mail[e] # <<>>
        PROVE  Refused(e)'
    <3>1. e # c /\ B.mail[e] # <<>>
      BY <2>5, <2>7
    <3>2. e < c
      BY <1>0, <2>1, <2>7, <3>1, CyclesInHorizon
    <3> QED BY <1>0, <2>3, <3>1, <3>2, CyclesInHorizon
  <2>8. SlotsStale'
    <3>1. SUFFICES ASSUME kind = "buffered", NEW i \in 0 .. Latency - 1,
                          NEW j \in DOMAIN link.handler.slots[i]
                   PROVE  /\ link.handler.slots[i][j].cycle < link.cycle
                          /\ B'.decision[link.handler.slots[i][j].cycle] = "notReady"
      BY <2>1 DEF SlotsStale, Stale, Refused
    <3> DEFINE x == link.handler.slots[i][j]
    <3>2. x.cycle < link.cycle /\ Refused(x.cycle)
      BY <1>0, <3>1 DEF SlotsStale, Stale
    <3>3. x.cycle \in Nat
      <4>1. link.handler \in BufferedState(P)
        BY <3>1 DEF TypeInv, HandlerOK
      <4>2. link.handler.slots[i] \in Seq(Stamps(P))
        BY <4>1 DEF BufferedState
      <4>3. x \in Stamps(P)
        BY <3>1, <4>2, ElementOfSeq, LenProperties
      <4> QED BY <4>3 DEF Stamps
    <3>4. x.cycle \in Horizon
      <4>1. link.cycle <= LastCycle + 1 /\ LastCycle \in Nat
        BY FlowPathAssumption DEF TypeInv
      <4>2. x.cycle \in Cycles
        BY <1>0, <3>2, <3>3, <4>1 DEF Cycles
      <4> QED BY <4>2, CyclesInHorizon
    <3> QED BY <2>3, <3>2, <3>4 DEF Refused
  <2> QED BY <2>4, <2>6, <2>7, <2>8 DEF StrandInv
<1>4. CASE AdvanceTo
  BY <1>1, <1>4 DEF AdvanceTo
<1>5. CASE Source
  BY <1>1, <1>5 DEF Source, SourceProcess, SourceSend, SourceNext
<1>6. CASE UNCHANGED vars
  BY <1>1, <1>6 DEF vars
<1>7. CASE Finished
  BY <1>6, <1>7 DEF Finished
<1> QED BY <1>2, <1>3, <1>4, <1>5, <1>6, <1>7 DEF Next

\* In every reachable state.
LEMMA StrandHolds == Spec => []StrandInv
<1> QED BY StrandInit, StrandKept, TypesHold, PTL DEF Spec

\* A packet that a link delivers under a cycle the sink has already received was
\* sent in a cycle the sink had refused (the slot keeps its stamp, and Receive
\* never looks at an earlier cycle again).
THEOREM StrandedRefused == Spec => []StrandedOnlyWhenRefused
<1>1. TypeInv /\ StrandInv => StrandedOnlyWhenRefused
  BY DEF StrandInv, StrandedOnlyWhenRefused, Refused, Decided, IsReady
<1> QED BY <1>1, TypesHold, StrandHolds, PTL

-----------------------------------------------------------------------------
(* The promises of the input queue and of a buffered link.                 *)

\* The first cycle that the sink has not decided.
Frontier == IF sink.nextUpdateCycle < 2 THEN 2 ELSE sink.nextUpdateCycle

\* Nothing reaches the link before its latency has passed.
NothingYet ==
    link.cycle <= Latency =>
        /\ link.handler.pendingPackets = <<>>
        /\ \A i \in 0 .. Latency - 1 : link.handler.slots[i] = <<>>

\* The link decides one cycle at a time, after those of Link.Init.
LinkDecides ==
    \A d \in Horizon : /\ A.decision[d] # "unset" => d <= Latency \/ d <= link.cycle
                       /\ d <= Latency => A.decision[d] = "ready"

\* The sink decides without gaps, and the link is not past it.
SinkDecides ==
    /\ \A d \in Horizon : B.decision[d] # "unset" <=> d < Frontier
    /\ Granted(0)
    /\ sink.cycle = 0 => sink.nextUpdateCycle = 0
    /\ sink.cycle > 0 => sink.nextUpdateCycle >= sink.cycle + 1
    /\ link.cycle <= Frontier

\* It refuses only the next cycle, and decides no further then.
RefusesNext ==
    \A d \in Horizon : Refused(d) =>
        d < sink.cycle \/ (d = sink.cycle /\ sink.nextUpdateCycle = d + 1)

\* What it grants fits, one burst for each cycle.
GrantsFit ==
    /\ sink.cycle = 0 => iq = <<>>
    /\ sink.cycle > 0 =>
          \A d \in Horizon : Granted(d) /\ d >= sink.cycle =>
              d - sink.cycle + 1 <= RemainReadyCycle(iq)

\* What waits for it is what it granted, no more than the link's bandwidth.
MailFits ==
    /\ B.mail[0] = <<>>
    /\ \A e \in Cycles : e >= sink.cycle =>
          /\ Refused(e) => B.mail[e] = <<>>
          /\ Len(B.mail[e]) <= Bandwidth

PromiseInv ==
    kind = "buffered" =>
        /\ fault = "none" /\ NothingYet
        /\ LinkDecides /\ SinkDecides /\ RefusesNext /\ GrantsFit /\ MailFits

BandwidthsFit == Bandwidth <= InBandwidth /\ InBandwidth <= InCapacity

\* A factor is bounded by the product.
LEMMA MulMono ==
    ASSUME NEW b \in Nat \ {0}, NEW x \in Nat, NEW y \in Nat, b * x < b * (y + 1)
    PROVE  x <= y
OBVIOUS

\* With at most a bandwidth less, one burst less fits.
LEMMA DivDown ==
    ASSUME NEW a \in Nat, NEW b \in Nat \ {0}, NEW e \in Nat, e <= a
    PROVE  e \div b <= a \div b /\ (a - e <= b => a \div b <= (e \div b) + 1)
<1>1. /\ a \div b \in Nat /\ b * (a \div b) <= a /\ a < b * ((a \div b) + 1)
      /\ e \div b \in Nat /\ b * (e \div b) <= e /\ e < b * ((e \div b) + 1)
  BY DivBasic
<1> DEFINE x == a \div b
           y == e \div b
<1> HIDE DEF x, y
<1>2. ASSUME a - e <= b PROVE x <= y + 1
  <2>1. b * (y + 1) + b = b * (y + 2)
    BY <1>1 DEF y
  <2>2. b * x < b * (y + 1 + 1)
    BY <1>1, <1>2, <2>1 DEF x, y
  <2> QED BY <1>1, <2>2, MulMono DEF x, y
<1>3. y <= x
  BY <1>1, MulMono DEF x, y
<1> QED BY <1>2, <1>3 DEF x, y

\* A burst is stored while one is promised, and costs one cycle of the promise
\* (remainReadyCycle after the slots of a burst are taken).
LEMMA RemainStored ==
    ASSUME NEW S, NEW q \in Seq(S), Len(q) <= InCapacity, NEW r \in Seq(S),
           Len(r) <= InBandwidth, RemainReadyCycle(q) >= 1
    PROVE  /\ ~Overflows(q, r)
           /\ RemainReadyCycle(q) <= RemainReadyCycle(Store(q, r)) + 1
<1>1. /\ Len(q) \in Nat /\ Len(r) \in Nat /\ InCapacity \in Nat /\ InBandwidth \in Nat \ {0}
  BY LenProperties, QueuesAssumption
<1> DEFINE a == InCapacity - Len(q)
           b == InBandwidth
           x == a \div b
<1>2. a \in Nat /\ x \in Nat /\ b * x <= a
  BY <1>1, DivBasic
<1>3. RemainReadyCycle(q) = x /\ x >= 1
  BY DEF RemainReadyCycle
<1>4. b <= a
  <2>1. x - 1 \in Nat /\ b * x = b * (x - 1) + b
    BY <1>1, <1>2, <1>3
  <2>2. b * (x - 1) \in Nat /\ b * x \in Nat
    BY <1>1, <1>2, <2>1, MulUp
  <2> HIDE DEF a, b, x
  <2> QED BY <1>1, <1>2, <2>1, <2>2 DEF b
<1>5. ~Overflows(q, r)
  <2> HIDE DEF x
  <2> QED BY <1>1, <1>4 DEF Overflows
<1>6. Store(q, r) = q \o r /\ Len(q \o r) = Len(q) + Len(r)
  BY <1>5, StoreProps, ConcatProperties
<1> DEFINE e == InCapacity - Len(Store(q, r))
<1>7. e \in Nat /\ e <= a /\ a - e <= b
  <2> HIDE DEF x
  <2> QED BY <1>1, <1>4, <1>6
<1>8. RemainReadyCycle(Store(q, r)) = e \div b
  BY DEF RemainReadyCycle
<1> HIDE DEF a, b, e
<1>9. x <= (e \div b) + 1
  BY <1>1, <1>2, <1>7, DivDown DEF b
<1> QED BY <1>3, <1>5, <1>8, <1>9

\* The promise does not shrink when packets leave.
LEMMA RemainFreed ==
    ASSUME NEW S, NEW q \in Seq(S), NEW r \in Seq(S), Len(r) <= Len(q), Len(q) <= InCapacity
    PROVE  RemainReadyCycle(q) <= RemainReadyCycle(r)
<1>1. /\ Len(q) \in Nat /\ Len(r) \in Nat /\ InCapacity \in Nat /\ InBandwidth \in Nat \ {0}
  BY LenProperties, QueuesAssumption
<1> DEFINE a == InCapacity - Len(r)
           e == InCapacity - Len(q)
<1>2. a \in Nat /\ e \in Nat /\ e <= a
  BY <1>1
<1>3. RemainReadyCycle(q) = e \div InBandwidth /\ RemainReadyCycle(r) = a \div InBandwidth
  BY DEF RemainReadyCycle
<1> HIDE DEF a, e
<1> QED BY <1>1, <1>2, <1>3, DivDown

\* An empty queue takes a burst at once.
LEMMA RemainEmpty ==
    ASSUME BandwidthsFit
    PROVE  RemainReadyCycle(<<>>) >= 1
<1>1. /\ InCapacity \in Nat /\ InBandwidth \in Nat \ {0} /\ InBandwidth <= InCapacity
      /\ Len(<<>>) = 0
  BY QueuesAssumption, EmptySeq DEF BandwidthsFit
<1> DEFINE x == InCapacity \div InBandwidth
<1>2. x \in Nat /\ InCapacity < InBandwidth * (x + 1)
  BY <1>1, DivBasic
<1>3. InCapacity - Len(<<>>) = InCapacity
  BY <1>1
<1>4. RemainReadyCycle(<<>>) = x
  BY <1>3 DEF RemainReadyCycle
<1> HIDE DEF x
<1>5. x # 0
  <2>1. SUFFICES ASSUME x = 0 PROVE FALSE
    OBVIOUS
  <2>2. InBandwidth * (x + 1) = InBandwidth
    BY <1>1, <2>1
  <2> QED BY <1>1, <1>2, <2>2
<1> QED BY <1>2, <1>4, <1>5

\* Initially the ports hold the decisions of Link.Init and SetUpstreamPort.
LEMMA PromiseInit == Init => PromiseInv
<1> SUFFICES ASSUME Init, kind = "buffered" PROVE PromiseInv
  BY DEF PromiseInv
<1>1. /\ fault = "none" /\ link.cycle = 0 /\ sink.cycle = 0 /\ sink.nextUpdateCycle = 0
      /\ link.handler = BufferedInit
      /\ A = NewPort(0 .. Latency) /\ B = NewPort({0, 1}) /\ iq = <<>>
  BY DEF Init
<1>2. 0 \in Cycles /\ 0 \in Horizon /\ Latency \in Nat /\ Bandwidth \in Nat
  BY CyclesInHorizon, FlowPathAssumption, LinkAssumption DEF Cycles
<1>3. NothingYet
  BY <1>1 DEF NothingYet, BufferedInit
<1>4. Horizon \subseteq Nat
  BY DEF Horizon
<1>5. LinkDecides
  BY <1>1, <1>2, <1>4 DEF LinkDecides, NewPort
<1>6. \A d \in Horizon : B.decision[d] = IF d \in {0, 1} THEN "ready" ELSE "unset"
  BY <1>1 DEF NewPort
<1>7. SinkDecides
  BY <1>1, <1>2, <1>4, <1>6 DEF SinkDecides, Frontier, Granted
<1>8. RefusesNext /\ GrantsFit
  BY <1>1, <1>6 DEF RefusesNext, GrantsFit, Refused
<1>9. \A e \in Cycles : B.mail[e] = <<>>
  BY <1>1 DEF NewPort
<1>10. MailFits
  BY <1>2, <1>9, EmptySeq DEF MailFits
<1> QED BY <1>1, <1>3, <1>5, <1>7, <1>8, <1>10 DEF PromiseInv

\* The parts of the invariant for a buffered link.
Promises == /\ fault = "none" /\ NothingYet
            /\ LinkDecides /\ SinkDecides /\ RefusesNext /\ GrantsFit /\ MailFits

\* Before its latency has passed, the link has nothing to put in a slot.
LEMMA NothingFills ==
    ASSUME TypeInv, NothingYet, kind = "buffered", LinkTick, link.cycle < Latency
    PROVE  /\ Outcome.state.pendingPackets = <<>>
           /\ \A i \in 0 .. Latency - 1 : Outcome.state.slots[i] = <<>>
           /\ Outcome.readyNext = TRUE /\ Outcome.sent = <<>>
<1> DEFINE c == link.cycle
           h == link.handler
           in == Incoming(c)
           ready == IsReady(B, c)
           i == SlotIndex(h, c)
           q == Filled(h, c, in)
           w == Waits(h, in)
           n == Enters(h, c, in)
<1>1. /\ c \in Nat /\ in \in Seq(P) /\ ready \in BOOLEAN /\ Latency \in Nat
  BY LinkStep, CyclesInHorizon, LinkAssumption DEF IsReady
<1>2. h \in BufferedState(P) /\ Bounded(h)
  BY DEF TypeInv, HandlerOK
<1>3. h.pendingPackets = <<>> /\ \A k \in 0 .. Latency - 1 : h.slots[k] = <<>>
  BY <1>1 DEF NothingYet
<1>4. in = <<>>
  BY DEF Incoming
<1>5. w = <<>>
  <2>1. w = <<>> \o <<>>
    BY <1>3, <1>4 DEF Waits
  <2> QED BY <2>1
<1>6. /\ i \in 0 .. Latency - 1 /\ n \in 0 .. Len(w) /\ q \in Seq(Stamps(P))
  <2> HIDE DEF h, in
  <2> QED BY <1>1, <1>2, FillProps
<1>7. n = 0
  BY <1>5, <1>6, EmptySeq
<1>8. q = <<>>
  <2>1. \A j \in DOMAIN q : FALSE
    <3>1. \A j \in DOMAIN q : j \in DOMAIN h.slots[i] \/ j - Len(h.slots[i]) \in 1 .. n
      <4> HIDE DEF h, in
      <4> QED BY <1>1, <1>2, FilledProps
    <3>2. h.slots[i] = <<>> /\ DOMAIN <<>> = {} /\ 1 .. 0 = {}
      BY <1>3, <1>6, EmptySeq
    <3> HIDE DEF n, q, h, i
    <3> QED BY <1>7, <3>1, <3>2
  <2>2. DOMAIN q = 1 .. Len(q) /\ Len(q) \in Nat
    BY <1>6, LenProperties
  <2> HIDE DEF q
  <2>3. Len(q) = 0
    BY <2>1, <2>2
  <2> QED BY <1>6, <2>3, EmptySeq
<1>9. /\ Outcome.state.slots = [h.slots EXCEPT ![i] = IF ready THEN <<>> ELSE q]
      /\ Outcome.state.pendingPackets = Remains(h, c, in)
      /\ Outcome.readyNext = CheckSpace(Outcome.state, c + 1)
      /\ Outcome.state \in BufferedState(P)
      /\ Outcome.sent = IF ready THEN q ELSE <<>>
  <2>1. Outcome = BufferedProcess(h, c, in, ready)
    BY DEF Outcome, Processed
  <2> HIDE DEF ready, h, in
  <2> QED BY <1>1, <1>2, <2>1, BufferedProps DEF SlotsAfter
<1>10. h.slots \in [0 .. Latency - 1 -> Seq(Stamps(P))]
  BY <1>2 DEF BufferedState
<1>11. \A k \in 0 .. Latency - 1 : Outcome.state.slots[k] = <<>>
  <2> HIDE DEF h, q, i, ready
  <2> QED BY <1>3, <1>8, <1>9, <1>10
<1>12. Outcome.state.pendingPackets = <<>>
  <2>1. Remains(h, c, in) = SubSeq(w, n + 1, Len(w))
    BY DEF Remains
  <2>2. SubSeq(w, n + 1, Len(w)) \in Seq(P) /\ Len(SubSeq(w, n + 1, Len(w))) = 0
    <3>1. w \in Seq(P) /\ Len(w) = 0
      BY <1>5, EmptySeq
    <3> HIDE DEF w, n
    <3> QED BY <1>6, <1>7, <3>1, CutProps
  <2> HIDE DEF w, n
  <2> QED BY <1>9, <2>1, <2>2, EmptySeq
<1>13. Outcome.readyNext = TRUE
  <2>1. SlotIndex(Outcome.state, c + 1) \in 0 .. Latency - 1
    <3>1. Outcome.state.totalBackpressure \in Nat
      BY <1>9 DEF BufferedState
    <3> DEFINE d == c + 1
    <3>2. d \in Nat
      BY <1>1
    <3> HIDE DEF d
    <3>3. SlotIndex(Outcome.state, d) \in 0 .. Latency - 1
      BY <3>1, <3>2, SlotIndexType
    <3> QED BY <3>3 DEF d
  <2>2. Len(Outcome.state.slots[SlotIndex(Outcome.state, c + 1)]) = 0
    BY <1>11, <2>1, EmptySeq
  <2>3. CheckSpace(Outcome.state, c + 1) = TRUE
    BY <2>2, LinkAssumption DEF CheckSpace
  <2> QED BY <1>9, <2>3
<1>14. Outcome.sent = <<>>
  <2> HIDE DEF q, ready
  <2> QED BY <1>8, <1>9
<1> QED BY <1>11, <1>12, <1>13, <1>14

\* What was refused in the past of the link is in the past of the sink.
LEMMA RefusedPast ==
    ASSUME TypeInv, SinkDecides, RefusesNext, link.cycle \in Cycles, Decided(B, link.cycle),
           NEW e \in Nat, e < link.cycle, Refused(e)
    PROVE  e < sink.cycle
<1>1. link.cycle \in Nat /\ link.cycle \in Horizon /\ sink.cycle \in Nat
      /\ sink.nextUpdateCycle \in Nat
  BY CyclesInHorizon DEF TypeInv
<1>2. e \in Cycles /\ e \in Horizon
  BY CyclesInHorizon, FlowPathAssumption DEF Cycles
<1>3. link.cycle < Frontier
  BY <1>1 DEF SinkDecides, Decided
<1>4. SUFFICES ASSUME e = sink.cycle, sink.nextUpdateCycle = e + 1 PROVE FALSE
  BY <1>2 DEF RefusesNext
<1>5. e # 0
  BY DEF SinkDecides, Granted, Refused
<1>6. Frontier = e + 1
  BY <1>4, <1>5 DEF Frontier
<1> QED BY <1>1, <1>3, <1>6

\* No slot sends more than the bandwidth in a cycle.
LEMMA SentBounded ==
    ASSUME TypeInv, kind = "buffered", LinkTick
    PROVE  Len(Outcome.sent) <= Bandwidth
<1> DEFINE c == link.cycle
           h == link.handler
           in == Incoming(c)
           ready == IsReady(B, c)
<1>1. c \in Nat /\ in \in Seq(P) /\ ready \in BOOLEAN
  BY LinkStep, CyclesInHorizon DEF IsReady
<1>2. h \in BufferedState(P) /\ Bounded(h)
  BY DEF TypeInv, HandlerOK
<1>3. Outcome.sent = IF ready THEN Filled(h, c, in) ELSE <<>>
  <2>1. Outcome = BufferedProcess(h, c, in, ready)
    BY DEF Outcome, Processed
  <2> HIDE DEF ready, h, in, c
  <2> QED BY <1>1, <1>2, <2>1, BufferedProps
<1>4. Len(Filled(h, c, in)) <= Bandwidth
  <2> HIDE DEF ready, h, in, c
  <2> QED BY <1>1, <1>2, FillProps
<1>5. Len(<<>>) <= Bandwidth
  BY EmptySeq, LinkAssumption
<1> QED BY <1>3, <1>4, <1>5

\* A cycle of the link decides the next cycle and no other, and before its latency
\* has passed it decides as Link.Init did.
LEMMA LinkDecidesNext ==
    ASSUME TypeInv, NothingYet, LinkDecides, kind = "buffered", LinkTick
    PROVE  NothingYet' /\ LinkDecides'
<1> DEFINE c == link.cycle
<1>1. /\ c \in Cycles /\ Outcome.readyNext \in BOOLEAN
      /\ link' = [cycle |-> c + 1, handler |-> Outcome.state]
      /\ A'.decision = DecidedAlso(A.decision, {c + 1}, Outcome.readyNext)
  BY LinkStep
<1>2. /\ c \in Nat /\ Latency \in Nat \ {0} /\ Horizon \subseteq Nat
      /\ A.decision \in [Horizon -> {"unset", "ready", "notReady"}]
  <2>1. Horizon \subseteq Nat
    BY DEF Horizon
  <2>2. A.decision \in [Horizon -> {"unset", "ready", "notReady"}]
    BY DEF TypeInv, PortState
  <2> QED BY <1>1, <2>1, <2>2, LinkAssumption, CyclesInHorizon
<1>3. NothingYet /\ LinkDecides
  OBVIOUS
<1>4. NothingYet'
  <2>1. SUFFICES ASSUME link'.cycle <= Latency
                 PROVE  /\ link'.handler.pendingPackets = <<>>
                        /\ \A i \in 0 .. Latency - 1 : link'.handler.slots[i] = <<>>
    BY DEF NothingYet
  <2>2. c < Latency
    BY <1>1, <1>2, <2>1
  <2> QED BY <1>1, <1>3, <2>2, NothingFills
<1>5. LinkDecides'
  <2>1. SUFFICES ASSUME NEW d \in Horizon
                 PROVE  /\ A'.decision[d] # "unset" => d <= Latency \/ d <= link'.cycle
                        /\ d <= Latency => A'.decision[d] = "ready"
    BY DEF LinkDecides
  <2>2. link'.cycle = c + 1 /\ d \in Nat
    BY <1>1, <1>2
  <2>3. /\ A.decision[d] # "unset" => d <= Latency \/ d <= c
        /\ d <= Latency => A.decision[d] = "ready"
    BY <1>3 DEF LinkDecides
  <2>4. /\ A.decision[d] # "unset" => A'.decision[d] = A.decision[d]
        /\ d # c + 1 => A'.decision[d] = A.decision[d]
    <3> DEFINE cs == {c + 1}
    <3>1. A'.decision = DecidedAlso(A.decision, cs, Outcome.readyNext)
          /\ (d \in cs => d = c + 1)
      BY <1>1
    <3> HIDE DEF cs
    <3>2. /\ A.decision[d] # "unset" =>
                DecidedAlso(A.decision, cs, Outcome.readyNext)[d] = A.decision[d]
          /\ d \notin cs =>
                DecidedAlso(A.decision, cs, Outcome.readyNext)[d] = A.decision[d]
      <4>1. A.decision \in [Horizon -> {"unset", "ready", "notReady"}]
            /\ Outcome.readyNext \in BOOLEAN
        BY <1>1, <1>2
      <4> QED BY <4>1, DecisionsStay
    <3> QED BY <3>1, <3>2
  <2> QED BY <1>2, <2>2, <2>3, <2>4
<1> QED BY <1>4, <1>5

\* A cycle of the link contradicts no decision of its own, and puts no more
\* under a cycle of the second port than the sink granted.
LEMMA PromisesKeptByLink ==
    ASSUME TypeInv, StrandInv, Promises, kind = "buffered", LinkTick
    PROVE  Promises'
<1> DEFINE c == link.cycle
           sent == Outcome.sent
<1>1. /\ c \in Cycles /\ Decided(B, c)
      /\ Outcome.readyNext \in BOOLEAN /\ sent \in Seq(Stamps(P))
      /\ link' = [cycle |-> c + 1, handler |-> Outcome.state]
      /\ A'.decision = DecidedAlso(A.decision, {c + 1}, Outcome.readyNext)
      /\ B'.decision = B.decision /\ B'.mail = MailedAlso(B.mail, sent)
      /\ fault' = IF Contradicts(A, {c + 1}, Outcome.readyNext) THEN "panic" ELSE fault
      /\ UNCHANGED <<kind, sink, iq>>
  BY LinkStep DEF Asks
<1>2. /\ c \in Nat /\ c \in Horizon /\ Latency \in Nat \ {0} /\ LastCycle \in Nat
      /\ InCapacity \in Nat
      /\ sink.cycle \in Nat /\ sink.nextUpdateCycle \in Nat
      /\ B.mail \in [Cycles -> Seq(P)]
      /\ A.decision \in [Horizon -> {"unset", "ready", "notReady"}]
      /\ Horizon \subseteq Nat /\ 0 \in Cycles
      /\ \A e \in Cycles : e \in Horizon /\ e \in Nat
  <2>1. Horizon \subseteq Nat
    BY DEF Horizon
  <2>2. 0 \in Cycles /\ LastCycle \in Nat /\ InCapacity \in Nat /\ Latency \in Nat \ {0}
    BY LinkAssumption, FlowPathAssumption, QueuesAssumption DEF Cycles
  <2>3. /\ sink.cycle \in Nat /\ sink.nextUpdateCycle \in Nat
        /\ B.mail \in [Cycles -> Seq(P)]
        /\ A.decision \in [Horizon -> {"unset", "ready", "notReady"}]
    BY DEF TypeInv, PortState
  <2> QED BY <1>1, <2>1, <2>2, <2>3, CyclesInHorizon
<1>3. /\ fault = "none" /\ NothingYet
      /\ LinkDecides /\ SinkDecides /\ RefusesNext /\ GrantsFit /\ MailFits
  BY DEF Promises
<1>4. /\ \A j \in DOMAIN sent : sent[j].cycle = c \/ Stale(sent[j])
      /\ sent = <<>> \/ Granted(c)
  BY LinkStamps DEF StrandInv
<1>5. c + 1 \in Horizon
  BY <1>1, <1>2 DEF Cycles, Horizon
<1>6. NothingYet' /\ LinkDecides'
  BY <1>3, LinkDecidesNext
<1>7. fault' = "none"
  <2>1. SUFFICES ASSUME Decided(A, c + 1), IsReady(A, c + 1) # Outcome.readyNext
                 PROVE  FALSE
    BY <1>1, <1>3 DEF Contradicts
  <2>2. c + 1 <= Latency
    BY <1>2, <1>3, <1>5, <2>1 DEF LinkDecides, Decided
  <2>3. IsReady(A, c + 1) = TRUE
    BY <1>3, <1>5, <2>2 DEF LinkDecides, IsReady
  <2>4. Outcome.readyNext = TRUE
    <3>1. c < Latency
      BY <1>2, <2>2
    <3> QED BY <1>3, <3>1, NothingFills
  <2> QED BY <2>1, <2>3, <2>4
<1>9. SinkDecides'
  <2>1. c < Frontier
    BY <1>1, <1>2, <1>3 DEF SinkDecides, Decided
  <2>2. Frontier' = Frontier /\ link'.cycle = c + 1 /\ Frontier \in Nat
    BY <1>1, <1>2 DEF Frontier
  <2>3. link'.cycle <= Frontier'
    BY <1>2, <2>1, <2>2
  <2> QED BY <1>1, <1>3, <2>2, <2>3 DEF SinkDecides, Granted
<1>10. RefusesNext' /\ GrantsFit'
  BY <1>1, <1>3 DEF RefusesNext, GrantsFit, Refused, Granted
<1>11. ASSUME NEW j \in DOMAIN sent, sent[j].cycle \in Cycles, sent[j].cycle # c
       PROVE  sent[j].cycle < sink.cycle /\ sent[j].cycle # 0
  <2> DEFINE e == sent[j].cycle
  <2>1. Stale(sent[j])
    BY <1>4, <1>11
  <2>2. e < c /\ Refused(e) /\ e \in Nat
    BY <1>2, <1>11, <2>1 DEF Stale
  <2>3. e # 0
    BY <1>3, <2>2 DEF SinkDecides, Granted, Refused
  <2> HIDE DEF e
  <2>4. e < sink.cycle
    BY <1>1, <1>3, <2>2, RefusedPast
  <2> QED BY <2>3, <2>4 DEF e
<1>12. ASSUME NEW e \in Cycles, \A k \in DOMAIN sent : sent[k].cycle # e
       PROVE  B'.mail[e] = B.mail[e]
  <2>1. /\ sent \in Seq(Stamps(P)) /\ B.mail \in [Cycles -> Seq(P)]
        /\ B'.mail = MailedAlso(B.mail, sent)
    BY <1>1, <1>2
  <2> DEFINE mail == B.mail
  <2> HIDE DEF sent, mail
  <2>2. MailedAlso(mail, sent)[e] = mail[e]
    BY <1>12, <2>1, MailStays DEF mail
  <2> QED BY <2>1, <2>2 DEF mail
<1>13. MailFits'
  <2>1. B'.mail[0] = <<>>
    <3>1. \A j \in DOMAIN sent : sent[j].cycle # 0
      <4>1. CASE c = 0
        <5>1. c < Latency
          BY <1>2, <4>1
        <5>2. sent = <<>>
          BY <1>3, <5>1, NothingFills
        <5> QED BY <5>2, EmptySeq
      <4>2. CASE c # 0
        BY <1>2, <1>11, <4>2
      <4> QED BY <4>1, <4>2
    <3> QED BY <1>2, <1>3, <1>12, <3>1 DEF MailFits
  <2>2. ASSUME NEW e \in Cycles, e >= sink'.cycle
        PROVE  (B'.decision[e] = "notReady" => B'.mail[e] = <<>>) /\ Len(B'.mail[e]) <= Bandwidth
    <3>1. e \in Nat /\ e >= sink.cycle
      BY <1>1, <1>2, <2>2
    <3>2. (Refused(e) => B.mail[e] = <<>>) /\ Len(B.mail[e]) <= Bandwidth
      BY <1>3, <3>1 DEF MailFits
    <3>3. CASE \A j \in DOMAIN sent : sent[j].cycle # e
      <4>1. B'.mail[e] = B.mail[e]
        BY <1>12, <3>3
      <4> QED BY <1>1, <3>2, <4>1 DEF Refused
    <3>4. CASE \E j \in DOMAIN sent : sent[j].cycle = e
      <4>1. PICK j \in DOMAIN sent : sent[j].cycle = e
        BY <3>4
      <4>2. e = c
        BY <1>2, <1>11, <3>1, <4>1
      <4>3. Granted(e) /\ ~Refused(e)
        BY <1>4, <4>1, <4>2, EmptySeq DEF Granted, Refused
      <4>4. B.mail[e] = <<>>
        BY <1>2, <4>2 DEF StrandInv
      <4>5. StampedFor(sent, e) \in Seq(P) /\ Len(StampedFor(sent, e)) <= Len(sent)
        BY <1>1, StampedForProps DEF Gathered
      <4>6. B'.mail[e] = StampedFor(sent, e)
        BY <1>1, <4>4, <4>5, ConcatEmptySeq DEF MailedAlso
      <4>7. Len(sent) <= Bandwidth /\ Len(sent) \in Nat /\ Len(StampedFor(sent, e)) \in Nat
            /\ Bandwidth \in Nat
        BY <1>1, <4>5, SentBounded, LenProperties, LinkAssumption
      <4>8. Len(B'.mail[e]) <= Bandwidth
        BY <4>5, <4>6, <4>7
      <4> QED BY <1>1, <4>3, <4>8 DEF Refused
    <3> QED BY <3>3, <3>4
  <2> QED BY <2>1, <2>2 DEF MailFits, Refused
<1> QED BY <1>6, <1>7, <1>9, <1>10, <1>13 DEF Promises

\* The sink stores what it granted, and what it grants next still fits.
LEMMA SinkStores ==
    ASSUME TypeInv, Promises, BandwidthsFit, SinkTick
    PROVE  /\ ~Overflows(iq, B.mail[sink.cycle])
           /\ RemainReadyCycle(Stored) \in Nat /\ RemainReadyCycle(Stored) <= InCapacity
           /\ \A d \in Horizon : Granted(d) /\ d >= sink.cycle + 1 =>
                 d - sink.cycle <= RemainReadyCycle(Stored)
           /\ sink.cycle = 0 => RemainReadyCycle(Stored) >= 1
<1> DEFINE c == sink.cycle
           nu == sink.nextUpdateCycle
           m == B.mail[c]
           y == RemainReadyCycle(Stored)
           x == RemainReadyCycle(iq)
<1>1. /\ c \in Cycles /\ m \in Seq(P) /\ Stored \in Seq(P) /\ Len(Stored) <= InCapacity
      /\ iq \in Seq(P) /\ Len(iq) <= InCapacity /\ nu \in Nat
  BY SinkStep DEF TypeInv
<1>2. /\ c \in Nat /\ c \in Horizon /\ Horizon \subseteq Nat
  <2>1. Horizon \subseteq Nat
    BY DEF Horizon
  <2> QED BY <1>1, <2>1, CyclesInHorizon
<1>3. /\ SinkDecides /\ RefusesNext /\ GrantsFit /\ MailFits
  BY DEF Promises
<1>4. y \in Nat /\ y <= InCapacity /\ x \in Nat
  BY <1>1, RemainType
<1>5. /\ Len(iq) \in Nat /\ Len(m) \in Nat /\ Len(Stored) \in Nat /\ InCapacity \in Nat
      /\ Bandwidth \in Nat /\ InBandwidth \in Nat /\ Bandwidth <= InBandwidth
  BY <1>1, LenProperties, QueuesAssumption, LinkAssumption DEF BandwidthsFit
<1>6. Stored = Store(iq, m)
  BY DEF Stored
<1>7. Len(Stored) <= Len(iq) + Len(m)
  BY <1>1, <1>6, StoreProps
<1>8. Granted(c) \/ Refused(c)
  <2>1. c < Frontier
    BY <1>1, <1>2, <1>3 DEF SinkDecides, Frontier
  <2>2. B.decision[c] \in {"unset", "ready", "notReady"}
    BY <1>2 DEF TypeInv, PortState
  <2> QED BY <1>2, <1>3, <2>1, <2>2 DEF SinkDecides, Granted, Refused
<1> HIDE DEF m, x, y
<1>9. CASE c = 0
  <2>1. m = <<>> /\ iq = <<>> /\ nu = 0
    BY <1>3, <1>9 DEF MailFits, GrantsFit, SinkDecides, m
  <2>2. Len(m) = 0 /\ Len(iq) = 0
    BY <2>1, EmptySeq
  <2>3. ~Overflows(iq, m)
    BY <1>5, <2>2 DEF Overflows
  <2>4. Stored = <<>>
    BY <1>1, <1>5, <1>7, <2>2, EmptySeq
  <2>5. y >= 1
    BY <2>4, RemainEmpty DEF y
  <2>6. ASSUME NEW d \in Horizon, Granted(d), d >= c + 1
        PROVE  d - c <= y
    <3>1. d < Frontier /\ Frontier = 2
      BY <1>3, <2>1, <2>6 DEF SinkDecides, Granted, Frontier
    <3> QED BY <1>2, <1>4, <1>9, <2>5, <2>6, <3>1
  <2> QED BY <1>4, <2>3, <2>5, <2>6 DEF m, y
<1>10. CASE c # 0 /\ Granted(c)
  <2>1. x >= 1
    BY <1>2, <1>3, <1>4, <1>10 DEF GrantsFit, x
  <2>2. Len(m) <= InBandwidth
    BY <1>1, <1>2, <1>3, <1>5 DEF MailFits, m
  <2>3. ~Overflows(iq, m) /\ x <= y + 1
    BY <1>1, <1>6, <2>1, <2>2, RemainStored DEF x, y
  <2>4. ASSUME NEW d \in Horizon, Granted(d), d >= c + 1
        PROVE  d - c <= y
    <3>1. d \in Nat /\ d >= c
      BY <1>2, <2>4
    <3>2. d - c + 1 <= x
      BY <1>2, <1>3, <1>10, <2>4, <3>1 DEF GrantsFit, x
    <3> QED BY <1>2, <1>4, <2>3, <3>1, <3>2
  <2> QED BY <1>4, <1>10, <2>3, <2>4 DEF m, y
<1>11. CASE c # 0 /\ Refused(c)
  <2>1. m = <<>> /\ Len(m) = 0
    BY <1>1, <1>2, <1>3, <1>11, EmptySeq DEF MailFits, m
  <2>2. ~Overflows(iq, m)
    BY <1>1, <1>5, <2>1 DEF Overflows
  <2>3. nu = c + 1
    BY <1>2, <1>3, <1>11 DEF RefusesNext
  <2>4. ASSUME NEW d \in Horizon, Granted(d), d >= c + 1
        PROVE  FALSE
    <3>1. d < Frontier
      BY <1>3, <2>4 DEF SinkDecides, Granted
    <3>2. Frontier = c + 1
      BY <1>2, <1>11, <2>3 DEF Frontier
    <3> QED BY <1>2, <2>4, <3>1, <3>2
  <2> QED BY <1>4, <1>11, <2>2, <2>4 DEF m, y
<1> QED BY <1>8, <1>9, <1>10, <1>11

\* The decisions that a Tick of the input queue declares agree with those it
\* declared before, and it refuses the next cycle only when it has not granted it.
LEMMA PromisesKeptBySink ==
    ASSUME TypeInv, StrandInv, Promises, kind = "buffered", BandwidthsFit, SinkTick
    PROVE  Promises'
<1> DEFINE c == sink.cycle
           nu == sink.nextUpdateCycle
           y == RemainReadyCycle(Stored)
<1>1. /\ c \in Cycles /\ Stored \in Seq(P) /\ Len(Stored) <= InCapacity
      /\ Freed \in 0 .. Len(Stored) /\ Decl.ready \in BOOLEAN
      /\ B'.mail = Blank(B.mail, c)
      /\ UNCHANGED <<kind, link, A>>
      /\ fault = "none" /\ nu \in Nat /\ link.cycle \in Nat
      /\ B.mail \in [Cycles -> Seq(P)]
      /\ B.decision \in [Horizon -> {"unset", "ready", "notReady"}]
  <2>1. /\ c \in Cycles /\ Stored \in Seq(P) /\ Len(Stored) <= InCapacity
        /\ Freed \in 0 .. Len(Stored) /\ Decl.ready \in BOOLEAN
        /\ B'.mail = Blank(B.mail, c)
        /\ UNCHANGED <<kind, link, A>> /\ fault = "none"
    BY SinkStep
  <2>2. /\ nu \in Nat /\ link.cycle \in Nat
        /\ B.mail \in [Cycles -> Seq(P)]
        /\ B.decision \in [Horizon -> {"unset", "ready", "notReady"}]
    BY DEF TypeInv, PortState
  <2> QED BY <2>1, <2>2
<1>2. /\ ~Overflows(iq, B.mail[c])
      /\ y \in Nat /\ y <= InCapacity
      /\ \A d \in Horizon : Granted(d) /\ d >= c + 1 => d - c <= y
      /\ c = 0 => y >= 1
  BY SinkStores
<1>3. /\ fault' = IF Contradicts(B, Decl.cycles, Decl.ready) THEN "panic" ELSE "none"
      /\ iq' = SubSeq(Stored, Freed + 1, Len(Stored))
      /\ B'.decision = DecidedAlso(B.decision, Decl.cycles, Decl.ready)
      /\ sink' = [cycle |-> c + 1, nextUpdateCycle |-> NextUpdateCycle(Stored, c, nu)]
  BY <1>2, SinkStep
<1>4. /\ c \in Nat /\ LastCycle \in Nat /\ Latency \in Nat /\ InCapacity \in Nat
      /\ c <= LastCycle /\ Horizon \subseteq Nat /\ 0 \in Cycles /\ 0 \in Horizon
      /\ \A e \in Cycles : e \in Horizon /\ e \in Nat
  <2>1. Horizon \subseteq Nat
    BY DEF Horizon
  <2>2. /\ 0 \in Cycles /\ LastCycle \in Nat /\ InCapacity \in Nat /\ Latency \in Nat
    BY LinkAssumption, FlowPathAssumption, QueuesAssumption DEF Cycles
  <2>3. c \in Nat /\ c <= LastCycle
    BY <1>1, <2>2 DEF Cycles
  <2> QED BY <2>1, <2>2, <2>3, CyclesInHorizon
<1>5. /\ NothingYet /\ LinkDecides /\ SinkDecides /\ RefusesNext /\ GrantsFit /\ MailFits
  BY DEF Promises
<1>6. NothingYet' /\ LinkDecides'
  BY <1>1, <1>5 DEF NothingYet, LinkDecides
<1>7. \A e \in Cycles : B'.mail[e] = IF e = c THEN <<>> ELSE B.mail[e]
  BY <1>1 DEF Blank
<1>8. /\ iq' \in Seq(P) /\ y <= RemainReadyCycle(iq') /\ RemainReadyCycle(iq') \in Nat
  <2>1. /\ iq' \in Seq(P) /\ Len(iq') = Len(Stored) - Freed /\ Len(Stored) \in Nat
        /\ Len(iq') \in Nat
    BY <1>1, <1>3, CutProps, LenProperties
  <2>2. Len(iq') <= Len(Stored)
    BY <1>1, <2>1
  <2>3. Len(iq') <= InCapacity
    BY <1>1, <1>4, <2>1, <2>2
  <2> QED BY <1>1, <2>1, <2>2, <2>3, RemainFreed, RemainType
<1>9. /\ c # 0 => nu >= c + 1
      /\ c = 0 => nu = 0
      /\ Granted(0)
      /\ \A d \in Horizon : B.decision[d] # "unset" <=> d < Frontier
      /\ Frontier = IF nu < 2 THEN 2 ELSE nu
      /\ link.cycle <= Frontier
  BY <1>4, <1>5 DEF SinkDecides, Frontier
<1>10. \A d \in Horizon : Refused(d) => d <= c /\ d # 0 /\ d < nu
  <2>1. SUFFICES ASSUME NEW d \in Horizon, Refused(d)
                 PROVE  d <= c /\ d # 0 /\ d < nu
    OBVIOUS
  <2>2. d < c \/ (d = c /\ nu = d + 1)
    BY <1>5, <2>1 DEF RefusesNext
  <2>3. d # 0
    BY <1>9, <2>1 DEF Granted, Refused
  <2> QED BY <1>1, <1>4, <1>9, <2>2, <2>3
<1> HIDE DEF y
<1>11. CASE y = 0
  <2>1. Decl = [cycles |-> {c + 1}, ready |-> FALSE] /\ NextUpdateCycle(Stored, c, nu) = c + 2
    BY <1>11 DEF Decl, Declared, NextUpdateCycle, y
  <2>2. c # 0 /\ c + 1 \in Horizon
    BY <1>2, <1>4, <1>11 DEF Horizon
  <2>3. B.decision[c + 1] = "unset"
    <3>1. ~Granted(c + 1)
      BY <1>2, <1>4, <1>11, <2>2
    <3>2. ~Refused(c + 1)
      BY <1>4, <1>10, <2>2
    <3> QED BY <1>1, <2>2, <3>1, <3>2 DEF Granted, Refused
  <2>4. nu = c + 1 /\ Frontier = c + 1
    BY <1>1, <1>4, <1>9, <2>2, <2>3
  <2>5. \A d \in Horizon : B'.decision[d] = IF d = c + 1 THEN "notReady" ELSE B.decision[d]
    BY <1>3, <2>1, <2>3 DEF DecidedAlso
  <2>6. fault' = "none"
    <3>1. ~Contradicts(B, Decl.cycles, Decl.ready)
      BY <2>1, <2>3 DEF Contradicts, Decided
    <3> QED BY <1>3, <3>1
  <2>7. sink'.cycle = c + 1 /\ sink'.nextUpdateCycle = c + 2 /\ Frontier' = c + 2
    BY <1>3, <1>4, <2>1 DEF Frontier
  <2>8. SinkDecides'
    <3>1. \A d \in Horizon : B'.decision[d] # "unset" <=> d < c + 2
      BY <1>4, <1>9, <2>4, <2>5
    <3>2. B'.decision[0] = "ready"
      BY <1>4, <1>9, <2>5 DEF Granted
    <3>3. link'.cycle <= Frontier'
      BY <1>1, <1>4, <1>9, <2>4, <2>7
    <3> QED BY <1>4, <2>7, <3>1, <3>2, <3>3 DEF SinkDecides, Granted
  <2>9. \A d \in Horizon : Refused(d)' => d <= c \/ d = c + 1
    BY <1>10, <2>5 DEF Refused
  <2>10. RefusesNext'
    <3>1. SUFFICES ASSUME NEW d \in Horizon, Refused(d)'
                   PROVE  d < sink'.cycle \/ (d = sink'.cycle /\ sink'.nextUpdateCycle = d + 1)
      BY DEF RefusesNext
    <3> QED BY <1>4, <2>7, <2>9, <3>1
  <2>11. GrantsFit'
    <3>1. SUFFICES ASSUME NEW d \in Horizon, Granted(d)', d >= c + 1
                   PROVE  FALSE
      BY <1>4, <2>7 DEF GrantsFit
    <3>2. Granted(d)
      BY <2>5, <3>1 DEF Granted
    <3>3. d - c <= 0
      BY <1>2, <1>11, <3>1, <3>2
    <3> QED BY <1>4, <3>1, <3>3
  <2>12. MailFits'
    <3>1. B'.mail[0] = <<>>
      BY <1>4, <1>5, <1>7 DEF MailFits
    <3>2. ASSUME NEW e \in Cycles, e >= c + 1
          PROVE  (B'.decision[e] = "notReady" => B'.mail[e] = <<>>)
                 /\ Len(B'.mail[e]) <= Bandwidth
      <4>1. e # c /\ e \in Nat /\ e \in Horizon /\ e >= c
        BY <1>4, <3>2
      <4>2. B'.mail[e] = B.mail[e] /\ Len(B.mail[e]) <= Bandwidth
        BY <1>5, <1>7, <4>1 DEF MailFits
      <4>3. e = c + 1 => B.mail[e] = <<>>
        BY <1>1, <1>4, <1>9, <2>4, <3>2 DEF StrandInv
      <4>4. B'.decision[e] = "notReady" => e = c + 1
        BY <1>4, <2>9, <3>2, <4>1 DEF Refused
      <4> QED BY <4>2, <4>3, <4>4
    <3> QED BY <2>7, <3>1, <3>2 DEF MailFits, Refused
  <2> QED BY <1>6, <2>6, <2>8, <2>10, <2>11, <2>12 DEF Promises
<1>12. CASE y # 0
  <2> DEFINE nn == IF nu > c + y THEN nu ELSE c + y + 1
  <2>1. Decl = [cycles |-> nu .. (c + y), ready |-> TRUE] /\ NextUpdateCycle(Stored, c, nu) = nn
    BY <1>12 DEF Decl, Declared, NextUpdateCycle, y
  <2>2. \A d \in nu .. (c + y) : d \in Horizon
    <3>1. \A d \in nu .. (c + y) : d \in Nat /\ d <= LastCycle + InCapacity
      BY <1>1, <1>2, <1>4
    <3> QED BY <1>4, <3>1 DEF Horizon
  <2>3. fault' = "none"
    <3>1. ASSUME NEW d \in nu .. (c + y), Decided(B, d)
          PROVE  IsReady(B, d)
      <4>1. ~Refused(d)
        BY <1>1, <1>2, <1>4, <1>10, <2>2
      <4> QED BY <1>1, <2>2, <3>1, <4>1 DEF Decided, IsReady, Refused
    <3>2. \A d : IsReady(B, d) \in BOOLEAN
      BY DEF IsReady
    <3>3. ~Contradicts(B, Decl.cycles, Decl.ready)
      BY <2>1, <3>1, <3>2 DEF Contradicts
    <3> QED BY <1>3, <3>3
  <2>4. \A d \in Horizon : B'.decision[d] =
           IF d \in nu .. (c + y) /\ B.decision[d] = "unset" THEN "ready" ELSE B.decision[d]
    BY <1>3, <2>1 DEF DecidedAlso
  <2>5. /\ nn \in Nat /\ nn >= c + 2 /\ nn >= nu /\ nn >= c + y + 1
        /\ nn = nu \/ nn = c + y + 1
    BY <1>1, <1>2, <1>4, <1>12
  <2> HIDE DEF nn
  <2>6. sink'.cycle = c + 1 /\ sink'.nextUpdateCycle = nn /\ Frontier' = nn
    <3>1. sink'.cycle = c + 1 /\ sink'.nextUpdateCycle = nn
      BY <1>3, <2>1
    <3>2. ~(nn < 2)
      BY <1>4, <2>5
    <3> QED BY <3>1, <3>2 DEF Frontier
  <2>7. SinkDecides'
    <3>1. ASSUME NEW d \in Horizon
          PROVE  B'.decision[d] # "unset" <=> d < nn
      <4>1. d \in Nat /\ (B.decision[d] # "unset" <=> d < Frontier)
        BY <1>4, <1>9
      <4>2. B'.decision[d] # "unset" <=> d < Frontier \/ d \in nu .. (c + y)
        BY <2>4, <4>1
      <4>3. Frontier <= nn
        BY <1>1, <1>4, <1>9, <2>5
      <4>4. d < Frontier \/ d \in nu .. (c + y) => d < nn
        BY <1>1, <1>2, <1>4, <1>9, <2>5, <4>1
      <4>5. d < nn => d < Frontier \/ d \in nu .. (c + y)
        <5>1. d < nu => d < Frontier
          BY <1>1, <1>9, <4>1
        <5>2. d >= nu /\ d < nn => d \in nu .. (c + y)
          BY <1>1, <1>2, <1>4, <2>5, <4>1
        <5> QED BY <1>1, <4>1, <5>1, <5>2
      <4> QED BY <4>2, <4>4, <4>5
    <3>2. B'.decision[0] = "ready"
      BY <1>4, <1>9, <2>4 DEF Granted
    <3>3. link'.cycle <= Frontier'
      BY <1>1, <1>4, <1>9, <2>5, <2>6
    <3> QED BY <1>4, <2>5, <2>6, <3>1, <3>2, <3>3 DEF SinkDecides, Granted
  <2>8. \A d \in Horizon : Refused(d)' => d <= c
    BY <1>10, <2>4 DEF Refused
  <2>9. RefusesNext'
    <3>1. SUFFICES ASSUME NEW d \in Horizon, Refused(d)'
                   PROVE  d < sink'.cycle \/ (d = sink'.cycle /\ sink'.nextUpdateCycle = d + 1)
      BY DEF RefusesNext
    <3> QED BY <1>4, <2>6, <2>8, <3>1
  <2>10. GrantsFit'
    <3>1. SUFFICES ASSUME NEW d \in Horizon, Granted(d)', d >= c + 1
                   PROVE  d - (c + 1) + 1 <= RemainReadyCycle(iq')
      BY <1>4, <2>6 DEF GrantsFit
    <3>2. d \in Nat /\ d - c <= y
      <4>1. d \in Nat
        BY <1>4
      <4>2. CASE Granted(d)
        BY <1>2, <3>1, <4>1, <4>2
      <4>3. CASE ~Granted(d)
        <5>1. d \in nu .. (c + y)
          BY <2>4, <3>1, <4>3 DEF Granted
        <5> QED BY <1>1, <1>2, <1>4, <4>1, <5>1
      <4> QED BY <4>1, <4>2, <4>3
    <3> QED BY <1>2, <1>4, <1>8, <3>1, <3>2
  <2>11. MailFits'
    <3>1. B'.mail[0] = <<>>
      BY <1>4, <1>5, <1>7 DEF MailFits
    <3>2. ASSUME NEW e \in Cycles, e >= c + 1
          PROVE  (B'.decision[e] = "notReady" => B'.mail[e] = <<>>)
                 /\ Len(B'.mail[e]) <= Bandwidth
      <4>1. e # c /\ e \in Nat /\ e \in Horizon /\ e >= c
        BY <1>4, <3>2
      <4>2. B'.mail[e] = B.mail[e] /\ Len(B.mail[e]) <= Bandwidth
        BY <1>5, <1>7, <4>1 DEF MailFits
      <4>3. B'.decision[e] # "notReady"
        BY <1>4, <2>8, <3>2, <4>1 DEF Refused
      <4> QED BY <4>2, <4>3
    <3> QED BY <2>6, <3>1, <3>2 DEF MailFits, Refused
  <2> QED BY <1>6, <2>3, <2>7, <2>9, <2>10, <2>11 DEF Promises
<1> QED BY <1>11, <1>12

\* Every step keeps the promises.
LEMMA PromiseKept ==
    BandwidthsFit /\ TypeInv /\ StrandInv /\ PromiseInv /\ [Next]_vars => PromiseInv'
<1> SUFFICES ASSUME BandwidthsFit, TypeInv, StrandInv, PromiseInv, [Next]_vars
             PROVE  PromiseInv'
  OBVIOUS
<1>1. PromiseInv <=> (kind = "buffered" => Promises)
  BY DEF PromiseInv, Promises
<1>2. PromiseInv' <=> (kind' = "buffered" => Promises')
  BY DEF PromiseInv, Promises
<1>3. ASSUME UNCHANGED <<kind, link, sink, iq, B, fault>>, A'.decision = A.decision
      PROVE  PromiseInv'
  BY <1>1, <1>2, <1>3 DEF Promises, NothingYet, LinkDecides, SinkDecides, RefusesNext,
     GrantsFit, MailFits, Frontier, Granted, Refused
<1>4. CASE LinkTick
  <2>1. kind' = kind
    BY <1>4, LinkStep
  <2> QED BY <1>1, <1>2, <1>4, <2>1, PromisesKeptByLink
<1>5. CASE SinkTick
  <2>1. kind' = kind
    BY <1>5, SinkStep
  <2> QED BY <1>1, <1>2, <1>5, <2>1, PromisesKeptBySink
<1>6. CASE SourceSend
  <2>1. /\ A'.decision = A.decision
        /\ UNCHANGED <<kind, link, sink, iq, B, fault>>
    BY <1>6, SourceSendStep
  <2> QED BY <1>3, <2>1
<1>7. CASE SourceProcess \/ SourceNext \/ AdvanceTo \/ UNCHANGED vars
  BY <1>3, <1>7 DEF SourceProcess, SourceNext, AdvanceTo, vars
<1>8. CASE Finished
  BY <1>7, <1>8 DEF Finished
<1> QED BY <1>4, <1>5, <1>6, <1>7, <1>8 DEF Next, Source

\* A buffered link never takes back the readiness it declared, the input queue
\* never takes back its own and never overflows, for every workload, latency and
\* schedule, if a burst of the link fits the bandwidth and the capacity of the
\* queue.
THEOREM BufferedNeverFails ==
    BandwidthsFit => (Spec => [](kind = "buffered" => NoFault))
<1> SUFFICES ASSUME BandwidthsFit PROVE Spec => [](kind = "buffered" => NoFault)
  OBVIOUS
<1>1. TypeInv /\ StrandInv /\ PromiseInv /\ [Next]_vars => PromiseInv'
  BY PromiseKept
<1>2. PromiseInv => (kind = "buffered" => NoFault)
  BY DEF PromiseInv, NoFault
<1> QED BY <1>1, <1>2, PromiseInit, TypesHold, StrandHolds, PTL DEF Spec
-----------------------------------------------------------------------------
(* How many packets wait for a slot.                                       *)

\* The cycles with whose packets the link must still reckon: it was ready.
Reckoned == {d \in Horizon : /\ link.cycle - Latency <= d /\ d <= link.cycle
                             /\ A.decision[d] = "ready"}

CurrentSlot == link.handler.slots[SlotIndex(link.handler, link.cycle)]

\* The source sends no more than its bandwidth, once in a cycle that is ready.
SourceSends ==
    \A d \in Cycles : /\ d >= src.ahead => A.mail[d] = <<>>
                      /\ A.mail[d] # <<>> => A.decision[d] = "ready"
                      /\ Len(A.mail[d]) <= OutBandwidth

\* Only the slot of the cycle holds packets.
OneSlot ==
    \A i \in 0 .. Latency - 1 :
        i # SlotIndex(link.handler, link.cycle) => link.handler.slots[i] = <<>>

\* What waits, is in the slot or may still come.
Reckoning ==
    Len(link.handler.pendingPackets) + Len(CurrentSlot)
        + OutBandwidth * Cardinality(Reckoned)
    <= Bandwidth - 1 + OutBandwidth * (Latency + 1)

PendingSafe ==
    NothingYet /\ LinkDecides /\ OneSlot /\ Reckoning /\ PendingBounded

\* A product grows with its factor.
LEMMA MulLe ==
    ASSUME NEW b \in Nat, NEW x \in Nat, NEW y \in Nat, x <= y
    PROVE  b * x \in Nat /\ b * y \in Nat /\ b * x <= b * y
<1>1. y - x \in Nat /\ b * y = b * x + b * (y - x)
  OBVIOUS
<1>2. b * (y - x) \in Nat /\ b * x \in Nat
  BY <1>1
<1> QED BY <1>1, <1>2

\* One more cycle of a bandwidth.
LEMMA MulNext ==
    ASSUME NEW b \in Nat, NEW x \in Nat
    PROVE  b * (x + 1) = b * x + b
OBVIOUS

\* A window of cycles holds no more cycles than it is long.
LEMMA WindowSize ==
    ASSUME NEW c \in Int, NEW W, W \subseteq c - Latency .. c
    PROVE  IsFiniteSet(W) /\ Cardinality(W) \in Nat /\ Cardinality(W) <= Latency + 1
<1> DEFINE a == c - Latency
<1>1. a \in Int /\ Latency \in Nat /\ ~(a > c) /\ c - a + 1 = Latency + 1
  BY LinkAssumption
<1> HIDE DEF a
<1>2. IsFiniteSet(a .. c) /\ Cardinality(a .. c) = Latency + 1
  BY <1>1, FS_Interval
<1>3. W \in SUBSET (a .. c)
  BY DEF a
<1>4. IsFiniteSet(W) /\ Cardinality(W) <= Latency + 1
  BY <1>2, <1>3, FS_Subset
<1> QED BY <1>4, FS_CardinalityType

\* The window moves by one cycle: the oldest leaves it, the next may enter.
LEMMA WindowMoves ==
    ASSUME NEW W, NEW V, IsFiniteSet(W), NEW x, NEW y,
           V \subseteq (W \ {x}) \union {y}
    PROVE  LET kept == IF x \in W THEN Cardinality(W) - 1 ELSE Cardinality(W)
           IN  /\ kept \in Nat
               /\ Cardinality(V) \in Nat /\ Cardinality(V) <= kept + 1
               /\ y \notin V => Cardinality(V) <= kept
<1> DEFINE U == W \ {x}
           kept == IF x \in W THEN Cardinality(W) - 1 ELSE Cardinality(W)
<1>1. IsFiniteSet(U) /\ Cardinality(U) = kept
  BY FS_RemoveElement
<1> HIDE DEF kept
<1>2. Cardinality(U) \in Nat
  BY <1>1, FS_CardinalityType
<1>3. V \subseteq U \union {y} /\ (y \notin V => V \subseteq U)
  OBVIOUS
<1> HIDE DEF U
<1>4. /\ IsFiniteSet(U \union {y}) /\ Cardinality(U \union {y}) \in Nat
      /\ Cardinality(U \union {y}) <= Cardinality(U) + 1
  <2>1. /\ IsFiniteSet(U \union {y})
        /\ Cardinality(U \union {y}) = IF y \in U THEN Cardinality(U) ELSE Cardinality(U) + 1
    BY <1>1, FS_AddElement
  <2>2. Cardinality(U \union {y}) \in Nat
    BY <2>1, FS_CardinalityType
  <2> QED BY <1>2, <2>1, <2>2
<1>5. IsFiniteSet(V) /\ Cardinality(V) <= Cardinality(U \union {y})
  BY <1>3, <1>4, FS_Subset
<1>6. Cardinality(V) \in Nat
  BY <1>5, FS_CardinalityType
<1>7. y \notin V => Cardinality(V) <= Cardinality(U)
  BY <1>1, <1>3, FS_Subset
<1>8. kept \in Nat /\ Cardinality(V) <= kept + 1 /\ (y \notin V => Cardinality(V) <= kept)
  BY <1>1, <1>2, <1>4, <1>5, <1>6, <1>7
<1> QED BY <1>6, <1>8 DEF kept

\* In its cycle the link fills one slot and leaves what has no room pending; the
\* slot is empty afterwards if the downstream takes it, and stays the slot of the
\* next cycle if not (Process, with the shift of totalBackpressure).
LEMMA LinkCounts ==
    ASSUME TypeInv, OneSlot, kind = "buffered", LinkTick
    PROVE  LET slot     == Len(CurrentSlot)
               incoming == Len(Incoming(link.cycle))
               total    == Len(link.handler.pendingPackets) + slot + incoming
               left     == Len(link'.handler.pendingPackets)
               stays    == Len(CurrentSlot')
           IN  /\ slot \in Nat /\ incoming \in Nat /\ total \in Nat
               /\ left \in Nat /\ stays \in Nat
               /\ left = IF total > Bandwidth THEN total - Bandwidth ELSE 0
               /\ stays = IF IsReady(B, link.cycle) THEN 0
                          ELSE IF total > Bandwidth THEN Bandwidth ELSE total
               /\ Outcome.readyNext <=> stays < Bandwidth
               /\ OneSlot'
<1> DEFINE c == link.cycle
           h == link.handler
           in == Incoming(c)
           ready == IsReady(B, c)
           g == Outcome.state
           i == SlotIndex(h, c)
           j == SlotIndex(g, c + 1)
           w == Waits(h, in)
           n == Enters(h, c, in)
           q == Filled(h, c, in)
           slots == [h.slots EXCEPT ![i] = IF ready THEN <<>> ELSE q]
<1>1. /\ c \in Nat /\ in \in Seq(P) /\ ready \in BOOLEAN /\ Latency \in Nat \ {0}
      /\ Bandwidth \in Nat \ {0}
      /\ link' = [cycle |-> c + 1, handler |-> g]
  BY LinkStep, CyclesInHorizon, LinkAssumption DEF IsReady
<1>2. /\ h \in BufferedState(P) /\ Bounded(h)
      /\ h.slots \in [0 .. Latency - 1 -> Seq(Stamps(P))]
      /\ h.totalBackpressure \in Nat /\ h.pendingPackets \in Seq(P)
  <2>1. h \in BufferedState(P) /\ Bounded(h)
    BY DEF TypeInv, HandlerOK
  <2> HIDE DEF h
  <2> QED BY <2>1 DEF BufferedState
<1>3. /\ i \in 0 .. Latency - 1 /\ w \in Seq(P) /\ n \in 0 .. Len(w)
      /\ q \in Seq(Stamps(P)) /\ Len(q) <= Bandwidth
  <2> HIDE DEF h, in
  <2> QED BY <1>1, <1>2, FillProps
<1>4. /\ g.slots = slots /\ g.pendingPackets = SubSeq(w, n + 1, Len(w))
      /\ Outcome.readyNext = CheckSpace(g, c + 1)
      /\ g \in BufferedState(P)
      /\ g.totalBackpressure = IF ready THEN h.totalBackpressure
                               ELSE h.totalBackpressure + 1
  <2>1. Outcome = BufferedProcess(h, c, in, ready)
    BY DEF Outcome, Processed
  <2> HIDE DEF ready, h, in, c
  <2> DEFINE r == BufferedProcess(h, c, in, ready)
  <2>2. /\ c \in Nat /\ in \in Seq(P) /\ ready \in BOOLEAN
        /\ h \in BufferedState(P) /\ Bounded(h)
    BY <1>1, <1>2
  <2>3. /\ r.state.slots = SlotsAfter(h, c, in, ready)
        /\ r.state.pendingPackets = Remains(h, c, in)
        /\ r.readyNext = CheckSpace(r.state, c + 1)
        /\ r.state \in BufferedState(P)
        /\ r.state.totalBackpressure = IF ready THEN h.totalBackpressure
                                       ELSE h.totalBackpressure + 1
    BY <2>2, BufferedProps
  <2>4. r = Outcome
    BY <2>1
  <2> HIDE DEF r
  <2>5. /\ g.slots = SlotsAfter(h, c, in, ready) /\ g.pendingPackets = Remains(h, c, in)
        /\ Outcome.readyNext = CheckSpace(g, c + 1) /\ g \in BufferedState(P)
        /\ g.totalBackpressure = IF ready THEN h.totalBackpressure
                                 ELSE h.totalBackpressure + 1
    BY <2>3, <2>4
  <2> QED BY <2>5 DEF SlotsAfter, Remains
<1>5. j \in 0 .. Latency - 1
  <2> DEFINE d == c + 1
  <2>1. d \in Nat /\ g.totalBackpressure \in Nat
    BY <1>1, <1>4 DEF BufferedState
  <2> HIDE DEF d, g
  <2>2. SlotIndex(g, d) \in 0 .. Latency - 1
    BY <2>1, SlotIndexType
  <2> QED BY <2>2 DEF d
<1>6. ~ready => j = i
  <2> SUFFICES ASSUME ~ready PROVE j = i
    OBVIOUS
  <2>1. (c + 1) - g.totalBackpressure = c - h.totalBackpressure
    <3>1. /\ c \in Nat /\ h.totalBackpressure \in Nat
          /\ g.totalBackpressure = h.totalBackpressure + 1
      BY <1>1, <1>2, <1>4
    <3> HIDE DEF c, g, h
    <3> QED BY <3>1
  <2> DEFINE x == (c + 1) - g.totalBackpressure
             y == c - h.totalBackpressure
  <2>2. j = x % Latency /\ i = y % Latency
    BY DEF SlotIndex
  <2>3. x = y
    BY <2>1
  <2> HIDE DEF x, y, j, i
  <2> QED BY <2>2, <2>3
<1>7. Len(w) = Len(h.pendingPackets) + Len(in)
  BY <1>1, <1>2, ConcatProperties DEF Waits
<1>8. /\ Len(h.pendingPackets) \in Nat /\ Len(in) \in Nat /\ Len(w) \in Nat
      /\ Len(h.slots[i]) \in Nat /\ Len(h.slots[i]) <= Bandwidth
      /\ h.slots[i] \in Seq(Stamps(P))
  <2>1. h.slots[i] \in Seq(Stamps(P)) /\ Len(h.slots[i]) <= Bandwidth
    BY <1>2, <1>3 DEF Bounded
  <2> QED BY <1>1, <1>2, <1>3, <2>1, LenProperties
<1>9. n = IF Bandwidth - Len(h.slots[i]) < Len(w) THEN Bandwidth - Len(h.slots[i])
          ELSE Len(w)
  BY DEF Enters, Smaller
<1>10. Len(q) = Len(h.slots[i]) + n
  <2> DEFINE head == SubSeq(w, 1, n)
             t == Stamped(c, head)
  <2>1. head \in Seq(P) /\ Len(head) = n
    <3> HIDE DEF w, n
    <3> QED BY <1>3, CutProps
  <2>2. q = h.slots[i] \o t
    BY DEF Filled
  <2> HIDE DEF head
  <2>3. t \in Seq(Stamps(P)) /\ Len(t) = n
    BY <1>1, <2>1, StampedProps
  <2> HIDE DEF t, q, h, i
  <2> QED BY <1>8, <2>2, <2>3, ConcatProperties
<1>11. Len(g.pendingPackets) = Len(w) - n
  <2> HIDE DEF w, n, g
  <2> QED BY <1>3, <1>4, CutProps
<1>12. CurrentSlot = h.slots[i] /\ CurrentSlot' = g.slots[j]
       /\ link'.handler.pendingPackets = g.pendingPackets
  BY <1>1 DEF CurrentSlot
<1>13. ASSUME NEW k \in 0 .. Latency - 1
       PROVE  g.slots[k] = IF k = i THEN IF ready THEN <<>> ELSE q ELSE <<>>
  <2>1. k # i => h.slots[k] = <<>>
    BY DEF OneSlot
  <2> HIDE DEF h, i, q, ready, g
  <2> QED BY <1>2, <1>3, <1>4, <2>1
<1> HIDE DEF g, h, i, j, w, n, q, in, slots, ready
<1>14. OneSlot'
  <2>1. SlotIndex(link'.handler, link'.cycle) = j
    BY <1>1 DEF j
  <2>2. SUFFICES ASSUME NEW k \in 0 .. Latency - 1, k # j
                 PROVE  link'.handler.slots[k] = <<>>
    BY <2>1 DEF OneSlot
  <2> QED BY <1>1, <1>6, <1>13, <2>2
<1>15. Len(g.slots[j]) = IF ready THEN 0 ELSE Len(q)
  BY <1>5, <1>6, <1>13, EmptySeq
<1>16. Outcome.readyNext <=> Len(g.slots[j]) < Bandwidth
  BY <1>4 DEF CheckSpace, j
<1> DEFINE total == Len(h.pendingPackets) + Len(h.slots[i]) + Len(in)
<1>17. /\ total \in Nat
       /\ Len(w) - n = IF total > Bandwidth THEN total - Bandwidth ELSE 0
       /\ Len(q) = IF total > Bandwidth THEN Bandwidth ELSE total
  <2> DEFINE p == Len(h.pendingPackets)
             s == Len(h.slots[i])
             k == Len(in)
             m == Len(w)
             z == Len(q)
  <2>1. /\ p \in Nat /\ s \in Nat /\ k \in Nat /\ s <= Bandwidth /\ Bandwidth \in Nat
        /\ m = p + k /\ z = s + n
        /\ n = IF Bandwidth - s < m THEN Bandwidth - s ELSE m
    BY <1>1, <1>7, <1>8, <1>9, <1>10
  <2>2. total = p + s + k
    OBVIOUS
  <2> HIDE DEF p, s, k, m, z, total
  <2>3. total \in Nat /\ (total > Bandwidth <=> Bandwidth - s < m)
    BY <2>1, <2>2
  <2>4. CASE total > Bandwidth
    <3>1. n = Bandwidth - s
      BY <2>1, <2>3, <2>4
    <3>2. m - n = total - Bandwidth /\ z = Bandwidth
      BY <2>1, <2>2, <3>1
    <3> QED BY <2>3, <2>4, <3>2 DEF m, z
  <2>5. CASE ~(total > Bandwidth)
    <3>1. n = m
      BY <2>1, <2>3, <2>5
    <3>2. m - n = 0 /\ z = total
      BY <2>1, <2>2, <3>1
    <3> QED BY <2>3, <2>5, <3>2 DEF m, z
  <2> QED BY <2>4, <2>5
<1>18. /\ Len(link'.handler.pendingPackets) = IF total > Bandwidth THEN total - Bandwidth ELSE 0
       /\ Len(CurrentSlot') = IF ready THEN 0
                              ELSE IF total > Bandwidth THEN Bandwidth ELSE total
  BY <1>11, <1>12, <1>15, <1>17
<1>19. Len(link'.handler.pendingPackets) \in Nat /\ Len(CurrentSlot') \in Nat
  <2> HIDE DEF total
  <2> QED BY <1>1, <1>17, <1>18
<1>20. total = Len(link.handler.pendingPackets) + Len(CurrentSlot) + Len(Incoming(link.cycle))
  BY <1>12 DEF h, in
<1>21. Outcome.readyNext <=> Len(CurrentSlot') < Bandwidth
  BY <1>12, <1>16
<1> HIDE DEF total
<1>22. Len(CurrentSlot) \in Nat /\ Len(Incoming(link.cycle)) \in Nat
  BY <1>8, <1>12 DEF in
<1> QED BY <1>14, <1>17, <1>18, <1>19, <1>20, <1>21, <1>22 DEF ready

\* What the source has sent in a cycle that the link has yet to receive.
LEMMA IncomingBounded ==
    ASSUME TypeInv, SourceSends, kind = "buffered", LinkTick
    PROVE  /\ Len(Incoming(link.cycle)) \in Nat
           /\ Len(Incoming(link.cycle)) <= OutBandwidth
           /\ Len(Incoming(link.cycle)) > 0 => link.cycle - Latency \in Reckoned
<1> DEFINE c == link.cycle
<1>1. c \in Nat /\ Latency \in Nat /\ OutBandwidth \in Nat
      /\ (c >= Latency => c - Latency \in Cycles)
  BY LinkStep, CyclesInHorizon, LinkAssumption, QueuesAssumption
<1>2. CASE c < Latency
  <2>1. Len(Incoming(c)) = 0
    BY <1>2, EmptySeq DEF Incoming
  <2> QED BY <1>1, <2>1
<1>3. CASE ~(c < Latency)
  <2> DEFINE d == c - Latency
  <2>1. d \in Cycles /\ d \in Horizon
    BY <1>1, <1>3, CyclesInHorizon
  <2>2. Incoming(c) = A.mail[d] /\ A.mail[d] \in Seq(P)
    BY <1>3, <2>1 DEF Incoming, TypeInv, PortState
  <2>3. /\ A.mail[d] # <<>> => A.decision[d] = "ready"
        /\ Len(A.mail[d]) <= OutBandwidth
    BY <2>1 DEF SourceSends
  <2>4. Len(A.mail[d]) \in Nat /\ (Len(A.mail[d]) > 0 => A.mail[d] # <<>>)
    BY <2>2, LenProperties, EmptySeq
  <2>5. c - Latency <= d /\ d <= c
    BY <1>1
  <2>6. Len(A.mail[d]) > 0 => d \in Reckoned
    BY <2>1, <2>3, <2>4, <2>5 DEF Reckoned
  <2> HIDE DEF d
  <2>7. Len(Incoming(c)) \in Nat /\ Len(Incoming(c)) <= OutBandwidth
        /\ (Len(Incoming(c)) > 0 => d \in Reckoned)
    BY <2>2, <2>3, <2>4, <2>6
  <2> QED BY <2>7 DEF d
<1> QED BY <1>2, <1>3

\* The cycle that the link receives is reckoned with no longer, the one it decides
\* is if the link is ready.
LEMMA ReckonedMoves ==
    ASSUME TypeInv, LinkDecides, kind = "buffered", LinkTick
    PROVE  /\ Reckoned' \subseteq (Reckoned \ {link.cycle - Latency}) \union {link.cycle + 1}
           /\ link.cycle >= Latency /\ link.cycle + 1 \in Reckoned' => Outcome.readyNext
<1> DEFINE c == link.cycle
           cs == {c + 1}
           b == Outcome.readyNext
           T == {"unset", "ready", "notReady"}
<1>1. /\ c \in Nat /\ Latency \in Nat /\ b \in BOOLEAN
      /\ link'.cycle = c + 1
      /\ A'.decision = DecidedAlso(A.decision, cs, b)
      /\ A.decision \in [Horizon -> T] /\ Horizon \subseteq Nat
  <2>1. Horizon \subseteq Nat
    BY DEF Horizon
  <2>2. A.decision \in [Horizon -> T]
    BY DEF TypeInv, PortState
  <2>3. /\ link' = [cycle |-> c + 1, handler |-> Outcome.state]
        /\ c \in Cycles /\ b \in BOOLEAN
    BY LinkStep
  <2>4. A'.decision = DecidedAlso(A.decision, cs, b)
    BY LinkStep
  <2> HIDE DEF cs, b, T
  <2>5. c \in Nat /\ Latency \in Nat
    BY <2>3, CyclesInHorizon, LinkAssumption
  <2> QED BY <2>1, <2>2, <2>3, <2>4, <2>5
<1>2. \A d \in Horizon : d # c + 1 => d \notin cs
  OBVIOUS
<1>3. c + 1 \in cs
  OBVIOUS
<1> HIDE DEF cs, b
<1>4. \A d \in Horizon :
         /\ d # c + 1 => A'.decision[d] = A.decision[d]
         /\ d = c + 1 /\ A.decision[d] = "unset" /\ ~b => A'.decision[d] = "notReady"
  BY <1>1, <1>2, <1>3, DecisionsStay DEF T
<1>5. ASSUME NEW d \in Reckoned', d # c + 1
      PROVE  d \in Reckoned /\ d # c - Latency
  <2>1. /\ d \in Horizon /\ c + 1 - Latency <= d /\ d <= c + 1 /\ A'.decision[d] = "ready"
    BY <1>1, <1>5 DEF Reckoned
  <2>2. d \in Nat /\ c - Latency <= d /\ d <= c /\ d # c - Latency
    BY <1>1, <1>5, <2>1
  <2>3. A.decision[d] = "ready"
    BY <1>4, <1>5, <2>1
  <2> QED BY <2>1, <2>2, <2>3 DEF Reckoned
<1>6. ASSUME c >= Latency, c + 1 \in Reckoned'
      PROVE  b
  <2> DEFINE d == c + 1
  <2>1. d \in Horizon /\ A'.decision[d] = "ready"
    BY <1>1, <1>6 DEF Reckoned
  <2>2. ~(d <= Latency) /\ ~(d <= c)
    BY <1>1, <1>6
  <2>3. A.decision[d] = "unset"
    BY <2>1, <2>2 DEF LinkDecides
  <2> QED BY <1>4, <2>1, <2>3
<1> QED BY <1>5, <1>6 DEF b

\* The reckoning of one cycle, in numbers: p pending, s in the slot, k incoming,
\* r cycles reckoned with, of which r1 are left when the oldest has come.
LEMMA CycleReckoned ==
    ASSUME NEW b \in Nat \ {0}, NEW o \in Nat \ {0}, o <= b, NEW l \in Nat,
           NEW total \in Nat, NEW k \in Nat, k <= o, k <= total,
           NEW r \in Nat, NEW r1 \in Nat, NEW r2 \in Nat,
           r1 <= r, k > 0 => r1 + 1 <= r, r2 <= l + 1, r2 <= r1 + 1,
           NEW left \in Nat, left = (IF total > b THEN total - b ELSE 0),
           NEW stays \in Nat,
           \/ stays = 0
           \/ total >= b /\ stays = b /\ r2 <= r1
           \/ total < b /\ stays = total,
           total - k + o * r <= b - 1 + o * (l + 1)
    PROVE  left + stays + o * r2 <= b - 1 + o * (l + 1) /\ left < o * (l + 1)
<1> DEFINE m == o * (l + 1)
           x == o * r
           x1 == o * r1
           x2 == o * r2
<1>1. m \in Nat /\ x \in Nat /\ x1 \in Nat /\ x2 \in Nat
      /\ x1 <= x /\ x2 <= m
  BY MulLe
<1>2. k + x1 <= x
  <2>1. CASE k = 0
    BY <1>1, <2>1
  <2>2. CASE k > 0
    <3>1. o * (r1 + 1) <= x /\ o * (r1 + 1) = x1 + o
      BY <2>2, MulLe, MulNext
    <3> HIDE DEF x, x1
    <3> QED BY <1>1, <3>1
  <2> QED BY <2>1, <2>2
<1>3. x2 <= x1 + o /\ (r2 <= r1 => x2 <= x1)
  <2>1. o * r2 <= o * (r1 + 1) /\ o * (r1 + 1) = x1 + o
    BY MulLe, MulNext
  <2>2. r2 <= r1 => o * r2 <= o * r1
    BY MulLe
  <2> QED BY <2>1, <2>2
<1>4. o <= m
  <2>1. o * 1 <= o * (l + 1) /\ o * 1 = o
    BY MulLe
  <2> QED BY <2>1
<1>5. total - k + x <= b - 1 + m
  OBVIOUS
<1> HIDE DEF m, x, x1, x2
<1>6. total + x1 <= b - 1 + m
  BY <1>1, <1>2, <1>5
<1>7. left < m
  BY <1>1, <1>4, <1>6
<1>8. left + stays + x2 <= b - 1 + m
  <2>1. CASE stays = 0
    BY <1>1, <1>3, <1>6, <2>1
  <2>2. CASE total >= b /\ stays = b /\ r2 <= r1
    BY <1>1, <1>3, <1>6, <2>2
  <2>3. CASE total < b /\ stays = total
    BY <1>1, <1>6, <2>3
  <2> QED BY <2>1, <2>2, <2>3
<1> QED BY <1>7, <1>8 DEF m, x2

\* The link empties a compartment of the first port and takes no decision back.
LEMMA SourceSendsAnyLink ==
    ASSUME TypeInv, SourceSends, LinkTick
    PROVE  SourceSends'
<1> DEFINE c == link.cycle
<1>1. /\ A'.mail = Taken /\ src' = src
      /\ A'.decision = DecidedAlso(A.decision, {c + 1}, Outcome.readyNext)
      /\ Outcome.readyNext \in BOOLEAN
  BY LinkStep
<1>2. SUFFICES ASSUME NEW d \in Cycles
               PROVE  /\ d >= src.ahead => A'.mail[d] = <<>>
                      /\ A'.mail[d] # <<>> => A'.decision[d] = "ready"
                      /\ Len(A'.mail[d]) <= OutBandwidth
  BY <1>1 DEF SourceSends
<1>3. A'.mail[d] = A.mail[d] \/ A'.mail[d] = <<>>
  <2>1. A.mail \in [Cycles -> Seq(P)]
    BY DEF TypeInv, PortState
  <2> QED BY <1>1, <2>1 DEF Taken
<1>4. /\ d >= src.ahead => A.mail[d] = <<>>
      /\ A.mail[d] # <<>> => A.decision[d] = "ready"
      /\ Len(A.mail[d]) <= OutBandwidth
  BY DEF SourceSends
<1>5. A.decision[d] = "ready" => A'.decision[d] = "ready"
  <2> DEFINE cs == {c + 1}
             b == Outcome.readyNext
  <2>1. A'.decision = DecidedAlso(A.decision, cs, b) /\ b \in BOOLEAN
    BY <1>1
  <2>2. A.decision \in [Horizon -> {"unset", "ready", "notReady"}] /\ d \in Horizon
    BY CyclesInHorizon DEF TypeInv, PortState
  <2> HIDE DEF cs, b
  <2> QED BY <2>1, <2>2, DecisionsStay
<1>6. Len(<<>>) <= OutBandwidth
  BY EmptySeq, QueuesAssumption
<1> QED BY <1>3, <1>4, <1>5, <1>6

\* A cycle of the link keeps the reckoning.
LEMMA PendingKeptByLink ==
    ASSUME OutBandwidth <= Bandwidth, TypeInv, SourceSends, PendingSafe,
           kind = "buffered", LinkTick
    PROVE  SourceSends' /\ PendingSafe'
<1> DEFINE c == link.cycle
           s == Len(CurrentSlot)
           k == Len(Incoming(c))
           p == Len(link.handler.pendingPackets)
           total == p + s + k
           left == Len(link'.handler.pendingPackets)
           stays == Len(CurrentSlot')
           ready == IsReady(B, c)
           r == Cardinality(Reckoned)
           r1 == IF c - Latency \in Reckoned THEN r - 1 ELSE r
           r2 == Cardinality(Reckoned')
<1>1. /\ NothingYet /\ LinkDecides /\ OneSlot /\ PendingBounded
      /\ p + s + OutBandwidth * r <= Bandwidth - 1 + OutBandwidth * (Latency + 1)
  BY DEF PendingSafe, Reckoning
<1>2. /\ c \in Nat /\ Latency \in Nat \ {0} /\ Bandwidth \in Nat \ {0}
      /\ OutBandwidth \in Nat \ {0} /\ OutBandwidth <= Bandwidth
      /\ link'.cycle = c + 1
  <2>1. c \in Cycles /\ link' = [cycle |-> c + 1, handler |-> Outcome.state]
    BY LinkStep
  <2> QED BY <2>1, CyclesInHorizon, LinkAssumption, QueuesAssumption
<1>3. NothingYet' /\ LinkDecides'
  BY <1>1, LinkDecidesNext
<1>4. /\ s \in Nat /\ k \in Nat /\ total \in Nat /\ left \in Nat /\ stays \in Nat
      /\ left = IF total > Bandwidth THEN total - Bandwidth ELSE 0
      /\ stays = IF ready THEN 0 ELSE IF total > Bandwidth THEN Bandwidth ELSE total
      /\ Outcome.readyNext <=> stays < Bandwidth
      /\ OneSlot'
  BY <1>1, LinkCounts
<1>5. k <= OutBandwidth /\ (k > 0 => c - Latency \in Reckoned)
  BY IncomingBounded
<1>6. /\ Reckoned' \subseteq (Reckoned \ {c - Latency}) \union {c + 1}
      /\ c >= Latency /\ c + 1 \in Reckoned' => Outcome.readyNext
  BY <1>1, ReckonedMoves
<1>7. IsFiniteSet(Reckoned) /\ r \in Nat
  <2>1. Reckoned \subseteq c - Latency .. c
    <3>1. SUFFICES ASSUME NEW d \in Reckoned PROVE d \in c - Latency .. c
      OBVIOUS
    <3>2. d \in Horizon /\ c - Latency <= d /\ d <= c
      BY <3>1 DEF Reckoned
    <3>3. d \in Nat
      BY <3>2 DEF Horizon
    <3> QED BY <1>2, <3>2, <3>3
  <2>2. c \in Int
    BY <1>2
  <2> HIDE DEF c
  <2> QED BY <2>1, <2>2, WindowSize
<1>8. r2 <= Latency + 1
  <2> DEFINE d == link'.cycle
  <2>1. Reckoned' \subseteq d - Latency .. d
    <3>1. SUFFICES ASSUME NEW e \in Reckoned' PROVE e \in d - Latency .. d
      OBVIOUS
    <3>2. e \in Horizon /\ d - Latency <= e /\ e <= d
      BY <3>1 DEF Reckoned
    <3>3. e \in Nat
      BY <3>2 DEF Horizon
    <3> QED BY <1>2, <3>2, <3>3
  <2>2. d \in Int
    BY <1>2
  <2> DEFINE V == Reckoned'
  <2> HIDE DEF d, V
  <2>3. V \subseteq d - Latency .. d
    BY <2>1 DEF V
  <2>4. Cardinality(V) <= Latency + 1
    BY <2>2, <2>3, WindowSize
  <2> QED BY <2>4 DEF V
<1>9. /\ r1 \in Nat /\ r2 \in Nat /\ r2 <= r1 + 1
      /\ c + 1 \notin Reckoned' => r2 <= r1
  <2> DEFINE V == Reckoned'
             W == Reckoned
             x == c - Latency
             y == c + 1
             kept == IF x \in W THEN Cardinality(W) - 1 ELSE Cardinality(W)
  <2>1. IsFiniteSet(W) /\ V \subseteq (W \ {x}) \union {y}
    BY <1>6, <1>7
  <2> HIDE DEF V, W, x, y
  <2>2. /\ kept \in Nat /\ Cardinality(V) \in Nat /\ Cardinality(V) <= kept + 1
        /\ y \notin V => Cardinality(V) <= kept
    BY <2>1, WindowMoves
  <2> QED BY <2>2 DEF V, W, x, y
<1>10. r1 <= r /\ (k > 0 => r1 + 1 <= r)
  <2> HIDE DEF k, r
  <2> QED BY <1>5, <1>7
<1>11. \/ stays = 0
       \/ total >= Bandwidth /\ stays = Bandwidth /\ r2 <= r1
       \/ total < Bandwidth /\ stays = total
  <2>1. CASE ready
    <3> HIDE DEF ready, stays, total
    <3> QED BY <1>4, <2>1
  <2>2. CASE ~ready /\ total < Bandwidth
    <3> HIDE DEF ready, stays, total
    <3>1. stays = total
      BY <1>2, <1>4, <2>2
    <3> QED BY <2>2, <3>1
  <2>3. CASE ~ready /\ ~(total < Bandwidth)
    <3>1. total >= Bandwidth /\ stays = Bandwidth
      <4> HIDE DEF ready, stays, total
      <4> QED BY <1>2, <1>4, <2>3
    <3>2. c >= Latency
      <4>1. SUFFICES ASSUME c < Latency PROVE FALSE
        BY <1>2
      <4>2. \A i \in 0 .. Latency - 1 : Outcome.state.slots[i] = <<>>
        BY <1>1, <4>1, NothingFills
      <4>3. CurrentSlot' = Outcome.state.slots[SlotIndex(Outcome.state, c + 1)]
        <5>1. link' = [cycle |-> c + 1, handler |-> Outcome.state]
          BY LinkStep
        <5> QED BY <5>1 DEF CurrentSlot
      <4>4. SlotIndex(Outcome.state, c + 1) \in 0 .. Latency - 1
        <5> DEFINE d == c + 1
                   g == Outcome.state
        <5>1. d \in Nat /\ g.totalBackpressure \in Nat
          <6>1. HandlerOK(g, P)
            BY LinkStep
          <6> HIDE DEF g
          <6> QED BY <1>2, <6>1 DEF HandlerOK, BufferedState
        <5> HIDE DEF d, g
        <5>2. SlotIndex(g, d) \in 0 .. Latency - 1
          BY <5>1, SlotIndexType
        <5> QED BY <5>2 DEF d, g
      <4>5. stays = 0
        BY <4>2, <4>3, <4>4, EmptySeq
      <4> HIDE DEF stays
      <4> QED BY <1>2, <3>1, <4>5
    <3>3. ~Outcome.readyNext
      <4>1. Outcome.readyNext <=> stays < Bandwidth
        BY <1>4
      <4> HIDE DEF stays
      <4>2. ~(stays < Bandwidth)
        BY <1>2, <3>1
      <4> QED BY <4>1, <4>2
    <3>4. c + 1 \notin Reckoned'
      BY <1>6, <3>2, <3>3
    <3> QED BY <1>9, <3>1, <3>4
  <2> QED BY <2>1, <2>2, <2>3
<1>12. /\ total - k + OutBandwidth * r <= Bandwidth - 1 + OutBandwidth * (Latency + 1)
       /\ k <= total
  <2>1. p \in Nat
    <3>1. link.handler \in BufferedState(P)
      BY DEF TypeInv, HandlerOK
    <3>2. link.handler.pendingPackets \in Seq(P)
      BY <3>1 DEF BufferedState
    <3> QED BY <3>2, LenProperties
  <2> DEFINE x == OutBandwidth * r
             m == OutBandwidth * (Latency + 1)
  <2>2. x \in Nat /\ m \in Nat
    <3>1. Latency + 1 \in Nat
      BY <1>2
    <3> HIDE DEF r
    <3> QED BY <1>2, <1>7, <3>1, MulLe
  <2>3. p + s + x <= Bandwidth - 1 + m
    BY <1>1
  <2>4. total = p + s + k
    OBVIOUS
  <2> HIDE DEF p, s, k, x, m, total
  <2>5. total - k + x <= Bandwidth - 1 + m /\ k <= total
    BY <1>2, <1>4, <2>1, <2>2, <2>3, <2>4
  <2> QED BY <2>5 DEF x, m
<1>13. /\ left + stays + OutBandwidth * r2 <= Bandwidth - 1 + OutBandwidth * (Latency + 1)
       /\ left < OutBandwidth * (Latency + 1)
  <2> HIDE DEF s, k, p, total, left, stays, r, r1, r2, ready, c
  <2>1. Latency \in Nat /\ r \in Nat /\ r1 \in Nat /\ r2 \in Nat
    BY <1>2, <1>7, <1>9
  <2> QED BY <1>2, <1>4, <1>5, <1>8, <1>9, <1>10, <1>11, <1>12, <2>1, CycleReckoned
<1>14. Reckoning' /\ PendingBounded'
  <2>1. Reckoning'
    BY <1>13 DEF Reckoning
  <2>2. OutBandwidth * (Latency + 1) = (Latency + 1) * OutBandwidth
    BY <1>2
  <2>3. left < (Latency + 1) * OutBandwidth
    BY <1>13, <2>2
  <2> QED BY <2>1, <2>3 DEF PendingBounded
<1>15. SourceSends'
  BY SourceSendsAnyLink
<1> QED BY <1>3, <1>4, <1>14, <1>15 DEF PendingSafe

\* A Tick of the output queue sends its burst into a compartment that is empty.
LEMMA SourceSendsKept ==
    ASSUME TypeInv, SourceSends, SourceSend
    PROVE  SourceSends'
<1> DEFINE c == src.ahead
           t == Stamped(c, Head1)
           n == Leaves
<1>1. /\ c \in Cycles /\ n \in 0 .. Len(oq) /\ Head1 \in Seq(P)
      /\ t \in Seq(Stamps(P))
      /\ A'.mail = MailedAlso(A.mail, t) /\ A'.decision = A.decision
      /\ src'.ahead = c + 1
  BY SourceSendStep
<1>2. /\ A.mail \in [Cycles -> Seq(P)] /\ c \in Nat /\ OutBandwidth \in Nat
      /\ oq \in Seq(P)
  <2>1. A.mail \in [Cycles -> Seq(P)] /\ oq \in Seq(P)
    BY DEF TypeInv, PortState
  <2> QED BY <1>1, <2>1, CyclesInHorizon, QueuesAssumption
<1>3. n \in Nat /\ n <= OutBandwidth /\ (n > 0 => A.decision[c] = "ready")
  <2>1. Len(oq) \in Nat
    BY <1>2, LenProperties
  <2> QED BY <1>2, <2>1 DEF Leaves, SendCount, Least, IsReady
<1>4. Len(Head1) = n
  <2> HIDE DEF n
  <2>1. Len(SubSeq(oq, 1, n)) = n
    BY <1>1, <1>2, CutProps
  <2> QED BY <2>1 DEF Head1, n
<1>5. /\ DOMAIN t = DOMAIN Head1 /\ Len(t) = n
      /\ \A k \in DOMAIN t : t[k].cycle = c
  <2>1. /\ Len(t) = Len(Head1) /\ DOMAIN t = DOMAIN Head1
        /\ \A i \in DOMAIN Head1 : t[i] = [cycle |-> c, packet |-> Head1[i]]
    <3> DEFINE q == Head1
    <3>1. q \in Seq(P) /\ c \in Nat
      BY <1>1, <1>2
    <3> HIDE DEF q, c
    <3>2. /\ Len(Stamped(c, q)) = Len(q) /\ DOMAIN Stamped(c, q) = DOMAIN q
          /\ \A i \in DOMAIN q : Stamped(c, q)[i] = [cycle |-> c, packet |-> q[i]]
      BY <3>1, StampedProps
    <3> QED BY <3>2 DEF q
  <2> HIDE DEF t, n
  <2> QED BY <1>4, <2>1
<1> HIDE DEF t, c
<1>6. ASSUME NEW d \in Cycles, d # c
      PROVE  A'.mail[d] = A.mail[d]
  <2>1. \A k \in DOMAIN t : t[k].cycle # d
    BY <1>5, <1>6
  <2>2. t \in Seq(Stamps(P)) /\ A.mail \in [Cycles -> Seq(P)]
    BY <1>1, <1>2
  <2>3. MailedAlso(A.mail, t)[d] = A.mail[d]
    BY <2>1, <2>2, MailStays
  <2> QED BY <1>1, <2>3
<1>7. A.mail[c] = <<>>
  BY <1>1, <1>2 DEF SourceSends, c
<1>8. Len(A'.mail[c]) \in Nat /\ Len(A'.mail[c]) <= n /\ A'.mail[c] \in Seq(P)
  <2>1. StampedFor(t, c) \in Seq(P) /\ Gathered(StampedFor(t, c), t, c, Len(t))
    BY <1>1, StampedForProps
  <2>2. A'.mail[c] = <<>> \o StampedFor(t, c)
    BY <1>1, <1>7 DEF MailedAlso
  <2>3. A'.mail[c] = StampedFor(t, c)
    BY <2>1, <2>2, ConcatEmptySeq
  <2>4. Len(StampedFor(t, c)) <= Len(t)
    BY <2>1 DEF Gathered
  <2> QED BY <1>5, <2>1, <2>3, <2>4, LenProperties
<1>9. SUFFICES ASSUME NEW d \in Cycles
               PROVE  /\ d >= c + 1 => A'.mail[d] = <<>>
                      /\ A'.mail[d] # <<>> => A'.decision[d] = "ready"
                      /\ Len(A'.mail[d]) <= OutBandwidth
  BY <1>1 DEF SourceSends
<1>10. d \in Nat
  BY CyclesInHorizon
<1>11. CASE d = c
  <2>1. A'.mail[c] # <<>> => Len(A'.mail[c]) > 0
    BY <1>8, EmptySeq
  <2>2. A'.mail[c] # <<>> => n > 0
    <3> HIDE DEF n
    <3> QED BY <1>3, <1>8, <2>1
  <2>3. Len(A'.mail[c]) <= OutBandwidth
    <3> HIDE DEF n
    <3> QED BY <1>2, <1>3, <1>8
  <2>4. ~(c >= c + 1)
    BY <1>2
  <2> QED BY <1>1, <1>3, <1>11, <2>2, <2>3, <2>4
<1>12. CASE d # c
  <2>1. /\ d >= c => A.mail[d] = <<>>
        /\ A.mail[d] # <<>> => A.decision[d] = "ready"
        /\ Len(A.mail[d]) <= OutBandwidth
    BY DEF SourceSends, c
  <2>2. d >= c + 1 => d >= c
    BY <1>2, <1>10
  <2> QED BY <1>1, <1>6, <1>12, <2>1, <2>2
<1> QED BY <1>11, <1>12

\* Initially nothing waits, and the link reckons with cycle 0 only.
LEMMA PendingInit == Init => SourceSends /\ (kind = "buffered" => PendingSafe)
<1> SUFFICES ASSUME Init PROVE SourceSends /\ (kind = "buffered" => PendingSafe)
  OBVIOUS
<1>1. /\ link.cycle = 0 /\ Latency \in Nat \ {0} /\ Bandwidth \in Nat \ {0}
      /\ OutBandwidth \in Nat \ {0} /\ 0 \in Horizon
      /\ \A e \in Cycles : A.mail[e] = <<>>
  <2>1. link.cycle = 0 /\ \A e \in Cycles : A.mail[e] = <<>>
    BY DEF Init, NewPort
  <2>2. 0 \in Horizon
    BY CyclesInHorizon, FlowPathAssumption DEF Cycles
  <2> QED BY <2>1, <2>2, LinkAssumption, QueuesAssumption
<1>2. SourceSends
  BY <1>1, EmptySeq DEF SourceSends
<1>3. ASSUME kind = "buffered" PROVE PendingSafe
  <2>1. /\ link.handler.pendingPackets = <<>> /\ link.handler.totalBackpressure = 0
        /\ \A i \in 0 .. Latency - 1 : link.handler.slots[i] = <<>>
        /\ A = NewPort(0 .. Latency)
    BY <1>3 DEF Init, BufferedInit
  <2>2. NothingYet /\ OneSlot
    BY <2>1 DEF NothingYet, OneSlot
  <2>3. LinkDecides
    <3>1. Horizon \subseteq Nat
      BY DEF Horizon
    <3> QED BY <1>1, <2>1, <3>1 DEF LinkDecides, NewPort
  <2>4. Len(link.handler.pendingPackets) = 0 /\ Len(CurrentSlot) = 0
    <3>1. SlotIndex(link.handler, link.cycle) \in 0 .. Latency - 1
      BY <1>1, <2>1, SlotIndexType
    <3> QED BY <2>1, <3>1, EmptySeq DEF CurrentSlot
  <2>5. Cardinality(Reckoned) \in Nat /\ Cardinality(Reckoned) <= Latency + 1
    <3> DEFINE z == link.cycle
    <3>1. Reckoned \subseteq z - Latency .. z
      <4>1. SUFFICES ASSUME NEW d \in Reckoned PROVE d \in z - Latency .. z
        OBVIOUS
      <4>2. d \in Horizon /\ z - Latency <= d /\ d <= z
        BY <4>1 DEF Reckoned
      <4>3. d \in Nat
        BY <4>2 DEF Horizon
      <4> QED BY <1>1, <4>2, <4>3
    <3>2. z \in Int
      BY <1>1
    <3> HIDE DEF z
    <3> QED BY <3>1, <3>2, WindowSize
  <2> DEFINE m == OutBandwidth * (Latency + 1)
             r == Cardinality(Reckoned)
  <2>6. OutBandwidth * r \in Nat /\ m \in Nat /\ OutBandwidth * r <= m
    <3>1. r \in Nat /\ r <= Latency + 1 /\ Latency + 1 \in Nat /\ OutBandwidth \in Nat
      BY <1>1, <2>5
    <3> HIDE DEF r
    <3> QED BY <3>1, MulLe
  <2>7. m > 0
    <3>1. OutBandwidth * 1 <= m /\ OutBandwidth * 1 = OutBandwidth
      BY <1>1, MulLe
    <3> HIDE DEF m
    <3> QED BY <1>1, <2>6, <3>1
  <2>8. Reckoning
    <3> DEFINE x == OutBandwidth * r
    <3> HIDE DEF m, x
    <3>1. 0 + 0 + x <= Bandwidth - 1 + m
      BY <1>1, <2>6 DEF x
    <3> QED BY <2>4, <3>1 DEF Reckoning, x, m
  <2>9. PendingBounded
    <3>1. m = (Latency + 1) * OutBandwidth
      BY <1>1
    <3> HIDE DEF m
    <3> QED BY <2>4, <2>7, <3>1 DEF PendingBounded
  <2> QED BY <2>2, <2>3, <2>8, <2>9 DEF PendingSafe
<1> QED BY <1>2, <1>3

\* Every step keeps the reckoning.
LEMMA PendingKept ==
    /\ OutBandwidth <= Bandwidth /\ TypeInv
    /\ SourceSends /\ (kind = "buffered" => PendingSafe) /\ [Next]_vars
    => SourceSends' /\ (kind' = "buffered" => PendingSafe')
<1> SUFFICES ASSUME OutBandwidth <= Bandwidth, TypeInv, SourceSends,
                    kind = "buffered" => PendingSafe, [Next]_vars
             PROVE  SourceSends' /\ (kind' = "buffered" => PendingSafe')
  OBVIOUS
<1>1. ASSUME UNCHANGED <<kind, link>>, A'.decision = A.decision
      PROVE  kind' = "buffered" => PendingSafe'
  <2>1. PendingSafe => PendingSafe'
    BY <1>1 DEF PendingSafe, NothingYet, LinkDecides, OneSlot, Reckoning, Reckoned,
       CurrentSlot, PendingBounded
  <2> QED BY <1>1, <2>1
<1>2. CASE LinkTick
  <2>1. kind' = kind /\ UNCHANGED src
    BY <1>2, LinkStep
  <2>2. CASE kind = "buffered"
    BY <1>2, <2>1, <2>2, PendingKeptByLink
  <2>3. CASE kind # "buffered"
    BY <1>2, <2>1, <2>3, SourceSendsAnyLink
  <2> QED BY <2>2, <2>3
<1>3. CASE SourceSend
  <2>1. A'.decision = A.decision /\ UNCHANGED <<kind, link>>
    BY <1>3, SourceSendStep
  <2> QED BY <1>1, <1>3, <2>1, SourceSendsKept
<1>4. CASE SourceProcess
  <2>1. /\ UNCHANGED <<kind, link, A>>
        /\ src'.ahead = IF src.ahead > src.cycle THEN src.ahead ELSE src.cycle
    BY <1>4, SourceProcessStep
  <2>2. src'.ahead >= src.ahead /\ src'.ahead \in Nat /\ src.ahead \in Nat
    BY <2>1, FlowPathAssumption DEF TypeInv
  <2>3. SourceSends'
    <3>1. \A d \in Cycles : d >= src'.ahead => d >= src.ahead
      BY <2>2, CyclesInHorizon
    <3> QED BY <2>1, <3>1 DEF SourceSends
  <2> QED BY <1>1, <2>1, <2>3
<1>5. CASE SourceNext \/ AdvanceTo \/ SinkTick \/ Finished \/ UNCHANGED vars
  <2>1. UNCHANGED <<kind, link, A>> /\ src'.ahead = src.ahead
    <3>1. CASE SourceNext
      <4>1. src' = [src EXCEPT !.cycle = @ + 1, !.phase = "process"]
            /\ UNCHANGED <<kind, link, A>>
        BY <3>1 DEF SourceNext
      <4> QED BY <4>1 DEF TypeInv
    <3>2. CASE SinkTick
      BY <3>2 DEF SinkTick
    <3>3. CASE AdvanceTo \/ Finished \/ UNCHANGED vars
      BY <3>3 DEF AdvanceTo, Finished, vars
    <3> QED BY <1>5, <3>1, <3>2, <3>3
  <2>2. SourceSends'
    BY <2>1 DEF SourceSends
  <2> QED BY <1>1, <2>1, <2>2
<1> QED BY <1>2, <1>3, <1>4, <1>5 DEF Next, Source

\* What a full slot leaves over stays below what the upstream may send within the
\* latency and one cycle more, for every workload and schedule, if the source is
\* no wider than the link (the readiness that CheckSpace declares).
THEOREM PendingIsBounded ==
    OutBandwidth <= Bandwidth => (Spec => []PendingBounded)
<1> SUFFICES ASSUME OutBandwidth <= Bandwidth PROVE Spec => []PendingBounded
  OBVIOUS
<1> DEFINE I == SourceSends /\ (kind = "buffered" => PendingSafe)
<1>1. Init => I
  BY PendingInit
<1>2. TypeInv /\ I /\ [Next]_vars => I'
  BY PendingKept
<1>3. I => PendingBounded
  BY DEF PendingSafe, PendingBounded
<1> HIDE DEF I
<1> QED BY <1>1, <1>2, <1>3, TypesHold, PTL DEF Spec
-----------------------------------------------------------------------------
(* Where the packets are: the contents of the places divide them up.       *)

\* The packets of a list, and of a list of stamped packets.
Contents(s) == {s[i] : i \in DOMAIN s}

Carried(s) == {s[i].packet : i \in DOMAIN s}

\* An empty list holds nothing.
LEMMA EmptyContents ==
    Contents(<<>>) = {} /\ Carried(<<>>) = {} /\ Distinct(<<>>) /\ DistinctPackets(<<>>)
<1>1. DOMAIN <<>> = {}
  BY EmptySeq
<1> QED BY <1>1 DEF Contents, Carried, Distinct, DistinctPackets

\* What a list holds is of its type, and a list that holds nothing is empty.
LEMMA ContentsType ==
    ASSUME NEW S, NEW s \in Seq(S)
    PROVE  /\ Contents(s) \subseteq S
           /\ Contents(s) = {} => s = <<>>
<1>1. DOMAIN s = 1 .. Len(s) /\ Len(s) \in Nat /\ \A i \in DOMAIN s : s[i] \in S
  BY LenProperties, ElementOfSeq
<1>2. Contents(s) \subseteq S
  BY <1>1 DEF Contents
<1>3. ASSUME Contents(s) = {} PROVE s = <<>>
  <2>1. DOMAIN s = {}
    BY <1>3 DEF Contents
  <2>2. Len(s) = 0
    BY <1>1, <2>1
  <2> QED BY <2>2, EmptySeq
<1> QED BY <1>2, <1>3

\* Two lists put together hold what the two hold.
LEMMA JoinContents ==
    ASSUME NEW S, NEW q \in Seq(S), NEW r \in Seq(S)
    PROVE  /\ Contents(q \o r) = Contents(q) \union Contents(r)
           /\ Distinct(q) /\ Distinct(r) /\ Contents(q) \cap Contents(r) = {}
                => Distinct(q \o r)
<1> DEFINE t == q \o r
<1>1. /\ \A i \in DOMAIN q : i \in DOMAIN t /\ t[i] = q[i]
      /\ \A i \in DOMAIN r : Len(q) + i \in DOMAIN t /\ t[Len(q) + i] = r[i]
      /\ \A i \in DOMAIN t : \/ i \in DOMAIN q /\ t[i] = q[i]
                             \/ i - Len(q) \in DOMAIN r /\ t[i] = r[i - Len(q)]
      /\ t \in Seq(S)
  BY JoinProps
<1>2. DOMAIN t \subseteq Nat /\ Len(q) \in Nat
  BY <1>1, LenProperties
<1> HIDE DEF t
<1>3. Contents(t) = Contents(q) \union Contents(r)
  BY <1>1 DEF Contents
<1>4. ASSUME Distinct(q), Distinct(r), Contents(q) \cap Contents(r) = {}
      PROVE  Distinct(t)
  <2>1. SUFFICES ASSUME NEW i \in DOMAIN t, NEW j \in DOMAIN t, t[i] = t[j] PROVE i = j
    BY DEF Distinct
  <2>2. CASE i \in DOMAIN q /\ t[i] = q[i] /\ j \in DOMAIN q /\ t[j] = q[j]
    BY <1>4, <2>1, <2>2 DEF Distinct
  <2>3. CASE /\ i - Len(q) \in DOMAIN r /\ t[i] = r[i - Len(q)]
             /\ j - Len(q) \in DOMAIN r /\ t[j] = r[j - Len(q)]
    <3>1. i - Len(q) = j - Len(q)
      BY <1>4, <2>1, <2>3 DEF Distinct
    <3> QED BY <1>2, <3>1
  <2>4. CASE i \in DOMAIN q /\ t[i] = q[i] /\ j - Len(q) \in DOMAIN r /\ t[j] = r[j - Len(q)]
    BY <1>4, <2>1, <2>4 DEF Contents
  <2>5. CASE j \in DOMAIN q /\ t[j] = q[j] /\ i - Len(q) \in DOMAIN r /\ t[i] = r[i - Len(q)]
    BY <1>4, <2>1, <2>5 DEF Contents
  <2> QED BY <1>1, <2>2, <2>3, <2>4, <2>5
<1> QED BY <1>3, <1>4 DEF t

\* The same for stamped packets.
LEMMA JoinCarried ==
    ASSUME NEW S, NEW q \in Seq(S), NEW r \in Seq(S)
    PROVE  /\ Carried(q \o r) = Carried(q) \union Carried(r)
           /\ DistinctPackets(q) /\ DistinctPackets(r) /\ Carried(q) \cap Carried(r) = {}
                => DistinctPackets(q \o r)
<1> DEFINE t == q \o r
<1>1. /\ \A i \in DOMAIN q : i \in DOMAIN t /\ t[i] = q[i]
      /\ \A i \in DOMAIN r : Len(q) + i \in DOMAIN t /\ t[Len(q) + i] = r[i]
      /\ \A i \in DOMAIN t : \/ i \in DOMAIN q /\ t[i] = q[i]
                             \/ i - Len(q) \in DOMAIN r /\ t[i] = r[i - Len(q)]
      /\ t \in Seq(S)
  BY JoinProps
<1>2. DOMAIN t \subseteq Nat /\ Len(q) \in Nat
  BY <1>1, LenProperties
<1> HIDE DEF t
<1>3. Carried(t) = Carried(q) \union Carried(r)
  BY <1>1 DEF Carried
<1>4. ASSUME DistinctPackets(q), DistinctPackets(r), Carried(q) \cap Carried(r) = {}
      PROVE  DistinctPackets(t)
  <2>1. SUFFICES ASSUME NEW i \in DOMAIN t, NEW j \in DOMAIN t, t[i].packet = t[j].packet
                 PROVE  i = j
    BY DEF DistinctPackets
  <2>2. CASE i \in DOMAIN q /\ t[i] = q[i] /\ j \in DOMAIN q /\ t[j] = q[j]
    BY <1>4, <2>1, <2>2 DEF DistinctPackets
  <2>3. CASE /\ i - Len(q) \in DOMAIN r /\ t[i] = r[i - Len(q)]
             /\ j - Len(q) \in DOMAIN r /\ t[j] = r[j - Len(q)]
    <3>1. i - Len(q) = j - Len(q)
      BY <1>4, <2>1, <2>3 DEF DistinctPackets
    <3> QED BY <1>2, <3>1
  <2>4. CASE i \in DOMAIN q /\ t[i] = q[i] /\ j - Len(q) \in DOMAIN r /\ t[j] = r[j - Len(q)]
    BY <1>4, <2>1, <2>4 DEF Carried
  <2>5. CASE j \in DOMAIN q /\ t[j] = q[j] /\ i - Len(q) \in DOMAIN r /\ t[i] = r[i - Len(q)]
    BY <1>4, <2>1, <2>5 DEF Carried
  <2> QED BY <1>1, <2>2, <2>3, <2>4, <2>5
<1> QED BY <1>3, <1>4 DEF t

\* A list that is cut divides up what it holds.
LEMMA CutContents ==
    ASSUME NEW S, NEW q \in Seq(S), NEW n \in 0 .. Len(q)
    PROVE  /\ Contents(SubSeq(q, 1, n)) \union Contents(SubSeq(q, n + 1, Len(q)))
                = Contents(q)
           /\ Distinct(q) =>
                /\ Distinct(SubSeq(q, 1, n)) /\ Distinct(SubSeq(q, n + 1, Len(q)))
                /\ Contents(SubSeq(q, 1, n)) \cap Contents(SubSeq(q, n + 1, Len(q))) = {}
<1> DEFINE head == SubSeq(q, 1, n)
           rest == SubSeq(q, n + 1, Len(q))
<1>1. /\ DOMAIN head = 1 .. n
      /\ \A i \in 1 .. n : i \in DOMAIN q /\ head[i] = q[i]
      /\ DOMAIN rest = 1 .. Len(q) - n
      /\ \A i \in 1 .. Len(q) - n : n + i \in DOMAIN q /\ rest[i] = q[n + i]
  BY CutProps
<1>2. DOMAIN q = 1 .. Len(q) /\ Len(q) \in Nat /\ n \in Nat /\ n <= Len(q)
  BY LenProperties
<1> HIDE DEF head, rest
<1>3. ASSUME NEW i \in DOMAIN q, ~(i \in 1 .. n)
      PROVE  i - n \in 1 .. Len(q) - n /\ rest[i - n] = q[i]
  <2>1. i - n \in 1 .. Len(q) - n /\ n + (i - n) = i
    BY <1>2, <1>3
  <2> QED BY <1>1, <2>1
<1>4. Contents(head) \union Contents(rest) = Contents(q)
  <2>1. Contents(head) \subseteq Contents(q) /\ Contents(rest) \subseteq Contents(q)
    BY <1>1 DEF Contents
  <2>2. ASSUME NEW i \in DOMAIN q
        PROVE  q[i] \in Contents(head) \/ q[i] \in Contents(rest)
    <3>1. CASE i \in 1 .. n
      BY <1>1, <3>1 DEF Contents
    <3>2. CASE ~(i \in 1 .. n)
      BY <1>1, <1>3, <3>2 DEF Contents
    <3> QED BY <3>1, <3>2
  <2> QED BY <2>1, <2>2 DEF Contents
<1>5. ASSUME Distinct(q)
      PROVE  Distinct(head) /\ Distinct(rest) /\ Contents(head) \cap Contents(rest) = {}
  <2>1. Distinct(head)
    BY <1>1, <1>5 DEF Distinct
  <2>2. Distinct(rest)
    <3>1. SUFFICES ASSUME NEW i \in DOMAIN rest, NEW j \in DOMAIN rest, rest[i] = rest[j]
                   PROVE  i = j
      BY DEF Distinct
    <3>2. n + i = n + j
      BY <1>1, <1>5, <3>1 DEF Distinct
    <3> QED BY <1>1, <1>2, <3>1, <3>2
  <2>3. ASSUME NEW i \in DOMAIN head, NEW j \in DOMAIN rest, head[i] = rest[j]
        PROVE  FALSE
    <3>1. i = n + j
      BY <1>1, <1>5, <2>3 DEF Distinct
    <3> QED BY <1>1, <1>2, <2>3, <3>1
  <2> QED BY <2>1, <2>2, <2>3 DEF Contents
<1> QED BY <1>4, <1>5 DEF head, rest

\* Stamped packets are the packets.
LEMMA StampedCarries ==
    ASSUME NEW S, NEW q \in Seq(S), NEW c \in Nat
    PROVE  /\ Carried(Stamped(c, q)) = Contents(q)
           /\ Distinct(q) => DistinctPackets(Stamped(c, q))
<1> DEFINE t == Stamped(c, q)
<1>1. DOMAIN t = DOMAIN q /\ \A i \in DOMAIN q : t[i] = [cycle |-> c, packet |-> q[i]]
  BY StampedProps
<1> HIDE DEF t
<1>2. \A i \in DOMAIN q : t[i].packet = q[i]
  BY <1>1
<1>3. Carried(t) = Contents(q)
  BY <1>1, <1>2 DEF Carried, Contents
<1>4. Distinct(q) => DistinctPackets(t)
  BY <1>1, <1>2 DEF Distinct, DistinctPackets
<1> QED BY <1>3, <1>4 DEF t

\* What is sent under a cycle.
Under(packets, e) == {packets[j].packet : j \in {i \in DOMAIN packets : packets[i].cycle = e}}

\* A batch of sends adds to each compartment what is stamped for it (TrySend).
LEMMA MailContents ==
    ASSUME NEW S, NEW mail \in [Cycles -> Seq(S)], NEW packets \in Seq(Stamps(S)),
           DistinctPackets(packets), NEW e \in Cycles
    PROVE  /\ Contents(MailedAlso(mail, packets)[e]) = Contents(mail[e]) \union Under(packets, e)
           /\ Distinct(mail[e]) /\ Contents(mail[e]) \cap Under(packets, e) = {}
                => Distinct(MailedAlso(mail, packets)[e])
<1> DEFINE q == StampedFor(packets, e)
<1>1. q \in Seq(S) /\ Gathered(q, packets, e, Len(packets))
  BY StampedForProps
<1>2. MailedAlso(mail, packets)[e] = mail[e] \o q
  BY DEF MailedAlso
<1>3. DOMAIN packets = 1 .. Len(packets)
  BY LenProperties
<1> HIDE DEF q
<1>4. Distinct(q)
  BY <1>1 DEF Gathered
<1>5. Contents(q) = Under(packets, e)
  <2>1. ASSUME NEW j \in DOMAIN q PROVE q[j] \in Under(packets, e)
    <3>1. PICK k \in 1 .. Len(packets) : packets[k].cycle = e /\ packets[k].packet = q[j]
      BY <1>1 DEF Gathered
    <3> QED BY <1>3, <3>1 DEF Under
  <2>2. ASSUME NEW k \in DOMAIN packets, packets[k].cycle = e
        PROVE  packets[k].packet \in Contents(q)
    <3>1. PICK j \in DOMAIN q : q[j] = packets[k].packet
      BY <1>1, <1>3, <2>2 DEF Gathered
    <3> QED BY <3>1 DEF Contents
  <2> QED BY <2>1, <2>2 DEF Contents, Under
<1>6. mail[e] \in Seq(S)
  OBVIOUS
<1> QED BY <1>1, <1>2, <1>4, <1>5, <1>6, JoinContents

\* Each packet that is sent is under one cycle.
LEMMA UnderOne ==
    ASSUME NEW packets, DistinctPackets(packets),
           \A j \in DOMAIN packets : packets[j].cycle \in Cycles
    PROVE  /\ \A e : Under(packets, e) \subseteq Carried(packets)
           /\ \A n \in Carried(packets) : \E e \in Cycles : n \in Under(packets, e)
           /\ \A n, d, e : n \in Under(packets, d) /\ n \in Under(packets, e) => d = e
<1>1. \A e : Under(packets, e) \subseteq Carried(packets)
  BY DEF Under, Carried
<1>2. ASSUME NEW n \in Carried(packets) PROVE \E e \in Cycles : n \in Under(packets, e)
  <2>1. PICK j \in DOMAIN packets : packets[j].packet = n
    BY <1>2 DEF Carried
  <2>2. n \in Under(packets, packets[j].cycle) /\ packets[j].cycle \in Cycles
    BY <2>1 DEF Under
  <2> QED BY <2>2
<1>3. ASSUME NEW n, NEW d, NEW e, n \in Under(packets, d), n \in Under(packets, e)
      PROVE  d = e
  <2>1. PICK i \in DOMAIN packets : packets[i].cycle = d /\ packets[i].packet = n
    BY <1>3 DEF Under
  <2>2. PICK j \in DOMAIN packets : packets[j].cycle = e /\ packets[j].packet = n
    BY <1>3 DEF Under
  <2>3. i = j
    BY <2>1, <2>2 DEF DistinctPackets
  <2> QED BY <2>1, <2>2, <2>3
<1> QED BY <1>1, <1>2, <1>3

\* The packets of a slot, without their stamps.
Unstamped(s) == [j \in DOMAIN s |-> s[j].packet]

\* Leaving out the stamps changes neither what a slot holds nor its order.
LEMMA UnstampedHolds ==
    ASSUME NEW s
    PROVE  /\ Contents(Unstamped(s)) = Carried(s) /\ DOMAIN Unstamped(s) = DOMAIN s
           /\ Distinct(Unstamped(s)) <=> DistinctPackets(s)
<1>1. DOMAIN Unstamped(s) = DOMAIN s /\ \A j \in DOMAIN s : Unstamped(s)[j] = s[j].packet
  BY DEF Unstamped
<1>2. Contents(Unstamped(s)) = Carried(s)
  BY <1>1 DEF Contents, Carried
<1>3. Distinct(Unstamped(s)) <=> DistinctPackets(s)
  BY <1>1 DEF Distinct, DistinctPackets
<1> QED BY <1>1, <1>2, <1>3

\* The places: the queue of the source, the two ports, the list of the link
\* that waits, its slots, and what has arrived at the sink.
Kinds == {"oq", "pending", "slot", "A", "B", "arrived"}

Pend == IF kind = "buffered" THEN link.handler.pendingPackets ELSE link.handler.pending

Listed(k, c) ==
    IF k = "oq" THEN IF c = 0 THEN oq ELSE <<>>
    ELSE IF k = "pending" THEN IF c = 0 THEN Pend ELSE <<>>
    ELSE IF k = "slot" THEN IF kind = "buffered" /\ c \in 0 .. Latency - 1
                            THEN Unstamped(link.handler.slots[c]) ELSE <<>>
    ELSE IF k = "A" THEN IF c \in Cycles THEN A.mail[c] ELSE <<>>
    ELSE IF k = "B" THEN IF c \in Cycles THEN B.mail[c] ELSE <<>>
    ELSE IF c \in Cycles THEN arrived[c] ELSE <<>>

Lists == [k \in Kinds |-> [c \in Nat |-> Listed(k, c)]]

\* The lists of L hold each packet of N in one place of one list, and no others.
Apart(L, N) ==
    /\ \A k \in Kinds, c \in Nat : Distinct(L[k][c]) /\ Contents(L[k][c]) \subseteq N
    /\ \A n \in N : \E k \in Kinds, c \in Nat : n \in Contents(L[k][c])
    /\ \A k, l \in Kinds, c, d \in Nat :
          Contents(L[k][c]) \cap Contents(L[l][d]) # {} => k = l /\ c = d

ConserveInv ==
    /\ Apart(Lists, P)
    /\ fault = "none" => \A c \in Cycles : c >= sink.cycle => arrived[c] = <<>>

\* The list of each place.
LEMMA ListsAre ==
    /\ Lists["oq"][0] = oq /\ Lists["pending"][0] = Pend
    /\ \A e \in Cycles : /\ Lists["A"][e] = A.mail[e] /\ Lists["B"][e] = B.mail[e]
                         /\ Lists["arrived"][e] = arrived[e]
    /\ kind = "buffered" =>
          \A i \in 0 .. Latency - 1 : Lists["slot"][i] = Unstamped(link.handler.slots[i])
    /\ kind # "buffered" => \A i \in Nat : Lists["slot"][i] = <<>>
<1>1. Cycles \subseteq Nat /\ 0 .. Latency - 1 \subseteq Nat /\ 0 \in Nat
  BY CyclesInHorizon, LinkAssumption
<1>2. \A k \in Kinds, c \in Nat : Lists[k][c] = Listed(k, c)
  BY DEF Lists
<1>3. {"oq", "pending", "slot", "A", "B", "arrived"} = Kinds
  BY DEF Kinds
<1>4. /\ Lists["oq"][0] = oq /\ Lists["pending"][0] = Pend
  BY <1>1, <1>2, <1>3 DEF Listed
<1>5. \A e \in Cycles : /\ Lists["A"][e] = A.mail[e] /\ Lists["B"][e] = B.mail[e]
                        /\ Lists["arrived"][e] = arrived[e]
  BY <1>1, <1>2, <1>3 DEF Listed
<1>6. \A i \in Nat : Lists["slot"][i] = Listed("slot", i)
  BY <1>2, <1>3
<1> QED BY <1>1, <1>4, <1>5, <1>6 DEF Listed

\* The same after a step that keeps the kind of the link.
LEMMA ListsAreNext ==
    ASSUME kind' = kind
    PROVE  /\ Lists'["oq"][0] = oq' /\ Lists'["pending"][0] = Pend'
           /\ \A e \in Cycles : /\ Lists'["A"][e] = A'.mail[e] /\ Lists'["B"][e] = B'.mail[e]
                                /\ Lists'["arrived"][e] = arrived'[e]
           /\ kind = "buffered" =>
                 \A i \in 0 .. Latency - 1 : Lists'["slot"][i] = Unstamped(link'.handler.slots[i])
           /\ kind # "buffered" => \A i \in Nat : Lists'["slot"][i] = <<>>
<1>1. Cycles \subseteq Nat /\ 0 .. Latency - 1 \subseteq Nat /\ 0 \in Nat
  BY CyclesInHorizon, LinkAssumption
<1>2. \A k \in Kinds, c \in Nat : Lists'[k][c] = Listed(k, c)'
  BY DEF Lists
<1>3. {"oq", "pending", "slot", "A", "B", "arrived"} = Kinds
  BY DEF Kinds
<1>4. /\ Lists'["oq"][0] = oq' /\ Lists'["pending"][0] = Pend'
  BY <1>1, <1>2, <1>3 DEF Listed
<1>5. \A e \in Cycles : /\ Lists'["A"][e] = A'.mail[e] /\ Lists'["B"][e] = B'.mail[e]
                        /\ Lists'["arrived"][e] = arrived'[e]
  BY <1>1, <1>2, <1>3 DEF Listed
<1>6. \A i \in Nat : Lists'["slot"][i] = Listed("slot", i)'
  BY <1>2, <1>3
<1> QED BY <1>1, <1>4, <1>5, <1>6 DEF Listed

\* A place whose list a step leaves alone.
LEMMA ListsFrame ==
    ASSUME kind' = kind, NEW c \in Nat
    PROVE  /\ (c = 0 => oq' = oq) => Lists'["oq"][c] = Lists["oq"][c]
           /\ (c = 0 => Pend' = Pend) => Lists'["pending"][c] = Lists["pending"][c]
           /\ (kind = "buffered" /\ c \in 0 .. Latency - 1
                  => link'.handler.slots[c] = link.handler.slots[c])
                 => Lists'["slot"][c] = Lists["slot"][c]
           /\ (c \in Cycles => A'.mail[c] = A.mail[c]) => Lists'["A"][c] = Lists["A"][c]
           /\ (c \in Cycles => B'.mail[c] = B.mail[c]) => Lists'["B"][c] = Lists["B"][c]
           /\ (c \in Cycles => arrived'[c] = arrived[c])
                 => Lists'["arrived"][c] = Lists["arrived"][c]
<1>1. \A k \in Kinds : Lists'[k][c] = Listed(k, c)' /\ Lists[k][c] = Listed(k, c)
  BY DEF Lists
<1>2. {"oq", "pending", "slot", "A", "B", "arrived"} = Kinds
  BY DEF Kinds
<1>3. (c = 0 => oq' = oq) => Lists'["oq"][c] = Lists["oq"][c]
  BY <1>1, <1>2 DEF Listed
<1>4. (c = 0 => Pend' = Pend) => Lists'["pending"][c] = Lists["pending"][c]
  BY <1>1, <1>2 DEF Listed
<1>5. (kind = "buffered" /\ c \in 0 .. Latency - 1
          => link'.handler.slots[c] = link.handler.slots[c])
         => Lists'["slot"][c] = Lists["slot"][c]
  BY <1>1, <1>2 DEF Listed, Unstamped
<1>6. (c \in Cycles => A'.mail[c] = A.mail[c]) => Lists'["A"][c] = Lists["A"][c]
  BY <1>1, <1>2 DEF Listed
<1>7. (c \in Cycles => B'.mail[c] = B.mail[c]) => Lists'["B"][c] = Lists["B"][c]
  BY <1>1, <1>2 DEF Listed
<1>8. (c \in Cycles => arrived'[c] = arrived[c])
         => Lists'["arrived"][c] = Lists["arrived"][c]
  BY <1>1, <1>2 DEF Listed
<1> QED BY <1>3, <1>4, <1>5, <1>6, <1>7, <1>8

\* A step that moves the packets of M, each to one place, leaves the others where
\* they are, and adds to N those of M that are new.
Moved(H, G, N, NN, M) ==
    /\ \A k \in Kinds, c \in Nat : Distinct(G[k][c])
    /\ \A k \in Kinds, c \in Nat : \A n :
          n \notin M => (n \in Contents(G[k][c]) <=> n \in Contents(H[k][c]))
    /\ M \subseteq NN
    /\ \A n : n \notin M => (n \in N <=> n \in NN)
    /\ \A n \in M : \E k \in Kinds, c \in Nat : n \in Contents(G[k][c])
    /\ \A n \in M : \A k, l \in Kinds, c, d \in Nat :
          n \in Contents(G[k][c]) /\ n \in Contents(G[l][d]) => k = l /\ c = d

\* After such a step the packets are apart again.
LEMMA Moves ==
    ASSUME NEW H, NEW G, NEW N, NEW NN, NEW M, Apart(H, N), Moved(H, G, N, NN, M)
    PROVE  Apart(G, NN)
<1>1. ASSUME NEW k \in Kinds, NEW c \in Nat, NEW n \in Contents(G[k][c])
      PROVE  n \in NN
  BY <1>1 DEF Apart, Moved
<1>2. ASSUME NEW n \in NN
      PROVE  \E k \in Kinds, c \in Nat : n \in Contents(G[k][c])
  <2>1. CASE n \in M
    BY <2>1 DEF Moved
  <2>2. CASE n \notin M
    <3>1. PICK k \in Kinds, c \in Nat : n \in Contents(H[k][c])
      <4>1. n \in N
        BY <2>2 DEF Moved
      <4> QED BY <4>1 DEF Apart
    <3> QED BY <2>2, <3>1 DEF Moved
  <2> QED BY <2>1, <2>2
<1>3. ASSUME NEW k \in Kinds, NEW l \in Kinds, NEW c \in Nat, NEW d \in Nat,
             Contents(G[k][c]) \cap Contents(G[l][d]) # {}
      PROVE  k = l /\ c = d
  <2>1. PICK n : n \in Contents(G[k][c]) /\ n \in Contents(G[l][d])
    BY <1>3
  <2>2. CASE n \in M
    BY <2>1, <2>2 DEF Moved
  <2>3. CASE n \notin M
    <3>1. n \in Contents(H[k][c]) /\ n \in Contents(H[l][d])
      BY <2>1, <2>3 DEF Moved
    <3>2. Contents(H[k][c]) \cap Contents(H[l][d]) # {}
      BY <3>1
    <3> QED BY <3>2 DEF Apart
  <2> QED BY <2>2, <2>3
<1>4. \A k \in Kinds, c \in Nat : Distinct(G[k][c])
  BY DEF Moved
<1>5. \A k \in Kinds, c \in Nat : Contents(G[k][c]) \subseteq NN
  BY <1>1
<1> QED BY <1>2, <1>3, <1>4, <1>5 DEF Apart

\* A step that moves nothing.
LEMMA NothingMoves ==
    ASSUME NEW H, NEW G, NEW N, Apart(H, N), \A k \in Kinds, c \in Nat : G[k][c] = H[k][c]
    PROVE  Apart(G, N)
<1>1. Moved(H, G, N, N, {})
  <2>1. \A k \in Kinds, c \in Nat : Distinct(G[k][c])
    BY DEF Apart
  <2> QED BY <2>1 DEF Moved
<1> QED BY <1>1, Moves

\* Two places hold different packets.
LEMMA TwoPlaces ==
    ASSUME NEW L, NEW N, Apart(L, N), NEW k \in Kinds, NEW c \in Nat,
           NEW l \in Kinds, NEW d \in Nat, k # l \/ c # d
    PROVE  /\ Distinct(L[k][c]) /\ Contents(L[k][c]) \subseteq N
           /\ Contents(L[k][c]) \cap Contents(L[l][d]) = {}
BY DEF Apart

\* Where a packet is before a step, it is nowhere else.
LEMMA OnlyThere ==
    ASSUME NEW L, NEW N, Apart(L, N), NEW k \in Kinds, NEW c \in Nat,
           NEW n \in Contents(L[k][c])
    PROVE  n \in N /\ \A l \in Kinds, d \in Nat : n \in Contents(L[l][d]) => k = l /\ c = d
BY DEF Apart

-----------------------------------------------------------------------------
(* Every step keeps the packets apart.                                     *)

\* The lists of the places are lists of packets.
LEMMA ListsType ==
    ASSUME TypeInv
    PROVE  /\ oq \in Seq(P) /\ Pend \in Seq(P)
           /\ A.mail \in [Cycles -> Seq(P)] /\ B.mail \in [Cycles -> Seq(P)]
           /\ arrived \in [Cycles -> Seq(P)]
           /\ kind = "buffered" =>
                 /\ link.handler \in BufferedState(P) /\ Bounded(link.handler)
                 /\ link.handler.slots \in [0 .. Latency - 1 -> Seq(Stamps(P))]
                 /\ link.handler.totalBackpressure \in Nat
                 /\ Pend = link.handler.pendingPackets
           /\ kind # "buffered" => /\ link.handler \in BufferlessState(P)
                                   /\ Pend = link.handler.pending
<1>1. /\ oq \in Seq(P) /\ arrived \in [Cycles -> Seq(P)] /\ HandlerOK(link.handler, P)
      /\ A \in PortState(P) /\ B \in PortState(P)
  BY DEF TypeInv
<1>2. A.mail \in [Cycles -> Seq(P)] /\ B.mail \in [Cycles -> Seq(P)]
  BY <1>1 DEF PortState
<1>3. ASSUME kind = "buffered"
      PROVE  /\ link.handler \in BufferedState(P) /\ Bounded(link.handler)
             /\ link.handler.slots \in [0 .. Latency - 1 -> Seq(Stamps(P))]
             /\ link.handler.totalBackpressure \in Nat
             /\ Pend = link.handler.pendingPackets /\ Pend \in Seq(P)
  <2>1. link.handler \in BufferedState(P) /\ Bounded(link.handler)
    BY <1>1, <1>3 DEF HandlerOK
  <2> QED BY <1>3, <2>1 DEF BufferedState, Pend
<1>4. ASSUME kind # "buffered"
      PROVE  /\ link.handler \in BufferlessState(P)
             /\ Pend = link.handler.pending /\ Pend \in Seq(P)
  <2>1. link.handler \in BufferlessState(P)
    BY <1>1, <1>4 DEF HandlerOK
  <2> QED BY <1>4, <2>1 DEF BufferlessState, Pend
<1> QED BY <1>1, <1>2, <1>3, <1>4

\* The numbers of a burst are the next ones, each once (the counter of the
\* packets accepted so far).
LEMMA FreshContents ==
    ASSUME src.accepted \in Nat, inject[src.cycle] \in Nat
    PROVE  /\ Contents(Fresh) = (1 .. src.accepted + inject[src.cycle]) \ P
           /\ Distinct(Fresh)
<1> DEFINE a == src.accepted
           k == inject[src.cycle]
<1>1. DOMAIN Fresh = 1 .. k /\ \A i \in 1 .. k : Fresh[i] = a + i
  BY DEF Fresh
<1>2. P = 1 .. a /\ a \in Nat /\ k \in Nat
  BY DEF P
<1> HIDE DEF a, k
<1>3. Distinct(Fresh)
  BY <1>1, <1>2 DEF Distinct
<1>4. ASSUME NEW n \in Contents(Fresh) PROVE n \in (1 .. a + k) \ P
  <2>1. PICK i \in 1 .. k : n = a + i
    BY <1>1 DEF Contents
  <2> QED BY <1>2, <2>1
<1>5. ASSUME NEW n \in (1 .. a + k) \ P PROVE n \in Contents(Fresh)
  <2>1. n - a \in 1 .. k /\ a + (n - a) = n
    BY <1>2
  <2>2. n - a \in DOMAIN Fresh /\ Fresh[n - a] = n
    BY <1>1, <2>1
  <2> QED BY <2>2 DEF Contents
<1> QED BY <1>3, <1>4, <1>5 DEF a, k

\* A burst that the output queue accepts is in the queue and nowhere else
\* (InjectPackets).
LEMMA ApartAfterProcess ==
    ASSUME TypeInv, Apart(Lists, P), SourceProcess
    PROVE  Apart(Lists', P')
<1>1. /\ Fresh \in Seq(1 .. src.accepted + inject[src.cycle]) /\ inject[src.cycle] \in Nat
      /\ \/ /\ oq' = oq /\ src'.accepted = src.accepted
         \/ /\ oq' = oq \o Fresh
            /\ src'.accepted = src.accepted + inject[src.cycle]
      /\ UNCHANGED <<kind, link, A, B, arrived>>
  BY SourceProcessStep
<1>2. src.accepted \in Nat /\ oq \in Seq(P)
  BY DEF TypeInv
<1>3. Pend' = Pend
  BY <1>1 DEF Pend
<1>4. \A k \in Kinds, c \in Nat : ~(k = "oq" /\ c = 0) => Lists'[k][c] = Lists[k][c]
  BY <1>1, <1>3, ListsFrame DEF Kinds
<1>5. Lists["oq"][0] = oq /\ Lists'["oq"][0] = oq' /\ "oq" \in Kinds /\ 0 \in Nat
  BY <1>1, ListsAre, ListsAreNext DEF Kinds
<1>6. CASE oq' = oq /\ src'.accepted = src.accepted
  <2>1. \A k \in Kinds, c \in Nat : Lists'[k][c] = Lists[k][c]
    BY <1>4, <1>5, <1>6
  <2>2. P' = P
    BY <1>6 DEF P
  <2> DEFINE G == Lists'
             H == Lists
  <2>3. Apart(H, P) /\ \A k \in Kinds, c \in Nat : G[k][c] = H[k][c]
    BY <2>1
  <2> HIDE DEF G, H
  <2>4. Apart(G, P)
    BY <2>3, NothingMoves
  <2> QED BY <2>2, <2>4 DEF G
<1>7. CASE oq' = oq \o Fresh /\ src'.accepted = src.accepted + inject[src.cycle]
  <2> DEFINE N == 1 .. src.accepted + inject[src.cycle]
             M == Contents(Fresh)
             H == Lists
             G == Lists'
  <2>1. P' = N
    BY <1>7 DEF P
  <2>2. M = N \ P /\ Distinct(Fresh)
    BY <1>1, <1>2, FreshContents
  <2>3. P \subseteq N
    BY <1>1, <1>2 DEF P
  <2>4. oq \in Seq(N)
    BY <1>2, <2>3, SeqMonotonic
  <2>5. Distinct(oq) /\ Contents(oq) \subseteq P
    BY <1>5 DEF Apart
  <2>6. Contents(oq') = Contents(oq) \union M /\ Distinct(oq')
    <3>1. Contents(oq) \cap M = {}
      BY <2>2, <2>5
    <3> QED BY <1>1, <1>7, <2>2, <2>4, <2>5, <3>1, JoinContents
  <2> HIDE DEF N, M
  <2>7. \A k \in Kinds, c \in Nat : Distinct(G[k][c])
    <3>1. \A k \in Kinds, c \in Nat : Distinct(H[k][c])
      BY DEF Apart
    <3> QED BY <1>4, <1>5, <2>6, <3>1
  <2>8. \A k \in Kinds, c \in Nat : \A n :
           n \notin M => (n \in Contents(G[k][c]) <=> n \in Contents(H[k][c]))
    BY <1>4, <1>5, <2>6
  <2>9. M \subseteq N /\ \A n : n \notin M => (n \in P <=> n \in N)
    BY <2>2, <2>3
  <2>10. \A n \in M : n \in Contents(G["oq"][0])
    BY <1>5, <2>6
  <2>11. ASSUME NEW n \in M, NEW k \in Kinds, NEW c \in Nat, n \in Contents(G[k][c])
         PROVE  k = "oq" /\ c = 0
    <3>1. SUFFICES ASSUME ~(k = "oq" /\ c = 0) PROVE FALSE
      OBVIOUS
    <3>2. n \in Contents(H[k][c])
      BY <1>4, <2>11, <3>1
    <3>3. n \in P
      BY <3>2 DEF Apart
    <3> QED BY <2>2, <3>3
  <2>12. Apart(H, P)
    OBVIOUS
  <2> HIDE DEF G, H
  <2>13. Apart(G, N)
    <3>1. \A n \in M : \E k \in Kinds, c \in Nat : n \in Contents(G[k][c])
      BY <1>5, <2>10
    <3>2. \A n \in M : \A k, l \in Kinds, c, d \in Nat :
             n \in Contents(G[k][c]) /\ n \in Contents(G[l][d]) => k = l /\ c = d
      BY <2>11
    <3>3. Moved(H, G, P, N, M)
      BY <2>7, <2>8, <2>9, <3>1, <3>2 DEF Moved
    <3> QED BY <2>12, <3>3, Moves
  <2> QED BY <2>1, <2>13 DEF G
<1> QED BY <1>1, <1>6, <1>7

\* What is stamped for one cycle is sent under it.
LEMMA UnderStamped ==
    ASSUME NEW S, NEW q \in Seq(S), NEW c \in Nat, NEW e
    PROVE  Under(Stamped(c, q), e) = IF e = c THEN Contents(q) ELSE {}
<1> DEFINE t == Stamped(c, q)
<1>1. DOMAIN t = DOMAIN q /\ \A i \in DOMAIN q : t[i] = [cycle |-> c, packet |-> q[i]]
  BY StampedProps
<1> HIDE DEF t
<1>2. \A i \in DOMAIN t : t[i].cycle = c /\ t[i].packet = q[i]
  BY <1>1
<1>3. ASSUME e = c PROVE Under(t, e) = Contents(q)
  <2>1. {i \in DOMAIN t : t[i].cycle = e} = DOMAIN q
    BY <1>1, <1>2, <1>3
  <2>2. \A j \in DOMAIN q : t[j].packet = q[j]
    BY <1>1, <1>2
  <2> QED BY <2>1, <2>2 DEF Under, Contents
<1>4. ASSUME e # c PROVE Under(t, e) = {}
  BY <1>2, <1>4 DEF Under
<1>5. Under(t, e) = IF e = c THEN Contents(q) ELSE {}
  BY <1>3, <1>4
<1> QED BY <1>5 DEF t

\* The head of the output queue moves to the first port, into the compartment of
\* its cycle (Tick of the output queue).
LEMMA ApartAfterSend ==
    ASSUME TypeInv, Apart(Lists, P), SourceSend
    PROVE  Apart(Lists', P')
<1> DEFINE a == src.ahead
           M == Contents(Head1)
           rest == SubSeq(oq, Leaves + 1, Len(oq))
           t == Stamped(a, Head1)
           H == Lists
           G == Lists'
<1>1. /\ a \in Cycles /\ a \in Nat /\ Leaves \in 0 .. Len(oq)
      /\ Head1 \in Seq(P) /\ t \in Seq(Stamps(P))
      /\ oq' = rest /\ A'.mail = MailedAlso(A.mail, t)
      /\ src'.accepted = src.accepted
      /\ UNCHANGED <<kind, link, B, arrived>>
  <2>1. /\ a \in Cycles /\ Leaves \in 0 .. Len(oq) /\ Head1 \in Seq(P)
        /\ t \in Seq(Stamps(P)) /\ oq' = rest
        /\ A' = [done |-> a, decision |-> A.decision, mail |-> MailedAlso(A.mail, t)]
        /\ src' = [cycle |-> src.cycle, phase |-> "send", ahead |-> a + 1,
                   accepted |-> src.accepted]
        /\ UNCHANGED <<kind, link, B, arrived>>
    BY SourceSendStep
  <2>2. A'.mail = MailedAlso(A.mail, t) /\ src'.accepted = src.accepted
    BY <2>1
  <2> QED BY <2>1, <2>2, CyclesInHorizon
<1>2. oq \in Seq(P) /\ A.mail \in [Cycles -> Seq(P)]
  BY ListsType
<1>3. P' = P /\ Pend' = Pend
  BY <1>1 DEF P, Pend
<1>4. /\ H["oq"][0] = oq /\ G["oq"][0] = rest
      /\ \A e \in Cycles : H["A"][e] = A.mail[e] /\ G["A"][e] = A'.mail[e]
      /\ "oq" \in Kinds /\ "A" \in Kinds /\ 0 \in Nat
  BY <1>1, ListsAre, ListsAreNext DEF Kinds
<1>5. \A k \in Kinds, c \in Nat :
         ~(k = "oq" /\ c = 0) /\ ~(k = "A" /\ c \in Cycles) => G[k][c] = H[k][c]
  BY <1>1, <1>3, ListsFrame DEF Kinds
<1>6. Distinct(oq) /\ Apart(H, P)
  BY <1>4 DEF Apart
<1>7. /\ M \union Contents(rest) = Contents(oq) /\ Distinct(Head1) /\ Distinct(rest)
      /\ M \cap Contents(rest) = {}
  <2>1. Head1 = SubSeq(oq, 1, Leaves)
    BY DEF Head1
  <2> QED BY <1>1, <1>2, <1>6, <2>1, CutContents
<1>8. DistinctPackets(t)
  BY <1>1, <1>7, StampedCarries
<1>9. \A e \in Cycles : Under(t, e) = IF e = a THEN M ELSE {}
  BY <1>1, UnderStamped
<1>10. \A n \in M : \A k \in Kinds, c \in Nat : n \in Contents(H[k][c]) => k = "oq" /\ c = 0
  <2>1. \A n \in M : n \in Contents(H["oq"][0])
    BY <1>4, <1>7
  <2> HIDE DEF H, M
  <2>2. SUFFICES ASSUME NEW n \in M, NEW k \in Kinds, NEW c \in Nat, n \in Contents(H[k][c])
                 PROVE  k = "oq" /\ c = 0
    OBVIOUS
  <2>3. n \in Contents(H["oq"][0])
    BY <2>1
  <2>4. Contents(H[k][c]) \cap Contents(H["oq"][0]) # {}
    BY <2>2, <2>3
  <2>5. "oq" \in Kinds /\ 0 \in Nat
    BY <1>4
  <2> QED BY <1>6, <2>4, <2>5 DEF Apart
<1>11. ASSUME NEW e \in Cycles
       PROVE  /\ Contents(G["A"][e]) = Contents(H["A"][e]) \union (IF e = a THEN M ELSE {})
              /\ Distinct(G["A"][e])
  <2>1. e \in Nat
    BY CyclesInHorizon
  <2>2. Distinct(A.mail[e])
    BY <1>4, <2>1 DEF Apart
  <2>3. Contents(A.mail[e]) \cap Under(t, e) = {}
    <3>1. \A n \in M : n \notin Contents(H["A"][e])
      BY <1>4, <1>10, <2>1
    <3> QED BY <1>4, <1>9, <3>1
  <2> DEFINE mail == A.mail
  <2>4. /\ mail \in [Cycles -> Seq(P)] /\ t \in Seq(Stamps(P)) /\ DistinctPackets(t)
        /\ Distinct(mail[e]) /\ Contents(mail[e]) \cap Under(t, e) = {}
    BY <1>1, <1>2, <1>8, <2>2, <2>3
  <2> HIDE DEF t, mail
  <2>5. /\ Contents(MailedAlso(mail, t)[e]) = Contents(mail[e]) \union Under(t, e)
        /\ Distinct(MailedAlso(mail, t)[e])
    BY <2>4, MailContents
  <2> QED BY <1>1, <1>4, <1>9, <2>5 DEF mail
<1> HIDE DEF M, rest, t
<1>12. \A k \in Kinds, c \in Nat : Distinct(G[k][c])
  <2>1. \A k \in Kinds, c \in Nat : Distinct(H[k][c])
    BY DEF Apart
  <2> QED BY <1>4, <1>5, <1>7, <1>11, <2>1
<1> HIDE DEF G, H
<1>13. ASSUME NEW k \in Kinds, NEW c \in Nat, NEW n, n \notin M
       PROVE  n \in Contents(G[k][c]) <=> n \in Contents(H[k][c])
  <2>1. CASE k = "oq" /\ c = 0
    BY <1>4, <1>7, <1>13, <2>1
  <2>2. CASE k = "A" /\ c \in Cycles
    BY <1>11, <1>13, <2>2
  <2>3. CASE ~(k = "oq" /\ c = 0) /\ ~(k = "A" /\ c \in Cycles)
    BY <1>5, <2>3
  <2> QED BY <2>1, <2>2, <2>3
<1>14. ASSUME NEW n \in M, NEW k \in Kinds, NEW c \in Nat, n \in Contents(G[k][c])
       PROVE  k = "A" /\ c = a
  <2>1. CASE k = "oq" /\ c = 0
    BY <1>4, <1>7, <1>14, <2>1
  <2>2. CASE k = "A" /\ c \in Cycles
    <3>1. n \notin Contents(H["A"][c])
      BY <1>4, <1>10
    <3> QED BY <1>11, <1>14, <2>2, <3>1
  <2>3. CASE ~(k = "oq" /\ c = 0) /\ ~(k = "A" /\ c \in Cycles)
    <3>1. n \in Contents(H[k][c])
      BY <1>5, <1>14, <2>3
    <3> QED BY <1>10, <2>3, <3>1
  <2> QED BY <2>1, <2>2, <2>3
<1>15. M \subseteq P
  <2>1. M \subseteq Contents(H["oq"][0])
    BY <1>4, <1>7
  <2> QED BY <1>4, <1>6, <2>1 DEF Apart
<1>16. \A n \in M : n \in Contents(G["A"][a])
  BY <1>1, <1>11
<1>17. Moved(H, G, P, P, M)
  BY <1>1, <1>4, <1>12, <1>13, <1>14, <1>15, <1>16 DEF Moved
<1>18. Apart(G, P)
  BY <1>6, <1>17, Moves
<1> QED BY <1>3, <1>18 DEF G

\* What the sink takes out of the second port has arrived (Tick of the input
\* queue; the packets of a Tick that fails count as arrived).
LEMMA ApartAfterSink ==
    ASSUME TypeInv, Apart(Lists, P), SinkTick, arrived[sink.cycle] = <<>>
    PROVE  Apart(Lists', P')
<1> DEFINE s == sink.cycle
           got == B.mail[s]
           M == Contents(got)
           H == Lists
           G == Lists'
<1>1. /\ s \in Cycles /\ s \in Nat /\ got \in Seq(P)
      /\ arrived' = [arrived EXCEPT ![s] = got]
      /\ B'.mail = [B.mail EXCEPT ![s] = <<>>]
      /\ UNCHANGED <<kind, src, oq, link, A>>
  BY SinkStep, CyclesInHorizon DEF Blank
<1>2. B.mail \in [Cycles -> Seq(P)] /\ arrived \in [Cycles -> Seq(P)]
  BY ListsType
<1>3. P' = P /\ Pend' = Pend
  BY <1>1 DEF P, Pend
<1>4. /\ H["B"][s] = got /\ G["B"][s] = <<>>
      /\ H["arrived"][s] = <<>> /\ G["arrived"][s] = got
      /\ "B" \in Kinds /\ "arrived" \in Kinds
  BY <1>1, <1>2, ListsAre, ListsAreNext DEF Kinds
<1>5. \A k \in Kinds, c \in Nat :
         ~(k = "B" /\ c = s) /\ ~(k = "arrived" /\ c = s) => G[k][c] = H[k][c]
  BY <1>1, <1>2, <1>3, ListsFrame DEF Kinds
<1>6. Distinct(got) /\ Apart(H, P) /\ M \subseteq P
  BY <1>1, <1>4 DEF Apart
<1>7. Contents(<<>>) = {} /\ Distinct(<<>>)
  BY EmptyContents
<1>8. \A n \in M : \A k \in Kinds, c \in Nat : n \in Contents(H[k][c]) => k = "B" /\ c = s
  <2>1. \A n \in M : n \in Contents(H["B"][s])
    BY <1>4
  <2> HIDE DEF H, M
  <2> QED BY <1>1, <1>4, <1>6, <2>1, OnlyThere
<1>9. \A k \in Kinds, c \in Nat : Distinct(G[k][c])
  <2>1. \A k \in Kinds, c \in Nat : Distinct(H[k][c])
    BY DEF Apart
  <2> HIDE DEF H, M, G, got
  <2> QED BY <1>4, <1>5, <1>6, <1>7, <2>1
<1>10. Contents(G["arrived"][s]) = M /\ Contents(H["B"][s]) = M
  BY <1>4
<1>11. Contents(G["B"][s]) = {} /\ Contents(H["arrived"][s]) = {}
  BY <1>4, <1>7
<1> HIDE DEF G, H, M
<1>12. ASSUME NEW k \in Kinds, NEW c \in Nat, NEW n, n \notin M
       PROVE  n \in Contents(G[k][c]) <=> n \in Contents(H[k][c])
  <2>1. CASE k = "B" /\ c = s
    BY <1>10, <1>11, <1>12, <2>1
  <2>2. CASE k = "arrived" /\ c = s
    BY <1>10, <1>11, <1>12, <2>2
  <2>3. CASE ~(k = "B" /\ c = s) /\ ~(k = "arrived" /\ c = s)
    BY <1>5, <2>3
  <2> QED BY <2>1, <2>2, <2>3
<1>13. ASSUME NEW n \in M, NEW k \in Kinds, NEW c \in Nat, n \in Contents(G[k][c])
       PROVE  k = "arrived" /\ c = s
  <2>1. CASE k = "B" /\ c = s
    BY <1>11, <1>13, <2>1
  <2>2. CASE ~(k = "B" /\ c = s) /\ ~(k = "arrived" /\ c = s)
    <3>1. n \in Contents(H[k][c])
      BY <1>5, <1>13, <2>2
    <3> QED BY <1>8, <2>2, <3>1
  <2> QED BY <2>1, <2>2
<1>14. Moved(H, G, P, P, M)
  BY <1>1, <1>4, <1>6, <1>9, <1>10, <1>12, <1>13 DEF Moved
<1>15. Apart(G, P)
  BY <1>6, <1>14, Moves
<1> QED BY <1>3, <1>15 DEF G

\* The slot of the cycle, before and after the cycle, without the stamps.
TheSlot == IF kind = "buffered" THEN SlotIndex(link.handler, link.cycle) ELSE 0

SlotBefore == IF kind = "buffered" THEN Unstamped(link.handler.slots[TheSlot]) ELSE <<>>

SlotAfter == IF kind = "buffered" THEN Unstamped(Outcome.state.slots[TheSlot]) ELSE <<>>

PendAfter ==
    IF kind = "buffered" THEN Outcome.state.pendingPackets ELSE Outcome.state.pending

\* The lists a, b and c hold each packet of M once, in one of them.
Shared(a, b, c, M) ==
    /\ Distinct(a) /\ Distinct(b) /\ Distinct(c)
    /\ Contents(a) \union Contents(b) \union Contents(c) = M
    /\ Contents(a) \cap Contents(b) = {}
    /\ Contents(a) \cap Contents(c) = {}
    /\ Contents(b) \cap Contents(c) = {}

\* A buffered link has the packets of M before its cycle, and after it.
SharedBefore(h, incoming, i, M) ==
    Shared(h.pendingPackets, incoming, Unstamped(h.slots[i]), M)

SharedAfter(h, r, i, M) ==
    /\ Shared(r.state.pendingPackets, Unstamped(r.sent), Unstamped(r.state.slots[i]), M)
    /\ \A j \in 0 .. Latency - 1 : j # i => r.state.slots[j] = h.slots[j]

\* A buffered link shares out what waits, what comes in and the slot of the
\* cycle among what it sends, what waits afterwards and the slot (Process).
LEMMA BufferedShares ==
    ASSUME NEW S, NEW h \in BufferedState(S), Bounded(h), NEW c \in Nat,
           NEW incoming \in Seq(S), NEW ready \in BOOLEAN, NEW M,
           SharedBefore(h, incoming, SlotIndex(h, c), M)
    PROVE  /\ SharedAfter(h, BufferedProcess(h, c, incoming, ready), SlotIndex(h, c), M)
           /\ SlotIndex(h, c) \in 0 .. Latency - 1
<1> DEFINE i == SlotIndex(h, c)
           slot == h.slots[i]
           w == Waits(h, incoming)
           n == Enters(h, c, incoming)
           q == Filled(h, c, incoming)
           head == SubSeq(w, 1, n)
           t == Stamped(c, head)
           rest == Remains(h, c, incoming)
           r == BufferedProcess(h, c, incoming, ready)
           p == h.pendingPackets
<1>1. /\ i \in 0 .. Latency - 1 /\ w \in Seq(S) /\ n \in 0 .. Len(w)
      /\ q \in Seq(Stamps(S))
  BY FillProps
<1>2. /\ r.state.slots = [h.slots EXCEPT ![i] = IF ready THEN <<>> ELSE q]
      /\ r.state.pendingPackets = rest /\ r.sent = IF ready THEN q ELSE <<>>
  BY BufferedProps DEF SlotsAfter
<1>3. slot \in Seq(Stamps(S)) /\ h.slots \in [0 .. Latency - 1 -> Seq(Stamps(S))]
      /\ p \in Seq(S)
  BY <1>1 DEF BufferedState
<1>4. /\ \A j \in 0 .. Latency - 1 : j # i => r.state.slots[j] = h.slots[j]
      /\ r.state.slots[i] = IF ready THEN <<>> ELSE q
  BY <1>1, <1>2, <1>3
<1>5. w = p \o incoming /\ q = slot \o t /\ rest = SubSeq(w, n + 1, Len(w))
  BY DEF Waits, Filled, Remains
<1> DEFINE u == Unstamped(slot)
<1>6. Shared(p, incoming, u, M)
  BY DEF SharedBefore
<1>7. Contents(u) = Carried(slot) /\ DistinctPackets(slot)
  BY <1>6, UnstampedHolds DEF Shared
<1> HIDE DEF w, n, q, rest, r, p, slot, u, i
<1>8. Contents(w) = Contents(p) \union Contents(incoming) /\ Distinct(w)
  BY <1>3, <1>5, <1>6, JoinContents DEF Shared
<1>9. /\ Contents(head) \union Contents(rest) = Contents(w)
      /\ Distinct(head) /\ Distinct(rest) /\ Contents(head) \cap Contents(rest) = {}
  BY <1>1, <1>5, <1>8, CutContents
<1>10. head \in Seq(S)
  BY <1>1, CutProps
<1> HIDE DEF head
<1>11. Carried(t) = Contents(head) /\ DistinctPackets(t) /\ t \in Seq(Stamps(S))
  BY <1>9, <1>10, StampedCarries, StampedProps
<1> HIDE DEF t
<1>12. Carried(q) = Carried(slot) \union Contents(head) /\ DistinctPackets(q)
  <2>1. Carried(slot) \cap Carried(t) = {}
    BY <1>6, <1>7, <1>8, <1>9, <1>11 DEF Shared
  <2> QED BY <1>3, <1>5, <1>7, <1>11, <2>1, JoinCarried
<1> DEFINE full == Unstamped(q)
           none == Unstamped(<<>>)
<1>13. Contents(full) = Carried(q) /\ Distinct(full)
  BY <1>12, UnstampedHolds
<1>14. Contents(none) = {} /\ Distinct(none)
  BY UnstampedHolds, EmptyContents
<1> HIDE DEF full, none
<1>15. /\ Contents(rest) \cap Contents(full) = {}
       /\ Contents(rest) \union Contents(full) = M
  BY <1>6, <1>7, <1>8, <1>9, <1>12, <1>13 DEF Shared
<1>16. Shared(rest, none, full, M) /\ Shared(rest, full, none, M)
  BY <1>9, <1>13, <1>14, <1>15 DEF Shared
<1>17. Shared(rest, Unstamped(r.sent), Unstamped(r.state.slots[i]), M)
  <2>1. CASE ready
    BY <1>2, <1>4, <1>16, <2>1 DEF full, none
  <2>2. CASE ~ready
    BY <1>2, <1>4, <1>16, <2>2 DEF full, none
  <2> QED BY <2>1, <2>2
<1>18. SharedAfter(h, r, i, M)
  BY <1>2, <1>4, <1>17 DEF SharedAfter
<1> QED BY <1>1, <1>18 DEF r, i

\* A bufferless link shares out what it retries and what comes in between what
\* it sends and what was refused (Process).
LEMMA BufferlessShares ==
    ASSUME NEW S, NEW h \in BufferlessState(S), NEW c \in Nat,
           NEW incoming \in Seq(S), NEW ready \in BOOLEAN, NEW M,
           Shared(h.pending, incoming, <<>>, M)
    PROVE  LET r == BufferlessProcess(h, c, incoming, ready)
           IN  Shared(r.state.pending, Unstamped(r.sent), <<>>, M)
<1> DEFINE w == Offers(h, incoming)
           n == Refuses(h, incoming, ready)
           kept == SubSeq(w, 1, n)
           rest == SubSeq(w, n + 1, Len(w))
           t == Stamped(c, rest)
           r == BufferlessProcess(h, c, incoming, ready)
           p == h.pending
<1>1. /\ w \in Seq(S) /\ n \in 0 .. Len(w)
      /\ r = [state |-> [pending |-> kept], sent |-> t, readyNext |-> TRUE]
  BY BufferlessProps
<1>2. p \in Seq(S)
  BY DEF BufferlessState
<1>3. w = p \o incoming
  BY DEF Offers
<1>4. Shared(p, incoming, <<>>, M)
  OBVIOUS
<1>5. r.state.pending = kept /\ r.sent = t
  BY <1>1
<1> HIDE DEF w, n, r, p
<1>6. Contents(w) = Contents(p) \union Contents(incoming) /\ Distinct(w)
  BY <1>2, <1>3, <1>4, JoinContents DEF Shared
<1>7. /\ Contents(kept) \union Contents(rest) = Contents(w)
      /\ Distinct(kept) /\ Distinct(rest) /\ Contents(kept) \cap Contents(rest) = {}
  BY <1>1, <1>6, CutContents
<1>8. rest \in Seq(S)
  BY <1>1, CutProps
<1> HIDE DEF kept, rest
<1>9. Carried(t) = Contents(rest) /\ DistinctPackets(t)
  BY <1>7, <1>8, StampedCarries
<1> HIDE DEF t
<1> DEFINE u == Unstamped(t)
<1>10. Contents(u) = Contents(rest) /\ Distinct(u)
  BY <1>9, UnstampedHolds
<1>11. Contents(<<>>) = {} /\ Distinct(<<>>)
  BY EmptyContents
<1> HIDE DEF u
<1>12. Shared(kept, u, <<>>, M)
  BY <1>4, <1>6, <1>7, <1>10, <1>11 DEF Shared
<1> QED BY <1>5, <1>12 DEF r, u

\* Either link shares the packets out, and touches no other slot.
LEMMA LinkShares ==
    ASSUME TypeInv, LinkTick, NEW M,
           Shared(Pend, Incoming(link.cycle), SlotBefore, M)
    PROVE  /\ Shared(PendAfter, Unstamped(Outcome.sent), SlotAfter, M)
           /\ Pend' = PendAfter
           /\ kind = "buffered" =>
                 /\ TheSlot \in 0 .. Latency - 1
                 /\ SlotAfter = Unstamped(link'.handler.slots[TheSlot])
                 /\ \A j \in 0 .. Latency - 1 :
                       j # TheSlot => link'.handler.slots[j] = link.handler.slots[j]
<1> DEFINE c == link.cycle
           in == Incoming(c)
           ready == IsReady(B, c)
           h == link.handler
<1>1. /\ c \in Nat /\ in \in Seq(P) /\ ready \in BOOLEAN
      /\ link' = [cycle |-> c + 1, handler |-> Outcome.state] /\ kind' = kind
  BY LinkStep, CyclesInHorizon DEF IsReady
<1>2. link'.handler = Outcome.state
  BY <1>1
<1>3. Pend' = PendAfter
  BY <1>1, <1>2 DEF Pend, PendAfter
<1>4. CASE kind = "buffered"
  <2> DEFINE i == SlotIndex(h, c)
             r == BufferedProcess(h, c, in, ready)
             p == h.pendingPackets
             u == Unstamped(h.slots[i])
  <2>1. /\ h \in BufferedState(P) /\ Bounded(h) /\ Pend = p
    BY <1>4, ListsType
  <2>2. Outcome = r /\ TheSlot = i
    BY <1>4 DEF Outcome, Processed, TheSlot
  <2>3. SlotBefore = u
    BY <1>4, <2>2 DEF SlotBefore
  <2>4. SharedBefore(h, in, i, M)
    BY <2>1, <2>3 DEF SharedBefore
  <2> HIDE DEF c, in, ready, h
  <2>9. SharedAfter(h, r, i, M) /\ i \in 0 .. Latency - 1
    BY <1>1, <2>1, <2>4, BufferedShares
  <2>5. /\ Shared(r.state.pendingPackets, Unstamped(r.sent), Unstamped(r.state.slots[i]), M)
        /\ i \in 0 .. Latency - 1
        /\ \A j \in 0 .. Latency - 1 : j # i => r.state.slots[j] = h.slots[j]
    BY <2>9 DEF SharedAfter
  <2> HIDE DEF i, r
  <2>6. PendAfter = r.state.pendingPackets /\ SlotAfter = Unstamped(r.state.slots[i])
    BY <1>4, <2>2 DEF PendAfter, SlotAfter
  <2> QED BY <1>2, <1>3, <2>2, <2>5, <2>6 DEF h
<1>5. CASE kind # "buffered"
  <2> DEFINE r == BufferlessProcess(h, c, in, ready)
             p == h.pending
  <2>1. h \in BufferlessState(P) /\ Pend = p
    BY <1>5, ListsType
  <2>2. Outcome = r
    BY <1>5 DEF Outcome, Processed
  <2>3. SlotBefore = <<>> /\ SlotAfter = <<>>
    BY <1>5 DEF SlotBefore, SlotAfter
  <2>4. Shared(p, in, <<>>, M)
    BY <2>1, <2>3
  <2> HIDE DEF c, in, ready, h
  <2>5. Shared(r.state.pending, Unstamped(r.sent), <<>>, M)
    BY <1>1, <2>1, <2>4, BufferlessShares
  <2> HIDE DEF r
  <2>6. PendAfter = r.state.pending
    BY <1>5, <2>2 DEF PendAfter
  <2> QED BY <1>3, <1>5, <2>2, <2>3, <2>5, <2>6
<1> QED BY <1>4, <1>5

\* What the link takes out of the first port, out of the list that waits and out
\* of the slot of the cycle goes to the second port, to that list or to that slot
\* (Tick of the link).
LEMMA ApartAfterLink ==
    ASSUME TypeInv, StrandInv, Apart(Lists, P), LinkTick
    PROVE  Apart(Lists', P')
<1> DEFINE c == link.cycle
           in == Incoming(c)
           sent == Outcome.sent
           u == Unstamped(sent)
           before == SlotBefore
           after == SlotAfter
           pend == PendAfter
           M == Contents(Pend) \union Contents(in) \union Contents(before)
           H == Lists
           G == Lists'
<1>1. /\ c \in Cycles /\ c \in Nat /\ in \in Seq(P) /\ sent \in Seq(Stamps(P))
      /\ link' = [cycle |-> c + 1, handler |-> Outcome.state]
      /\ A'.mail = Taken /\ B'.mail = MailedAlso(B.mail, sent)
      /\ c >= Latency => c - Latency \in Cycles /\ c - Latency \in Nat
      /\ UNCHANGED <<kind, src, oq, arrived>>
  <2>1. /\ c \in Cycles /\ in \in Seq(P) /\ sent \in Seq(Stamps(P))
        /\ link' = [cycle |-> c + 1, handler |-> Outcome.state]
        /\ A' = [done |-> A.done,
                 decision |-> DecidedAlso(A.decision, {c + 1}, Outcome.readyNext),
                 mail |-> Taken]
        /\ B' = [done |-> c, decision |-> B.decision, mail |-> MailedAlso(B.mail, sent)]
        /\ c >= Latency => c - Latency \in Cycles
        /\ UNCHANGED <<kind, src, oq, arrived>>
    BY LinkStep
  <2>2. A'.mail = Taken
    BY <2>1
  <2>3. B'.mail = MailedAlso(B.mail, sent)
    BY <2>1
  <2> QED BY <2>1, <2>2, <2>3, CyclesInHorizon
<1>2. A.mail \in [Cycles -> Seq(P)] /\ B.mail \in [Cycles -> Seq(P)]
  BY ListsType
<1>3. P' = P
  BY <1>1 DEF P
<1>4. /\ H["pending"][0] = Pend
      /\ \A e \in Cycles : /\ H["A"][e] = A.mail[e] /\ G["A"][e] = A'.mail[e]
                           /\ H["B"][e] = B.mail[e] /\ G["B"][e] = B'.mail[e]
      /\ G["pending"][0] = Pend'
      /\ kind = "buffered" => \A i \in 0 .. Latency - 1 :
            /\ H["slot"][i] = Unstamped(link.handler.slots[i])
            /\ G["slot"][i] = Unstamped(link'.handler.slots[i])
      /\ kind # "buffered" => H["slot"][0] = <<>> /\ G["slot"][0] = <<>>
      /\ "pending" \in Kinds /\ "slot" \in Kinds /\ "A" \in Kinds /\ "B" \in Kinds
      /\ 0 \in Nat
  BY <1>1, ListsAre, ListsAreNext DEF Kinds
<1>5. TheSlot \in Nat /\ (kind = "buffered" => TheSlot \in 0 .. Latency - 1)
  <2>1. CASE kind = "buffered"
    <3>1. link.handler.totalBackpressure \in Nat
      BY <2>1, ListsType
    <3>2. TheSlot \in 0 .. Latency - 1
      BY <1>1, <2>1, <3>1, SlotIndexType DEF TheSlot
    <3> QED BY <3>2, LinkAssumption
  <2>2. CASE kind # "buffered"
    BY <2>2 DEF TheSlot
  <2> QED BY <2>1, <2>2
<1>6. H["slot"][TheSlot] = before
  BY <1>4, <1>5 DEF SlotBefore, TheSlot
<1>7. Contents(<<>>) = {} /\ Distinct(<<>>)
  BY EmptyContents
<1>8. IF c < Latency THEN in = <<>>
      ELSE c - Latency \in Cycles /\ c - Latency \in Nat /\ in = H["A"][c - Latency]
  BY <1>1, <1>4, LinkAssumption DEF Incoming
<1>9. Apart(H, P)
  OBVIOUS
\* Where the packets of M are before the step.
<1> DEFINE At(k, d) == \/ k = "pending" /\ d = 0
                       \/ k = "slot" /\ d = TheSlot
                       \/ k = "A" /\ c >= Latency /\ d = c - Latency
<1>10. Shared(Pend, in, before, M)
  <2> HIDE DEF H, G, c, M
  <2>5. /\ "pending" \in Kinds /\ "slot" \in Kinds /\ "A" \in Kinds
        /\ 0 \in Nat /\ TheSlot \in Nat /\ Apart(H, P)
    BY <1>4, <1>5, <1>9
  <2>6. /\ Distinct(H["pending"][0])
        /\ Contents(H["pending"][0]) \cap Contents(H["slot"][TheSlot]) = {}
    BY <2>5, TwoPlaces
  <2>7. Distinct(H["slot"][TheSlot])
    BY <2>5, TwoPlaces
  <2>1. Distinct(Pend) /\ Contents(Pend) \cap Contents(before) = {}
    BY <1>4, <1>6, <2>6
  <2>2. Distinct(before)
    BY <1>6, <2>7
  <2>3. CASE c < Latency
    <3>1. in = <<>>
      BY <1>8, <2>3
    <3> QED BY <1>7, <2>1, <2>2, <3>1 DEF Shared, M
  <2>4. CASE ~(c < Latency)
    <3> DEFINE d == c - Latency
    <3>1. d \in Nat /\ in = H["A"][d]
      BY <1>8, <2>4
    <3> HIDE DEF d
    <3>2. Distinct(in) /\ Contents(Pend) \cap Contents(in) = {}
          /\ Contents(in) \cap Contents(before) = {}
      <4>1. /\ Distinct(H["A"][d])
            /\ Contents(H["A"][d]) \cap Contents(H["slot"][TheSlot]) = {}
        BY <2>5, <3>1, TwoPlaces
      <4>2. Contents(H["A"][d]) \cap Contents(H["pending"][0]) = {}
        BY <2>5, <3>1, TwoPlaces
      <4> QED BY <1>4, <1>6, <3>1, <4>1, <4>2
    <3> QED BY <2>1, <2>2, <3>2 DEF Shared, M
  <2> QED BY <2>3, <2>4
<1>11. /\ Shared(pend, u, after, M) /\ Pend' = pend
       /\ kind = "buffered" =>
             /\ after = Unstamped(link'.handler.slots[TheSlot])
             /\ \A j \in 0 .. Latency - 1 :
                   j # TheSlot => link'.handler.slots[j] = link.handler.slots[j]
  BY <1>10, LinkShares
<1>12. \A n \in M : \A k \in Kinds, d \in Nat : n \in Contents(H[k][d]) => At(k, d)
  <2> SUFFICES ASSUME NEW n \in M, NEW k \in Kinds, NEW d \in Nat, n \in Contents(H[k][d])
               PROVE  At(k, d)
    OBVIOUS
  <2>1. "pending" \in Kinds /\ "slot" \in Kinds /\ "A" \in Kinds /\ Apart(H, P)
        /\ 0 \in Nat /\ TheSlot \in Nat
    BY <1>4, <1>5, <1>9
  <2>2. ASSUME NEW l \in Kinds, NEW e \in Nat, n \in Contents(H[l][e])
        PROVE  k = l /\ d = e
    <3>1. Contents(H[k][d]) \cap Contents(H[l][e]) # {}
      BY <2>2
    <3> HIDE DEF H, M
    <3> QED BY <2>1, <3>1 DEF Apart
  <2>3. CASE n \in Contents(Pend)
    <3>1. n \in Contents(H["pending"][0])
      BY <1>4, <2>3
    <3> QED BY <2>1, <2>2, <3>1
  <2>4. CASE n \in Contents(before)
    <3>1. n \in Contents(H["slot"][TheSlot])
      BY <1>6, <2>4
    <3> QED BY <2>1, <2>2, <3>1
  <2>5. CASE n \in Contents(in)
    <3>1. ~(c < Latency)
      BY <1>7, <1>8, <2>5
    <3>2. c - Latency \in Nat /\ n \in Contents(H["A"][c - Latency])
      BY <1>8, <2>5, <3>1
    <3>3. k = "A" /\ d = c - Latency
      BY <2>1, <2>2, <3>2
    <3>4. c >= Latency
      BY <1>1, <3>1, LinkAssumption
    <3> QED BY <3>3, <3>4
  <2> QED BY <2>3, <2>4, <2>5
<1>13. M \subseteq P
  <2>1. Contents(Pend) \subseteq P /\ Contents(before) \subseteq P
    <3>1. "pending" \in Kinds /\ "slot" \in Kinds /\ 0 \in Nat /\ TheSlot \in Nat
      BY <1>4, <1>5
    <3>2. Contents(H["pending"][0]) \subseteq P /\ Contents(H["slot"][TheSlot]) \subseteq P
      BY <1>9, <3>1 DEF Apart
    <3> QED BY <1>4, <1>6, <3>2
  <2>2. Contents(in) \subseteq P
    BY <1>1, ContentsType
  <2> QED BY <2>1, <2>2
<1>14. /\ DistinctPackets(sent) /\ Carried(sent) = Contents(u)
       /\ \A j \in DOMAIN sent : sent[j].cycle \in Cycles
  <2>1. Distinct(u)
    BY <1>11 DEF Shared
  <2>2. DistinctPackets(sent) /\ Carried(sent) = Contents(u)
    BY <2>1, UnstampedHolds
  <2>3. ASSUME NEW j \in DOMAIN sent PROVE sent[j].cycle \in Cycles
    <3>1. sent[j].cycle = c \/ Stale(sent[j])
      BY LinkStamps DEF StrandInv
    <3>2. sent[j] \in Stamps(P)
      BY <1>1, ElementOfSeq, LenProperties
    <3>3. sent[j].cycle \in Nat
      BY <3>2 DEF Stamps
    <3>4. sent[j].cycle <= c
      BY <1>1, <3>1, <3>3 DEF Stale
    <3> QED BY <1>1, <3>3, <3>4, FlowPathAssumption DEF Cycles
  <2> QED BY <2>2, <2>3
<1> DEFINE U(e) == Under(sent, e)
<1>15. /\ \A e : U(e) \subseteq Contents(u)
       /\ \A n \in Contents(u) : \E e \in Cycles : n \in U(e)
       /\ \A n, d, e : n \in U(d) /\ n \in U(e) => d = e
  <2> HIDE DEF sent, u
  <2> QED BY <1>14, UnderOne
<1>16. Contents(u) \subseteq M
  BY <1>11 DEF Shared
<1>17. ASSUME NEW e \in Cycles
       PROVE  /\ Contents(G["B"][e]) = Contents(H["B"][e]) \union U(e)
              /\ Distinct(G["B"][e])
  <2> DEFINE mail == B.mail
  <2>1. e \in Nat
    BY CyclesInHorizon
  <2>2. Distinct(mail[e])
    BY <1>4, <1>9, <2>1 DEF Apart
  <2>3. Contents(mail[e]) \cap U(e) = {}
    <3>1. \A n \in M : n \notin Contents(H["B"][e])
      BY <1>4, <1>12, <2>1
    <3>2. U(e) \subseteq M
      BY <1>15, <1>16
    <3> HIDE DEF M, U
    <3> QED BY <1>4, <3>1, <3>2
  <2>4. /\ mail \in [Cycles -> Seq(P)] /\ sent \in Seq(Stamps(P)) /\ DistinctPackets(sent)
        /\ Distinct(mail[e]) /\ Contents(mail[e]) \cap Under(sent, e) = {}
    BY <1>1, <1>2, <1>14, <2>2, <2>3
  <2> HIDE DEF sent, mail
  <2>5. /\ Contents(MailedAlso(mail, sent)[e]) = Contents(mail[e]) \union Under(sent, e)
        /\ Distinct(MailedAlso(mail, sent)[e])
    BY <2>4, MailContents
  <2> QED BY <1>1, <1>4, <2>5 DEF mail
<1>18. /\ G["pending"][0] = pend /\ G["slot"][TheSlot] = after
  <2>1. G["slot"][TheSlot] = after
    BY <1>4, <1>5, <1>11 DEF SlotAfter, TheSlot
  <2> QED BY <1>4, <1>11, <2>1
<1>19. c >= Latency => G["A"][c - Latency] = <<>>
  <2>1. SUFFICES ASSUME c >= Latency PROVE G["A"][c - Latency] = <<>>
    OBVIOUS
  <2>2. c - Latency \in Cycles /\ ~(c < Latency)
    BY <1>1, <2>1, LinkAssumption
  <2> QED BY <1>1, <1>2, <1>4, <2>2 DEF Taken
<1>20. \A k \in Kinds, d \in Nat : ~At(k, d) /\ ~(k = "B" /\ d \in Cycles) => G[k][d] = H[k][d]
  <2> SUFFICES ASSUME NEW k \in Kinds, NEW d \in Nat, ~At(k, d), ~(k = "B" /\ d \in Cycles)
               PROVE  G[k][d] = H[k][d]
    OBVIOUS
  <2>1. k \in {"oq", "pending", "slot", "A", "B", "arrived"}
    BY DEF Kinds
  <2>2. CASE k = "pending"
    BY <1>1, <2>2, ListsFrame
  <2>3. CASE k = "slot"
    BY <1>1, <1>11, <2>3, ListsFrame
  <2>4. CASE k = "A"
    <3>1. d \in Cycles => A'.mail[d] = A.mail[d]
      BY <1>1, <1>2, <2>4, LinkAssumption DEF Taken
    <3> QED BY <1>1, <2>4, <3>1, ListsFrame
  <2>5. CASE k = "B"
    BY <1>1, <2>5, ListsFrame
  <2>6. CASE k = "oq" \/ k = "arrived"
    BY <1>1, <2>6, ListsFrame
  <2> QED BY <2>1, <2>2, <2>3, <2>4, <2>5, <2>6
<1>21. /\ Distinct(pend) /\ Distinct(after)
       /\ Contents(pend) \union Contents(u) \union Contents(after) = M
       /\ Contents(pend) \cap Contents(u) = {} /\ Contents(pend) \cap Contents(after) = {}
       /\ Contents(u) \cap Contents(after) = {}
  BY <1>11 DEF Shared
<1>22. /\ Contents(H["pending"][0]) \subseteq M /\ Contents(H["slot"][TheSlot]) \subseteq M
       /\ c >= Latency => Contents(H["A"][c - Latency]) \subseteq M
       /\ c >= Latency => Contents(G["A"][c - Latency]) = {} /\ Distinct(G["A"][c - Latency])
  <2>1. Contents(H["pending"][0]) \subseteq M /\ Contents(H["slot"][TheSlot]) \subseteq M
    BY <1>4, <1>6
  <2>2. c >= Latency => Contents(H["A"][c - Latency]) \subseteq M
    <3>1. c >= Latency => in = H["A"][c - Latency]
      BY <1>1, <1>8, LinkAssumption
    <3> QED BY <3>1
  <2> QED BY <1>7, <1>19, <2>1, <2>2
<1>23. \A k \in Kinds, d \in Nat : Distinct(H[k][d])
  BY <1>9 DEF Apart
<1> HIDE DEF M, H, G, U, u, pend, after, before, in, sent, c
<1>24. ASSUME NEW k \in Kinds, NEW d \in Nat
       PROVE  Distinct(G[k][d])
  <2>1. CASE k = "B" /\ d \in Cycles
    BY <1>17, <2>1
  <2>2. CASE At(k, d)
    BY <1>18, <1>21, <1>22, <2>2
  <2>3. CASE ~At(k, d) /\ ~(k = "B" /\ d \in Cycles)
    BY <1>20, <1>23, <2>3
  <2> QED BY <2>1, <2>2, <2>3
<1>25. ASSUME NEW k \in Kinds, NEW d \in Nat, NEW n, n \notin M
       PROVE  n \in Contents(G[k][d]) <=> n \in Contents(H[k][d])
  <2>1. CASE k = "B" /\ d \in Cycles
    <3>1. n \notin U(d)
      BY <1>15, <1>16, <1>25
    <3> QED BY <1>17, <2>1, <3>1
  <2>2. CASE At(k, d)
    <3>1. n \notin Contents(G[k][d])
      BY <1>18, <1>21, <1>22, <1>25, <2>2
    <3>2. n \notin Contents(H[k][d])
      BY <1>22, <1>25, <2>2
    <3> QED BY <3>1, <3>2
  <2>3. CASE ~At(k, d) /\ ~(k = "B" /\ d \in Cycles)
    BY <1>20, <2>3
  <2> QED BY <2>1, <2>2, <2>3
\* Where a packet of M is after the step.
<1>26. ASSUME NEW n \in M, NEW k \in Kinds, NEW d \in Nat, n \in Contents(G[k][d])
       PROVE  \/ k = "pending" /\ d = 0 /\ n \in Contents(pend)
              \/ k = "slot" /\ d = TheSlot /\ n \in Contents(after)
              \/ k = "B" /\ d \in Cycles /\ n \in U(d) /\ n \in Contents(u)
  <2>1. CASE k = "B" /\ d \in Cycles
    <3>1. n \notin Contents(H["B"][d])
      BY <1>4, <1>12, <2>1
    <3>2. n \in U(d)
      BY <1>17, <1>26, <2>1, <3>1
    <3> QED BY <1>15, <2>1, <3>2
  <2>2. CASE At(k, d)
    BY <1>18, <1>22, <1>26, <2>2
  <2>3. CASE ~At(k, d) /\ ~(k = "B" /\ d \in Cycles)
    BY <1>12, <1>20, <1>26, <2>3
  <2> QED BY <2>1, <2>2, <2>3
<1>27. ASSUME NEW n \in M
       PROVE  \E k \in Kinds, d \in Nat : n \in Contents(G[k][d])
  <2>1. CASE n \in Contents(pend)
    BY <1>4, <1>18, <2>1
  <2>2. CASE n \in Contents(after)
    BY <1>4, <1>5, <1>18, <2>2
  <2>3. CASE n \in Contents(u)
    <3>1. PICK e \in Cycles : n \in U(e)
      BY <1>15, <2>3
    <3>2. n \in Contents(G["B"][e]) /\ e \in Nat
      BY <1>17, <3>1, CyclesInHorizon
    <3> QED BY <1>4, <3>2
  <2> QED BY <1>21, <2>1, <2>2, <2>3
<1>28. ASSUME NEW n \in M, NEW k \in Kinds, NEW l \in Kinds, NEW d \in Nat, NEW e \in Nat,
              n \in Contents(G[k][d]), n \in Contents(G[l][e])
       PROVE  k = l /\ d = e
  <2>1. /\ ~(n \in Contents(pend) /\ n \in Contents(u))
        /\ ~(n \in Contents(pend) /\ n \in Contents(after))
        /\ ~(n \in Contents(u) /\ n \in Contents(after))
    BY <1>21
  <2>2. \/ k = "pending" /\ d = 0 /\ n \in Contents(pend)
        \/ k = "slot" /\ d = TheSlot /\ n \in Contents(after)
        \/ k = "B" /\ d \in Cycles /\ n \in U(d) /\ n \in Contents(u)
    BY <1>26, <1>28
  <2>3. \/ l = "pending" /\ e = 0 /\ n \in Contents(pend)
        \/ l = "slot" /\ e = TheSlot /\ n \in Contents(after)
        \/ l = "B" /\ e \in Cycles /\ n \in U(e) /\ n \in Contents(u)
    BY <1>26, <1>28
  <2> QED BY <1>15, <2>1, <2>2, <2>3
<1>29. Moved(H, G, P, P, M)
  BY <1>13, <1>24, <1>25, <1>27, <1>28 DEF Moved
<1>30. Apart(G, P)
  BY <1>9, <1>29, Moves
<1> QED BY <1>3, <1>30 DEF G

\* Initially no place holds a packet, and none is accepted.
LEMMA ConserveInit == Init => ConserveInv
<1> SUFFICES ASSUME Init PROVE ConserveInv
  OBVIOUS
<1>1. /\ oq = <<>> /\ src.accepted = 0 /\ kind \in {"buffered", "bufferless"}
      /\ \A c \in Cycles : A.mail[c] = <<>> /\ B.mail[c] = <<>> /\ arrived[c] = <<>>
  BY FlowPathAssumption DEF Init, NewPort
<1>2. Pend = <<>>
  BY <1>1 DEF Init, Pend, BufferedInit, BufferlessInit
<1>3. kind = "buffered" => \A i \in 0 .. Latency - 1 : link.handler.slots[i] = <<>>
  BY DEF Init, BufferedInit
<1>4. Unstamped(<<>>) = <<>>
  <2>1. DOMAIN <<>> = {} /\ <<>> = [j \in {} |-> <<>>[j].packet]
    BY EmptySeq
  <2> QED BY <2>1 DEF Unstamped
<1>5. \A k \in Kinds, c \in Nat : Lists[k][c] = <<>>
  <2>1. \A k \in Kinds, c \in Nat : Lists[k][c] = Listed(k, c)
    BY DEF Lists
  <2>2. ASSUME NEW k \in Kinds, NEW c \in Nat PROVE Listed(k, c) = <<>>
    BY <1>1, <1>2, <1>3, <1>4 DEF Listed
  <2> QED BY <2>1, <2>2
<1>6. P = {}
  BY <1>1 DEF P
<1> DEFINE L == Lists
<1>7. \A k \in Kinds, c \in Nat : Contents(L[k][c]) = {} /\ Distinct(L[k][c])
  BY <1>5, EmptyContents
<1> HIDE DEF L
<1>8. Apart(L, P)
  BY <1>6, <1>7 DEF Apart
<1> QED BY <1>1, <1>8 DEF ConserveInv, L

\* Every step keeps each packet in one place.
LEMMA ConserveKept == TypeInv /\ StrandInv /\ ConserveInv /\ [Next]_vars => ConserveInv'
<1> SUFFICES ASSUME TypeInv, StrandInv, ConserveInv, [Next]_vars PROVE ConserveInv'
  OBVIOUS
<1>1. Apart(Lists, P)
      /\ (fault = "none" => \A c \in Cycles : c >= sink.cycle => arrived[c] = <<>>)
  BY DEF ConserveInv
<1>2. ASSUME UNCHANGED <<sink, arrived, fault>>, Apart(Lists', P')
      PROVE  ConserveInv'
  BY <1>1, <1>2 DEF ConserveInv
<1>3. ASSUME UNCHANGED <<kind, oq, link, A, B, arrived>>, src'.accepted = src.accepted
      PROVE  Apart(Lists', P')
  <2> DEFINE G == Lists'
             H == Lists
  <2>1. Pend' = Pend /\ P' = P
    BY <1>3 DEF Pend, P
  <2>2. \A k \in Kinds, c \in Nat : G[k][c] = H[k][c]
    BY <1>3, <2>1, ListsFrame DEF Kinds
  <2>3. Apart(H, P)
    BY <1>1
  <2> HIDE DEF G, H
  <2>4. Apart(G, P)
    BY <2>2, <2>3, NothingMoves
  <2> QED BY <2>1, <2>4 DEF G
<1>4. CASE AdvanceTo
  BY <1>2, <1>3, <1>4 DEF AdvanceTo
<1>5. CASE SourceProcess
  <2>1. Apart(Lists', P')
    BY <1>1, <1>5, ApartAfterProcess
  <2>2. UNCHANGED <<sink, arrived, fault>>
    BY <1>5 DEF SourceProcess
  <2> QED BY <1>2, <2>1, <2>2
<1>6. CASE SourceSend
  <2>1. Apart(Lists', P')
    BY <1>1, <1>6, ApartAfterSend
  <2>2. UNCHANGED <<sink, arrived, fault>>
    BY <1>6 DEF SourceSend
  <2> QED BY <1>2, <2>1, <2>2
<1>7. CASE SourceNext
  <2>1. /\ src' = [src EXCEPT !.cycle = @ + 1, !.phase = "process"]
        /\ UNCHANGED <<kind, oq, link, A, B, sink, arrived, fault>>
    BY <1>7 DEF SourceNext
  <2>2. src'.accepted = src.accepted
    BY <2>1 DEF TypeInv
  <2> QED BY <1>2, <1>3, <2>1, <2>2
<1>8. CASE LinkTick
  <2>1. Apart(Lists', P')
    BY <1>1, <1>8, ApartAfterLink
  <2>2. UNCHANGED <<sink, arrived>> /\ (fault' = "none" => fault = "none")
    BY <1>8 DEF LinkTick
  <2> QED BY <1>1, <2>1, <2>2 DEF ConserveInv
<1>9. CASE SinkTick
  <2>1. /\ sink.cycle \in Cycles /\ fault = "none"
        /\ arrived' = [arrived EXCEPT ![sink.cycle] = B.mail[sink.cycle]]
        /\ \/ fault' = "overflow"
           \/ sink'.cycle = sink.cycle + 1
    <3>1. /\ sink.cycle \in Cycles /\ fault = "none"
          /\ arrived' = [arrived EXCEPT ![sink.cycle] = B.mail[sink.cycle]]
          /\ \/ fault' = "overflow"
             \/ sink' = [cycle |-> sink.cycle + 1,
                         nextUpdateCycle |->
                            NextUpdateCycle(Stored, sink.cycle, sink.nextUpdateCycle)]
      BY <1>9, SinkStep
    <3> QED BY <3>1
  <2>2. sink.cycle \in Nat /\ Cycles \subseteq Nat
    BY <2>1, CyclesInHorizon
  <2>3. arrived[sink.cycle] = <<>>
    BY <1>1, <2>1, <2>2
  <2>4. Apart(Lists', P')
    BY <1>1, <1>9, <2>3, ApartAfterSink
  <2>5. ASSUME fault' = "none", NEW c \in Cycles, c >= sink'.cycle
        PROVE  arrived'[c] = <<>>
    <3>1. c \in Nat /\ c >= sink.cycle + 1
      BY <2>1, <2>2, <2>5
    <3>2. c >= sink.cycle /\ c # sink.cycle
      BY <2>2, <3>1
    <3>3. arrived[c] = <<>> /\ arrived \in [Cycles -> Seq(P)]
      BY <1>1, <2>1, <3>2, ListsType
    <3> QED BY <2>1, <3>2, <3>3
  <2> QED BY <2>4, <2>5 DEF ConserveInv
<1>10. CASE UNCHANGED vars
  <2>1. UNCHANGED <<kind, src, oq, link, A, B, sink, arrived, fault>>
    BY <1>10 DEF vars
  <2>2. src'.accepted = src.accepted
    BY <2>1
  <2> QED BY <1>2, <1>3, <2>1, <2>2
<1>11. CASE Finished
  BY <1>10, <1>11 DEF Finished
<1> QED BY <1>4, <1>5, <1>6, <1>7, <1>8, <1>9, <1>10, <1>11 DEF Next, Source

\* In every reachable state.
LEMMA ConserveHolds == Spec => []ConserveInv
<1>1. Spec => []TypeInv /\ []StrandInv
  BY TypesHold, StrandHolds, PTL
<1> QED BY <1>1, ConserveInit, ConserveKept, PTL DEF Spec
-----------------------------------------------------------------------------
(* The positions of the packets are as many as the packets.                *)

PlaceName(k, c) == IF k \in {"oq", "pending"} THEN <<k>> ELSE <<k, c>>

Position(k, c, i) == [place |-> PlaceName(k, c), at |-> i, packet |-> Lists[k][c][i]]

\* What the runs count are the positions in the lists of the places.
LEMMA WhereaboutsAre ==
    ASSUME TypeInv
    PROVE  /\ \A x \in Whereabouts : \E k \in Kinds, c \in Nat :
                 \E i \in DOMAIN Lists[k][c] : x = Position(k, c, i)
           /\ \A k \in Kinds, c \in Nat : \A i \in DOMAIN Lists[k][c] :
                 Position(k, c, i) \in Whereabouts
<1> DEFINE slots == link.handler.slots
           inOq == Positions(<<"oq">>, oq)
           inA == UNION {Positions(<<"A", c>>, A.mail[c]) : c \in Cycles}
           inB == UNION {Positions(<<"B", c>>, B.mail[c]) : c \in Cycles}
           there == UNION {Positions(<<"arrived", c>>, arrived[c]) : c \in Cycles}
           inPend == Positions(<<"pending">>, Pend)
           inSlots == UNION {{[place |-> <<"slot", i>>, at |-> j, packet |-> slots[i][j].packet] :
                                 j \in DOMAIN slots[i]} : i \in 0 .. Latency - 1}
<1>1. kind \in {"buffered", "bufferless"}
  BY DEF TypeInv
<1>2. Whereabouts = inOq \union inA \union inB \union there \union inPend
                      \union (IF kind = "buffered" THEN inSlots ELSE {})
  <2>1. CASE kind = "buffered"
    <3>1. DOMAIN slots = 0 .. Latency - 1 /\ Pend = link.handler.pendingPackets
      BY <2>1, ListsType
    <3> DEFINE inList == Positions(<<"pending">>, link.handler.pendingPackets)
               inRing == UNION {{[place |-> <<"slot", i>>, at |-> j,
                                  packet |-> slots[i][j].packet] :
                                    j \in DOMAIN slots[i]} : i \in DOMAIN slots}
    <3>2. kind # "bufferless"
      BY <2>1
    <3>3. Whereabouts = inOq \union inA \union inB \union there \union (inList \union inRing)
      BY <3>2 DEF Whereabouts
    <3>4. inList = inPend /\ inRing = inSlots
      BY <3>1
    <3> HIDE DEF inOq, inA, inB, there, inPend, inSlots, inList, inRing
    <3> QED BY <2>1, <3>3, <3>4
  <2>2. CASE kind = "bufferless"
    <3>1. Pend = link.handler.pending
      BY <2>2, ListsType
    <3> DEFINE inList == Positions(<<"pending">>, link.handler.pending)
    <3>2. Whereabouts = inOq \union inA \union inB \union there \union inList
      BY <2>2 DEF Whereabouts
    <3>3. inList = inPend
      BY <3>1
    <3> HIDE DEF inOq, inA, inB, there, inPend, inSlots, inList
    <3> QED BY <2>2, <3>2, <3>3
  <2> QED BY <1>1, <2>1, <2>2
<1>3. Cycles \subseteq Nat /\ 0 .. Latency - 1 \subseteq Nat /\ 0 \in Nat
  BY CyclesInHorizon, LinkAssumption
<1>4. /\ "oq" \in Kinds /\ "pending" \in Kinds /\ "slot" \in Kinds /\ "A" \in Kinds
      /\ "B" \in Kinds /\ "arrived" \in Kinds
  BY DEF Kinds
<1>5. /\ Lists["oq"][0] = oq /\ Lists["pending"][0] = Pend
      /\ \A e \in Cycles : /\ Lists["A"][e] = A.mail[e] /\ Lists["B"][e] = B.mail[e]
                           /\ Lists["arrived"][e] = arrived[e]
      /\ kind = "buffered" => \A i \in 0 .. Latency - 1 : Lists["slot"][i] = Unstamped(slots[i])
  BY ListsAre
<1>6. \A s : DOMAIN Unstamped(s) = DOMAIN s /\ \A j \in DOMAIN s : Unstamped(s)[j] = s[j].packet
  BY DEF Unstamped
<1>7. \A k \in Kinds, c \in Nat :
         Lists[k][c] # <<>> =>
            \/ k = "oq" /\ c = 0
            \/ k = "pending" /\ c = 0
            \/ k = "slot" /\ kind = "buffered" /\ c \in 0 .. Latency - 1
            \/ k = "A" /\ c \in Cycles
            \/ k = "B" /\ c \in Cycles
            \/ k = "arrived" /\ c \in Cycles
  <2>1. \A k \in Kinds, c \in Nat : Lists[k][c] = Listed(k, c)
    BY DEF Lists
  <2> QED BY <2>1 DEF Listed, Kinds
<1>8. DOMAIN <<>> = {}
  BY EmptySeq
<1> DEFINE L == Lists
<1>9. /\ \A i : Position("oq", 0, i) = [place |-> <<"oq">>, at |-> i, packet |-> L["oq"][0][i]]
      /\ \A i : Position("pending", 0, i) =
                   [place |-> <<"pending">>, at |-> i, packet |-> L["pending"][0][i]]
      /\ \A c, i : Position("slot", c, i) =
                      [place |-> <<"slot", c>>, at |-> i, packet |-> L["slot"][c][i]]
      /\ \A c, i : Position("A", c, i) =
                      [place |-> <<"A", c>>, at |-> i, packet |-> L["A"][c][i]]
      /\ \A c, i : Position("B", c, i) =
                      [place |-> <<"B", c>>, at |-> i, packet |-> L["B"][c][i]]
      /\ \A c, i : Position("arrived", c, i) =
                      [place |-> <<"arrived", c>>, at |-> i, packet |-> L["arrived"][c][i]]
  BY DEF Position, PlaceName
<1> HIDE DEF L
<1>10. ASSUME NEW x \in Whereabouts
       PROVE  \E k \in Kinds, c \in Nat : \E i \in DOMAIN Lists[k][c] : x = Position(k, c, i)
  <2>1. CASE x \in inOq
    <3>1. PICK i \in DOMAIN oq : x = [place |-> <<"oq">>, at |-> i, packet |-> oq[i]]
      BY <2>1 DEF Positions
    <3>2. x = Position("oq", 0, i) /\ i \in DOMAIN Lists["oq"][0]
      BY <1>5, <1>9, <3>1 DEF L
    <3> QED BY <1>3, <1>4, <3>2
  <2>2. CASE x \in inPend
    <3>1. PICK i \in DOMAIN Pend : x = [place |-> <<"pending">>, at |-> i, packet |-> Pend[i]]
      BY <2>2 DEF Positions
    <3>2. x = Position("pending", 0, i) /\ i \in DOMAIN Lists["pending"][0]
      BY <1>5, <1>9, <3>1 DEF L
    <3> QED BY <1>3, <1>4, <3>2
  <2>3. CASE x \in inA
    <3>1. PICK c \in Cycles : x \in Positions(<<"A", c>>, A.mail[c])
      BY <2>3
    <3>2. PICK i \in DOMAIN A.mail[c] : x = [place |-> <<"A", c>>, at |-> i, packet |-> A.mail[c][i]]
      BY <3>1 DEF Positions
    <3>3. x = Position("A", c, i) /\ i \in DOMAIN Lists["A"][c]
      BY <1>5, <1>9, <3>2 DEF L
    <3> QED BY <1>3, <1>4, <3>3
  <2>4. CASE x \in inB
    <3>1. PICK c \in Cycles : x \in Positions(<<"B", c>>, B.mail[c])
      BY <2>4
    <3>2. PICK i \in DOMAIN B.mail[c] : x = [place |-> <<"B", c>>, at |-> i, packet |-> B.mail[c][i]]
      BY <3>1 DEF Positions
    <3>3. x = Position("B", c, i) /\ i \in DOMAIN Lists["B"][c]
      BY <1>5, <1>9, <3>2 DEF L
    <3> QED BY <1>3, <1>4, <3>3
  <2>5. CASE x \in there
    <3>1. PICK c \in Cycles : x \in Positions(<<"arrived", c>>, arrived[c])
      BY <2>5
    <3>2. PICK i \in DOMAIN arrived[c] :
             x = [place |-> <<"arrived", c>>, at |-> i, packet |-> arrived[c][i]]
      BY <3>1 DEF Positions
    <3>3. x = Position("arrived", c, i) /\ i \in DOMAIN Lists["arrived"][c]
      BY <1>5, <1>9, <3>2 DEF L
    <3> QED BY <1>3, <1>4, <3>3
  <2>6. CASE kind = "buffered" /\ x \in inSlots
    <3>1. PICK c \in 0 .. Latency - 1 :
             x \in {[place |-> <<"slot", c>>, at |-> j, packet |-> slots[c][j].packet] :
                       j \in DOMAIN slots[c]}
      BY <2>6
    <3>2. PICK i \in DOMAIN slots[c] :
             x = [place |-> <<"slot", c>>, at |-> i, packet |-> slots[c][i].packet]
      BY <3>1
    <3>3. Lists["slot"][c] = Unstamped(slots[c])
      BY <1>5, <2>6
    <3>4. i \in DOMAIN Lists["slot"][c] /\ Lists["slot"][c][i] = slots[c][i].packet
      BY <1>6, <3>2, <3>3
    <3>5. x = Position("slot", c, i)
      BY <1>9, <3>2, <3>4 DEF L
    <3> QED BY <1>3, <1>4, <3>4, <3>5
  <2> QED BY <1>2, <2>1, <2>2, <2>3, <2>4, <2>5, <2>6
<1>11. ASSUME NEW k \in Kinds, NEW c \in Nat, NEW i \in DOMAIN Lists[k][c]
       PROVE  Position(k, c, i) \in Whereabouts
  <2>1. CASE k = "oq" /\ c = 0
    <3>1. Position("oq", 0, i) = [place |-> <<"oq">>, at |-> i, packet |-> oq[i]] /\ i \in DOMAIN oq
      BY <1>5, <1>9, <1>11, <2>1 DEF L
    <3>2. Position("oq", 0, i) \in inOq
      BY <3>1 DEF Positions
    <3> QED BY <1>2, <2>1, <3>2
  <2>2. CASE k = "pending" /\ c = 0
    <3>1. Position("pending", 0, i) = [place |-> <<"pending">>, at |-> i, packet |-> Pend[i]]
          /\ i \in DOMAIN Pend
      BY <1>5, <1>9, <1>11, <2>2 DEF L
    <3>2. Position("pending", 0, i) \in inPend
      BY <3>1 DEF Positions
    <3> QED BY <1>2, <2>2, <3>2
  <2>3. CASE k = "A" /\ c \in Cycles
    <3>1. Position("A", c, i) = [place |-> <<"A", c>>, at |-> i, packet |-> A.mail[c][i]]
          /\ i \in DOMAIN A.mail[c]
      BY <1>5, <1>9, <1>11, <2>3 DEF L
    <3>2. Position("A", c, i) \in Positions(<<"A", c>>, A.mail[c])
      BY <3>1 DEF Positions
    <3>3. Position("A", c, i) \in inA
      BY <2>3, <3>2
    <3> QED BY <1>2, <2>3, <3>3
  <2>4. CASE k = "B" /\ c \in Cycles
    <3>1. Position("B", c, i) = [place |-> <<"B", c>>, at |-> i, packet |-> B.mail[c][i]]
          /\ i \in DOMAIN B.mail[c]
      BY <1>5, <1>9, <1>11, <2>4 DEF L
    <3>2. Position("B", c, i) \in Positions(<<"B", c>>, B.mail[c])
      BY <3>1 DEF Positions
    <3>3. Position("B", c, i) \in inB
      BY <2>4, <3>2
    <3> QED BY <1>2, <2>4, <3>3
  <2>5. CASE k = "arrived" /\ c \in Cycles
    <3>1. Position("arrived", c, i) = [place |-> <<"arrived", c>>, at |-> i, packet |-> arrived[c][i]]
          /\ i \in DOMAIN arrived[c]
      BY <1>5, <1>9, <1>11, <2>5 DEF L
    <3>2. Position("arrived", c, i) \in Positions(<<"arrived", c>>, arrived[c])
      BY <3>1 DEF Positions
    <3>3. Position("arrived", c, i) \in there
      BY <2>5, <3>2
    <3> QED BY <1>2, <2>5, <3>3
  <2>6. CASE k = "slot" /\ kind = "buffered" /\ c \in 0 .. Latency - 1
    <3>1. Lists["slot"][c] = Unstamped(slots[c])
      BY <1>5, <2>6
    <3>2. i \in DOMAIN slots[c] /\ Lists["slot"][c][i] = slots[c][i].packet
      BY <1>6, <1>11, <2>6, <3>1
    <3>3. Position("slot", c, i) = [place |-> <<"slot", c>>, at |-> i, packet |-> slots[c][i].packet]
      BY <1>9, <3>2 DEF L
    <3>4. Position("slot", c, i) \in inSlots
      BY <2>6, <3>2, <3>3
    <3> QED BY <1>2, <2>6, <3>4
  <2>7. Lists[k][c] # <<>>
    BY <1>8, <1>11
  <2> QED BY <1>7, <2>1, <2>2, <2>3, <2>4, <2>5, <2>6, <2>7
<1> QED BY <1>10, <1>11

\* Every accepted packet is in exactly one place, whatever the kind of the link,
\* the workload, the schedule and the bandwidths: none vanishes on the way from
\* pending list to slot to port, none is sent twice, and none arrives twice.
THEOREM PacketsConserved == Spec => []Conserved
<1>1. TypeInv /\ ConserveInv => Conserved
  <2> SUFFICES ASSUME TypeInv, ConserveInv PROVE Conserved
    OBVIOUS
  <2> DEFINE L == Lists
             W == Whereabouts
             f == [x \in W |-> x.packet]
  <2>1. /\ \A x \in W : \E k \in Kinds, c \in Nat :
              \E i \in DOMAIN L[k][c] : x = Position(k, c, i)
        /\ \A k \in Kinds, c \in Nat : \A i \in DOMAIN L[k][c] : Position(k, c, i) \in W
    BY WhereaboutsAre
  <2>2. Apart(L, P)
    BY DEF ConserveInv
  <2>3. \A k, c, i : Position(k, c, i).packet = L[k][c][i]
    BY DEF Position
  <2> HIDE DEF L, W
  <2>4. ASSUME NEW x \in W PROVE x.packet \in P
    <3>1. PICK k \in Kinds, c \in Nat : \E i \in DOMAIN L[k][c] : x = Position(k, c, i)
      BY <2>1
    <3>2. PICK i \in DOMAIN L[k][c] : x = Position(k, c, i)
      BY <3>1
    <3>3. x.packet \in Contents(L[k][c])
      BY <2>3, <3>2 DEF Contents
    <3> QED BY <2>2, <3>3 DEF Apart
  <2>5. ASSUME NEW n \in P PROVE \E x \in W : x.packet = n
    <3>1. PICK k \in Kinds, c \in Nat : n \in Contents(L[k][c])
      BY <2>2 DEF Apart
    <3>2. PICK i \in DOMAIN L[k][c] : n = L[k][c][i]
      BY <3>1 DEF Contents
    <3>3. Position(k, c, i) \in W /\ Position(k, c, i).packet = n
      BY <2>1, <2>3, <3>2
    <3> QED BY <3>3
  <2>6. ASSUME NEW x \in W, NEW y \in W, x.packet = y.packet PROVE x = y
    <3>1. PICK k \in Kinds, c \in Nat : \E i \in DOMAIN L[k][c] : x = Position(k, c, i)
      BY <2>1
    <3>2. PICK i \in DOMAIN L[k][c] : x = Position(k, c, i)
      BY <3>1
    <3>3. PICK l \in Kinds, d \in Nat : \E j \in DOMAIN L[l][d] : y = Position(l, d, j)
      BY <2>1
    <3>4. PICK j \in DOMAIN L[l][d] : y = Position(l, d, j)
      BY <3>3
    <3>5. L[k][c][i] = L[l][d][j]
      BY <2>3, <2>6, <3>2, <3>4
    <3>6. Contents(L[k][c]) \cap Contents(L[l][d]) # {}
      BY <3>5 DEF Contents
    <3>7. k = l /\ c = d /\ Distinct(L[k][c])
      BY <2>2, <3>6 DEF Apart
    <3>8. i = j
      BY <3>5, <3>7 DEF Distinct
    <3> QED BY <3>2, <3>4, <3>7, <3>8
  <2>7. f \in [W -> P] /\ \A x \in W : f[x] = x.packet
    BY <2>4
  <2> HIDE DEF f
  <2>8. f \in Injection(W, P) /\ f \in Surjection(W, P)
    <3>1. \A x, y \in W : f[x] = f[y] => x = y
      BY <2>6, <2>7
    <3>2. \A n \in P : \E x \in W : f[x] = n
      BY <2>5, <2>7
    <3>3. DOMAIN f = W
      BY <2>7
    <3>4. IsInjective(f)
      BY <3>1, <3>3 DEF IsInjective
    <3> QED BY <2>7, <3>2, <3>4 DEF Injection, Surjection
  <2>9. IsFiniteSet(P) /\ Cardinality(P) = src.accepted
    <3>1. src.accepted \in Nat
      BY DEF TypeInv
    <3>2. /\ IsFiniteSet(1 .. src.accepted)
          /\ Cardinality(1 .. src.accepted) =
                IF 1 > src.accepted THEN 0 ELSE src.accepted - 1 + 1
      BY <3>1, FS_Interval
    <3> QED BY <3>1, <3>2 DEF P
  <2>10. Cardinality(W) = src.accepted
    BY <2>8, <2>9, FS_Injection
  <2>11. {x.packet : x \in W} = 1 .. src.accepted
    BY <2>4, <2>5 DEF P
  <2> QED BY <2>10, <2>11 DEF Conserved, W
<1> QED BY <1>1, TypesHold, ConserveHolds, PTL

-----------------------------------------------------------------------------
(***************************************************************************)
(* The simulator's promise: whatever the schedule of the goroutines and    *)
(* the targets of AdvanceTo, and however far ahead the source ticks its    *)
(* output queue, the sink receives in each cycle what the lock-step        *)
(* execution of the cycles gives it.                                       *)
(***************************************************************************)

-----------------------------------------------------------------------------
(* The lock-step execution, cycle by cycle.                                *)

LockStart ==
    [oq |-> <<>>, iq |-> <<>>, accepted |-> 0, nextUpdateCycle |-> 0,
     handler |-> IF kind = "buffered" THEN BufferedInit ELSE BufferlessInit,
     readyA |-> TRUE, readyB |-> {0, 1},
     sent |-> [d \in Cycles |-> <<>>], arrived |-> [d \in Cycles |-> <<>>]]

\* Of a cycle c that starts in the state s: the queue of the source with its
\* burst, what leaves it, what reaches the link and what it makes of that, the
\* mail of the sink, what it then holds, and what it declares.
Queued(s, c) == Inject(s.oq, [i \in 1 .. inject[c] |-> s.accepted + i])
Leaving(s, c) == SendCount(Queued(s, c), s.readyA)
Own(s, c) == SubSeq(Queued(s, c), 1, Leaving(s, c))
SentBy(s, c) == [s.sent EXCEPT ![c] = Own(s, c)]
Reaches(s, c) == IF c < Latency THEN <<>> ELSE SentBy(s, c)[c - Latency]
Handled(s, c) == Processed(s.handler, c, Reaches(s, c), c \in s.readyB)
Mail(s, c) == StampedFor(Handled(s, c).sent, c)
Holds(s, c) == Store(s.iq, Mail(s, c))
Says(s, c) == Declared(Holds(s, c), c, s.nextUpdateCycle)

LockStep(s, c) ==
    [oq |-> SubSeq(Queued(s, c), Leaving(s, c) + 1, Len(Queued(s, c))),
     iq |-> SubSeq(Holds(s, c), Least(drain[c], Len(Holds(s, c))) + 1, Len(Holds(s, c))),
     accepted |-> s.accepted + Len(Queued(s, c)) - Len(s.oq),
     nextUpdateCycle |-> NextUpdateCycle(Holds(s, c), c, s.nextUpdateCycle),
     handler |-> Handled(s, c).state,
     readyA |-> c < Latency \/ Handled(s, c).readyNext,
     readyB |-> s.readyB \union (IF Says(s, c).ready THEN Says(s, c).cycles ELSE {}),
     sent |-> SentBy(s, c),
     arrived |-> [s.arrived EXCEPT ![c] = Mail(s, c)]]

Executes(f, m) ==
    f = [c \in (0 .. m - 1) \union {-1} |->
           IF c = -1 THEN LockStart ELSE LockStep(f[c - 1], c)]

\* The cycles can be executed one after the other.
LEMMA ExecutionExists ==
    ASSUME NEW N \in Nat
    PROVE  \E f : Executes(f, N)
<1> DEFINE Bad == {m \in Nat : ~ \E f : Executes(f, m)}
<1>1. SUFFICES ASSUME Bad # {} PROVE FALSE
  OBVIOUS
<1>2. PICK m \in Bad : \A y \in Bad : m <= y
  BY <1>1, LeastNumber
<1>3. m # 0
  <2> DEFINE F == [c \in (0 .. -1) \union {-1} |-> LockStart]
  <2>1. Executes(F, 0)
    BY DEF Executes
  <2> QED BY <2>1
<1>4. m - 1 \in Nat /\ m - 1 \notin Bad
  BY <1>2, <1>3
<1>5. PICK F : Executes(F, m - 1)
  BY <1>4
<1> DEFINE D == (0 .. m - 1) \union {-1}
           E == (0 .. m - 2) \union {-1}
           G == [c \in D |-> IF c < m - 1 THEN F[c] ELSE LockStep(F[c - 1], c)]
<1>6. \A c \in E : F[c] = IF c = -1 THEN LockStart ELSE LockStep(F[c - 1], c)
  <2>1. E = (0 .. (m - 1) - 1) \union {-1}
    BY <1>4
  <2> QED BY <1>5, <2>1 DEF Executes
<1>7. /\ \A c \in E : G[c] = F[c]
      /\ G[m - 1] = LockStep(F[m - 2], m - 1)
  <2>1. /\ \A c \in E : c \in D /\ c < m - 1
        /\ m - 1 \in D /\ ~(m - 1 < m - 1) /\ m - 1 - 1 = m - 2
    BY <1>4
  <2> QED BY <2>1
<1>8. G = [c \in D |-> G[c]]
  OBVIOUS
<1> HIDE DEF G
<1>9. ASSUME NEW c \in D
      PROVE  G[c] = IF c = -1 THEN LockStart ELSE LockStep(G[c - 1], c)
  <2>1. CASE c = -1
    <3>1. c \in E
      BY <2>1
    <3> QED BY <1>6, <1>7, <2>1, <3>1
  <2>2. CASE c = m - 1
    <3>1. c # -1 /\ m - 2 \in E /\ c - 1 = m - 2
      BY <1>4, <2>2
    <3>2. G[c - 1] = F[m - 2]
      BY <1>7, <3>1
    <3> QED BY <1>7, <2>2, <3>1, <3>2
  <2>3. CASE c # -1 /\ c # m - 1
    <3>1. c \in E /\ c - 1 \in E
      BY <1>4, <2>3
    <3>2. G[c - 1] = F[c - 1] /\ G[c] = F[c]
      BY <1>7, <3>1
    <3> QED BY <1>6, <2>3, <3>1, <3>2
  <2> QED BY <2>1, <2>2, <2>3
<1>10. G = [c \in D |-> IF c = -1 THEN LockStart ELSE LockStep(G[c - 1], c)]
  BY <1>8, <1>9
<1>11. Executes(G, m)
  BY <1>10 DEF Executes
<1> QED BY <1>11

\* Sync is that execution.
LEMMA SyncExecutes == Executes(Sync, LastCycle + 1)
<1>1. LastCycle \in Nat /\ Cycles = 0 .. (LastCycle + 1) - 1
  BY FlowPathAssumption DEF Cycles
<1>2. \E f : Executes(f, LastCycle + 1)
  BY <1>1, ExecutionExists
<1> DEFINE F == CHOOSE f : f = [c \in Cycles \union {-1} |->
                   IF c = -1 THEN LockStart ELSE LockStep(f[c - 1], c)]
<1>3. Sync = F
  BY DEF Sync, LockStart, LockStep, Queued, Leaving, Own, SentBy, Reaches, Handled,
         Processed, Mail, Holds, Says
<1>4. F = [c \in Cycles \union {-1} |-> IF c = -1 THEN LockStart ELSE LockStep(F[c - 1], c)]
  BY <1>1, <1>2 DEF Executes
<1> QED BY <1>1, <1>3, <1>4 DEF Executes

\* It is the same in the next state, for the kind of link and the workload never
\* change.
LEMMA SyncStays ==
    ASSUME UNCHANGED <<kind, inject, drain>>
    PROVE  Sync' = Sync
  BY DEF Sync

\* What holds at the start and after each cycle holds of the whole execution.
LEMMA CycleInduction ==
    ASSUME NEW T, -1 \in T, \A c \in Cycles : c - 1 \in T => c \in T
    PROVE  \A c \in Cycles \union {-1} : c \in T
<1>1. LastCycle \in Nat /\ Cycles = 0 .. LastCycle
  BY FlowPathAssumption DEF Cycles
<1> DEFINE Bad == {m \in Nat : m \in Cycles /\ m \notin T}
<1>2. SUFFICES ASSUME Bad # {} PROVE FALSE
  BY <1>1
<1>3. PICK m \in Bad : \A y \in Bad : m <= y
  BY <1>2, LeastNumber
<1>4. m - 1 \in T
  <2>1. CASE m = 0
    BY <2>1
  <2>2. CASE m # 0
    <3>1. m - 1 \in Nat /\ m - 1 \in Cycles /\ ~(m <= m - 1)
      BY <1>1, <1>3, <2>2
    <3> QED BY <1>3, <3>1
  <2> QED BY <2>1, <2>2
<1> QED BY <1>1, <1>3, <1>4

\* Each cycle follows from the one before.
LEMMA SyncIs ==
    /\ Sync[-1] = LockStart
    /\ \A c \in Cycles : Sync[c] = LockStep(Sync[c - 1], c)
    /\ \A c \in Cycles : c - 1 \in Cycles \union {-1}
<1>1. LastCycle \in Nat /\ Cycles = 0 .. (LastCycle + 1) - 1
  BY FlowPathAssumption DEF Cycles
<1>2. \A c \in Cycles \union {-1} :
         Sync[c] = IF c = -1 THEN LockStart ELSE LockStep(Sync[c - 1], c)
  BY <1>1, SyncExecutes DEF Executes
<1> QED BY <1>1, <1>2

\* What the parts of a cycle make of the state.
LEMMA SyncFields ==
    ASSUME NEW c \in Cycles
    PROVE  LET s == Sync[c - 1]
               t == Sync[c]
           IN  /\ t.oq = SubSeq(Queued(s, c), Leaving(s, c) + 1, Len(Queued(s, c)))
               /\ t.iq = SubSeq(Holds(s, c), Least(drain[c], Len(Holds(s, c))) + 1,
                                Len(Holds(s, c)))
               /\ t.accepted = s.accepted + Len(Queued(s, c)) - Len(s.oq)
               /\ t.nextUpdateCycle = NextUpdateCycle(Holds(s, c), c, s.nextUpdateCycle)
               /\ t.handler = Handled(s, c).state
               /\ t.readyA = (c < Latency \/ Handled(s, c).readyNext)
               /\ t.readyB = s.readyB \union
                                (IF Says(s, c).ready THEN Says(s, c).cycles ELSE {})
               /\ t.sent = SentBy(s, c)
               /\ t.arrived = [s.arrived EXCEPT ![c] = Mail(s, c)]
<1> DEFINE s == Sync[c - 1]
           n == Leaving(s, c)
           q == Queued(s, c)
           h == Holds(s, c)
           o == SubSeq(q, n + 1, Len(q))
           i == SubSeq(h, Least(drain[c], Len(h)) + 1, Len(h))
           a == s.accepted + Len(q) - Len(s.oq)
           u == NextUpdateCycle(h, c, s.nextUpdateCycle)
           y == (c < Latency \/ Handled(s, c).readyNext)
           z == s.readyB \union (IF Says(s, c).ready THEN Says(s, c).cycles ELSE {})
           v == [s.arrived EXCEPT ![c] = Mail(s, c)]
           g == Handled(s, c).state
           m == SentBy(s, c)
<1>1. Sync[c] = LockStep(s, c)
  BY SyncIs
<1>2. LockStep(s, c) = [oq |-> o, iq |-> i, accepted |-> a, nextUpdateCycle |-> u,
                        handler |-> g, readyA |-> y, readyB |-> z, sent |-> m, arrived |-> v]
  BY DEF LockStep
<1> HIDE DEF s, n, q, h, o, i, a, u, y, z, v, g, m
<1>3. /\ Sync[c].oq = o /\ Sync[c].iq = i /\ Sync[c].accepted = a
      /\ Sync[c].nextUpdateCycle = u /\ Sync[c].handler = g /\ Sync[c].readyA = y
      /\ Sync[c].readyB = z /\ Sync[c].sent = m /\ Sync[c].arrived = v
  BY <1>1, <1>2
<1> QED BY <1>3 DEF s, n, q, h, o, i, a, u, y, z, v, g, m

\* Nothing has happened before the first cycle.
LEMMA SyncStart ==
    /\ Sync[-1].oq = <<>> /\ Sync[-1].iq = <<>> /\ Sync[-1].accepted = 0
    /\ Sync[-1].nextUpdateCycle = 0
    /\ Sync[-1].handler = IF kind = "buffered" THEN BufferedInit ELSE BufferlessInit
    /\ Sync[-1].readyA = TRUE /\ Sync[-1].readyB = {0, 1}
    /\ Sync[-1].sent = [d \in Cycles |-> <<>>]
    /\ Sync[-1].arrived = [d \in Cycles |-> <<>>]
  BY SyncIs DEF LockStart

\* What was sent and what has arrived is recorded for every cycle.
LEMMA Recorded ==
    \A c \in Cycles \union {-1} :
        DOMAIN Sync[c].sent = Cycles /\ DOMAIN Sync[c].arrived = Cycles
<1> DEFINE T == {c \in Cycles \union {-1} :
                   DOMAIN Sync[c].sent = Cycles /\ DOMAIN Sync[c].arrived = Cycles}
<1>1. -1 \in T
  BY SyncStart
<1>2. ASSUME NEW c \in Cycles, c - 1 \in T
      PROVE  c \in T
  <2>1. /\ Sync[c].sent = [Sync[c - 1].sent EXCEPT ![c] = Own(Sync[c - 1], c)]
        /\ Sync[c].arrived = [Sync[c - 1].arrived EXCEPT ![c] = Mail(Sync[c - 1], c)]
    BY SyncFields DEF SentBy
  <2> QED BY <1>2, <2>1
<1> HIDE DEF T
<1>3. \A c \in Cycles \union {-1} : c \in T
  BY <1>1, <1>2, CycleInduction
<1> QED BY <1>3 DEF T

\* A cycle changes no record of another one, and takes no readiness back.
LEMMA RecordsOf ==
    ASSUME NEW c \in Cycles
    PROVE  /\ Sync[c].sent[c] = Own(Sync[c - 1], c)
           /\ Sync[c].arrived[c] = Mail(Sync[c - 1], c)
           /\ \A d \in Cycles : d # c => /\ Sync[c].sent[d] = Sync[c - 1].sent[d]
                                        /\ Sync[c].arrived[d] = Sync[c - 1].arrived[d]
           /\ Sync[c - 1].readyB \subseteq Sync[c].readyB
<1>1. /\ Sync[c].sent = [Sync[c - 1].sent EXCEPT ![c] = Own(Sync[c - 1], c)]
      /\ Sync[c].arrived = [Sync[c - 1].arrived EXCEPT ![c] = Mail(Sync[c - 1], c)]
      /\ Sync[c].readyB = Sync[c - 1].readyB \union
            (IF Says(Sync[c - 1], c).ready THEN Says(Sync[c - 1], c).cycles ELSE {})
  BY SyncFields DEF SentBy
<1>2. DOMAIN Sync[c - 1].sent = Cycles /\ DOMAIN Sync[c - 1].arrived = Cycles
  BY Recorded, SyncIs
<1> QED BY <1>1, <1>2

\* Later cycles keep the records of a cycle.
LEMMA RecordsStay ==
    ASSUME NEW d \in Cycles \union {-1}, NEW c \in Cycles \union {-1}, d <= c
    PROVE  /\ d \in Cycles => /\ Sync[c].sent[d] = Sync[d].sent[d]
                              /\ Sync[c].arrived[d] = Sync[d].arrived[d]
           /\ Sync[d].readyB \subseteq Sync[c].readyB
<1> DEFINE Same(b) == /\ d \in Cycles => /\ Sync[b].sent[d] = Sync[d].sent[d]
                                         /\ Sync[b].arrived[d] = Sync[d].arrived[d]
                      /\ Sync[d].readyB \subseteq Sync[b].readyB
           T == {b \in Cycles \union {-1} : d <= b => Same(b)}
<1>1. Cycles \subseteq Nat
  BY CyclesInHorizon
<1>2. -1 \in T
  <2>1. d <= -1 => d = -1
    BY <1>1
  <2> QED BY <2>1
<1>3. ASSUME NEW b \in Cycles, b - 1 \in T
      PROVE  b \in T
  <2>1. CASE d = b
    BY <2>1
  <2>2. CASE d # b /\ d <= b
    <3>1. d <= b - 1
      BY <1>1, <2>2
    <3>2. Same(b - 1)
      BY <1>3, <3>1
    <3>3. /\ d \in Cycles => /\ Sync[b].sent[d] = Sync[b - 1].sent[d]
                             /\ Sync[b].arrived[d] = Sync[b - 1].arrived[d]
          /\ Sync[b - 1].readyB \subseteq Sync[b].readyB
      BY <2>2, RecordsOf
    <3>4. Same(b)
      BY <3>2, <3>3
    <3> QED BY <3>4
  <2>3. CASE ~(d <= b)
    BY <2>3
  <2> QED BY <2>1, <2>2, <2>3
<1> HIDE DEF T
<1>4. c \in T
  BY <1>2, <1>3, CycleInduction
<1> QED BY <1>4 DEF T
-----------------------------------------------------------------------------
(* The packets of a queue have consecutive numbers.                        *)

Run(lo, hi) == [i \in 1 .. hi - lo |-> lo + i]

\* A queue is such a run, and so are the two parts that a send makes of it.
LEMMA RunProps ==
    ASSUME NEW lo \in Nat, NEW hi \in Nat, lo <= hi
    PROVE  /\ Run(lo, hi) \in Seq(Nat) /\ Len(Run(lo, hi)) = hi - lo
           /\ DOMAIN Run(lo, hi) = 1 .. hi - lo
           /\ \A i \in 1 .. hi - lo : Run(lo, hi)[i] = lo + i
<1> DEFINE r == Run(lo, hi)
<1>1. r = [i \in 1 .. hi - lo |-> lo + i] /\ hi - lo \in Nat
  BY DEF Run
<1>2. r \in [1 .. hi - lo -> Nat]
  BY <1>1
<1>3. r \in Seq(Nat)
  BY <1>1, <1>2, SeqDef
<1>4. DOMAIN r = 1 .. hi - lo /\ \A i \in 1 .. hi - lo : r[i] = lo + i
  BY <1>1
<1> HIDE DEF r
<1>5. Len(r) = hi - lo
  BY <1>1, <1>3, <1>4, LenProperties
<1> QED BY <1>3, <1>4, <1>5 DEF r

\* A burst is appended to the queue (InjectPackets).
LEMMA RunGrows ==
    ASSUME NEW lo \in Nat, NEW mid \in Nat, NEW hi \in Nat, lo <= mid, mid <= hi
    PROVE  Run(lo, mid) \o Run(mid, hi) = Run(lo, hi)
<1> DEFINE q == Run(lo, mid)
           r == Run(mid, hi)
           t == Run(lo, hi)
<1>1. /\ q \in Seq(Nat) /\ Len(q) = mid - lo /\ DOMAIN q = 1 .. mid - lo
      /\ \A i \in 1 .. mid - lo : q[i] = lo + i
  BY RunProps
<1>2. /\ r \in Seq(Nat) /\ Len(r) = hi - mid /\ DOMAIN r = 1 .. hi - mid
      /\ \A i \in 1 .. hi - mid : r[i] = mid + i
  BY RunProps
<1>3. /\ t \in Seq(Nat) /\ Len(t) = hi - lo /\ DOMAIN t = 1 .. hi - lo
      /\ \A i \in 1 .. hi - lo : t[i] = lo + i
  BY RunProps
<1> HIDE DEF q, r, t
<1>4. /\ q \o r \in Seq(Nat) /\ Len(q \o r) = Len(q) + Len(r)
      /\ \A i \in DOMAIN (q \o r) : \/ i \in DOMAIN q /\ (q \o r)[i] = q[i]
                                    \/ i - Len(q) \in DOMAIN r /\ (q \o r)[i] = r[i - Len(q)]
  <2> DEFINE S == Nat
  <2>1. q \in Seq(S) /\ r \in Seq(S)
    BY <1>1, <1>2
  <2> HIDE DEF S
  <2>2. /\ q \o r \in Seq(S) /\ Len(q \o r) = Len(q) + Len(r)
        /\ \A i \in DOMAIN (q \o r) :
              \/ i \in DOMAIN q /\ (q \o r)[i] = q[i]
              \/ i - Len(q) \in DOMAIN r /\ (q \o r)[i] = r[i - Len(q)]
    BY ONLY <2>1, JoinProps
  <2> QED BY <2>2 DEF S
<1>5. Len(q \o r) = hi - lo /\ DOMAIN (q \o r) = 1 .. Len(q \o r)
  BY <1>1, <1>2, <1>4, LenProperties
<1>6. ASSUME NEW i \in 1 .. hi - lo
      PROVE  (q \o r)[i] = t[i]
  <2>1. t[i] = lo + i
    BY <1>3
  <2>2. CASE i \in DOMAIN q /\ (q \o r)[i] = q[i]
    BY <1>1, <2>1, <2>2
  <2>3. CASE i - Len(q) \in DOMAIN r /\ (q \o r)[i] = r[i - Len(q)]
    <3>1. r[i - Len(q)] = mid + (i - (mid - lo))
      BY <1>1, <1>2, <2>3
    <3> QED BY <2>1, <2>3, <3>1
  <2> QED BY <1>4, <1>5, <2>2, <2>3
<1>7. q \o r = t
  BY <1>3, <1>4, <1>5, <1>6, SeqEqual
<1> QED BY <1>7 DEF q, r, t

\* What leaves from the head of the queue, and what remains.
LEMMA RunCut ==
    ASSUME NEW lo \in Nat, NEW hi \in Nat, lo <= hi, NEW n \in 0 .. hi - lo
    PROVE  /\ SubSeq(Run(lo, hi), 1, n) = Run(lo, lo + n)
           /\ SubSeq(Run(lo, hi), n + 1, Len(Run(lo, hi))) = Run(lo + n, hi)
<1> DEFINE q == Run(lo, hi)
           r == Run(lo, lo + n)
           t == Run(lo + n, hi)
           front == SubSeq(q, 1, n)
           back == SubSeq(q, n + 1, Len(q))
<1>1. /\ q \in Seq(Nat) /\ Len(q) = hi - lo /\ DOMAIN q = 1 .. hi - lo
      /\ \A i \in 1 .. hi - lo : q[i] = lo + i
  BY RunProps
<1>2. n \in Nat /\ lo + n \in Nat /\ lo <= lo + n /\ lo + n <= hi /\ (lo + n) - lo = n
      /\ hi - (lo + n) = (hi - lo) - n
  OBVIOUS
<1>3. /\ r \in Seq(Nat) /\ Len(r) = n /\ \A i \in 1 .. n : r[i] = lo + i
  BY <1>2, RunProps
<1>4. /\ t \in Seq(Nat) /\ Len(t) = (hi - lo) - n
      /\ \A i \in 1 .. (hi - lo) - n : t[i] = (lo + n) + i
  BY <1>2, RunProps
<1> HIDE DEF q, r, t
<1>5. /\ front \in Seq(Nat) /\ Len(front) = n
      /\ \A i \in 1 .. n : front[i] = q[i]
      /\ back \in Seq(Nat) /\ Len(back) = (hi - lo) - n
      /\ \A i \in 1 .. (hi - lo) - n : back[i] = q[n + i]
  BY <1>1, CutProps
<1> HIDE DEF front, back
<1>6. \A i \in 1 .. n : front[i] = r[i]
  BY <1>1, <1>3, <1>5
<1>7. \A i \in 1 .. (hi - lo) - n : back[i] = t[i]
  <2> SUFFICES ASSUME NEW i \in 1 .. (hi - lo) - n PROVE back[i] = t[i]
    OBVIOUS
  <2>1. n + i \in 1 .. hi - lo /\ lo + (n + i) = (lo + n) + i
    BY <1>2
  <2> QED BY <1>1, <1>4, <1>5, <2>1
<1>8. front = r /\ back = t
  BY <1>3, <1>4, <1>5, <1>6, <1>7, SeqEqual
<1> QED BY <1>8 DEF front, back, q, r, t

\* All packets that one component sends in a cycle reach the compartment of the
\* cycle, in order.
LEMMA StampedForCycle ==
    ASSUME NEW S, NEW q \in Seq(S), NEW c \in Nat
    PROVE  StampedFor(Stamped(c, q), c) = q
<1> DEFINE packets == Stamped(c, q)
           N == Len(packets)
<1>1. /\ N = Len(q) /\ N \in Nat /\ DOMAIN q = 1 .. N
      /\ \A i \in 1 .. N : packets[i].cycle = c /\ packets[i].packet = q[i] /\ q[i] \in S
  <2>1. N = Len(q) /\ \A i \in DOMAIN q : packets[i] = [cycle |-> c, packet |-> q[i]]
    BY StampedProps
  <2>2. N \in Nat /\ DOMAIN q = 1 .. N /\ \A i \in DOMAIN q : q[i] \in S
    BY <2>1, LenProperties, ElementOfSeq
  <2> HIDE DEF packets
  <2>3. ASSUME NEW i \in 1 .. N
        PROVE  packets[i].cycle = c /\ packets[i].packet = q[i] /\ q[i] \in S
    <3>1. i \in DOMAIN q
      BY <2>2
    <3>2. packets[i] = [cycle |-> c, packet |-> q[i]] /\ q[i] \in S
      BY <2>1, <2>2, <3>1
    <3> QED BY <3>2
  <2> QED BY <2>1, <2>2, <2>3
<1>2. \E first : Collects(first, packets, c, N)
  BY <1>1, CollectsExists
<1> DEFINE F == CHOOSE first : first = [n \in 0 .. N |->
                   IF n = 0 THEN <<>>
                   ELSE IF packets[n].cycle = c THEN Append(first[n - 1], packets[n].packet)
                   ELSE first[n - 1]]
<1>3. StampedFor(packets, c) = F[N]
  BY DEF StampedFor
<1>4. Collects(F, packets, c, N)
  BY <1>2 DEF Collects
<1> HIDE DEF F, packets
<1>5. \A n \in 0 .. N : F[n] = IF n = 0 THEN <<>> ELSE Append(F[n - 1], q[n])
  <2> SUFFICES ASSUME NEW n \in 0 .. N
               PROVE  F[n] = IF n = 0 THEN <<>> ELSE Append(F[n - 1], q[n])
    OBVIOUS
  <2>1. F[n] = IF n = 0 THEN <<>>
               ELSE IF packets[n].cycle = c THEN Append(F[n - 1], packets[n].packet)
               ELSE F[n - 1]
    BY <1>4 DEF Collects
  <2>2. n # 0 => n \in 1 .. N
    BY <1>1
  <2>3. n # 0 => packets[n].cycle = c /\ packets[n].packet = q[n]
    BY <1>1, <2>2
  <2> QED BY <2>1, <2>3
<1> DEFINE Good(n) == F[n] \in Seq(S) /\ Len(F[n]) = n /\ \A i \in 1 .. n : F[n][i] = q[i]
           Bad == {n \in Nat : n <= N /\ ~Good(n)}
<1>6. Bad = {}
  <2>1. SUFFICES ASSUME Bad # {} PROVE FALSE
    OBVIOUS
  <2>2. PICK n \in Bad : \A y \in Bad : n <= y
    BY <2>1, LeastNumber
  <2>3. n # 0
    <3>1. SUFFICES ASSUME n = 0 PROVE Good(n)
      OBVIOUS
    <3>2. F[n] = <<>> /\ <<>> \in Seq(S) /\ Len(<<>>) = 0
      BY <1>1, <1>5, <3>1, EmptySeq
    <3> QED BY <3>1, <3>2
  <2>4. n - 1 \in Nat /\ n - 1 <= N /\ n \in 1 .. N /\ Good(n - 1)
    BY <1>1, <2>2, <2>3
  <2>5. F[n] = Append(F[n - 1], q[n]) /\ q[n] \in S
    <3>1. n \in 0 .. N
      BY <1>1, <2>4
    <3>2. F[n] = Append(F[n - 1], q[n])
      BY <1>5, <2>3, <3>1
    <3> QED BY <1>1, <2>4, <3>2
  <2>6. Good(n)
    BY <2>4, <2>5, AppendProperties
  <2> QED BY <2>2, <2>6
<1>7. Good(N)
  BY <1>1, <1>6
<1> HIDE DEF Bad
<1>8. F[N] = q
  BY <1>1, <1>7, SeqEqual
<1> QED BY <1>3, <1>8 DEF packets

\* The lock-step execution finds room for every burst in the queue of the source.
RoomForAll == \A c \in Cycles : Len(Sync[c - 1].oq) + inject[c] <= OutCapacity

\* The packets that have left the source by the end of a cycle.
Gone(c) == Sync[c].accepted - Len(Sync[c].oq)

Numbered(c) ==
    /\ Sync[c].accepted \in Nat /\ Gone(c) \in Nat /\ Gone(c) <= Sync[c].accepted
    /\ Sync[c].oq = Run(Gone(c), Sync[c].accepted)

\* A tick takes what its readiness and its bandwidth allow.
LEMMA SendCountProps ==
    ASSUME NEW q, NEW L \in Nat, Len(q) = L, NEW ready \in BOOLEAN
    PROVE  /\ SendCount(q, ready) \in 0 .. L
           /\ ready => SendCount(q, ready) = IF OutBandwidth < L THEN OutBandwidth ELSE L
           /\ ~ready => SendCount(q, ready) = 0
  BY QueuesAssumption DEF SendCount, Least

\* A burst is numbered on from the packets accepted before.
LEMMA BurstIsRun ==
    ASSUME NEW a \in Nat, NEW k \in Nat
    PROVE  [i \in 1 .. k |-> a + i] = Run(a, a + k)
<1>1. (a + k) - a = k
  OBVIOUS
<1> QED BY <1>1 DEF Run

\* What a cycle of the source does to the numbers of its packets.
LEMMA SourceCycle ==
    ASSUME RoomForAll, inject \in [Cycles -> Nat], NEW c \in Cycles, Numbered(c - 1),
           Sync[c - 1].readyA \in BOOLEAN
    PROVE  LET s == Sync[c - 1]
               lo == Gone(c - 1)
               hi == s.accepted + inject[c]
               n == Leaving(s, c)
           IN  /\ Queued(s, c) = Run(lo, hi) /\ lo <= hi /\ hi \in Nat
               /\ Len(Queued(s, c)) = hi - lo
               /\ n \in 0 .. hi - lo
               /\ Own(s, c) = Run(lo, lo + n)
               /\ Sync[c].accepted = hi /\ Gone(c) = lo + n /\ Numbered(c)
<1> DEFINE s == Sync[c - 1]
           lo == Gone(c - 1)
           a == s.accepted
           k == inject[c]
           hi == a + k
           n == Leaving(s, c)
           packets == [i \in 1 .. k |-> a + i]
<1>1. /\ a \in Nat /\ lo \in Nat /\ lo <= a /\ s.oq = Run(lo, a) /\ k \in Nat
      /\ hi \in Nat /\ a <= hi /\ lo <= hi /\ hi - a = k
  BY DEF Numbered
<1>2. packets = Run(a, hi)
  <2> HIDE DEF s
  <2> QED BY <1>1, BurstIsRun
<1>3. Len(s.oq) = a - lo /\ Len(packets) = k
  <2> HIDE DEF s, lo, packets
  <2> QED BY <1>1, <1>2, RunProps
<1>4. Queued(s, c) = Run(lo, hi)
  <2>1. Queued(s, c) = Inject(s.oq, packets)
    BY DEF Queued
  <2>2. Len(s.oq) + k <= OutCapacity /\ OutCapacity \in Nat
    BY QueuesAssumption DEF RoomForAll
  <2> HIDE DEF s, lo, packets, hi, k
  <2>3. ~(Len(s.oq) + Len(packets) > OutCapacity)
    BY <1>1, <1>3, <2>2
  <2>4. Queued(s, c) = s.oq \o packets
    BY <2>1, <2>3 DEF Inject
  <2> HIDE DEF a
  <2>5. Run(lo, a) \o Run(a, hi) = Run(lo, hi)
    BY <1>1, RunGrows
  <2> QED BY <1>1, <1>2, <2>4, <2>5
<1>5. Len(Queued(s, c)) = hi - lo /\ hi - lo \in Nat
  <2> HIDE DEF s, lo, packets, hi, k, a
  <2>1. Len(Run(lo, hi)) = hi - lo
    BY <1>1, RunProps
  <2> QED BY <1>1, <1>4, <2>1
<1>6. n \in 0 .. hi - lo
  <2>1. n = SendCount(Queued(s, c), s.readyA)
    BY DEF Leaving
  <2> HIDE DEF lo, hi, n
  <2> QED BY <1>5, <2>1, SendCountProps
<1>7. /\ Own(s, c) = SubSeq(Queued(s, c), 1, n)
      /\ Sync[c].oq = SubSeq(Queued(s, c), n + 1, Len(Queued(s, c)))
      /\ Sync[c].accepted = a + Len(Queued(s, c)) - Len(s.oq)
  BY SyncFields DEF Own
<1> HIDE DEF s, lo, packets, hi, n, k, a
<1>8. Own(s, c) = Run(lo, lo + n) /\ Sync[c].oq = Run(lo + n, hi)
  <2>1. /\ SubSeq(Run(lo, hi), 1, n) = Run(lo, lo + n)
        /\ SubSeq(Run(lo, hi), n + 1, Len(Run(lo, hi))) = Run(lo + n, hi)
    BY <1>1, <1>6, RunCut
  <2> QED BY <1>4, <1>7, <2>1
<1>9. Sync[c].accepted = hi
  <2>1. a + (hi - lo) - (a - lo) = hi
    BY <1>1
  <2> QED BY <1>3, <1>5, <1>7, <2>1
<1>10. /\ lo + n \in Nat /\ lo + n <= hi /\ hi - (hi - (lo + n)) = lo + n
  BY <1>1, <1>6
<1>11. Len(Sync[c].oq) = hi - (lo + n)
  BY <1>1, <1>8, <1>10, RunProps
<1>12. Gone(c) = lo + n
  BY <1>9, <1>10, <1>11 DEF Gone
<1>13. Numbered(c)
  BY <1>1, <1>8, <1>9, <1>10, <1>12 DEF Numbered
<1> QED
  BY <1>1, <1>4, <1>5, <1>6, <1>8, <1>9, <1>12, <1>13 DEF s, lo, hi, n, k, a

\* The link's answer to the source is yes or no.
LEMMA ReadyAType == \A c \in Cycles \union {-1} : Sync[c].readyA \in BOOLEAN
<1>1. Sync[-1].readyA \in BOOLEAN
  BY SyncStart
<1>2. ASSUME NEW c \in Cycles
      PROVE  Sync[c].readyA \in BOOLEAN
  <2>1. Sync[c].readyA = (c < Latency \/ Handled(Sync[c - 1], c).readyNext)
    BY SyncFields
  <2> QED BY <2>1
<1> QED BY <1>1, <1>2

\* In every cycle the queue of the source is a run of numbers.
LEMMA QueueIsRun ==
    ASSUME RoomForAll, inject \in [Cycles -> Nat]
    PROVE  \A c \in Cycles \union {-1} : Numbered(c)
<1> DEFINE T == {c \in Cycles \union {-1} : Numbered(c)}
<1>1. -1 \in T
  <2>1. Sync[-1].oq = <<>> /\ Sync[-1].accepted = 0 /\ Len(<<>>) = 0
    BY SyncStart, EmptySeq
  <2>2. Gone(-1) = 0
    <3>1. Len(Sync[-1].oq) = 0
      BY <2>1
    <3> DEFINE x == Sync[-1].accepted
               y == Len(Sync[-1].oq)
    <3>2. Gone(-1) = x - y /\ x \in Int /\ y \in Int /\ x = 0 /\ y = 0
      BY ONLY <2>1, <3>1 DEF Gone
    <3> HIDE DEF x, y
    <3> QED BY <3>2
  <2>3. Run(0, 0) = <<>>
    <3>1. Run(0, 0) \in Seq(Nat) /\ Len(Run(0, 0)) = 0
      BY RunProps
    <3> QED BY <3>1, EmptySeq
  <2> QED BY <2>1, <2>2, <2>3 DEF Numbered
<1>2. ASSUME NEW c \in Cycles, c - 1 \in T
      PROVE  c \in T
  <2>1. Sync[c - 1].readyA \in BOOLEAN
    BY ReadyAType, SyncIs
  <2> QED BY <1>2, <2>1, SourceCycle
<1> HIDE DEF T
<1>3. \A c \in Cycles \union {-1} : c \in T
  BY <1>1, <1>2, CycleInduction
<1> QED BY <1>3 DEF T

\* Later cycles have accepted no less, and sent no less.
LEMMA NumbersGrow ==
    ASSUME RoomForAll, inject \in [Cycles -> Nat],
           NEW d \in Cycles \union {-1}, NEW c \in Cycles \union {-1}, d <= c
    PROVE  Sync[d].accepted <= Sync[c].accepted /\ Gone(d) <= Gone(c)
<1> DEFINE Grown(b) == Sync[d].accepted <= Sync[b].accepted /\ Gone(d) <= Gone(b)
           T == {b \in Cycles \union {-1} : d <= b => Grown(b)}
<1>1. Cycles \subseteq Nat
  BY CyclesInHorizon
<1>2. \A b \in Cycles \union {-1} : Sync[b].accepted \in Nat /\ Gone(b) \in Nat
  BY QueueIsRun DEF Numbered
<1>3. -1 \in T
  <2>1. d <= -1 => d = -1
    BY <1>1
  <2> QED BY <1>2, <2>1
<1>4. ASSUME NEW b \in Cycles, b - 1 \in T
      PROVE  b \in T
  <2>1. CASE d = b
    BY <1>2, <2>1
  <2>2. CASE d # b /\ d <= b
    <3>1. d <= b - 1 /\ b - 1 \in Cycles \union {-1}
      BY <1>1, <2>2, SyncIs
    <3>2. Grown(b - 1)
      BY <1>4, <3>1
    <3> DEFINE n == Leaving(Sync[b - 1], b)
               L == (Sync[b - 1].accepted + inject[b]) - Gone(b - 1)
    <3>3. /\ Sync[b].accepted = Sync[b - 1].accepted + inject[b]
          /\ Gone(b) = Gone(b - 1) + n /\ n \in 0 .. L
      <4>1. Numbered(b - 1)
        BY <3>1, QueueIsRun
      <4>2. Sync[b - 1].readyA \in BOOLEAN
        BY <3>1, ReadyAType
      <4>3. Sync[b].accepted = Sync[b - 1].accepted + inject[b]
        BY <4>1, <4>2, SourceCycle
      <4>4. Gone(b) = Gone(b - 1) + n
        BY <4>1, <4>2, SourceCycle
      <4>5. n \in 0 .. L
        BY <4>1, <4>2, SourceCycle
      <4> QED BY <4>3, <4>4, <4>5
    <3> HIDE DEF n, L
    <3>4. /\ Sync[d].accepted \in Nat /\ Sync[b - 1].accepted \in Nat /\ inject[b] \in Nat
          /\ Gone(d) \in Nat /\ Gone(b - 1) \in Nat /\ n >= 0 /\ n \in Int
      BY <1>2, <3>1, <3>3
    <3>5. Grown(b)
      BY <3>2, <3>3, <3>4
    <3> QED BY <3>5
  <2>3. CASE ~(d <= b)
    BY <2>3
  <2> QED BY <2>1, <2>2, <2>3
<1> HIDE DEF T
<1>5. c \in T
  BY <1>3, <1>4, CycleInduction
<1> QED BY <1>5 DEF T
-----------------------------------------------------------------------------
(* How each component, at its own cycle, agrees with the execution.        *)

\* The source may have ticked its queue ahead of its cycle, and then its queue
\* holds a beginning of what it holds in lock step.
SourceInLine ==
    /\ src.cycle <= src.ahead /\ A.done = src.ahead - 1
    /\ src.phase = "send" => src.cycle \in Cycles
    /\ src.accepted = Sync[IF src.phase = "process" THEN src.cycle - 1
                           ELSE src.cycle].accepted
    /\ Gone(src.ahead - 1) <= src.accepted
    /\ oq = Run(Gone(src.ahead - 1), src.accepted)

\* What waits for the link is what the source sends in that cycle.
FirstMail ==
    \A d \in Cycles :
        /\ d >= src.ahead => A.mail[d] = <<>>
        /\ d < src.ahead /\ link.cycle <= d + Latency => A.mail[d] = Sync[d].sent[d]

\* The link's decisions are those of the execution.
FirstDecisions ==
    /\ \A d \in Cycles : Decided(A, d) => (IsReady(A, d) <=> Sync[d - 1].readyA)
    /\ kind = "buffered" => \A d \in Horizon : d <= Latency => IsReady(A, d)

LinkInLine == link.handler = Sync[link.cycle - 1].handler

\* What waits for the sink is what arrives in that cycle.
SecondMail ==
    \A e \in Cycles :
        sink.cycle <= e /\ e < link.cycle => B.mail[e] = Sync[e].arrived[e]

\* The sink decides without gaps, and refuses only its next cycle.
Decides ==
    /\ \A d \in Horizon : B.decision[d] # "unset" <=> d < Frontier
    /\ Granted(0) /\ Granted(1)
    /\ sink.cycle = 0 => sink.nextUpdateCycle = 0
    /\ sink.cycle > 0 => sink.nextUpdateCycle >= sink.cycle + 1
    /\ RefusesNext

SinkInLine ==
    /\ iq = Sync[sink.cycle - 1].iq
    /\ sink.nextUpdateCycle = Sync[sink.cycle - 1].nextUpdateCycle
    /\ \A e \in Horizon : Granted(e) <=> e \in Sync[sink.cycle - 1].readyB

ArrivedInLine == \A c \in Cycles : c < sink.cycle => arrived[c] = Sync[c].arrived[c]

InLine ==
    /\ SourceInLine /\ FirstMail /\ FirstDecisions /\ LinkInLine
    /\ SecondMail /\ Decides /\ SinkInLine

LockInv == RoomForAll => ArrivedInLine /\ (fault = "none" => InLine)

\* The source accepts the burst of its cycle as the execution does, although its
\* queue may be shorter by what it has already sent for later cycles.
LEMMA InLineAfterProcess ==
    ASSUME TypeInv, RoomForAll, SourceInLine, FirstMail, SourceProcess
    PROVE  SourceInLine' /\ FirstMail'
<1> DEFINE c == src.cycle
           a == src.ahead
           k == inject[c]
           lo == Gone(a - 1)
           acc == src.accepted
<1>1. /\ src.phase = "process" /\ oq' = Inject(oq, Fresh)
      /\ c \in Cycles /\ k \in Nat /\ acc \in Nat /\ Len(Fresh) = k
      /\ src'.cycle = c /\ src'.phase = "send"
      /\ src'.ahead = IF a > c THEN a ELSE c
      /\ UNCHANGED <<kind, inject, drain, link, A>>
  <2>1. src' = [cycle |-> c, phase |-> "send", ahead |-> IF a > c THEN a ELSE c,
                accepted |-> src'.accepted]
        /\ c \in Cycles /\ k \in Nat /\ Len(Fresh) = k
        /\ UNCHANGED <<kind, inject, drain, link, A>>
    BY SourceProcessStep
  <2>2. src.phase = "process" /\ oq' = Inject(oq, Fresh)
    BY DEF SourceProcess, Fresh
  <2>3. acc \in Nat
    BY DEF TypeInv
  <2> QED BY <2>1, <2>2, <2>3
<1>2. Sync' = Sync
  BY <1>1, SyncStays
<1>3. /\ inject \in [Cycles -> Nat] /\ a \in 0 .. LastCycle + 1 /\ LastCycle \in Nat
      /\ oq \in Seq(P)
  BY FlowPathAssumption DEF TypeInv
<1>4. /\ c <= a /\ A.done = a - 1 /\ acc = Sync[c - 1].accepted
      /\ lo <= acc /\ oq = Run(lo, acc)
  BY <1>1 DEF SourceInLine
<1>5. c \in Nat /\ a - 1 \in Cycles \union {-1} /\ c - 1 \in Cycles \union {-1}
  <2>1. c \in Nat /\ c - 1 \in Cycles \union {-1}
    BY <1>1, CyclesInHorizon, SyncIs
  <2>2. a - 1 \in Cycles \union {-1}
    BY <1>3 DEF Cycles
  <2> QED BY <2>1, <2>2
<1>6. lo \in Nat /\ Numbered(c - 1)
  BY <1>3, <1>5, QueueIsRun DEF Numbered
<1>7. Len(oq) = acc - lo
  <2> HIDE DEF lo, acc
  <2> QED BY <1>1, <1>4, <1>6, RunProps
<1>8. Len(oq) + k <= OutCapacity
  <2>1. Gone(c - 1) <= lo
    BY <1>3, <1>4, <1>5, NumbersGrow
  <2>2. Gone(c - 1) = acc - Len(Sync[c - 1].oq) /\ Gone(c - 1) \in Nat
        /\ Gone(c - 1) <= acc
        /\ Sync[c - 1].oq = Run(Gone(c - 1), acc)
    BY <1>4, <1>6 DEF Gone, Numbered
  <2>3. Len(Sync[c - 1].oq) = acc - Gone(c - 1)
    <3> HIDE DEF acc
    <3> QED BY <1>1, <2>2, RunProps
  <2>4. Len(Sync[c - 1].oq) + k <= OutCapacity
    BY <1>1 DEF RoomForAll
  <2> HIDE DEF lo, acc, k
  <2> QED BY <1>1, <1>6, <1>7, <2>1, <2>2, <2>3, <2>4, QueuesAssumption
<1>9. oq' = oq \o Fresh /\ Fresh = Run(acc, acc + k)
  <2>1. ~(Len(oq) + Len(Fresh) > OutCapacity)
    <3> HIDE DEF lo, acc, k
    <3> QED BY <1>1, <1>4, <1>6, <1>7, <1>8, QueuesAssumption
  <2>2. Fresh = Run(acc, acc + k)
    BY <1>1, BurstIsRun DEF Fresh
  <2> QED BY <1>1, <2>1, <2>2 DEF Inject
<1>10. oq' = Run(lo, acc + k)
  <2> HIDE DEF lo, acc, k
  <2>0. acc + k \in Nat /\ acc <= acc + k
    BY <1>1
  <2>1. Run(lo, acc) \o Run(acc, acc + k) = Run(lo, acc + k)
    BY <1>1, <1>4, <1>6, <2>0, RunGrows
  <2> QED BY <1>4, <1>9, <2>1
<1>11. src'.accepted = acc + k
  <2>1. src'.accepted = acc + Len(oq') - Len(oq)
    BY DEF SourceProcess, TypeInv
  <2>2. Len(oq') = (acc + k) - lo
    <3> HIDE DEF lo, acc, k
    <3>1. acc + k \in Nat /\ lo <= acc + k
      BY <1>1, <1>4, <1>6
    <3>2. Len(Run(lo, acc + k)) = (acc + k) - lo
      BY <1>6, <3>1, RunProps
    <3> QED BY <1>10, <3>2
  <2> HIDE DEF lo, acc, k
  <2> QED BY <1>1, <1>4, <1>6, <1>7, <2>1, <2>2
<1>12. Sync[c].accepted = acc + k
  BY <1>1, <1>3, <1>4, <1>5, <1>6, SourceCycle, ReadyAType
<1>13. src'.ahead = a
  BY <1>1, <1>3, <1>4, <1>5
<1>14. SourceInLine'
  <2>1. lo = Sync[a - 1].accepted - Len(Sync[a - 1].oq)
    BY DEF Gone
  <2> HIDE DEF lo
  <2>2. lo <= acc + k
    BY <1>1, <1>4, <1>6
  <2> QED BY <1>1, <1>2, <1>4, <1>10, <1>11, <1>12, <1>13, <2>1, <2>2 DEF SourceInLine, Gone
<1>15. FirstMail'
  BY <1>1, <1>2, <1>13 DEF FirstMail
<1> QED BY <1>14, <1>15

\* A tick for a later cycle sends a full burst, which the packets still to be
\* accepted do not change; the tick for the cycle itself finds all of them.
LEMMA SendsInLine ==
    ASSUME TypeInv, RoomForAll, SourceInLine, FirstDecisions, SourceSend
    PROVE  LET a == src.ahead
               n == Leaves
           IN  /\ Leaving(Sync[a - 1], a) = n /\ Head1 = Own(Sync[a - 1], a)
               /\ Gone(a) = Gone(a - 1) + n /\ Gone(a) <= src.accepted
               /\ oq' = Run(Gone(a), src.accepted)
<1> DEFINE a == src.ahead
           c == src.cycle
           lo == Gone(a - 1)
           acc == src.accepted
           hi == Sync[a].accepted
           s == Sync[a - 1]
           n == Leaves
           m == Leaving(s, a)
<1>1. /\ a \in Cycles /\ (oq # <<>> => Decided(A, a)) /\ n \in 0 .. Len(oq)
      /\ oq' = SubSeq(oq, n + 1, Len(oq))
  BY SourceSendStep
<1>2. /\ src.phase = "send" /\ (a > c => Len(oq) >= OutBandwidth)
  BY DEF SourceSend, MayTick
<1>3. /\ c \in Cycles /\ c <= a /\ acc = Sync[c].accepted /\ lo <= acc /\ oq = Run(lo, acc)
  BY <1>2 DEF SourceInLine
<1>4. inject \in [Cycles -> Nat] /\ acc \in Nat /\ a \in Nat /\ c \in Nat
  BY <1>1, <1>3, CyclesInHorizon DEF TypeInv
<1>5. a - 1 \in Cycles \union {-1} /\ s.readyA \in BOOLEAN /\ Numbered(a - 1)
  <2>1. a - 1 \in Cycles \union {-1}
    BY <1>1, SyncIs
  <2> QED BY <1>4, <2>1, ReadyAType, QueueIsRun
<1>6. lo \in Nat
  BY <1>5 DEF Numbered
<1>7. /\ hi \in Nat /\ lo <= hi /\ Len(Queued(s, a)) = hi - lo
      /\ m \in 0 .. hi - lo /\ Own(s, a) = Run(lo, lo + m)
      /\ Gone(a) = lo + m
  <2>1. hi = s.accepted + inject[a]
    BY <1>1, <1>4, <1>5, SourceCycle
  <2>2. s.accepted + inject[a] \in Nat /\ lo <= s.accepted + inject[a]
    BY <1>1, <1>4, <1>5, SourceCycle
  <2>3. Len(Queued(s, a)) = (s.accepted + inject[a]) - lo
    BY <1>1, <1>4, <1>5, SourceCycle
  <2>4. m \in 0 .. (s.accepted + inject[a]) - lo
    BY <1>1, <1>4, <1>5, SourceCycle
  <2>5. Own(s, a) = Run(lo, lo + m)
    BY <1>1, <1>4, <1>5, SourceCycle
  <2>6. Gone(a) = lo + m
    BY <1>1, <1>4, <1>5, SourceCycle
  <2> HIDE DEF lo, hi, m
  <2> QED BY <2>1, <2>2, <2>3, <2>4, <2>5, <2>6
<1>8. acc <= hi
  BY <1>1, <1>3, <1>4, NumbersGrow
<1>9. Len(oq) = acc - lo
  <2> HIDE DEF lo, acc
  <2> QED BY <1>3, <1>4, <1>6, RunProps
<1>10. n = SendCount(oq, IsReady(A, a)) /\ m = SendCount(Queued(s, a), s.readyA)
  BY DEF Leaves, Leaving
<1>11. oq # <<>> => (IsReady(A, a) <=> s.readyA)
  BY <1>1 DEF FirstDecisions
<1>12. c = a => acc = hi
  BY <1>3
<1>13. n = m
  <2> HIDE DEF n, m, lo, acc, hi, a, c, s
  <2> DEFINE r == IsReady(A, a)
             x == acc - lo
             y == hi - lo
  <2>0. x \in Nat /\ y \in Nat /\ OutBandwidth \in Nat \ {0} /\ x <= y
        /\ (c = a => x = y) /\ (c # a => x >= OutBandwidth) /\ Len(oq) = x
    BY <1>2, <1>3, <1>4, <1>6, <1>7, <1>8, <1>9, <1>12, QueuesAssumption
  <2>1. CASE x = 0
    <3>1. y = 0
      BY <2>0, <2>1
    <3> QED BY <1>1, <1>7, <2>0, <2>1, <3>1
  <2>2. CASE x # 0
    <3>1. oq # <<>>
      BY <2>0, <2>2, EmptySeq
    <3>2. r \in BOOLEAN /\ s.readyA = r
      BY <1>5, <1>11, <3>1 DEF IsReady
    <3> HIDE DEF r, x, y
    <3>3. /\ r => n = IF OutBandwidth < x THEN OutBandwidth ELSE x
          /\ ~r => n = 0
      BY <1>10, <2>0, <3>2, SendCountProps DEF r
    <3>4. /\ r => m = IF OutBandwidth < y THEN OutBandwidth ELSE y
          /\ ~r => m = 0
      <4>1. Len(Queued(s, a)) = y
        BY <1>7 DEF y
      <4> QED BY <1>10, <2>0, <3>2, <4>1, SendCountProps
    <3>5. c = a \/ (x >= OutBandwidth /\ y >= OutBandwidth)
      BY <2>0
    <3> QED BY <2>0, <3>3, <3>4, <3>5
  <2> QED BY <2>1, <2>2
<1>14. n \in 0 .. acc - lo
  <2> HIDE DEF n, lo, acc
  <2> QED BY <1>1, <1>9
<1>15. SubSeq(oq, 1, n) = Run(lo, lo + n) /\ oq' = Run(lo + n, acc)
  <2> HIDE DEF n, lo, acc
  <2> QED BY <1>1, <1>3, <1>4, <1>6, <1>14, RunCut
<1>16. Head1 = Own(s, a)
  BY <1>7, <1>13, <1>15 DEF Head1
<1>17. lo + n <= acc
  <2> HIDE DEF n, lo, acc
  <2> QED BY <1>4, <1>6, <1>14
<1>18. Gone(a) = lo + n
  BY <1>7, <1>13
<1> QED BY <1>13, <1>15, <1>16, <1>17, <1>18

\* A tick of the source puts into the port what the execution sends in that cycle.
LEMMA InLineAfterSend ==
    ASSUME TypeInv, RoomForAll, SourceInLine, FirstMail, FirstDecisions, SourceSend
    PROVE  SourceInLine' /\ FirstMail' /\ FirstDecisions'
<1> DEFINE a == src.ahead
           t == Stamped(a, Head1)
<1>1. /\ a \in Cycles /\ Head1 \in Seq(P) /\ t \in Seq(Stamps(P))
      /\ A' = [done |-> a, decision |-> A.decision, mail |-> MailedAlso(A.mail, t)]
      /\ src' = [cycle |-> src.cycle, phase |-> "send", ahead |-> a + 1,
                 accepted |-> src.accepted]
      /\ UNCHANGED <<kind, inject, drain, link>>
  BY SourceSendStep
<1>2. Sync' = Sync
  BY <1>1, SyncStays
<1>3. src.phase = "send"
  BY DEF SourceSend
<1>4. /\ src.cycle <= a /\ src.cycle \in Cycles /\ src.accepted = Sync[src.cycle].accepted
  BY <1>3 DEF SourceInLine
<1>5. a \in Nat /\ src.cycle \in Nat /\ A.mail \in [Cycles -> Seq(P)] /\ Cycles \subseteq Nat
  BY <1>1, <1>4, CyclesInHorizon DEF TypeInv, PortState
<1>6. /\ Head1 = Own(Sync[a - 1], a) /\ Gone(a) <= src.accepted
      /\ oq' = Run(Gone(a), src.accepted)
  BY SendsInLine
<1>7. SourceInLine'
  <2>1. Gone(a) = Sync[a].accepted - Len(Sync[a].oq)
    BY DEF Gone
  <2>2. (a + 1) - 1 = a /\ src.cycle <= a + 1
    BY <1>4, <1>5
  <2> HIDE DEF a
  <2>3. /\ src'.cycle = src.cycle /\ src'.phase = "send" /\ src'.ahead = a + 1
        /\ src'.accepted = src.accepted /\ A'.done = a
    BY <1>1
  <2>4. src'.ahead - 1 = a
    BY <2>2, <2>3
  <2> QED BY <1>2, <1>4, <1>6, <2>1, <2>2, <2>3, <2>4 DEF SourceInLine, Gone
<1>8. A'.mail = MailedAlso(A.mail, t) /\ A'.decision = A.decision
  BY <1>1
<1>9. FirstDecisions'
  BY <1>1, <1>2, <1>8 DEF FirstDecisions, Decided, IsReady
<1>10. \A d \in Cycles : d # a => A'.mail[d] = A.mail[d]
  <2> SUFFICES ASSUME NEW d \in Cycles, d # a PROVE A'.mail[d] = A.mail[d]
    OBVIOUS
  <2>1. \A k \in DOMAIN t : t[k].cycle # d
    <3>1. \A k \in DOMAIN Head1 : t[k] = [cycle |-> a, packet |-> Head1[k]]
      BY <1>1, <1>5, StampedProps
    <3>2. DOMAIN t = DOMAIN Head1
      BY <1>1, <1>5, StampedProps
    <3> HIDE DEF t
    <3> QED BY <3>1, <3>2
  <2> HIDE DEF t
  <2>2. MailedAlso(A.mail, t)[d] = A.mail[d]
    BY <1>1, <1>5, <2>1, MailStays
  <2> QED BY <1>8, <2>2
<1>11. A'.mail[a] = Sync[a].sent[a]
  <2>1. A.mail[a] = <<>>
    BY <1>1, <1>5 DEF FirstMail
  <2>2. StampedFor(t, a) = Head1
    BY <1>1, <1>5, StampedForCycle
  <2>3. A'.mail[a] = A.mail[a] \o StampedFor(t, a)
    BY <1>1, <1>8 DEF MailedAlso
  <2>4. <<>> \o Head1 = Head1
    BY <1>1, ConcatEmptySeq
  <2>5. Sync[a].sent[a] = Own(Sync[a - 1], a)
    BY <1>1, RecordsOf
  <2> QED BY <1>6, <2>1, <2>2, <2>3, <2>4, <2>5
<1>12. FirstMail'
  <2> SUFFICES ASSUME NEW d \in Cycles
               PROVE  /\ d >= src'.ahead => A'.mail[d] = <<>>
                      /\ d < src'.ahead /\ link.cycle <= d + Latency =>
                            A'.mail[d] = Sync[d].sent[d]
    BY <1>1, <1>2 DEF FirstMail
  <2>1. src'.ahead = a + 1 /\ d \in Nat
    BY <1>1, <1>5
  <2>2. CASE d = a
    BY <1>5, <1>11, <2>1, <2>2
  <2>3. CASE d # a
    <3>1. d >= a + 1 => d >= a
      BY <1>5, <2>1
    <3>2. d < a + 1 => d < a
      BY <1>5, <2>1, <2>3
    <3>3. A'.mail[d] = A.mail[d]
      BY <1>10, <2>3
    <3> QED BY <2>1, <3>1, <3>2, <3>3 DEF FirstMail
  <2> QED BY <2>2, <2>3
<1> QED BY <1>7, <1>9, <1>12

\* What the sink has decided of the link's cycle is what the execution says, although
\* the link may be many cycles before the sink (IsReady in Process of the link).
LEMMA AnswerInLine ==
    ASSUME TypeInv, StrandInv, Decides, SinkInLine, link.cycle \in Cycles,
           Decided(B, link.cycle)
    PROVE  IsReady(B, link.cycle) <=> link.cycle \in Sync[link.cycle - 1].readyB
<1> DEFINE c == link.cycle
           s == sink.cycle
<1>1. c \in Nat /\ c \in Horizon /\ s \in Nat /\ s <= c
  BY CyclesInHorizon DEF TypeInv, StrandInv
<1>2. s - 1 \in Cycles \union {-1} /\ c - 1 \in Cycles \union {-1} /\ s - 1 <= c - 1
  <2>1. c - 1 \in Cycles \union {-1}
    BY SyncIs
  <2>2. c <= LastCycle /\ LastCycle \in Nat
    BY FlowPathAssumption DEF Cycles
  <2> HIDE DEF c, s
  <2>3. s - 1 \in Cycles \union {-1}
    BY <1>1, <2>2 DEF Cycles
  <2> QED BY <1>1, <2>1, <2>3
<1>3. Granted(c) <=> c \in Sync[s - 1].readyB
  BY <1>1 DEF SinkInLine
<1>4. IsReady(B, c) <=> Granted(c)
  BY DEF IsReady, Granted
<1>5. CASE Granted(c)
  <2>1. Sync[s - 1].readyB \subseteq Sync[c - 1].readyB
    BY <1>2, RecordsStay
  <2> QED BY <1>3, <1>4, <1>5, <2>1
<1>6. CASE ~Granted(c)
  <2>1. Refused(c)
    BY <1>1, <1>6 DEF Decided, Granted, Refused, TypeInv, PortState
  <2>2. s = c
    BY <1>1, <2>1 DEF Decides, RefusesNext
  <2> QED BY <1>3, <1>4, <1>6, <2>2
<1> QED BY <1>5, <1>6

\* A link with nothing to send does not ask, and does the same either way
\* (Process of BufferlessLinkType).
LEMMA NothingAsked ==
    ASSUME kind # "buffered", link.handler.pending = <<>>, NEW c, NEW r \in BOOLEAN,
           NEW u \in BOOLEAN
    PROVE  Processed(link.handler, c, <<>>, r) = Processed(link.handler, c, <<>>, u)
<1> DEFINE h == link.handler
           offered == h.pending \o <<>>
<1>1. offered = <<>>
  <2>1. <<>> \o <<>> = <<>>
    BY EmptySeq, ConcatEmptySeq
  <2> QED BY <2>1
<1>2. ASSUME NEW x \in BOOLEAN
      PROVE  BufferlessProcess(h, c, <<>>, x) =
                [state |-> [h EXCEPT !.pending = SubSeq(offered, 1, 0)],
                 sent  |-> Stamped(c, SubSeq(offered, 1, Len(offered))),
                 readyNext |-> TRUE]
  <2>1. (IF x \/ h.pending \o <<>> = <<>> THEN 0 ELSE 1) = 0 /\ 0 + 1 = 1
    BY <1>1
  <2> HIDE DEF h
  <2> QED BY <2>1 DEF BufferlessProcess
<1> HIDE DEF offered, h
<1>3. BufferlessProcess(h, c, <<>>, r) = BufferlessProcess(h, c, <<>>, u)
  BY <1>2
<1> QED BY <1>3 DEF Processed, h

\* The link handles in its cycle what it handles in the execution.
LEMMA OutcomeInLine ==
    ASSUME TypeInv, StrandInv, SourceInLine, FirstMail, LinkInLine, Decides, SinkInLine,
           LinkTick
    PROVE  Outcome = Handled(Sync[link.cycle - 1], link.cycle)
<1> DEFINE c == link.cycle
           s == Sync[c - 1]
           h == link.handler
           in == Incoming(c)
           r == IsReady(B, c)
           u == c \in s.readyB
<1>1. /\ c \in Cycles /\ (Asks(c) => Decided(B, c)) /\ in \in Seq(P)
      /\ c >= Latency => c - Latency \in Cycles /\ Closed(A, c - Latency)
  BY LinkStep
<1>2. c \in Nat /\ Latency \in Nat \ {0}
  BY <1>1, CyclesInHorizon, LinkAssumption
<1>3. h = s.handler
  BY DEF LinkInLine
<1>4. in = Reaches(s, c)
  <2>1. CASE c < Latency
    BY <2>1 DEF Incoming, Reaches
  <2>2. CASE ~(c < Latency)
    <3> DEFINE d == c - Latency
    <3>1. d \in Cycles /\ d \in Nat /\ d <= c /\ Closed(A, d) /\ c <= d + Latency
      BY <1>1, <1>2, <2>2, CyclesInHorizon
    <3>2. d < src.ahead
      <4>1. A.done >= d /\ A.done = src.ahead - 1 /\ src.ahead \in Nat
        BY <3>1 DEF Closed, SourceInLine, TypeInv
      <4> HIDE DEF d
      <4> QED BY <3>1, <4>1
    <3>3. A.mail[d] = Sync[d].sent[d]
      BY <3>1, <3>2 DEF FirstMail
    <3>4. Sync[c].sent[d] = Sync[d].sent[d]
      <4> HIDE DEF c, d
      <4> QED BY <1>1, <3>1, RecordsStay
    <3>5. Sync[c].sent = SentBy(s, c)
      BY <1>1, SyncFields
    <3>6. in = A.mail[d] /\ Reaches(s, c) = SentBy(s, c)[d]
      BY <2>2 DEF Incoming, Reaches
    <3> QED BY <3>3, <3>4, <3>5, <3>6
  <2> QED BY <2>1, <2>2
<1>5. Outcome = Processed(h, c, in, r) /\ Handled(s, c) = Processed(h, c, in, u)
  BY <1>3, <1>4 DEF Outcome, Handled
<1>6. r \in BOOLEAN /\ u \in BOOLEAN
  BY DEF IsReady
<1>7. CASE Asks(c)
  <2>1. r <=> u
    BY <1>1, <1>7, AnswerInLine
  <2>2. r = u
    BY <1>6, <2>1
  <2> QED BY <1>5, <2>2
<1>8. CASE ~Asks(c)
  <2>1. kind # "buffered" /\ h.pending = <<>> /\ in = <<>>
    BY <1>8 DEF Asks
  <2>2. Processed(h, c, <<>>, r) = Processed(h, c, <<>>, u)
    <3> HIDE DEF c, in, r, u
    <3> QED BY <1>6, <2>1, NothingAsked
  <2> QED BY <1>5, <2>1, <2>2
<1> QED BY <1>7, <1>8

\* A bufferless link stamps what it sends with its cycle (Process of
\* BufferlessLinkType).
LEMMA BufferlessStamps ==
    ASSUME NEW S, NEW h \in BufferlessState(S), NEW c \in Nat,
           NEW in \in Seq(S), NEW ready \in BOOLEAN
    PROVE  \A j \in DOMAIN BufferlessProcess(h, c, in, ready).sent :
              BufferlessProcess(h, c, in, ready).sent[j].cycle = c
  BY BufferlessProps

\* Of the packets a link sends none is stamped with a cycle that the sink has
\* still to receive, but the ones of this cycle.
LEMMA StampsInLine ==
    ASSUME TypeInv, StrandInv, Decides, LinkTick,
           NEW e \in Cycles, sink.cycle <= e, e # link.cycle
    PROVE  \A j \in DOMAIN Outcome.sent : Outcome.sent[j].cycle # e
<1> SUFFICES ASSUME NEW j \in DOMAIN Outcome.sent, Outcome.sent[j].cycle = e PROVE FALSE
  OBVIOUS
<1> DEFINE c == link.cycle
<1>1. /\ c \in Cycles /\ (Asks(c) => Decided(B, c)) /\ Incoming(c) \in Seq(P)
      /\ IsReady(B, c) \in BOOLEAN /\ c \in Nat /\ c \in Horizon
  BY LinkStep, CyclesInHorizon DEF IsReady
<1>2. CASE kind # "buffered"
  <2> DEFINE h == link.handler
             in == Incoming(c)
             r == IsReady(B, c)
  <2>1. h \in BufferlessState(P)
    BY <1>2 DEF TypeInv, HandlerOK
  <2>2. Outcome = BufferlessProcess(h, c, in, r)
    BY <1>2 DEF Outcome, Processed
  <2> HIDE DEF h, in, r
  <2>3. Outcome.sent[j].cycle = c
    <3> HIDE DEF c
    <3>1. c \in Nat /\ in \in Seq(P) /\ r \in BOOLEAN
      BY <1>1 DEF in, r, c
    <3> DEFINE b == BufferlessProcess(h, c, in, r)
    <3>2. \A k \in DOMAIN b.sent : b.sent[k].cycle = c
      BY <2>1, <3>1, BufferlessStamps
    <3> HIDE DEF b
    <3>3. j \in DOMAIN b.sent
      BY <2>2 DEF b
    <3>4. b.sent[j].cycle = c
      BY <3>2, <3>3
    <3> QED BY <2>2, <3>4 DEF b
  <2> QED BY <2>2, <2>3
<1>3. CASE kind = "buffered"
  <2>1. Decided(B, c)
    BY <1>1, <1>3 DEF Asks
  <2>2. Outcome.sent[j].cycle < c /\ Refused(Outcome.sent[j].cycle)
    <3>1. Outcome.sent[j].cycle = c \/ Stale(Outcome.sent[j])
      BY LinkStamps DEF StrandInv
    <3> QED BY <3>1 DEF Stale
  <2>3. e < c /\ Refused(e)
    BY <2>2
  <2>4. SinkDecides
    <3>1. c < Frontier
      BY <1>1, <2>1 DEF Decides, Decided
    <3>2. Frontier \in Nat
      BY DEF Frontier, TypeInv
    <3>3. c <= Frontier
      BY <1>1, <3>1, <3>2
    <3> QED BY <3>3 DEF Decides, SinkDecides
  <2>5. e < sink.cycle
    <3>1. e \in Nat /\ RefusesNext
      BY CyclesInHorizon DEF Decides
    <3> QED BY <1>1, <2>1, <2>3, <2>4, <3>1, RefusedPast
  <2>6. e \in Nat /\ sink.cycle \in Nat
    BY CyclesInHorizon DEF TypeInv
  <2> QED BY <2>5, <2>6
<1> QED BY <1>2, <1>3

\* A cycle of the link keeps both ports and its own state in line.
LEMMA InLineAfterLink ==
    ASSUME TypeInv, StrandInv, InLine, LinkTick
    PROVE  InLine'
<1> DEFINE c == link.cycle
           s == Sync[c - 1]
           o == Handled(s, c)
<1>1. /\ c \in Cycles /\ c \in Nat /\ Latency \in Nat \ {0} /\ Cycles \subseteq Nat
      /\ Cycles \subseteq Horizon
      /\ c >= Latency => c - Latency \in Cycles
      /\ Outcome.sent \in Seq(Stamps(P)) /\ Outcome.readyNext \in BOOLEAN
      /\ link' = [cycle |-> c + 1, handler |-> Outcome.state]
      /\ A' = [done |-> A.done,
               decision |-> DecidedAlso(A.decision, {c + 1}, Outcome.readyNext),
               mail |-> Taken]
      /\ B' = [done |-> c, decision |-> B.decision, mail |-> MailedAlso(B.mail, Outcome.sent)]
      /\ UNCHANGED <<kind, inject, drain, src, oq, sink, iq>>
  BY LinkStep, CyclesInHorizon, LinkAssumption
<1>2. Sync' = Sync
  BY <1>1, SyncStays
<1>3. Outcome = o
  BY OutcomeInLine DEF InLine
<1>4. /\ A.decision \in [Horizon -> {"unset", "ready", "notReady"}]
      /\ A.mail \in [Cycles -> Seq(P)] /\ B.mail \in [Cycles -> Seq(P)]
  BY DEF TypeInv, PortState
<1>5. /\ link'.cycle = c + 1 /\ link'.handler = Outcome.state
      /\ A'.done = A.done /\ A'.mail = Taken
      /\ A'.decision = DecidedAlso(A.decision, {c + 1}, Outcome.readyNext)
      /\ B'.decision = B.decision /\ B'.mail = MailedAlso(B.mail, Outcome.sent)
  BY <1>1
<1>6. SourceInLine'
  BY <1>1, <1>2, <1>5 DEF InLine, SourceInLine, Gone
<1>7. LinkInLine'
  <2>1. Sync[c].handler = o.state
    BY <1>1, SyncFields
  <2>2. (c + 1) - 1 = c
    BY <1>1
  <2> HIDE DEF o, s
  <2> QED BY <1>2, <1>3, <1>5, <2>1, <2>2 DEF LinkInLine
<1>8. FirstMail'
  <2> SUFFICES ASSUME NEW d \in Cycles
               PROVE  /\ d >= src.ahead => A'.mail[d] = <<>>
                      /\ d < src.ahead /\ link'.cycle <= d + Latency =>
                            A'.mail[d] = Sync[d].sent[d]
    BY <1>1, <1>2 DEF FirstMail
  <2>1. A'.mail[d] = A.mail[d] \/ (A'.mail[d] = <<>> /\ c >= Latency /\ d = c - Latency)
    BY <1>1, <1>4, <1>5 DEF Taken
  <2>2. d >= src.ahead => A.mail[d] = <<>>
    BY DEF InLine, FirstMail
  <2>3. c + 1 <= d + Latency => c <= d + Latency /\ d # c - Latency
    BY <1>1
  <2>4. d < src.ahead /\ c <= d + Latency => A.mail[d] = Sync[d].sent[d]
    BY DEF InLine, FirstMail
  <2> QED BY <1>5, <2>1, <2>2, <2>3, <2>4
<1>9. FirstDecisions'
  <2>1. \A d \in Horizon :
          /\ A.decision[d] # "unset" => A'.decision[d] = A.decision[d]
          /\ A.decision[d] = "unset" /\ d \in {c + 1} =>
                A'.decision[d] = (IF Outcome.readyNext THEN "ready" ELSE "notReady")
          /\ d \notin {c + 1} => A'.decision[d] = A.decision[d]
    BY <1>1, <1>4, <1>5, DecisionsStay
  <2>2. ASSUME NEW d \in Cycles, A'.decision[d] # "unset"
        PROVE  A'.decision[d] = "ready" <=> Sync[d - 1].readyA
    <3>1. d \in Horizon /\ d \in Nat
      BY CyclesInHorizon
    <3>2. CASE A'.decision[d] = A.decision[d]
      BY <2>2, <3>2 DEF InLine, FirstDecisions, Decided, IsReady
    <3>3. CASE A'.decision[d] # A.decision[d]
      <4>1. d = c + 1 /\ A.decision[d] = "unset"
            /\ A'.decision[d] = IF Outcome.readyNext THEN "ready" ELSE "notReady"
        BY <2>1, <3>1, <3>3
      <4>2. d - 1 = c /\ Sync[c].readyA = (c < Latency \/ o.readyNext)
        <5>1. Sync[c].readyA = (c < Latency \/ o.readyNext)
          BY <1>1, SyncFields
        <5> QED BY <1>1, <4>1, <5>1
      <4>3. c < Latency => Outcome.readyNext
        <5>1. CASE kind = "buffered"
          <6>1. c < Latency => d <= Latency
            BY <1>1, <4>1
          <6>2. d <= Latency => A.decision[d] = "ready"
            BY <3>1, <5>1 DEF InLine, FirstDecisions, IsReady
          <6> QED BY <4>1, <6>1, <6>2
        <5>2. CASE kind # "buffered"
          BY <5>2 DEF Outcome, Processed, BufferlessProcess
        <5> QED BY <5>1, <5>2
      <4>4. Sync[d - 1].readyA <=> Outcome.readyNext
        <5> HIDE DEF o
        <5> QED BY <1>3, <4>2, <4>3
      <4> QED BY <4>1, <4>4
    <3> QED BY <3>2, <3>3
  <2>3. ASSUME kind = "buffered", NEW d \in Horizon, d <= Latency
        PROVE  A'.decision[d] = "ready"
    <3>1. A.decision[d] = "ready"
      BY <2>3 DEF InLine, FirstDecisions, IsReady
    <3> QED BY <2>1, <3>1
  <2> QED BY <1>1, <1>2, <2>2, <2>3 DEF FirstDecisions, Decided, IsReady
<1>10. SecondMail'
  <2> SUFFICES ASSUME NEW e \in Cycles, sink.cycle <= e, e < c + 1
               PROVE  B'.mail[e] = Sync[e].arrived[e]
    BY <1>1, <1>2, <1>5 DEF SecondMail
  <2>1. CASE e = c
    <3>1. B.mail[e] = <<>>
      BY <1>1, <2>1 DEF StrandInv
    <3>2. B'.mail[e] = B.mail[e] \o StampedFor(Outcome.sent, e)
      BY <1>5 DEF MailedAlso
    <3>3. StampedFor(Outcome.sent, e) \in Seq(P)
      BY <1>1, StampedForProps
    <3>4. B'.mail[e] = StampedFor(Outcome.sent, e)
      <4> DEFINE q == StampedFor(Outcome.sent, e)
      <4> HIDE DEF q
      <4>1. <<>> \o q = q
        BY <3>3, ConcatEmptySeq DEF q
      <4> QED BY <3>1, <3>2, <4>1 DEF q
    <3>5. Sync[c].arrived[c] = StampedFor(o.sent, c)
      BY <1>1, RecordsOf DEF Mail
    <3> HIDE DEF o
    <3> QED BY <1>3, <2>1, <3>4, <3>5
  <2>2. CASE e # c
    <3>1. \A j \in DOMAIN Outcome.sent : Outcome.sent[j].cycle # e
      BY <2>2, StampsInLine DEF InLine
    <3>2. B'.mail[e] = B.mail[e]
      <4> DEFINE packets == Outcome.sent
                 mail == B.mail
      <4>1. /\ mail \in [Cycles -> Seq(P)] /\ packets \in Seq(Stamps(P))
            /\ \A k \in DOMAIN packets : packets[k].cycle # e
        BY <1>1, <1>4, <3>1
      <4>2. B'.mail = MailedAlso(mail, packets)
        BY <1>5
      <4> HIDE DEF packets, mail
      <4>3. MailedAlso(mail, packets)[e] = mail[e]
        BY <4>1, MailStays
      <4> QED BY <4>2, <4>3 DEF mail
    <3>3. e < c
      BY <1>1, <2>2
    <3> QED BY <3>2, <3>3 DEF InLine, SecondMail
  <2> QED BY <2>1, <2>2
<1>11. Decides'
  BY <1>1, <1>5 DEF InLine, Decides, Frontier, Granted, RefusesNext, Refused
<1>12. SinkInLine'
  BY <1>1, <1>2, <1>5 DEF InLine, SinkInLine, Granted
<1> QED BY <1>6, <1>7, <1>8, <1>9, <1>10, <1>11, <1>12 DEF InLine

\* The sink receives in its cycle what arrives in the execution, in full: the link
\* has closed the cycle (Receive of the port).
LEMMA ReceivedInLine ==
    ASSUME TypeInv, StrandInv, SecondMail, SinkTick
    PROVE  B.mail[sink.cycle] = Mail(Sync[sink.cycle - 1], sink.cycle)
<1> DEFINE c == sink.cycle
<1>1. c \in Cycles /\ c \in Nat /\ Closed(B, c) /\ link.cycle \in Nat
  BY SinkStep, CyclesInHorizon DEF TypeInv
<1>2. c <= c /\ c < link.cycle
  BY <1>1 DEF Closed, StrandInv
<1>3. B.mail[c] = Sync[c].arrived[c]
  BY <1>1, <1>2 DEF SecondMail
<1> QED BY <1>1, <1>3, RecordsOf

\* What it receives is recorded, whatever becomes of the queue.
LEMMA ArrivedAfterSink ==
    ASSUME TypeInv, StrandInv, SecondMail, ArrivedInLine, SinkTick
    PROVE  ArrivedInLine'
<1> DEFINE c == sink.cycle
<1>1. /\ c \in Cycles /\ c \in Nat /\ arrived \in [Cycles -> Seq(P)]
      /\ arrived' = [arrived EXCEPT ![c] = B.mail[c]]
      /\ UNCHANGED <<kind, inject, drain>>
      /\ sink'.cycle = c \/ sink'.cycle = c + 1
  <2>1. arrived \in [Cycles -> Seq(P)]
    BY DEF TypeInv
  <2>2. c \in Cycles /\ c \in Nat
    BY SinkStep, CyclesInHorizon
  <2>3. sink'.cycle = c \/ sink'.cycle = c + 1
    BY SinkStep
  <2> QED BY SinkStep, <2>1, <2>2, <2>3
<1>2. Sync' = Sync
  BY <1>1, SyncStays
<1>3. B.mail[c] = Sync[c].arrived[c]
  BY <1>1, ReceivedInLine, RecordsOf
<1> SUFFICES ASSUME NEW d \in Cycles, d < sink'.cycle
             PROVE  arrived'[d] = Sync[d].arrived[d]
  BY <1>2 DEF ArrivedInLine
<1>4. d \in Nat
  BY CyclesInHorizon
<1>5. CASE d = c
  BY <1>1, <1>3, <1>5
<1>6. CASE d # c
  <2>1. d < c
    BY <1>1, <1>4, <1>6
  <2> QED BY <1>1, <1>6, <2>1 DEF ArrivedInLine
<1> QED BY <1>5, <1>6

\* The declaration of the sink extends its decisions without a gap; a refusal is of
\* the next cycle only (Tick of the input queue), for it never takes one back.
LEMMA DecidesAfterSink ==
    ASSUME TypeInv, Decides, SinkTick, fault' = "none"
    PROVE  Decides'
<1> DEFINE c == sink.cycle
           N == sink.nextUpdateCycle
           R == RemainReadyCycle(Stored)
           next == NextUpdateCycle(Stored, c, N)
           old == B.decision
           new == B'.decision
           D == Decl
<1>1. /\ c \in Cycles /\ Stored \in Seq(P) /\ Len(Stored) <= InCapacity
      /\ D.ready \in BOOLEAN /\ ~Contradicts(B, D.cycles, D.ready)
      /\ new = DecidedAlso(old, D.cycles, D.ready)
      /\ sink' = [cycle |-> c + 1, nextUpdateCycle |-> next]
  BY SinkStep
<1>2. sink'.cycle = c + 1 /\ sink'.nextUpdateCycle = next
  BY <1>1
<1>3. /\ c \in Nat /\ c + 1 \in Horizon /\ Horizon \subseteq Nat
      /\ 0 \in Horizon /\ 1 \in Horizon
  BY <1>1, FlowPathAssumption, QueuesAssumption, LinkAssumption DEF Cycles, Horizon
<1>4. N \in Nat /\ old \in [Horizon -> {"unset", "ready", "notReady"}]
  BY DEF TypeInv, PortState
<1>5. R \in Nat
  BY <1>1, RemainType
<1>6. \A d \in Horizon :
         /\ old[d] # "unset" => new[d] = old[d]
         /\ old[d] = "unset" /\ d \in D.cycles =>
               new[d] = (IF D.ready THEN "ready" ELSE "notReady")
         /\ d \notin D.cycles => new[d] = old[d]
  <2> HIDE DEF D, old, new
  <2> QED BY <1>1, <1>4, DecisionsStay
<1>7. \A d \in Horizon : old[d] # "unset" <=> d < Frontier
  BY DEF Decides
<1>8. /\ c = 0 => N = 0 /\ Frontier = 2
      /\ c > 0 => N >= c + 1 /\ Frontier = N
  BY <1>3, <1>4 DEF Decides, Frontier
<1>9. \A d \in Horizon : old[d] = "notReady" => d <= c
  BY <1>3 DEF Decides, RefusesNext, Refused
<1>10. old[0] = "ready" /\ old[1] = "ready"
  BY DEF Decides, Granted
<1>11. new[0] = "ready" /\ new[1] = "ready"
  BY <1>3, <1>6, <1>10
<1>12. CASE R = 0
  <2>1. D.cycles = {c + 1} /\ D.ready = FALSE
    BY <1>12 DEF Decl, Declared
  <2>2. old[c + 1] = "unset"
    <3>1. old[c + 1] # "unset" => old[c + 1] # "ready"
      BY <1>1, <2>1 DEF Contradicts, Decided, IsReady
    <3>2. old[c + 1] # "notReady"
      BY <1>3, <1>9
    <3> QED BY <1>3, <1>4, <3>1, <3>2
  <2>3. ~(c + 1 < Frontier)
    BY <1>3, <1>7, <2>2
  <2>4. c > 0 /\ N = c + 1 /\ Frontier = c + 1
    BY <1>3, <1>4, <1>8, <2>3
  <2>5. next = c + 2
    BY <1>12 DEF NextUpdateCycle
  <2>6. new[c + 1] = "notReady"
    BY <1>3, <1>6, <2>1, <2>2
  <2>7. \A d \in Horizon : d # c + 1 => new[d] = old[d]
    BY <1>6, <2>1
  <2> HIDE DEF new, old, next, c, N
  <2>8. \A d \in Horizon : new[d] # "unset" <=> d < c + 2
    <3> SUFFICES ASSUME NEW d \in Horizon PROVE new[d] # "unset" <=> d < c + 2
      OBVIOUS
    <3>1. CASE d = c + 1
      BY <1>3, <2>6, <3>1
    <3>2. CASE d # c + 1
      BY <1>3, <1>7, <2>4, <2>7, <3>2
    <3> QED BY <3>1, <3>2
  <2>9. \A d \in Horizon : new[d] = "notReady" =>
            d < c + 1 \/ (d = c + 1 /\ next = d + 1)
    BY <1>3, <1>9, <2>5, <2>7
  <2>10. Frontier' = c + 2
    BY <1>2, <1>3, <2>5 DEF Frontier
  <2>11. RefusesNext'
    BY <1>2, <2>9 DEF Refused, RefusesNext, new
  <2>12. \A d \in Horizon : B'.decision[d] # "unset" <=> d < Frontier'
    BY <2>8, <2>10 DEF new
  <2>13. sink'.cycle > 0 /\ sink'.cycle # 0 /\ sink'.nextUpdateCycle >= sink'.cycle + 1
    BY <1>2, <1>3, <2>5
  <2> QED BY <1>11, <2>11, <2>12, <2>13 DEF Decides, Granted, new
<1>13. CASE R # 0
  <2>1. D.cycles = N .. (c + R) /\ D.ready = TRUE
    BY <1>13 DEF Decl, Declared
  <2>2. next = IF N > c + R THEN N ELSE c + R + 1
    BY <1>13 DEF NextUpdateCycle
  <2> HIDE DEF R, new, old, next, c, N
  <2>3. next >= c + 2 /\ next \in Nat
    BY <1>3, <1>4, <1>5, <1>13, <2>2
  <2>4. Frontier' = next
    BY <1>2, <1>3, <2>3 DEF Frontier
  <2>5. \A d \in Horizon : new[d] # "unset" <=> d < next
    <3> SUFFICES ASSUME NEW d \in Horizon PROVE new[d] # "unset" <=> d < next
      OBVIOUS
    <3>1. d \in Nat /\ (d < next <=> (d < Frontier \/ d \in N .. (c + R)))
      <4>1. d \in Nat /\ c + R \in Nat /\ c + R >= c + 1
        BY <1>3, <1>5, <1>13
      <4>2. CASE c = 0
        BY <1>3, <1>4, <1>8, <2>2, <4>1, <4>2
      <4>3. CASE c > 0
        BY <1>3, <1>4, <1>8, <2>2, <4>1, <4>3
      <4> QED BY <1>3, <4>1, <4>2, <4>3
    <3>2. new[d] # "unset" <=> (old[d] # "unset" \/ d \in D.cycles)
      BY <1>6, <2>1
    <3> QED BY <1>7, <2>1, <3>1, <3>2
  <2>6. \A d \in Horizon : new[d] = "notReady" => d < c + 1
    <3>1. \A d \in Horizon : new[d] = "notReady" => old[d] = "notReady"
      BY <1>4, <1>6, <2>1
    <3> QED BY <1>3, <1>9, <3>1
  <2> QED BY <1>2, <1>3, <1>11, <2>3, <2>4, <2>5, <2>6
          DEF Decides, Granted, Refused, RefusesNext, new
<1> QED BY <1>12, <1>13

\* What the sink keeps and grants after its cycle is what it keeps and grants in the
\* execution.
LEMMA SinkAfterSink ==
    ASSUME TypeInv, StrandInv, SecondMail, SinkInLine, SinkTick, fault' = "none"
    PROVE  SinkInLine'
<1> DEFINE c == sink.cycle
           s == Sync[c - 1]
           old == B.decision
           new == B'.decision
           D == Decl
<1>1. /\ c \in Cycles /\ D.ready \in BOOLEAN /\ ~Contradicts(B, D.cycles, D.ready)
      /\ new = DecidedAlso(old, D.cycles, D.ready)
      /\ iq' = SubSeq(Stored, Freed + 1, Len(Stored))
      /\ sink' = [cycle |-> c + 1,
                  nextUpdateCycle |-> NextUpdateCycle(Stored, c, sink.nextUpdateCycle)]
      /\ UNCHANGED <<kind, inject, drain>>
  BY SinkStep
<1>2. Sync' = Sync
  BY <1>1, SyncStays
<1>3. /\ sink'.cycle = c + 1
      /\ sink'.nextUpdateCycle = NextUpdateCycle(Stored, c, sink.nextUpdateCycle)
  BY <1>1
<1>4. iq = s.iq /\ sink.nextUpdateCycle = s.nextUpdateCycle
  BY DEF SinkInLine
<1>5. Stored = Holds(s, c) /\ D = Says(s, c)
  <2>1. B.mail[c] = Mail(s, c)
    BY ReceivedInLine
  <2> HIDE DEF s, c
  <2>2. Stored = Holds(s, c)
    BY <1>4, <2>1 DEF Stored, Holds, c
  <2>3. Decl = Says(s, c)
    BY <1>4, <2>2 DEF Decl, Says, c
  <2> QED BY <2>2, <2>3
<1>6. iq' = Sync[c].iq
  <2>1. Sync[c].iq = SubSeq(Holds(s, c), Least(drain[c], Len(Holds(s, c))) + 1,
                            Len(Holds(s, c)))
    BY <1>1, SyncFields
  <2>2. Freed = Least(drain[c], Len(Holds(s, c)))
    BY <1>5 DEF Freed
  <2> HIDE DEF s, c
  <2> QED BY <1>1, <1>5, <2>1, <2>2
<1>7. sink'.nextUpdateCycle = Sync[c].nextUpdateCycle
  <2>1. Sync[c].nextUpdateCycle = NextUpdateCycle(Holds(s, c), c, s.nextUpdateCycle)
    BY <1>1, SyncFields
  <2> HIDE DEF s, c
  <2> QED BY <1>3, <1>4, <1>5, <2>1 DEF c
<1>8. Sync[c].readyB = s.readyB \union (IF D.ready THEN D.cycles ELSE {})
  <2>1. Sync[c].readyB = s.readyB \union
                            (IF Says(s, c).ready THEN Says(s, c).cycles ELSE {})
    BY <1>1, SyncFields
  <2> HIDE DEF s, c, D
  <2> QED BY <1>5, <2>1
<1>9. ASSUME NEW e \in Horizon
      PROVE  new[e] = "ready" <=> e \in Sync[c].readyB
  <2>1. old \in [Horizon -> {"unset", "ready", "notReady"}]
    BY DEF TypeInv, PortState
  <2>2. old[e] = "ready" <=> e \in s.readyB
    BY DEF SinkInLine, Granted
  <2>3. e \in D.cycles /\ old[e] # "unset" => (old[e] = "ready" <=> D.ready)
    BY <1>1 DEF Contradicts, Decided, IsReady
  <2> HIDE DEF D, old, new, s
  <2>4. /\ old[e] # "unset" => new[e] = old[e]
        /\ old[e] = "unset" /\ e \in D.cycles =>
              new[e] = (IF D.ready THEN "ready" ELSE "notReady")
        /\ e \notin D.cycles => new[e] = old[e]
    BY <1>1, <2>1, DecisionsStay
  <2>5. CASE e \notin D.cycles
    BY <1>8, <2>2, <2>4, <2>5
  <2>6. CASE e \in D.cycles
    <3>1. new[e] = "ready" <=> D.ready
      BY <1>1, <2>1, <2>3, <2>4, <2>6
    <3>2. e \in s.readyB => D.ready
      BY <2>2, <2>3, <2>6
    <3>3. e \in Sync[c].readyB <=> D.ready
      BY <1>8, <2>6, <3>2
    <3> QED BY <3>1, <3>3
  <2> QED BY <2>5, <2>6
<1>10. sink'.cycle - 1 = c
  <2>1. c \in Nat
    BY <1>1, CyclesInHorizon
  <2> HIDE DEF c
  <2> QED BY <1>3, <2>1 DEF c
<1>11. iq' = Sync[sink'.cycle - 1].iq
       /\ sink'.nextUpdateCycle = Sync[sink'.cycle - 1].nextUpdateCycle
  BY <1>6, <1>7, <1>10
<1>12. \A e \in Horizon : B'.decision[e] = "ready" <=> e \in Sync[sink'.cycle - 1].readyB
  BY <1>9, <1>10
<1> QED BY <1>2, <1>11, <1>12 DEF SinkInLine, Granted

\* A cycle of the sink that does not fail keeps everything in line.
LEMMA InLineAfterSink ==
    ASSUME TypeInv, StrandInv, InLine, SinkTick, fault' = "none"
    PROVE  InLine'
<1> DEFINE c == sink.cycle
<1>1. /\ c \in Cycles /\ B.mail \in [Cycles -> Seq(P)]
      /\ B'.mail = Blank(B.mail, c)
      /\ sink' = [cycle |-> c + 1,
                  nextUpdateCycle |-> NextUpdateCycle(Stored, c, sink.nextUpdateCycle)]
      /\ UNCHANGED <<kind, inject, drain, src, oq, link, A>>
  <2>1. B.mail \in [Cycles -> Seq(P)]
    BY DEF TypeInv, PortState
  <2> QED BY <2>1, SinkStep
<1>2. Sync' = Sync
  BY <1>1, SyncStays
<1>3. c \in Nat /\ sink'.cycle = c + 1
  BY <1>1, CyclesInHorizon
<1>4. SourceInLine'
  BY <1>1, <1>2 DEF InLine, SourceInLine, Gone
<1>5. FirstMail' /\ FirstDecisions'
  BY <1>1, <1>2 DEF InLine, FirstMail, FirstDecisions, Decided, IsReady
<1>6. LinkInLine'
  BY <1>1, <1>2 DEF InLine, LinkInLine
<1>7. SecondMail'
  <2> SUFFICES ASSUME NEW e \in Cycles, c + 1 <= e, e < link.cycle
               PROVE  B'.mail[e] = Sync[e].arrived[e]
    BY <1>1, <1>2, <1>3 DEF SecondMail
  <2>1. c <= e /\ e # c
    BY <1>3, CyclesInHorizon
  <2>2. B'.mail[e] = B.mail[e]
    BY <1>1, <2>1 DEF Blank
  <2> QED BY <2>1, <2>2 DEF InLine, SecondMail
<1>8. Decides'
  BY DecidesAfterSink DEF InLine
<1>9. SinkInLine'
  BY SinkAfterSink DEF InLine
<1> QED BY <1>4, <1>5, <1>6, <1>7, <1>8, <1>9 DEF InLine

-----------------------------------------------------------------------------
(* The invariant.                                                          *)

\* Before the first cycle everything is in line.
LEMMA LockInit == Init => LockInv
<1> SUFFICES ASSUME Init, RoomForAll PROVE ArrivedInLine /\ InLine
  BY DEF LockInv
<1>1. /\ src.cycle = 0 /\ src.phase = "process" /\ src.ahead = 0 /\ src.accepted = 0
      /\ oq = <<>> /\ iq = <<>>
      /\ link.cycle = 0
      /\ link.handler = (IF kind = "buffered" THEN BufferedInit ELSE BufferlessInit)
      /\ sink.cycle = 0 /\ sink.nextUpdateCycle = 0
      /\ A.done = -1 /\ \A d \in Cycles : A.mail[d] = <<>>
      /\ A.decision = [d \in Horizon |->
            IF d \in (IF kind = "buffered" THEN 0 .. Latency ELSE {0}) THEN "ready"
            ELSE "unset"]
      /\ B.decision = [d \in Horizon |-> IF d \in {0, 1} THEN "ready" ELSE "unset"]
  BY DEF Init, NewPort
<1>2. /\ Cycles \subseteq Horizon /\ Cycles \subseteq Nat /\ Horizon \subseteq Nat
      /\ 0 \in Horizon /\ 1 \in Horizon /\ Latency \in Nat
  BY CyclesInHorizon, FlowPathAssumption, QueuesAssumption, LinkAssumption DEF Horizon
<1>3. ArrivedInLine
  BY <1>1, <1>2 DEF ArrivedInLine
<1>4. SourceInLine
  <2>1. Gone(-1) = 0
    <3> DEFINE x == Sync[-1].accepted
               y == Len(Sync[-1].oq)
    <3>1. Sync[-1].oq = <<>> /\ Len(<<>>) = 0
      BY SyncStart, EmptySeq
    <3>2. Gone(-1) = x - y /\ x = 0 /\ y = 0
      BY <3>1, SyncStart DEF Gone
    <3> HIDE DEF x, y
    <3> QED BY <3>2
  <2>2. Run(0, 0) = <<>>
    <3>1. Run(0, 0) \in Seq(Nat) /\ Len(Run(0, 0)) = 0
      BY RunProps
    <3> QED BY <3>1, EmptySeq
  <2>3. 0 - 1 = -1 /\ src.ahead - 1 = -1 /\ src.cycle - 1 = -1
    BY <1>1
  <2>4. Gone(src.ahead - 1) = 0
    BY <2>1, <2>3
  <2>5. src.accepted = Sync[src.cycle - 1].accepted
    BY <1>1, <2>3, SyncStart
  <2> QED BY <1>1, <2>2, <2>3, <2>4, <2>5 DEF SourceInLine
<1>5. FirstMail
  BY <1>1, <1>2 DEF FirstMail
<1>6. FirstDecisions
  <2>1. \A d \in Horizon : A.decision[d] \in {"unset", "ready"}
    BY <1>1
  <2>2. ASSUME NEW d \in Cycles, A.decision[d] # "unset"
        PROVE  A.decision[d] = "ready" <=> Sync[d - 1].readyA
    <3>1. d \in Horizon /\ d \in Nat /\ A.decision[d] = "ready"
      BY <1>2, <2>1, <2>2
    <3>2. CASE d = 0
      <4>1. d - 1 = -1
        BY <3>2
      <4>2. Sync[-1].readyA
        BY SyncStart
      <4> QED BY <3>1, <4>1, <4>2
    <3>3. CASE d # 0
      <4>1. kind = "buffered" /\ d <= Latency
        BY <1>1, <1>2, <2>2, <3>1, <3>3
      <4>2. d - 1 \in Cycles /\ d - 1 < Latency
        BY <1>2, <3>1, <3>3, <4>1, FlowPathAssumption DEF Cycles
      <4>3. Sync[d - 1].readyA
        BY <4>2, SyncFields
      <4> QED BY <3>1, <4>3
    <3> QED BY <3>2, <3>3
  <2>3. ASSUME kind = "buffered", NEW d \in Horizon, d <= Latency
        PROVE  A.decision[d] = "ready"
    BY <1>1, <1>2, <2>3
  <2> QED BY <2>2, <2>3 DEF FirstDecisions, Decided, IsReady
<1>7. LinkInLine
  <2>1. link.cycle - 1 = -1
    BY <1>1
  <2> QED BY <1>1, <2>1, SyncStart DEF LinkInLine
<1>8. SecondMail
  BY <1>1, <1>2 DEF SecondMail
<1>9. Decides
  <2>1. Frontier = 2
    BY <1>1 DEF Frontier
  <2>2. \A d \in Horizon : d \in {0, 1} <=> d < 2
    BY <1>2
  <2>3. \A d \in Horizon : B.decision[d] # "unset" <=> d \in {0, 1}
    BY <1>1
  <2>4. \A d \in Horizon : B.decision[d] # "notReady"
    BY <1>1
  <2>5. B.decision[0] = "ready" /\ B.decision[1] = "ready"
    BY <1>1, <1>2
  <2>6. \A d \in Horizon : B.decision[d] # "unset" <=> d < Frontier
    BY <2>1, <2>2, <2>3
  <2> QED BY <1>1, <2>4, <2>5, <2>6 DEF Decides, Granted, RefusesNext, Refused
<1>10. SinkInLine
  <2>1. sink.cycle - 1 = -1
    BY <1>1
  <2>2. \A d \in Horizon : B.decision[d] = "ready" <=> d \in {0, 1}
    BY <1>1
  <2> QED BY <1>1, <2>1, <2>2, SyncStart DEF SinkInLine, Granted
<1> QED BY <1>3, <1>4, <1>5, <1>6, <1>7, <1>8, <1>9, <1>10 DEF InLine

\* The next cycle of the source starts only when its queue has been ticked for this
\* one (the for loop of tickOutputQueues).
LEMMA InLineAfterNext ==
    ASSUME TypeInv, InLine, SourceNext
    PROVE  InLine'
<1>1. /\ src.phase = "send" /\ src.ahead > src.cycle
      /\ src.cycle \in Nat /\ src.ahead \in Nat
      /\ src'.cycle = src.cycle + 1 /\ src'.phase = "process"
      /\ src'.ahead = src.ahead /\ src'.accepted = src.accepted
      /\ UNCHANGED <<kind, inject, drain, oq, link, sink, iq, A, B>>
  BY DEF SourceNext, TypeInv
<1>2. Sync' = Sync
  BY <1>1, SyncStays
<1>3. SourceInLine'
  <2>1. src'.cycle <= src'.ahead /\ src'.cycle - 1 = src.cycle
    BY <1>1
  <2>2. src'.accepted = Sync[src'.cycle - 1].accepted
    BY <1>1, <2>1 DEF InLine, SourceInLine
  <2> QED BY <1>1, <1>2, <2>1, <2>2 DEF InLine, SourceInLine, Gone
<1>4. FirstMail' /\ FirstDecisions' /\ LinkInLine' /\ SecondMail' /\ SinkInLine'
  BY <1>1, <1>2 DEF InLine, FirstMail, FirstDecisions, LinkInLine, SecondMail, SinkInLine,
                    Decided, IsReady, Granted
<1>5. Decides'
  BY <1>1 DEF InLine, Decides, Frontier, Granted, RefusesNext, Refused
<1> QED BY <1>3, <1>4, <1>5 DEF InLine

\* A step that changes only the source and the first port leaves the others in line.
LEMMA OthersStayInLine ==
    ASSUME InLine, UNCHANGED <<kind, inject, drain, link, sink, iq, B>>
    PROVE  LinkInLine' /\ SecondMail' /\ Decides' /\ SinkInLine'
<1>1. Sync' = Sync
  BY SyncStays
<1> QED BY <1>1 DEF InLine, LinkInLine, SecondMail, SinkInLine, Decides, Frontier, Granted,
                    RefusesNext, Refused

\* Every step keeps the components in line with the execution.
LEMMA LockKept ==
    ASSUME TypeInv, StrandInv, LockInv, [Next]_vars
    PROVE  LockInv'
<1>1. UNCHANGED <<kind, inject, drain>>
  BY DEF Next, Source, SourceProcess, SourceSend, SourceNext, AdvanceTo, LinkTick, SinkTick,
         Finished, vars
<1>2. Sync' = Sync
  BY <1>1, SyncStays
<1>3. RoomForAll' => RoomForAll
  BY <1>1, <1>2 DEF RoomForAll
<1>4. SUFFICES ASSUME RoomForAll PROVE ArrivedInLine' /\ (fault' = "none" => InLine')
  BY <1>3 DEF LockInv
<1>5. ArrivedInLine /\ (fault = "none" => InLine)
  BY <1>4 DEF LockInv
<1>6. UNCHANGED <<arrived, sink>> => ArrivedInLine'
  BY <1>2, <1>5 DEF ArrivedInLine
<1>7. CASE AdvanceTo \/ Finished \/ UNCHANGED vars
  <2>1. UNCHANGED <<kind, inject, drain, src, oq, link, sink, iq, A, B, arrived, fault>>
    BY <1>7 DEF AdvanceTo, Finished, vars
  <2>2. ASSUME InLine PROVE InLine'
    <3>1. SourceInLine' /\ FirstMail' /\ FirstDecisions'
      BY <1>2, <2>1, <2>2 DEF InLine, SourceInLine, FirstMail, FirstDecisions, Gone, Decided,
                              IsReady
    <3>2. LinkInLine' /\ SecondMail' /\ Decides' /\ SinkInLine'
      BY <2>1, <2>2, OthersStayInLine
    <3> QED BY <3>1, <3>2 DEF InLine
  <2> QED BY <1>5, <1>6, <2>1, <2>2
<1>8. CASE SourceProcess
  <2>1. UNCHANGED <<kind, inject, drain, link, sink, iq, A, B, arrived, fault>>
    BY <1>8 DEF SourceProcess
  <2>2. ASSUME InLine PROVE InLine'
    <3>1. SourceInLine' /\ FirstMail'
      BY <1>4, <1>8, <2>2, InLineAfterProcess DEF InLine
    <3>2. FirstDecisions'
      BY <1>2, <2>1, <2>2 DEF InLine, FirstDecisions, Decided, IsReady
    <3>3. LinkInLine' /\ SecondMail' /\ Decides' /\ SinkInLine'
      BY <2>1, <2>2, OthersStayInLine
    <3> QED BY <3>1, <3>2, <3>3 DEF InLine
  <2> QED BY <1>5, <1>6, <2>1, <2>2
<1>9. CASE SourceSend
  <2>1. UNCHANGED <<kind, inject, drain, link, sink, iq, B, arrived, fault>>
    BY <1>9 DEF SourceSend
  <2>2. ASSUME InLine PROVE InLine'
    <3>1. SourceInLine' /\ FirstMail' /\ FirstDecisions'
      BY <1>4, <1>9, <2>2, InLineAfterSend DEF InLine
    <3>2. LinkInLine' /\ SecondMail' /\ Decides' /\ SinkInLine'
      BY <2>1, <2>2, OthersStayInLine
    <3> QED BY <3>1, <3>2 DEF InLine
  <2> QED BY <1>5, <1>6, <2>1, <2>2
<1>10. CASE SourceNext
  <2>1. UNCHANGED <<sink, arrived, fault>>
    BY <1>10 DEF SourceNext
  <2> QED BY <1>5, <1>6, <1>10, <2>1, InLineAfterNext
<1>11. CASE LinkTick
  <2>1. UNCHANGED <<sink, arrived>>
    BY <1>11 DEF LinkTick
  <2>2. fault' = "none" => fault = "none"
    BY <1>11, LinkStep
  <2> QED BY <1>5, <1>6, <1>11, <2>1, <2>2, InLineAfterLink
<1>12. CASE SinkTick
  <2>1. fault = "none"
    BY <1>12 DEF SinkTick
  <2>2. InLine /\ SecondMail
    BY <1>5, <2>1 DEF InLine
  <2> QED BY <1>5, <1>12, <2>2, ArrivedAfterSink, InLineAfterSink
<1> QED BY <1>7, <1>8, <1>9, <1>10, <1>11, <1>12 DEF Next, Source

\* When the sink has finished the last cycle, it has received what the execution
\* gives it.
LEMMA InLineMeansDeterministic ==
    ASSUME TypeInv, LockInv, RoomForAll
    PROVE  Deterministic
<1> SUFFICES ASSUME sink.cycle = LastCycle + 1 PROVE arrived = Sync[LastCycle].arrived
  BY DEF Deterministic
<1>1. LastCycle \in Nat /\ LastCycle \in Cycles
  BY FlowPathAssumption DEF Cycles
<1>2. arrived = [c \in Cycles |-> arrived[c]]
  BY DEF TypeInv
<1>3. DOMAIN Sync[LastCycle].arrived = Cycles
  BY <1>1, Recorded
<1>4. ASSUME NEW c \in Cycles
      PROVE  arrived[c] = Sync[LastCycle].arrived[c]
  <2>1. c <= LastCycle /\ c < sink.cycle
    BY <1>1 DEF Cycles
  <2>2. arrived[c] = Sync[c].arrived[c]
    BY <2>1 DEF LockInv, ArrivedInLine
  <2>3. Sync[LastCycle].arrived[c] = Sync[c].arrived[c]
    BY <1>1, <2>1, RecordsStay
  <2> QED BY <2>2, <2>3
<1>5. Sync[LastCycle].arrived = [c \in Cycles |-> Sync[LastCycle].arrived[c]]
  <2> DEFINE f == Sync[LastCycle].arrived
             g == Sync[LastCycle - 1].arrived
             m == Mail(Sync[LastCycle - 1], LastCycle)
  <2>1. f = [g EXCEPT ![LastCycle] = m]
    BY <1>1, SyncFields
  <2>2. DOMAIN f = Cycles
    BY <1>3
  <2> HIDE DEF f, g, m
  <2>3. f = [c \in Cycles |-> f[c]]
    BY <2>1, <2>2
  <2> QED BY <2>3 DEF f
<1> QED BY <1>2, <1>4, <1>5

\* Whatever the order in which the goroutines run, however AdvanceTo divides the run
\* and however far ahead tickOutputQueues gets, the sink receives in every cycle what
\* the lock-step execution gives it, when no burst finds the output queue full in that
\* execution.
THEOREM RunsDeterministic == Spec => [](RoomForAll => Deterministic)
<1>1. Init => LockInv
  BY LockInit
<1>2. TypeInv /\ StrandInv /\ LockInv /\ [Next]_vars => LockInv'
  BY LockKept
<1>3. TypeInv /\ LockInv => (RoomForAll => Deterministic)
  BY InLineMeansDeterministic
<1> QED BY <1>1, <1>2, <1>3, TypesHold, StrandHolds, PTL DEF Spec
=============================================================================
