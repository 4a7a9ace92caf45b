-------------------------- MODULE AheadPortProofs --------------------------
(***************************************************************************)
(* The safety of AheadPort for every number of cycles, every capacity of   *)
(* the channel and every number of packets per cycle.                      *)
(***************************************************************************)
EXTENDS AheadPort, FiniteSetTheorems, TLAPS

\* Where the two goroutines are in their cycles.
Places ==
    /\ (asking \/ pcS = "push") => done < LastCycle
    /\ IF pcR = "end" THEN rCycle = LastCycle + 1 ELSE rCycle <= LastCycle
    /\ waited <=> pcR \in {"finalDrain", "process"}
    /\ waited => rCycle <= done

\* Receive has returned for cycle c.
Collected(c) == c < rCycle \/ (c = rCycle /\ pcR = "process")

\* A collected cycle is closed and none of its packets is still in the channel;
\* of any other cycle the cache holds what has left the channel.
Cached ==
    \A c \in Cycles :
        /\ Collected(c) =>
               /\ c <= done
               /\ \A n \in DOMAIN tag : tag[n] = c => n <= drained
               /\ received[c] = SentFor(c)
               /\ pendingPackets[c] = {}
        /\ ~ Collected(c) =>
               pendingPackets[c] = {n \in DOMAIN tag : n <= drained /\ tag[n] = c}

PortInv == TypeOK /\ Places /\ Cached

-----------------------------------------------------------------------------
\* The state in which a port is created satisfies the invariant.
LEMMA PortInit == Init => PortInv
<1> SUFFICES ASSUME Init PROVE PortInv
  OBVIOUS
<1> USE PortAssumption DEF Init, H!Init, Cycles
<1>1. TypeOK
  BY DEF TypeOK
<1>2. Places
  BY DEF Places
<1>3. Cached
  BY DEF Cached, Collected
<1> QED
  BY <1>1, <1>2, <1>3 DEF PortInv

\* What Append does to the packets that were there and to the new one.
LEMMA PushedTag ==
    ASSUME TypeOK, Places, Push
    PROVE  /\ tag' \in Seq(Cycles)
           /\ Len(tag') = Len(tag) + 1
           /\ DOMAIN tag' = DOMAIN tag \union {Len(tag) + 1}
           /\ \A n \in DOMAIN tag : tag'[n] = tag[n]
           /\ tag'[Len(tag) + 1] = done + 1
<1>1. done + 1 \in Cycles
  BY PortAssumption DEF TypeOK, Places, Push, Cycles
<1>2. tag' = Append(tag, done + 1)
  BY DEF Push
<1> QED
  BY <1>1, <1>2 DEF TypeOK

\* The packet that leaves the channel is one that was sent.
LEMMA TakenTag ==
    ASSUME TypeOK, Channel # {}
    PROVE  /\ drained + 1 \in DOMAIN tag
           /\ tag[drained + 1] \in Cycles
<1>1. drained + 1 \in DOMAIN tag
  BY DEF TypeOK, Channel
<1> QED
  BY <1>1 DEF TypeOK

\* Every step keeps the types.
LEMMA TypeStep == TypeOK /\ Places /\ [Next]_vars => TypeOK'
<1> SUFFICES ASSUME TypeOK, Places, [Next]_vars PROVE TypeOK'
  OBVIOUS
<1> USE PortAssumption
<1>1. CASE CallTrySend
  BY <1>1 DEF TypeOK, Cycles, CallTrySend, H!Ask
<1>2. CASE IsReadyReturns
  BY <1>2 DEF TypeOK, Cycles, IsReadyReturns, H!Answer
<1>3. CASE Push
  <2>1. /\ DOMAIN tag \subseteq DOMAIN tag'
        /\ tag' \in Seq(Cycles) /\ Len(tag') = Len(tag) + 1
    BY <1>3, PushedTag
  <2>2. /\ pendingPackets' \in [Cycles -> SUBSET DOMAIN tag']
        /\ received' \in [Cycles -> SUBSET DOMAIN tag']
    BY <1>3, <2>1 DEF TypeOK, Push
  <2> QED
    BY <1>3, <2>1, <2>2 DEF TypeOK, Push, hVars
<1>4. CASE MarkDone
  BY <1>4 DEF TypeOK, Cycles, MarkDone, H!MarkDone
<1>5. CASE Drain
  <2>1. drained + 1 \in DOMAIN tag /\ tag[drained + 1] \in Cycles
    BY <1>5, TakenTag DEF Drain
  <2> QED
    BY <1>5, <2>1 DEF TypeOK, Cycles, Drain, Take, hVars
<1>6. CASE DrainedOnce
  BY <1>6 DEF TypeOK, Cycles, DrainedOnce, hVars
<1>7. CASE WaitDone
  BY <1>7 DEF TypeOK, Cycles, WaitDone, H!WaitReturns
<1>8. CASE Collect
  BY <1>8 DEF TypeOK, Places, Cycles, Collect, hVars
<1>9. CASE UpdateReady
  BY <1>9 DEF TypeOK, Cycles, UpdateReady, H!Declare
<1>10. CASE NextCycle
  <2>a. LastCycle \in Nat /\ rCycle \in Nat /\ rCycle <= LastCycle
    BY <1>10 DEF TypeOK, Places, NextCycle
  <2>b. rCycle' = rCycle + 1 /\ waited' = FALSE
    BY <1>10 DEF NextCycle, H!Proceed
  <2>1. rCycle' \in 0 .. (LastCycle + 1)
    BY <2>a, <2>b
  <2>4. waited' \in BOOLEAN
    BY <2>b
  <2>2. pcR' \in {"drain", "end"}
    BY <1>10 DEF NextCycle
  <2>3. UNCHANGED <<done, asking, answer, tag, drained, pendingPackets, received, pcS>>
    BY <1>10 DEF NextCycle, H!Proceed
  <2> QED
    BY <2>1, <2>2, <2>3, <2>4 DEF TypeOK, Cycles
<1>11. CASE UNCHANGED vars
  BY <1>11 DEF TypeOK, Cycles, vars, hVars
<1> QED
  BY <1>1, <1>2, <1>3, <1>4, <1>5, <1>6, <1>7, <1>8, <1>9, <1>10, <1>11
     DEF Next, Upstream, Downstream, Receive, Finished

\* Every step keeps the goroutines in their cycles.
LEMMA PlacesStep == TypeOK /\ Places /\ [Next]_vars => Places'
<1> SUFFICES ASSUME TypeOK, Places, [Next]_vars PROVE Places'
  OBVIOUS
<1> USE PortAssumption DEF TypeOK, Places
<1>1. CASE CallTrySend
  BY <1>1 DEF CallTrySend, H!Ask
<1>2. CASE IsReadyReturns
  BY <1>2 DEF IsReadyReturns, H!Answer
<1>3. CASE Push
  BY <1>3 DEF Push, hVars
<1>4. CASE MarkDone
  BY <1>4 DEF MarkDone, H!MarkDone
<1>5. CASE Drain
  BY <1>5 DEF Drain, Take, hVars
<1>6. CASE DrainedOnce
  BY <1>6 DEF DrainedOnce, hVars
<1>7. CASE WaitDone
  BY <1>7 DEF WaitDone, H!WaitReturns
<1>8. CASE Collect
  BY <1>8 DEF Collect, hVars
<1>9. CASE UpdateReady
  BY <1>9 DEF UpdateReady, H!Declare
<1>10. CASE NextCycle
  BY <1>10 DEF NextCycle, H!Proceed
<1>11. CASE UNCHANGED vars
  BY <1>11 DEF vars, hVars
<1> QED
  BY <1>1, <1>2, <1>3, <1>4, <1>5, <1>6, <1>7, <1>8, <1>9, <1>10, <1>11
     DEF Next, Upstream, Downstream, Receive, Finished

-----------------------------------------------------------------------------
\* A push reaches no cycle that was collected: those are closed.
LEMMA CachedPush ==
    ASSUME TypeOK, Places, Cached, Push
    PROVE  Cached'
<1> USE DEF Collected
<1> SUFFICES ASSUME NEW c \in Cycles
             PROVE  /\ Collected(c)' =>
                           /\ c <= done'
                           /\ \A n \in DOMAIN tag' : tag'[n] = c => n <= drained'
                           /\ received'[c] = SentFor(c)'
                           /\ pendingPackets'[c] = {}
                    /\ ~ Collected(c)' =>
                           pendingPackets'[c] =
                               {n \in DOMAIN tag' : n <= drained' /\ tag'[n] = c}
  BY DEF Cached, Cycles
<1>1. UNCHANGED <<done, rCycle, pcR, drained, pendingPackets, received>>
  BY DEF Push, hVars
<1>2. /\ DOMAIN tag' = DOMAIN tag \union {Len(tag) + 1}
      /\ \A n \in DOMAIN tag : tag'[n] = tag[n]
      /\ tag'[Len(tag) + 1] = done + 1
  BY PushedTag
<1>3. drained <= Len(tag) /\ drained \in Nat /\ Len(tag) \in Nat /\ done \in Int /\ c \in Int
  BY DEF TypeOK, Cycles
<1>4. CASE Collected(c)
  <2>1. c <= done /\ received[c] = SentFor(c) /\ pendingPackets[c] = {}
    BY <1>4 DEF Cached
  <2>2. \A n \in DOMAIN tag : tag[n] = c => n <= drained
    BY <1>4 DEF Cached
  <2>3. tag'[Len(tag) + 1] # c
    BY <1>2, <1>3, <2>1
  <2>4. SentFor(c)' = SentFor(c)
    BY <1>2, <2>3 DEF SentFor
  <2> QED
    BY <1>1, <1>2, <1>4, <2>1, <2>2, <2>3, <2>4
<1>5. CASE ~ Collected(c)
  <2>1. pendingPackets[c] = {n \in DOMAIN tag : n <= drained /\ tag[n] = c}
    BY <1>5 DEF Cached
  <2>2. {n \in DOMAIN tag' : n <= drained' /\ tag'[n] = c} =
        {n \in DOMAIN tag : n <= drained /\ tag[n] = c}
    BY <1>1, <1>2, <1>3
  <2> QED
    BY <1>1, <1>5, <2>1, <2>2
<1> QED
  BY <1>4, <1>5

\* A packet that leaves the channel belongs to a cycle not yet collected.
LEMMA CachedDrain ==
    ASSUME TypeOK, Places, Cached, Drain
    PROVE  Cached'
<1> DEFINE k == drained + 1
<1> USE DEF Collected
<1> SUFFICES ASSUME NEW c \in Cycles
             PROVE  /\ Collected(c)' =>
                           /\ c <= done'
                           /\ \A n \in DOMAIN tag' : tag'[n] = c => n <= drained'
                           /\ received'[c] = SentFor(c)'
                           /\ pendingPackets'[c] = {}
                    /\ ~ Collected(c)' =>
                           pendingPackets'[c] =
                               {n \in DOMAIN tag' : n <= drained' /\ tag'[n] = c}
  BY DEF Cached, Cycles
<1>1. k \in DOMAIN tag /\ tag[k] \in Cycles /\ drained \in Nat
  BY TakenTag DEF Drain, TypeOK
<1>2. /\ UNCHANGED <<done, rCycle, pcR, tag, received>>
      /\ drained' = k
      /\ pendingPackets' = [pendingPackets EXCEPT ![tag[k]] = @ \union {k}]
  BY DEF Drain, Take, hVars
<1>3. pendingPackets'[c] = IF c = tag[k] THEN pendingPackets[c] \union {k}
                                         ELSE pendingPackets[c]
  BY <1>1, <1>2 DEF TypeOK
<1>4. CASE Collected(c)
  <2>1. /\ c <= done /\ received[c] = SentFor(c) /\ pendingPackets[c] = {}
        /\ \A n \in DOMAIN tag : tag[n] = c => n <= drained
    BY <1>4 DEF Cached
  <2>2. tag[k] # c
    BY <1>1, <2>1
  <2>3. \A n \in DOMAIN tag : tag[n] = c => n <= k
    BY <1>1, <2>1 DEF TypeOK
  <2>4. SentFor(c)' = SentFor(c)
    BY <1>2 DEF SentFor
  <2> QED
    BY <1>2, <1>3, <1>4, <2>1, <2>2, <2>3, <2>4
<1>5. CASE ~ Collected(c)
  <2>1. pendingPackets[c] = {n \in DOMAIN tag : n <= drained /\ tag[n] = c}
    BY <1>5 DEF Cached
  <2>2. \A n \in DOMAIN tag : n <= k <=> n <= drained \/ n = k
    BY <1>1 DEF TypeOK
  <2>3. {n \in DOMAIN tag : n <= k /\ tag[n] = c} =
        IF c = tag[k] THEN pendingPackets[c] \union {k} ELSE pendingPackets[c]
    BY <1>1, <2>1, <2>2
  <2> QED
    BY <1>2, <1>3, <1>5, <2>3
<1> QED
  BY <1>4, <1>5

\* Receive collects when the cycle is closed and the channel empty: the cache
\* then holds every packet of the cycle.
LEMMA CachedCollect ==
    ASSUME TypeOK, Places, Cached, Collect
    PROVE  Cached'
<1> USE DEF Collected
<1>1. /\ UNCHANGED <<done, rCycle, tag, drained>>
      /\ pcR = "finalDrain" /\ pcR' = "process" /\ Channel = {}
      /\ received' = [received EXCEPT ![rCycle] = pendingPackets[rCycle]]
      /\ pendingPackets' = [pendingPackets EXCEPT ![rCycle] = {}]
  BY DEF Collect, hVars
<1>2. rCycle \in Cycles /\ rCycle <= done /\ rCycle \in Nat
  BY <1>1, PortAssumption DEF Places, TypeOK, Cycles
<1>3. \A n \in DOMAIN tag : n <= drained
  <2>1. drained \in Nat /\ Len(tag) \in Nat /\ DOMAIN tag = 1 .. Len(tag)
    BY DEF TypeOK
  <2>2. CASE drained < Len(tag)
    <3>1. Len(tag) \in Channel
      BY <2>1, <2>2 DEF Channel
    <3> QED
      BY <1>1, <3>1
  <2>3. CASE ~ (drained < Len(tag))
    BY <2>1, <2>3
  <2> QED
    BY <2>2, <2>3
<1>4. pendingPackets[rCycle] = SentFor(rCycle)
  <2>1. pendingPackets[rCycle] =
            {n \in DOMAIN tag : n <= drained /\ tag[n] = rCycle}
    BY <1>1, <1>2 DEF Cached
  <2> QED
    BY <1>3, <2>1 DEF SentFor
<1> SUFFICES ASSUME NEW c \in Cycles
             PROVE  /\ Collected(c)' =>
                           /\ c <= done'
                           /\ \A n \in DOMAIN tag' : tag'[n] = c => n <= drained'
                           /\ received'[c] = SentFor(c)'
                           /\ pendingPackets'[c] = {}
                    /\ ~ Collected(c)' =>
                           pendingPackets'[c] =
                               {n \in DOMAIN tag' : n <= drained' /\ tag'[n] = c}
  BY DEF Cached, Cycles
<1>5. SentFor(c)' = SentFor(c)
  BY <1>1 DEF SentFor
<1>6. CASE c = rCycle
  <2>a. DOMAIN received = Cycles /\ DOMAIN pendingPackets = Cycles
    BY DEF TypeOK
  <2>1. received'[c] = SentFor(c) /\ pendingPackets'[c] = {}
    BY <1>1, <1>2, <1>4, <1>6, <2>a
  <2>2. Collected(c)' /\ c <= done'
    BY <1>1, <1>2, <1>6
  <2>3. \A n \in DOMAIN tag' : tag'[n] = c => n <= drained'
    BY <1>1, <1>3
  <2> QED
    BY <1>5, <2>1, <2>2, <2>3
<1>7. CASE c # rCycle
  <2>1. received'[c] = received[c] /\ pendingPackets'[c] = pendingPackets[c]
    BY <1>1, <1>7 DEF TypeOK
  <2>2. Collected(c)' <=> Collected(c)
    BY <1>1, <1>7
  <2> QED
    BY <1>1, <1>5, <2>1, <2>2 DEF Cached
<1> QED
  BY <1>6, <1>7

\* Every step keeps the relation between channel, cache and what was received.
LEMMA CachedStep == TypeOK /\ Places /\ Cached /\ [Next]_vars => Cached'
<1> SUFFICES ASSUME TypeOK, Places, Cached, [Next]_vars PROVE Cached'
  OBVIOUS
<1>a. ASSUME UNCHANGED <<rCycle, pcR, tag, drained, pendingPackets, received>>,
             done' \in Int, done <= done'
      PROVE  Cached'
  BY <1>a DEF Cached, Collected, SentFor, Cycles, TypeOK
<1>b. ASSUME UNCHANGED <<done, tag, drained, pendingPackets, received>>,
             \A c \in Cycles : Collected(c)' <=> Collected(c)
      PROVE  Cached'
  BY <1>b DEF Cached, SentFor, Cycles
<1>1. CASE CallTrySend
  BY <1>1, <1>a DEF CallTrySend, H!Ask, TypeOK
<1>2. CASE IsReadyReturns
  BY <1>2, <1>a DEF IsReadyReturns, H!Answer, TypeOK
<1>3. CASE Push
  BY <1>3, CachedPush
<1>4. CASE MarkDone
  BY <1>4, <1>a DEF MarkDone, H!MarkDone, TypeOK
<1>5. CASE Drain
  BY <1>5, CachedDrain
<1>6. CASE DrainedOnce
  BY <1>6, <1>b DEF DrainedOnce, Collected, hVars
<1>7. CASE WaitDone
  BY <1>7, <1>b DEF WaitDone, H!WaitReturns, Collected
<1>8. CASE Collect
  BY <1>8, CachedCollect
<1>9. CASE UpdateReady
  BY <1>9, <1>a DEF UpdateReady, H!Declare, TypeOK
<1>10. CASE NextCycle
  <2>1. \A c \in Cycles : Collected(c)' <=> Collected(c)
    BY <1>10 DEF NextCycle, H!Proceed, Collected, TypeOK, Cycles
  <2> QED
    BY <1>10, <2>1, <1>b DEF NextCycle, H!Proceed
<1>11. CASE UNCHANGED vars
  BY <1>11, <1>a DEF vars, hVars, TypeOK
<1> QED
  BY <1>1, <1>2, <1>3, <1>4, <1>5, <1>6, <1>7, <1>8, <1>9, <1>10, <1>11
     DEF Next, Upstream, Downstream, Receive, Finished

-----------------------------------------------------------------------------
\* The invariant of the port (port.go): channel, cache and results always
\* account for every packet that was sent.
THEOREM PortInvariant == Spec => []PortInv
<1>1. Init => PortInv
  BY PortInit
<1>2. PortInv /\ [Next]_vars => PortInv'
  BY TypeStep, PlacesStep, CachedStep DEF PortInv
<1> QED
  BY <1>1, <1>2, PTL DEF Spec

\* The state of a port keeps its types and the channel its capacity.
THEOREM TypeCorrect == Spec => []TypeOK
<1>1. PortInv => TypeOK
  BY DEF PortInv
<1> QED
  BY <1>1, PortInvariant, PTL

\* Receive returns exactly the packets sent for its cycle: the final drain of
\* Receive (port.go) sees all that was pushed before MarkDone.
THEOREM ReceivesAll == Spec => []ReceiveComplete
<1>1. PortInv => ReceiveComplete
  BY DEF PortInv, Cached, Collected, ReceiveComplete
<1> QED
  BY <1>1, PortInvariant, PTL

-----------------------------------------------------------------------------
(* The port implements the mailbox.                                        *)

Limit == (LastCycle + 1) * MaxPerCycle

\* Packets carry the cycle of their sender or an earlier one, and those of the
\* cycles the sender has closed are at most MaxPerCycle per cycle.
Counted ==
    /\ \A n \in DOMAIN tag : tag[n] <= done + 1
    /\ Cardinality(SentFor(done + 1)) <= MaxPerCycle
    /\ (asking \/ pcS = "push") => Cardinality(SentFor(done + 1)) < MaxPerCycle
    /\ pcS = "push" => ~asking
    /\ Len(tag) <= (done + 1) * MaxPerCycle + Cardinality(SentFor(done + 1))

\* The packets of a cycle are finitely many.
LEMMA SentFinite ==
    ASSUME TypeOK, NEW c
    PROVE  IsFiniteSet(SentFor(c)) /\ Cardinality(SentFor(c)) \in Nat
<1>1. IsFiniteSet(DOMAIN tag)
  BY FS_Interval DEF TypeOK
<1>2. IsFiniteSet(SentFor(c))
  BY <1>1, FS_Subset DEF SentFor
<1> QED
  BY <1>2, FS_CardinalityType

\* The sender keeps within its packets per cycle.
LEMMA CountedStep == TypeOK /\ Places /\ Counted /\ [Next]_vars => Counted'
<1> SUFFICES ASSUME TypeOK, Places, Counted, [Next]_vars PROVE Counted'
  OBVIOUS
<1> DEFINE sent == Cardinality(SentFor(done + 1))
<1>1. /\ done \in Int /\ done >= -1 /\ LastCycle \in Nat /\ MaxPerCycle \in Nat
      /\ sent \in Nat /\ Len(tag) \in Nat /\ DOMAIN tag = 1 .. Len(tag)
      /\ \A n \in DOMAIN tag : tag[n] \in Cycles /\ tag[n] \in Nat
  BY SentFinite, PortAssumption DEF TypeOK, Cycles
<1>2. /\ \A n \in DOMAIN tag : tag[n] <= done + 1
      /\ sent <= MaxPerCycle
      /\ (asking \/ pcS = "push") => sent < MaxPerCycle
      /\ Len(tag) <= (done + 1) * MaxPerCycle + sent
  BY DEF Counted
<1>3. ASSUME UNCHANGED <<done, tag>>,
             (asking' \/ pcS' = "push") => (asking \/ pcS = "push" \/ sent < MaxPerCycle),
             pcS' = "push" => ~asking'
      PROVE  Counted'
  <2>1. SentFor(done + 1)' = SentFor(done + 1)
    BY <1>3 DEF SentFor
  <2> QED
    BY <1>1, <1>2, <1>3, <2>1 DEF Counted
<1>4. CASE CallTrySend
  <2>1. sent < MaxPerCycle
    BY <1>4 DEF CallTrySend
  <2> QED
    BY <1>3, <1>4, <2>1 DEF CallTrySend, H!Ask, Counted
<1>5. CASE IsReadyReturns
  BY <1>3, <1>5 DEF IsReadyReturns, H!Answer, Counted
<1>6. CASE Push
  <2> DEFINE k == Len(tag) + 1
  <2>1. /\ DOMAIN tag' = DOMAIN tag \union {k} /\ Len(tag') = Len(tag) + 1
        /\ \A n \in DOMAIN tag : tag'[n] = tag[n]
        /\ tag'[k] = done + 1 /\ done' = done /\ ~asking' /\ pcS' = "tick"
        /\ sent < MaxPerCycle
    <3>1. ~asking
      BY <1>6 DEF Push, Counted
    <3> QED
      BY <1>2, <1>6, <3>1, PushedTag DEF Push, hVars
  <2>2. SentFor(done + 1)' = SentFor(done + 1) \union {k} /\ k \notin SentFor(done + 1)
    BY <1>1, <2>1 DEF SentFor
  <2>3. Cardinality(SentFor(done + 1)') = sent + 1
    BY <2>2, SentFinite, FS_AddElement
  <2>4. /\ Cardinality(SentFor(done + 1)') <= MaxPerCycle
        /\ (asking' \/ pcS' = "push") => Cardinality(SentFor(done + 1)') < MaxPerCycle
    BY <1>1, <2>1, <2>3
  <2>5. Len(tag') <= (done' + 1) * MaxPerCycle + Cardinality(SentFor(done + 1)')
    <3> DEFINE x == (done + 1) * MaxPerCycle
    <3>1. x \in Int /\ Len(tag) <= x + sent
      BY <1>1, <1>2
    <3> HIDE DEF x, sent
    <3>2. Len(tag) + 1 <= x + (sent + 1)
      BY <1>1, <3>1
    <3> QED
      BY <2>1, <2>3, <3>2 DEF x
  <2>6. \A n \in DOMAIN tag' : tag'[n] <= done' + 1
    BY <1>1, <1>2, <2>1
  <2> QED
    BY <2>1, <2>4, <2>5, <2>6 DEF Counted
<1>7. CASE MarkDone
  <2>1. /\ done' = done + 1 /\ tag' = tag /\ ~asking' /\ pcS' = "tick"
    BY <1>7 DEF MarkDone, H!MarkDone
  <2>2. SentFor(done + 1)' = {}
    BY <1>1, <1>2, <2>1 DEF SentFor
  <2>3. Cardinality(SentFor(done + 1)') = 0
    BY <2>2, FS_EmptySet
  <2>4. Len(tag') <= (done' + 1) * MaxPerCycle + Cardinality(SentFor(done + 1)')
    <3> DEFINE x == (done + 1) * MaxPerCycle
               y == (done + 2) * MaxPerCycle
    <3>1. x \in Int /\ y \in Int /\ y = x + MaxPerCycle /\ Len(tag) <= x + sent
      BY <1>1, <1>2
    <3>2. done' + 1 = done + 2
      BY <1>1, <2>1
    <3> HIDE DEF x, y, sent
    <3>3. Len(tag) <= y
      BY <1>1, <1>2, <3>1
    <3>4. y + 0 = y
      BY <3>1
    <3> QED
      BY <2>1, <2>3, <3>2, <3>3, <3>4 DEF y
  <2>5. \A n \in DOMAIN tag' : tag'[n] <= done' + 1
    BY <1>1, <1>2, <2>1
  <2> QED
    BY <1>1, <2>1, <2>3, <2>4, <2>5 DEF Counted
<1>8. CASE Drain
  BY <1>3, <1>8 DEF Drain, hVars, Counted
<1>9. CASE DrainedOnce
  BY <1>3, <1>9 DEF DrainedOnce, hVars, Counted
<1>10. CASE WaitDone
  BY <1>3, <1>10 DEF WaitDone, H!WaitReturns, Counted
<1>11. CASE Collect
  BY <1>3, <1>11 DEF Collect, hVars, Counted
<1>12. CASE UpdateReady
  BY <1>3, <1>12 DEF UpdateReady, H!Declare, Counted
<1>13. CASE NextCycle
  BY <1>3, <1>13 DEF NextCycle, H!Proceed, Counted
<1>14. CASE UNCHANGED vars
  BY <1>3, <1>14 DEF vars, hVars, Counted
<1> QED
  BY <1>4, <1>5, <1>6, <1>7, <1>8, <1>9, <1>10, <1>11, <1>12, <1>13, <1>14
     DEF Next, Upstream, Downstream, Receive, Finished

\* The mailbox has room for every packet the sender may send.
LEMMA RoomForPacket ==
    ASSUME TypeOK, Places, Counted, pcS = "push"
    PROVE  Len(tag) + 1 \in 1 .. Limit
<1> DEFINE x == (done + 1) * MaxPerCycle
           sent == Cardinality(SentFor(done + 1))
<1>1. /\ done \in Int /\ done >= -1 /\ LastCycle \in Nat /\ MaxPerCycle \in Nat
      /\ done < LastCycle /\ Len(tag) \in Nat
  BY PortAssumption DEF TypeOK, Places
<1>2. sent < MaxPerCycle /\ Len(tag) <= x + sent /\ sent \in Nat
  BY SentFinite DEF Counted
<1>3. x + MaxPerCycle <= Limit
  <2>1. x + MaxPerCycle = (done + 2) * MaxPerCycle
    BY <1>1
  <2>2. \A m \in Nat : m <= LastCycle + 1 => m * MaxPerCycle <= (LastCycle + 1) * MaxPerCycle
    <3> SUFFICES ASSUME NEW m \in Nat, m <= LastCycle + 1
                 PROVE  m * MaxPerCycle <= (LastCycle + 1) * MaxPerCycle
      OBVIOUS
    <3> DEFINE e == LastCycle + 1 - m
    <3>1. e \in Nat /\ LastCycle + 1 = m + e
      BY <1>1
    <3> HIDE DEF e
    <3>2. (m + e) * MaxPerCycle = m * MaxPerCycle + e * MaxPerCycle
      BY <1>1, <3>1
    <3>3. e * MaxPerCycle \in Nat /\ m * MaxPerCycle \in Nat
      BY <1>1, <3>1
    <3> QED
      BY <3>1, <3>2, <3>3
  <2>3. done + 2 \in Nat /\ done + 2 <= LastCycle + 1
    BY <1>1
  <2> QED
    BY <2>1, <2>2, <2>3 DEF Limit
<1>4. x \in Int /\ Limit \in Int
  BY <1>1 DEF Limit
<1> HIDE DEF x, sent
<1> QED
  BY <1>1, <1>2, <1>3, <1>4

mail == [c \in Cycles |-> MailboxOf(c)]
next == IF pcR = "process" THEN rCycle + 1 ELSE rCycle

\* What is in the mailbox changes only where Send or Receive say so: a packet
\* that moves from the channel to the cache stays in it.
LEMMA MailMoves ==
    ASSUME TypeOK, Places, Cached
    PROVE  /\ UNCHANGED <<tag, drained, pendingPackets>> => mail' = mail
           /\ Push => /\ \A c \in Cycles : Len(tag) + 1 \notin mail[c] \union received[c]
                      /\ mail' = [mail EXCEPT ![done + 1] = @ \union {Len(tag) + 1}]
           /\ Drain => mail' = mail
           /\ Collect => /\ mail[rCycle] = pendingPackets[rCycle]
                         /\ mail' = [mail EXCEPT ![rCycle] = {}]
<1>1. /\ Len(tag) \in Nat /\ DOMAIN tag = 1 .. Len(tag) /\ drained \in 0 .. Len(tag)
      /\ drained \in Nat
      /\ \A c \in Cycles : /\ pendingPackets[c] \subseteq DOMAIN tag
                           /\ received[c] \subseteq DOMAIN tag
      /\ DOMAIN pendingPackets = Cycles
  BY DEF TypeOK
<1>2. UNCHANGED <<tag, drained, pendingPackets>> => mail' = mail
  BY DEF mail, MailboxOf, Channel, Cycles
<1>3. ASSUME Push
      PROVE  /\ \A c \in Cycles : Len(tag) + 1 \notin mail[c] \union received[c]
             /\ mail' = [mail EXCEPT ![done + 1] = @ \union {Len(tag) + 1}]
  <2> DEFINE k == Len(tag) + 1
  <2>1. /\ Len(tag') = k
        /\ \A n \in DOMAIN tag : tag'[n] = tag[n]
        /\ tag'[k] = done + 1
        /\ drained' = drained /\ pendingPackets' = pendingPackets
    BY <1>3, PushedTag DEF Push
  <2>2. Channel' = Channel \union {k} /\ Channel \subseteq DOMAIN tag /\ k \notin DOMAIN tag
    BY <1>1, <2>1 DEF Channel
  <2>3. \A c \in Cycles : MailboxOf(c) \subseteq DOMAIN tag
    BY <1>1, <2>2 DEF MailboxOf
  <2>4. \A c \in Cycles : k \notin mail[c] \union received[c]
    BY <1>1, <2>2, <2>3 DEF mail
  <2>5. \A c \in Cycles : MailboxOf(c)' =
            IF c = done + 1 THEN MailboxOf(c) \union {k} ELSE MailboxOf(c)
    BY <2>1, <2>2 DEF MailboxOf
  <2>6. mail' = [c \in Cycles |-> IF c = done + 1 THEN MailboxOf(c) \union {k} ELSE MailboxOf(c)]
    BY <2>5 DEF mail, Cycles
  <2> QED
    BY <2>4, <2>6 DEF mail
<1>4. ASSUME Drain PROVE mail' = mail
  <2> DEFINE k == drained + 1
  <2>1. k \in DOMAIN tag /\ tag[k] \in Cycles
    BY <1>4, TakenTag DEF Drain
  <2>2. /\ drained' = k /\ tag' = tag
        /\ pendingPackets' = [pendingPackets EXCEPT ![tag[k]] = @ \union {k}]
    BY <1>4 DEF Drain, Take
  <2>3. Channel = Channel' \union {k}
    BY <1>1, <2>1, <2>2 DEF Channel
  <2>4. \A c \in Cycles : pendingPackets'[c] =
            IF c = tag[k] THEN pendingPackets[c] \union {k} ELSE pendingPackets[c]
    BY <1>1, <2>1, <2>2
  <2> HIDE DEF k
  <2>5. \A c \in Cycles : MailboxOf(c)' = MailboxOf(c)
    BY <2>2, <2>3, <2>4 DEF MailboxOf
  <2> QED
    BY <2>5 DEF mail, Cycles
<1>5. ASSUME Collect
      PROVE  /\ mail[rCycle] = pendingPackets[rCycle]
             /\ mail' = [mail EXCEPT ![rCycle] = {}]
  <2>1. /\ Channel = {} /\ UNCHANGED <<tag, drained>>
        /\ pendingPackets' = [pendingPackets EXCEPT ![rCycle] = {}]
    BY <1>5 DEF Collect
  <2>2. rCycle \in Cycles
    BY <1>5 DEF Collect, Places, TypeOK, Cycles
  <2>3. Channel' = {}
    BY <2>1 DEF Channel
  <2>4. \A c \in Cycles : MailboxOf(c) = pendingPackets[c] /\ MailboxOf(c)' = pendingPackets'[c]
    BY <2>1, <2>3 DEF MailboxOf
  <2>5. \A c \in Cycles : pendingPackets'[c] = IF c = rCycle THEN {} ELSE pendingPackets[c]
    BY <1>1, <2>1
  <2>6. mail' = [c \in Cycles |-> IF c = rCycle THEN {} ELSE pendingPackets[c]]
    BY <2>4, <2>5 DEF mail, Cycles
  <2> QED
    BY <2>2, <2>4, <2>6 DEF mail
<1> QED
  BY <1>2, <1>3, <1>4, <1>5

\* Every step of the port is a step of the mailbox, or none.
LEMMA MailboxStep ==
    ASSUME PortInv, Counted, [Next]_vars
    PROVE  [Abstract!Next]_(Abstract!vars)
<1>1. TypeOK /\ Places /\ Cached
  BY DEF PortInv
<1>2. /\ done \in Int /\ rCycle \in Nat /\ LastCycle \in Nat
      /\ UNCHANGED <<tag, drained, pendingPackets>> => mail' = mail
  BY <1>1, MailMoves, PortAssumption DEF TypeOK
<1> USE DEF mail, next
<1>3. ASSUME UNCHANGED <<done, tag, drained, pendingPackets, received>>, next' = next
      PROVE  UNCHANGED Abstract!vars
  BY <1>2, <1>3 DEF Abstract!vars, Abstract!Cycles
<1>4. CASE CallTrySend
  BY <1>3, <1>4 DEF CallTrySend, H!Ask
<1>5. CASE IsReadyReturns
  BY <1>3, <1>5 DEF IsReadyReturns, H!Answer
<1>6. CASE Push
  <2>1. /\ \A c \in Cycles : Len(tag) + 1 \notin mail[c] \union received[c]
        /\ mail' = [mail EXCEPT ![done + 1] = @ \union {Len(tag) + 1}]
        /\ Len(tag) + 1 \in 1 .. Limit
    BY <1>1, <1>6, MailMoves, RoomForPacket DEF Push
  <2>2. done < LastCycle /\ UNCHANGED <<done, received, next>>
    BY <1>1, <1>6 DEF Push, Places, hVars
  <2>3. Abstract!Send
    BY <2>1, <2>2 DEF Abstract!Send, Abstract!Cycles, Cycles, Limit
  <2> QED
    BY <2>3 DEF Abstract!Next
<1>7. CASE MarkDone
  <2>1. /\ done < LastCycle /\ done' = done + 1
        /\ UNCHANGED <<tag, drained, pendingPackets, received, next>>
    BY <1>7 DEF MarkDone, H!MarkDone
  <2>2. Abstract!MarkDone
    BY <1>2, <2>1 DEF Abstract!MarkDone
  <2> QED
    BY <2>2 DEF Abstract!Next
<1>8. CASE Drain
  <2>1. mail' = mail
    BY <1>1, <1>8, MailMoves
  <2> QED
    BY <1>8, <2>1 DEF Drain, hVars, Abstract!vars
<1>9. CASE DrainedOnce
  BY <1>3, <1>9 DEF DrainedOnce, hVars
<1>10. CASE WaitDone
  BY <1>3, <1>10 DEF WaitDone, H!WaitReturns
<1>11. CASE Collect
  <2>1. /\ mail[rCycle] = pendingPackets[rCycle]
        /\ mail' = [mail EXCEPT ![rCycle] = {}]
    BY <1>1, <1>11, MailMoves
  <2>2. /\ next = rCycle /\ next' = rCycle + 1 /\ rCycle <= done /\ done' = done
        /\ received' = [received EXCEPT ![rCycle] = pendingPackets[rCycle]]
    BY <1>1, <1>11 DEF Collect, hVars, Places
  <2>3. Abstract!Receive
    BY <2>1, <2>2 DEF Abstract!Receive
  <2> QED
    BY <2>3 DEF Abstract!Next
<1>12. CASE UpdateReady
  BY <1>3, <1>12 DEF UpdateReady, H!Declare
<1>13. CASE NextCycle
  BY <1>2, <1>3, <1>13 DEF NextCycle, H!Proceed
<1>14. CASE UNCHANGED vars
  BY <1>3, <1>14 DEF vars, hVars
<1> QED
  BY <1>4, <1>5, <1>6, <1>7, <1>8, <1>9, <1>10, <1>11, <1>12, <1>13, <1>14
     DEF Next, Upstream, Downstream, Receive, Finished

\* The port (port.go) behaves as a mailbox with one compartment per cycle,
\* which the sender closes and the receiver then empties in one step, although
\* Receive drains the channel in many.
THEOREM ImplementsMailboxSafely == Spec => Abstract!SafeSpec
<1>1. Init => Abstract!Init
  <2> SUFFICES ASSUME Init PROVE Abstract!Init
    OBVIOUS
  <2>1. \A c \in Cycles : MailboxOf(c) = {}
    BY DEF Init, MailboxOf, Channel
  <2> QED
    BY <2>1 DEF Init, H!Init, Abstract!Init, Abstract!Cycles, Cycles
<1>2. Init => Counted
  <2> SUFFICES ASSUME Init PROVE Counted
    OBVIOUS
  <2>1. SentFor(0) = {} /\ Cardinality({}) = 0
    BY FS_EmptySet DEF Init, SentFor
  <2>2. /\ done + 1 = 0 /\ Len(tag) = 0 /\ DOMAIN tag = {}
        /\ ~asking /\ pcS = "tick"
    BY DEF Init, H!Init
  <2>3. MaxPerCycle \in Nat /\ 0 * MaxPerCycle + 0 = 0
    BY PortAssumption
  <2>4. Cardinality(SentFor(done + 1)) = 0
    BY <2>1, <2>2
  <2> QED
    BY <2>2, <2>3, <2>4 DEF Counted
<1>3. PortInv /\ Counted /\ [Next]_vars => Counted'
  BY CountedStep DEF PortInv
<1>4. PortInv /\ Counted /\ [Next]_vars => [Abstract!Next]_(Abstract!vars)
  BY MailboxStep
<1> QED
  BY <1>1, <1>2, <1>3, <1>4, PortInvariant, PTL DEF Spec, Abstract!SafeSpec
=============================================================================
