---------------------------- MODULE DRAMProofs ----------------------------
(***************************************************************************)
(* Theorems about DRAMChannel, for every number of requests, banks and     *)
(* rows, every size of the queues, every timing and every workload: what   *)
(* it holds, that it is a MemoryService, and when it answers.              *)
(***************************************************************************)
EXTENDS DRAMChannel, FiniteSetTheorems, SequenceTheorems, TLAPS

\* What every part of operate() preserves of the channel.
ChannelInv(c) ==
    /\ c \in ChannelType
    /\ QueuesOfTheirKind(c)
    /\ BanksHoldScheduled(c)
    /\ OneMode(c)

\* A switch of the mode releases the banks it takes requests from.
LEMMA SwapPreserves ==
    ASSUME DRAMAssumption, request \in [Requests -> RequestType],
           NEW c, ChannelInv(c), NEW now \in Nat
    PROVE  /\ ChannelInv(SwapWriteMode(c, now))
           /\ SwapWriteMode(c, now).RQ = c.RQ
           /\ SwapWriteMode(c, now).WQ = c.WQ
           /\ SwapWriteMode(c, now).active = c.active
<1> DEFINE d == SwapWriteMode(c, now)
           keeps(b) == b = c.active \/ ~c.bank[b].valid
           scheduled == c.scheduled \ Preempted(c)
           readyTime == [i \in Requests |-> IF i \in Preempted(c) THEN now ELSE c.readyTime[i]]
           bank == [b \in Banks |->
                      IF keeps(b) THEN c.bank[b]
                      ELSE [valid |-> FALSE, pkt |-> None, readyTime |-> c.bank[b].readyTime,
                            openRow |-> IF c.bank[b].readyTime >= now + TCAS
                                        THEN c.bank[b].openRow ELSE None]]
           dbus == (IF c.active = None THEN now ELSE c.bank[c.active].readyTime) + TRAS
<1>0. c \in ChannelType
  BY DEF ChannelInv
<1>1. CASE ~ShouldSwitch(c)
  BY <1>1 DEF SwapWriteMode
<1>2. CASE ShouldSwitch(c)
  <2>1. d = [c EXCEPT !.writeMode = ~c.writeMode, !.scheduled = scheduled,
                      !.readyTime = readyTime, !.bank = bank, !.dbusAvailable = dbus]
    BY <1>2 DEF SwapWriteMode
  <2>2. bank \in [Banks -> BankType]
    BY <1>0, DRAMAssumption DEF ChannelType, BankType, Banks, Rows, None
  <2>3. /\ scheduled \in SUBSET Requests
        /\ readyTime \in [Requests -> Nat]
        /\ (~c.writeMode) \in BOOLEAN
    BY <1>0 DEF ChannelType
  <2>4. dbus \in Nat
    BY <1>0, DRAMAssumption DEF ChannelType, BankType, Banks, None
  <2>5. \A b \in Banks : keeps(b) => bank[b] = c.bank[b]
    OBVIOUS
  <2>6. \A b \in Banks : ~keeps(b) =>
           bank[b].valid = FALSE /\ c.bank[b].pkt \in Preempted(c)
    BY <1>2 DEF Preempted
  <2>7. \A i \in Preempted(c) : \E b \in Banks : ~keeps(b) /\ i = c.bank[b].pkt
    BY <1>2 DEF Preempted
  <2> HIDE DEF d, bank, readyTime, dbus
  <2>8. d \in ChannelType
    BY <1>0, <2>1, <2>2, <2>3, <2>4 DEF ChannelType
  <2>9. /\ d.RQ = c.RQ /\ d.WQ = c.WQ /\ d.active = c.active
        /\ d.writeMode = ~c.writeMode /\ d.scheduled = scheduled /\ d.bank = bank
    BY <1>0, <2>1 DEF ChannelType
  <2>11. \A b \in Banks : d.bank[b].valid =>
            d.bank[b].pkt \in d.scheduled /\ request[d.bank[b].pkt].bank = b
    <3> SUFFICES ASSUME NEW b \in Banks, d.bank[b].valid
                 PROVE  d.bank[b].pkt \in d.scheduled /\ request[d.bank[b].pkt].bank = b
      OBVIOUS
    <3>1. keeps(b) /\ d.bank[b] = c.bank[b]
      BY <2>5, <2>6, <2>9
    <3>2. c.bank[b].pkt \in c.scheduled /\ request[c.bank[b].pkt].bank = b
      BY <3>1 DEF ChannelInv, BanksHoldScheduled
    <3>3. c.bank[b].pkt \notin Preempted(c)
      <4> SUFFICES ASSUME c.bank[b].pkt \in Preempted(c) PROVE FALSE
        OBVIOUS
      <4>1. PICK e \in Banks : ~keeps(e) /\ c.bank[b].pkt = c.bank[e].pkt
        BY <2>7
      <4>2. request[c.bank[e].pkt].bank = e
        BY <4>1 DEF ChannelInv, BanksHoldScheduled
      <4> QED
        BY <3>1, <3>2, <4>1, <4>2
    <3> QED
      BY <2>9, <3>1, <3>2, <3>3
  <2>12. \A i \in d.scheduled : d.bank[request[i].bank].valid /\ d.bank[request[i].bank].pkt = i
    <3> SUFFICES ASSUME NEW i \in d.scheduled
                 PROVE  d.bank[request[i].bank].valid /\ d.bank[request[i].bank].pkt = i
      OBVIOUS
    <3>1. i \in c.scheduled /\ i \notin Preempted(c) /\ request[i].bank \in Banks
      BY <1>0, <2>9 DEF ChannelType, RequestType
    <3>2. c.bank[request[i].bank].valid /\ c.bank[request[i].bank].pkt = i
      BY <3>1 DEF ChannelInv, BanksHoldScheduled
    <3>3. keeps(request[i].bank)
      BY <2>6, <3>1, <3>2
    <3> QED
      BY <2>5, <2>9, <3>1, <3>2, <3>3
  <2>13. d.active # None => d.bank[d.active].valid
    BY <1>0, <2>5, <2>9 DEF ChannelInv, BanksHoldScheduled, ChannelType
  <2>14. BanksHoldScheduled(d)
    BY <2>9, <2>11, <2>12, <2>13 DEF ChannelInv, BanksHoldScheduled
  <2>15. OneMode(d)
    BY <2>5, <2>6, <2>9 DEF OneMode
  <2>16. QueuesOfTheirKind(d)
    BY <2>9 DEF ChannelInv, QueuesOfTheirKind
  <2> QED
    BY <2>8, <2>9, <2>14, <2>15, <2>16 DEF ChannelInv, d
<1> QED
  BY <1>1, <1>2

\* The end of a burst takes its request out of its bank and its queue.
LEMMA FinishPreserves ==
    ASSUME DRAMAssumption, request \in [Requests -> RequestType],
           NEW c, ChannelInv(c), NEW now \in Nat
    PROVE  LET d == FinishDBusRequest(c, now) IN
           /\ ChannelInv(d)
           /\ Completed(c, now) = <<>> => d = c
           /\ Completed(c, now) # <<>> =>
                \E i \in c.scheduled :
                   /\ Completed(c, now) = <<[id |-> i, cycle |-> now]>>
                   /\ d.RQ = c.RQ \ {i} /\ d.WQ = c.WQ \ {i}
                   /\ c.active # None /\ d.active = None
                   /\ i = c.bank[c.active].pkt
<1> DEFINE d == FinishDBusRequest(c, now)
           i == c.bank[c.active].pkt
           bank == [c.bank EXCEPT ![c.active].valid = FALSE, ![c.active].pkt = None]
<1>0. c \in ChannelType
  BY DEF ChannelInv
<1>1. CASE c.active = None \/ c.bank[c.active].readyTime > now
  BY <1>1 DEF FinishDBusRequest, Completed
<1>2. CASE ~(c.active = None \/ c.bank[c.active].readyTime > now)
  <2>1. c.active \in Banks /\ c.bank[c.active].valid
    BY <1>0, <1>2 DEF ChannelInv, BanksHoldScheduled, ChannelType
  <2>2. i \in c.scheduled /\ request[i].bank = c.active
    BY <2>1 DEF ChannelInv, BanksHoldScheduled
  <2>4. d = [c EXCEPT !.bank = bank, !.scheduled = c.scheduled \ {i},
                      !.RQ = c.RQ \ {i}, !.WQ = c.WQ \ {i}, !.active = None]
    BY <1>0, <1>2 DEF FinishDBusRequest, ChannelType
  <2>5. /\ bank \in [Banks -> BankType]
        /\ \A b \in Banks : b # c.active => bank[b] = c.bank[b]
        /\ bank[c.active].valid = FALSE
    <3>1. c.bank \in [Banks -> BankType]
      BY <1>0 DEF ChannelType
    <3>2. c.bank[c.active] \in BankType
      BY <2>1, <3>1
    <3>3. [c.bank[c.active] EXCEPT !.valid = FALSE, !.pkt = None] \in BankType
      BY <3>2 DEF BankType
    <3>4. bank = [c.bank EXCEPT ![c.active] =
                    [c.bank[c.active] EXCEPT !.valid = FALSE, !.pkt = None]]
      BY <2>1, <3>1
    <3>5. [c.bank[c.active] EXCEPT !.valid = FALSE, !.pkt = None].valid = FALSE
      BY <3>2 DEF BankType
    <3> QED
      BY <2>1, <3>1, <3>3, <3>4, <3>5
  <2>6. Completed(c, now) = <<[id |-> i, cycle |-> now]>>
    BY <1>2 DEF Completed
  <2> HIDE DEF d, i, bank
  <2>7. d \in ChannelType
    BY <1>0, <2>4, <2>5 DEF ChannelType
  <2>8. /\ d.RQ = c.RQ \ {i} /\ d.WQ = c.WQ \ {i} /\ d.active = None
        /\ d.writeMode = c.writeMode /\ d.scheduled = c.scheduled \ {i} /\ d.bank = bank
    BY <1>0, <2>4 DEF ChannelType
  <2>9. \A b \in Banks : d.bank[b].valid =>
          d.bank[b].pkt \in d.scheduled /\ request[d.bank[b].pkt].bank = b
    BY <2>1, <2>2, <2>5, <2>8 DEF ChannelInv, BanksHoldScheduled
  <2>10. \A j \in d.scheduled :
           d.bank[request[j].bank].valid /\ d.bank[request[j].bank].pkt = j
    <3> SUFFICES ASSUME NEW j \in d.scheduled
                 PROVE  d.bank[request[j].bank].valid /\ d.bank[request[j].bank].pkt = j
      OBVIOUS
    <3>1. j \in c.scheduled /\ j # i /\ request[j].bank \in Banks
      BY <1>0, <2>8 DEF ChannelType, RequestType
    <3>2. c.bank[request[j].bank].valid /\ c.bank[request[j].bank].pkt = j
      BY <3>1 DEF ChannelInv, BanksHoldScheduled
    <3>3. request[j].bank # c.active
      BY <3>1, <3>2 DEF i
    <3> QED
      BY <2>5, <2>8, <3>1, <3>2, <3>3
  <2>11. BanksHoldScheduled(d)
    BY <2>8, <2>9, <2>10 DEF ChannelInv, BanksHoldScheduled
  <2>12. OneMode(d)
    BY <2>5, <2>8 DEF ChannelInv, OneMode
  <2>13. QueuesOfTheirKind(d)
    BY <2>8 DEF ChannelInv, QueuesOfTheirKind
  <2>14. ChannelInv(d)
    BY <2>7, <2>11, <2>12, <2>13 DEF ChannelInv
  <2>15. Completed(c, now) # <<>>
    BY <2>6
  <2> QED
    BY <1>2, <2>2, <2>6, <2>8, <2>14, <2>15 DEF d, i
<1> QED
  BY <1>1, <1>2

\* A bank on the data bus keeps its request.
LEMMA PopulatePreserves ==
    ASSUME DRAMAssumption, request \in [Requests -> RequestType],
           NEW c, ChannelInv(c), NEW now \in Nat
    PROVE  /\ ChannelInv(PopulateDBus(c, now))
           /\ PopulateDBus(c, now).RQ = c.RQ
           /\ PopulateDBus(c, now).WQ = c.WQ
<1> DEFINE d == PopulateDBus(c, now)
           b == CHOOSE b \in FirstReady(c, now) : TRUE
           bank == [c.bank EXCEPT ![b].readyTime = now + BurstTime]
<1>0. c \in ChannelType
  BY DEF ChannelInv
<1>1. CASE c.active # None \/ c.dbusAvailable > now \/ FirstReady(c, now) = {}
  BY <1>1 DEF PopulateDBus
<1>2. CASE ~(c.active # None \/ c.dbusAvailable > now \/ FirstReady(c, now) = {})
  <2>1. b \in Banks /\ c.bank[b].valid
    BY <1>2 DEF FirstReady, ReadyBanks
  <2>2. d = [c EXCEPT !.active = b, !.bank = bank, !.dbusAvailable = now + BurstTime]
    BY <1>0, <1>2 DEF PopulateDBus, ChannelType
  <2>3. now + BurstTime \in Nat
    BY DEF BurstTime
  <2> HIDE DEF b, d
  <2>4. /\ bank \in [Banks -> BankType]
        /\ \A a \in Banks : bank[a].valid = c.bank[a].valid /\ bank[a].pkt = c.bank[a].pkt
    BY <1>0, <2>1, <2>3 DEF ChannelType, BankType
  <2> HIDE DEF bank
  <2>5. d \in ChannelType
    BY <1>0, <2>1, <2>2, <2>3, <2>4 DEF ChannelType
  <2>6. /\ d.RQ = c.RQ /\ d.WQ = c.WQ /\ d.active = b /\ d.bank = bank
        /\ d.writeMode = c.writeMode /\ d.scheduled = c.scheduled
    BY <1>0, <2>2 DEF ChannelType
  <2>7. BanksHoldScheduled(d)
    <3>1. \A i \in c.scheduled : request[i].bank \in Banks
      BY <1>0 DEF ChannelType, RequestType
    <3> QED
      BY <2>1, <2>4, <2>6, <3>1 DEF ChannelInv, BanksHoldScheduled
  <2>8. OneMode(d)
    BY <1>2, <2>4, <2>6 DEF ChannelInv, OneMode, Banks, None
  <2>9. QueuesOfTheirKind(d)
    BY <2>6 DEF ChannelInv, QueuesOfTheirKind
  <2> QED
    BY <2>5, <2>6, <2>7, <2>8, <2>9 DEF ChannelInv, d
<1> QED
  BY <1>1, <1>2

\* A request that is scheduled finds its bank free and is of the mode's kind.
LEMMA ServicePreserves ==
    ASSUME DRAMAssumption, request \in [Requests -> RequestType],
           NEW c, ChannelInv(c), NEW now \in Nat
    PROVE  LET d == ServicePacket(c, SchedulePacket(c, now), now) IN
           /\ ChannelInv(d)
           /\ d.RQ = c.RQ /\ d.WQ = c.WQ
<1> DEFINE i == SchedulePacket(c, now)
           d == ServicePacket(c, i, now)
           h == request[i].bank
           bank == [c.bank EXCEPT ![h] = [valid |-> TRUE, pkt |-> i,
                                          readyTime |-> now + AccessLatency(c, i),
                                          openRow |-> request[i].row]]
<1>0. c \in ChannelType
  BY DEF ChannelInv
<1>1. CASE i = None
  BY <1>1 DEF ServicePacket
<1>2. CASE i # None
  <2>1. i \in Schedulable(c)
    BY <1>2 DEF SchedulePacket, Best
  <2>2. d = [c EXCEPT !.scheduled = @ \union {i}, !.bank = bank]
    BY <1>0, <1>2 DEF ServicePacket, ChannelType
  <2> HIDE DEF i, d
  <2>3. i \in c.RQ \union c.WQ /\ i \notin c.scheduled /\ ~c.bank[h].valid
    BY <2>1 DEF Schedulable
  <2>4. i \in Requests
    BY <1>0, <2>3 DEF ChannelType
  <2>5. h \in Banks /\ request[i].row \in Rows
    BY <2>4 DEF RequestType
  <2>6. request[i].isWrite = c.writeMode
    <3>1. CASE c.writeMode
      BY <2>1, <2>4, <3>1 DEF Schedulable, ChannelInv, QueuesOfTheirKind, RequestType
    <3>2. CASE ~c.writeMode
      BY <1>0, <2>1, <2>4, <3>2 DEF Schedulable, ChannelInv, QueuesOfTheirKind, RequestType, ChannelType
    <3> QED
      BY <3>1, <3>2
  <2>7. now + AccessLatency(c, i) \in Nat
    BY DRAMAssumption DEF AccessLatency
  <2>8. /\ bank \in [Banks -> BankType]
        /\ \A a \in Banks : a # h => bank[a] = c.bank[a]
        /\ bank[h].valid /\ bank[h].pkt = i
    BY <1>0, <2>4, <2>5, <2>7 DEF ChannelType, BankType
  <2> HIDE DEF bank
  <2>9. d \in ChannelType
    BY <1>0, <2>2, <2>4, <2>8 DEF ChannelType
  <2>10. /\ d.RQ = c.RQ /\ d.WQ = c.WQ /\ d.active = c.active /\ d.bank = bank
         /\ d.writeMode = c.writeMode /\ d.scheduled = c.scheduled \union {i}
    BY <1>0, <2>2 DEF ChannelType
  <2>11. \A a \in Banks : d.bank[a].valid =>
           d.bank[a].pkt \in d.scheduled /\ request[d.bank[a].pkt].bank = a
    BY <2>8, <2>10 DEF ChannelInv, BanksHoldScheduled
  <2>12. \A j \in d.scheduled :
           d.bank[request[j].bank].valid /\ d.bank[request[j].bank].pkt = j
    <3>1. \A j \in c.scheduled : request[j].bank \in Banks /\ request[j].bank # h
      BY <1>0, <2>3 DEF ChannelType, RequestType, ChannelInv, BanksHoldScheduled
    <3> QED
      BY <2>8, <2>10, <3>1 DEF ChannelInv, BanksHoldScheduled
  <2>13. d.active # None => d.bank[d.active].valid
    BY <1>0, <2>8, <2>10 DEF ChannelInv, BanksHoldScheduled, ChannelType
  <2>14. BanksHoldScheduled(d)
    BY <2>3, <2>10, <2>11, <2>12, <2>13 DEF ChannelInv, BanksHoldScheduled
  <2>15. OneMode(d)
    BY <2>6, <2>8, <2>10 DEF ChannelInv, OneMode
  <2>16. QueuesOfTheirKind(d)
    BY <2>10 DEF ChannelInv, QueuesOfTheirKind
  <2> QED
    BY <2>9, <2>10, <2>14, <2>15, <2>16 DEF ChannelInv, d, i
<1> QED
  BY <1>1, <1>2

-----------------------------------------------------------------------------
\* What a tick does to the queues: at most one request leaves them, and it is
\* the one that is answered.
AnswersNone(c) == responses' = responses /\ ch'.RQ = c.RQ /\ ch'.WQ = c.WQ
AnswersOne(c, i, now) ==
    /\ responses' = responses \o <<[id |-> i, cycle |-> now]>>
    /\ ch'.RQ = c.RQ \ {i} /\ ch'.WQ = c.WQ \ {i}

\* A tick preserves the channel's invariant.
LEMMA TickPreserves ==
    ASSUME DRAMAssumption, request \in [Requests -> RequestType],
           NEW c, ChannelInv(c), NEW now \in Nat,
           responses \in Seq([id : Requests, cycle : Nat]),
           Tick(c, now)
    PROVE  /\ ChannelInv(ch')
           /\ AnswersNone(c) \/ \E i \in c.scheduled : AnswersOne(c, i, now)
           /\ rescheduled \subseteq Requests => rescheduled' \subseteq Requests
<1> DEFINE finished == FinishDBusRequest(c, now)
           switched == SwapWriteMode(finished, now)
           populated == PopulateDBus(switched, now)
<1>1. /\ ch' = ServicePacket(populated, SchedulePacket(populated, now), now)
      /\ responses' = responses \o Completed(c, now)
      /\ rescheduled' = rescheduled \union Preempted(finished)
  BY DEF Tick
<1>2. /\ ChannelInv(finished)
      /\ Completed(c, now) = <<>> => finished = c
      /\ Completed(c, now) # <<>> =>
           \E i \in c.scheduled :
              /\ Completed(c, now) = <<[id |-> i, cycle |-> now]>>
              /\ finished.RQ = c.RQ \ {i} /\ finished.WQ = c.WQ \ {i}
  BY FinishPreserves
<1> HIDE DEF finished
<1>3. /\ ChannelInv(switched)
      /\ switched.RQ = finished.RQ /\ switched.WQ = finished.WQ
  BY <1>2, SwapPreserves
<1> HIDE DEF switched
<1>4. /\ ChannelInv(populated)
      /\ populated.RQ = switched.RQ /\ populated.WQ = switched.WQ
  BY <1>3, PopulatePreserves
<1> HIDE DEF populated
<1>5. /\ ChannelInv(ch')
      /\ ch'.RQ = finished.RQ /\ ch'.WQ = finished.WQ
  BY <1>1, <1>3, <1>4, ServicePreserves
<1>6. ASSUME Completed(c, now) = <<>> PROVE AnswersNone(c)
  <2>1. responses \o <<>> = responses
    OBVIOUS
  <2>2. responses' = responses
    BY <1>1, <1>6, <2>1
  <2> QED
    BY <1>2, <1>5, <1>6, <2>2 DEF AnswersNone
<1>7. ASSUME Completed(c, now) # <<>> PROVE \E i \in c.scheduled : AnswersOne(c, i, now)
  <2>1. PICK i \in c.scheduled :
              /\ Completed(c, now) = <<[id |-> i, cycle |-> now]>>
              /\ finished.RQ = c.RQ \ {i} /\ finished.WQ = c.WQ \ {i}
    BY <1>2, <1>7
  <2>2. AnswersOne(c, i, now)
    BY <1>1, <1>5, <2>1 DEF AnswersOne
  <2> QED
    BY <2>2
<1>8. Preempted(finished) \subseteq Requests
  <2> SUFFICES ASSUME NEW b \in Banks, finished.bank[b].valid
               PROVE  finished.bank[b].pkt \in Requests
    BY DEF Preempted
  <2>1. finished.bank[b].pkt \in finished.scheduled
    BY <1>2 DEF ChannelInv, BanksHoldScheduled
  <2> QED
    BY <1>2, <2>1 DEF ChannelInv, ChannelType
<1> QED
  BY <1>1, <1>5, <1>6, <1>7, <1>8

\* A request that is accepted joins the queue of its kind.
LEMMA AddPreserves ==
    ASSUME DRAMAssumption, request \in [Requests -> RequestType],
           NEW c, ChannelInv(c), currentCycle \in Nat, NEW i \in Requests
    PROVE  LET d == AddRequest(c, i) IN
           /\ ChannelInv(d)
           /\ request[i].isWrite => d.RQ = c.RQ /\ d.WQ = c.WQ \union {i}
           /\ ~request[i].isWrite => d.RQ = c.RQ \union {i} /\ d.WQ = c.WQ
<1> DEFINE d == AddRequest(c, i)
           readyTime == [c.readyTime EXCEPT ![i] = currentCycle]
<1>0. c \in ChannelType /\ request[i].isWrite \in BOOLEAN
  BY DEF ChannelInv, RequestType
<1>1. readyTime \in [Requests -> Nat]
  BY <1>0 DEF ChannelType
<1>2. d = IF request[i].isWrite
          THEN [c EXCEPT !.readyTime = readyTime, !.WQ = c.WQ \union {i}]
          ELSE [c EXCEPT !.readyTime = readyTime, !.RQ = c.RQ \union {i}]
  BY <1>0 DEF AddRequest, ChannelType
<1> HIDE DEF d, readyTime
<1>3. d \in ChannelType
  BY <1>0, <1>1, <1>2 DEF ChannelType
<1>4. /\ request[i].isWrite => d.RQ = c.RQ /\ d.WQ = c.WQ \union {i}
      /\ ~request[i].isWrite => d.RQ = c.RQ \union {i} /\ d.WQ = c.WQ
  BY <1>0, <1>2 DEF ChannelType
<1>5. /\ d.bank = c.bank /\ d.scheduled = c.scheduled
      /\ d.active = c.active /\ d.writeMode = c.writeMode
  BY <1>0, <1>2 DEF ChannelType
<1>6. BanksHoldScheduled(d) /\ OneMode(d)
  BY <1>0, <1>4, <1>5 DEF ChannelInv, BanksHoldScheduled, OneMode
<1>7. QueuesOfTheirKind(d)
  BY <1>0, <1>4 DEF ChannelInv, QueuesOfTheirKind
<1> QED
  BY <1>3, <1>4, <1>6, <1>7 DEF ChannelInv, d

\* Taking requests out of a queue does not make it longer, adding one makes it
\* longer by one at most.
LEMMA QueueLengths ==
    ASSUME DRAMAssumption, NEW S \in SUBSET Requests, NEW T, NEW i
    PROVE  /\ Cardinality(S) \in Nat
           /\ T \subseteq S => Cardinality(T) <= Cardinality(S) /\ Cardinality(T) \in Nat
           /\ Cardinality(S \union {i}) <= Cardinality(S) + 1
           /\ Cardinality(S \union {i}) \in Nat
<1>1. IsFiniteSet(Requests)
  BY DRAMAssumption, FS_Interval DEF Requests
<1>2. IsFiniteSet(S)
  BY <1>1, FS_Subset
<1>3. IsFiniteSet(S \union {i})
  BY <1>2, FS_AddElement
<1> QED
  BY <1>2, <1>3, FS_Subset, FS_AddElement, FS_CardinalityType

-----------------------------------------------------------------------------
Inv == /\ TypeOK
       /\ ScheduledInBank /\ OneModeAtATime
       /\ AnsweredOnce

\* A new channel satisfies the invariant.
LEMMA InitInv == Init => Inv
<1> SUFFICES ASSUME Init PROVE Inv
  OBVIOUS
<1> USE DRAMAssumption
<1>1. /\ request \in [Requests -> RequestType]
      /\ ch = NewDRAMChannel /\ responses = <<>> /\ accepted = 0
      /\ cycle = 0 /\ currentCycle = 0 /\ rescheduled = {} /\ failed = FALSE
  BY DEF Init
<1>2. ch \in ChannelType /\ ch.RQ = {} /\ ch.WQ = {} /\ ch.scheduled = {} /\ ch.active = None
  BY <1>1 DEF NewDRAMChannel, ChannelType, BankType, None
<1>3. \A b \in Banks : ~ch.bank[b].valid
  BY <1>1 DEF NewDRAMChannel
<1>4. TypeOK
  <2>1. Cardinality({}) = 0
    BY FS_EmptySet
  <2>2. /\ Cardinality(ch.RQ) <= RQSize /\ Cardinality(ch.WQ) <= WQSize
        /\ accepted \in 0 .. NumRequests /\ cycle \in Nat /\ currentCycle \in Nat
    BY <1>1, <1>2, <2>1
  <2>3. responses \in Seq([id : Requests, cycle : Nat])
    BY <1>1
  <2> QED
    BY <1>1, <1>2, <2>2, <2>3 DEF TypeOK
<1>5. ScheduledInBank /\ OneModeAtATime
  BY <1>2, <1>3 DEF ScheduledInBank, BanksHoldScheduled, OneModeAtATime, OneMode
<1>6. AnsweredOnce
  BY <1>1, <1>2 DEF AnsweredOnce, Answered, QueuesOfTheirKind
<1> QED
  BY <1>4, <1>5, <1>6 DEF Inv

\* The sequence of answers, and which requests it answers, when one more comes.
LEMMA OneMore ==
    ASSUME responses \in Seq([id : Requests, cycle : Nat]),
           NEW i \in Requests, NEW now \in Nat,
           responses' = responses \o <<[id |-> i, cycle |-> now]>>
    PROVE  /\ responses' \in Seq([id : Requests, cycle : Nat])
           /\ Len(responses') = Len(responses) + 1
           /\ DOMAIN responses' = DOMAIN responses \union {Len(responses) + 1}
           /\ \A k \in DOMAIN responses : responses'[k] = responses[k]
           /\ responses'[Len(responses) + 1] = [id |-> i, cycle |-> now]
           /\ Answered' = Answered \union {i}
<1> DEFINE r == [id |-> i, cycle |-> now]
<1>1. r \in [id : Requests, cycle : Nat]
  OBVIOUS
<1>2. responses' = responses \o <<r>>
  OBVIOUS
<1> HIDE DEF r
<1>3. /\ responses' \in Seq([id : Requests, cycle : Nat])
      /\ Len(responses') = Len(responses) + 1
      /\ DOMAIN responses' = DOMAIN responses \union {Len(responses) + 1}
      /\ \A k \in DOMAIN responses : responses'[k] = responses[k]
      /\ responses'[Len(responses) + 1] = r
  BY <1>1, <1>2
<1>4. r.id = i
  BY DEF r
<1>5. Answered' = Answered \union {i}
  BY <1>3, <1>4 DEF Answered
<1> QED
  BY <1>3, <1>5 DEF r

\* A cycle in which the channel ticks, with or without a new request.  c is the
\* channel with that request.
LEMMA CycleInv ==
    ASSUME DRAMAssumption, Inv, NEW c, ChannelInv(c),
           accepted' \in {accepted} \union (1 .. NumRequests \cap {accepted + 1}),
           c.RQ \union c.WQ = (1 .. accepted') \ Answered,
           Cardinality(c.RQ) <= RQSize, Cardinality(c.WQ) <= WQSize,
           Tick(c, currentCycle + 1), UNCHANGED <<request, failed>>
    PROVE  Inv'
<1> DEFINE now == currentCycle + 1
<1>1. /\ request \in [Requests -> RequestType] /\ now \in Nat /\ cycle \in Nat
      /\ responses \in Seq([id : Requests, cycle : Nat]) /\ accepted \in 0 .. NumRequests
      /\ rescheduled \subseteq Requests /\ failed \in BOOLEAN
  BY DEF Inv, TypeOK
<1>2. /\ ChannelInv(ch')
      /\ AnswersNone(c) \/ \E i \in c.RQ \union c.WQ : AnswersOne(c, i, now)
      /\ rescheduled' \subseteq Requests
  BY <1>1, TickPreserves DEF ChannelInv, BanksHoldScheduled
<1>3. ch' \in ChannelType /\ c \in ChannelType
  BY <1>2 DEF ChannelInv
<1>4. accepted' \in 0 .. NumRequests
  BY <1>1, DRAMAssumption
<1>5. cycle' \in Nat /\ currentCycle' \in Nat /\ request' = request /\ failed' = failed
  BY <1>1 DEF Tick
<1>6. ch'.RQ \subseteq c.RQ /\ ch'.WQ \subseteq c.WQ
  BY <1>2 DEF AnswersNone, AnswersOne
<1>7. Cardinality(ch'.RQ) <= RQSize /\ Cardinality(ch'.WQ) <= WQSize
  <2>1. c.RQ \in SUBSET Requests /\ c.WQ \in SUBSET Requests
    BY <1>3 DEF ChannelType
  <2>2. /\ Cardinality(ch'.RQ) <= Cardinality(c.RQ) /\ Cardinality(ch'.RQ) \in Nat
        /\ Cardinality(c.RQ) \in Nat
    BY <1>6, <2>1, QueueLengths
  <2>3. /\ Cardinality(ch'.WQ) <= Cardinality(c.WQ) /\ Cardinality(ch'.WQ) \in Nat
        /\ Cardinality(c.WQ) \in Nat
    BY <1>6, <2>1, QueueLengths
  <2> QED
    BY <2>2, <2>3, DRAMAssumption DEF DRAMAssumption
<1>8. /\ Answered \subseteq 1 .. accepted
      /\ \A k, l \in DOMAIN responses : responses[k].id = responses[l].id => k = l
  BY DEF Inv, AnsweredOnce
<1>9. 1 .. accepted \subseteq 1 .. accepted'
  BY <1>1
<1>10. /\ responses' \in Seq([id : Requests, cycle : Nat])
       /\ ch'.RQ \union ch'.WQ = (1 .. accepted') \ Answered'
       /\ Answered' \subseteq 1 .. accepted'
       /\ \A k, l \in DOMAIN responses' : responses'[k].id = responses'[l].id => k = l
  <2>1. CASE AnswersNone(c)
    <3>1. responses' = responses /\ Answered' = Answered
      BY <2>1 DEF AnswersNone, Answered
    <3> QED
      BY <1>1, <1>8, <1>9, <2>1, <3>1 DEF AnswersNone
  <2>2. ASSUME NEW i \in c.RQ \union c.WQ, AnswersOne(c, i, now)
        PROVE  <1>10!:
    <3>1. i \in Requests /\ i \in 1 .. accepted' /\ i \notin Answered
      BY <1>3 DEF ChannelType
    <3>2. /\ responses' \in Seq([id : Requests, cycle : Nat])
          /\ DOMAIN responses' = DOMAIN responses \union {Len(responses) + 1}
          /\ \A k \in DOMAIN responses : responses'[k] = responses[k]
          /\ responses'[Len(responses) + 1] = [id |-> i, cycle |-> now]
          /\ Answered' = Answered \union {i}
      BY <1>1, <2>2, <3>1, OneMore DEF AnswersOne
    <3>3. responses'[Len(responses) + 1].id = i
      BY <3>2
    <3>4. \A k \in DOMAIN responses : responses[k].id \in Answered
      BY DEF Answered
    <3>5. \A k, l \in DOMAIN responses' : responses'[k].id = responses'[l].id => k = l
      BY <1>8, <3>1, <3>2, <3>3, <3>4
    <3>6. ch'.RQ \union ch'.WQ = (c.RQ \union c.WQ) \ {i}
      BY <2>2 DEF AnswersOne
    <3>7. ch'.RQ \union ch'.WQ = (1 .. accepted') \ Answered'
      BY <3>2, <3>6
    <3>8. Answered' \subseteq 1 .. accepted'
      BY <1>8, <1>9, <3>1, <3>2
    <3> QED
      BY <3>2, <3>5, <3>7, <3>8
  <2> QED
    BY <1>2, <2>1, <2>2
<1>11. TypeOK'
  BY <1>1, <1>2, <1>3, <1>4, <1>5, <1>7, <1>10 DEF TypeOK
<1>12. ScheduledInBank' /\ OneModeAtATime'
  BY <1>2, <1>5 DEF ChannelInv, ScheduledInBank, OneModeAtATime, BanksHoldScheduled, OneMode
<1>13. AnsweredOnce'
  BY <1>2, <1>5, <1>10 DEF ChannelInv, AnsweredOnce, QueuesOfTheirKind
<1> QED
  BY <1>11, <1>12, <1>13 DEF Inv

\* Every step preserves the invariant.
LEMMA NextInv == ASSUME Inv, [Next]_vars PROVE Inv'
<1> USE DRAMAssumption
<1>1. ChannelInv(ch)
  BY DEF Inv, TypeOK, AnsweredOnce, ScheduledInBank, OneModeAtATime, ChannelInv
<1>2. /\ ch.RQ \union ch.WQ = (1 .. accepted) \ Answered
      /\ Cardinality(ch.RQ) <= RQSize /\ Cardinality(ch.WQ) <= WQSize
      /\ request \in [Requests -> RequestType] /\ currentCycle \in Nat
      /\ accepted \in 0 .. NumRequests
      /\ Answered \subseteq 1 .. accepted
      /\ ch.RQ \in SUBSET Requests /\ ch.WQ \in SUBSET Requests
  BY DEF Inv, TypeOK, AnsweredOnce, ChannelType
<1>3. CASE ProcessRequest
  <2> DEFINE i == accepted + 1
             c == AddRequest(ch, i)
  <2>1. i \in Requests /\ i \in 1 .. NumRequests /\ accepted' = accepted + 1
    BY <1>2, <1>3 DEF ProcessRequest, Requests
  <2>2. /\ ChannelInv(c)
        /\ request[i].isWrite => c.RQ = ch.RQ /\ c.WQ = ch.WQ \union {i}
        /\ ~request[i].isWrite => c.RQ = ch.RQ \union {i} /\ c.WQ = ch.WQ
    BY <1>1, <1>2, <2>1, AddPreserves
  <2>3. Tick(c, currentCycle + 1) /\ UNCHANGED <<request, failed>>
    BY <1>3 DEF ProcessRequest
  <2>4. /\ request[i].isWrite => Cardinality(ch.WQ) < WQSize
        /\ ~request[i].isWrite => Cardinality(ch.RQ) < RQSize
    <3>1. Cardinality(ch.RQ) \in Nat /\ Cardinality(ch.WQ) \in Nat
      BY <1>2, QueueLengths
    <3> QED
      BY <1>3, <3>1 DEF ProcessRequest, QueueFull
  <2> HIDE DEF c
  <2>5. c.RQ \union c.WQ = (1 .. accepted') \ Answered
    <3>1. 1 .. accepted' = (1 .. accepted) \union {i} /\ i \notin 1 .. accepted
      BY <1>2, <2>1
    <3>2. c.RQ \union c.WQ = (ch.RQ \union ch.WQ) \union {i}
      BY <2>2
    <3> QED
      BY <1>2, <3>1, <3>2
  <2>6. Cardinality(c.RQ) <= RQSize /\ Cardinality(c.WQ) <= WQSize
    <3>1. /\ Cardinality(ch.RQ) \in Nat /\ Cardinality(ch.RQ \union {i}) \in Nat
          /\ Cardinality(ch.RQ \union {i}) <= Cardinality(ch.RQ) + 1
      BY <1>2, QueueLengths
    <3>2. /\ Cardinality(ch.WQ) \in Nat /\ Cardinality(ch.WQ \union {i}) \in Nat
          /\ Cardinality(ch.WQ \union {i}) <= Cardinality(ch.WQ) + 1
      BY <1>2, QueueLengths
    <3>3. RQSize \in Nat /\ WQSize \in Nat
      BY DEF DRAMAssumption
    <3>4. CASE request[i].isWrite
      <4>1. c.RQ = ch.RQ /\ c.WQ = ch.WQ \union {i} /\ Cardinality(ch.WQ) < WQSize
        BY <2>2, <2>4, <3>4, Zenon
      <4> QED
        BY <1>2, <3>2, <3>3, <4>1
    <3>5. CASE ~request[i].isWrite
      <4>1. c.WQ = ch.WQ /\ c.RQ = ch.RQ \union {i} /\ Cardinality(ch.RQ) < RQSize
        BY <2>2, <2>4, <3>5, Zenon
      <4> QED
        BY <1>2, <3>1, <3>3, <4>1
    <3> QED
      BY <3>4, <3>5
  <2> HIDE DEF i
  <2> QED
    BY <2>1, <2>2, <2>3, <2>5, <2>6, CycleInv DEF i
<1>4. CASE ProcessNothing
  <2>1. Tick(ch, currentCycle + 1) /\ UNCHANGED <<request, accepted, failed>>
    BY <1>4 DEF ProcessNothing
  <2> QED
    BY <1>1, <1>2, <2>1, CycleInv
<1>5. CASE ProcessFails
  BY <1>5 DEF ProcessFails, Inv, TypeOK, AnsweredOnce, Answered, QueuesOfTheirKind,
              ScheduledInBank, BanksHoldScheduled, OneModeAtATime, OneMode
<1>6. CASE UNCHANGED vars
  BY <1>6 DEF vars, Inv, TypeOK, AnsweredOnce, Answered, QueuesOfTheirKind,
              ScheduledInBank, BanksHoldScheduled, OneModeAtATime, OneMode
<1> QED
  BY <1>3, <1>4, <1>5, <1>6 DEF Next, Process, Stopped

\* The invariant holds in every reachable state.
THEOREM ChannelInvariant == Spec => []Inv
<1>1. Init => Inv
  BY InitInv
<1>2. Inv /\ [Next]_vars => Inv'
  BY NextInv
<1> QED
  BY <1>1, <1>2, PTL DEF Spec

\* The channel keeps its types, and its queues keep their sizes.
THEOREM TypeCorrect == Spec => []TypeOK
<1>1. Inv => TypeOK
  BY DEF Inv
<1> QED
  BY <1>1, ChannelInvariant, PTL

\* Every accepted request waits or has been answered, and none twice
\* (finishDBusRequest, removeFromQueue).
THEOREM EachAnsweredOnce == Spec => []AnsweredOnce
<1>1. Inv => AnsweredOnce
  BY DEF Inv
<1> QED
  BY <1>1, ChannelInvariant, PTL

\* The scheduled requests are exactly those the banks hold (swapWriteMode,
\* servicePacket).
THEOREM ScheduledHaveBanks == Spec => []ScheduledInBank
<1>1. Inv => ScheduledInBank
  BY DEF Inv
<1> QED
  BY <1>1, ChannelInvariant, PTL

\* Only the request on the data bus may be of the other kind (swapWriteMode).
THEOREM BanksOfOneMode == Spec => []OneModeAtATime
<1>1. Inv => OneModeAtATime
  BY DEF Inv
<1> QED
  BY <1>1, ChannelInvariant, PTL

-----------------------------------------------------------------------------
(* The channel implements the memory service.                              *)

\* The answers are the identities of the responses, and the service's view of
\* which requests are answered is the channel's.
LEMMA ServiceAnswers ==
    ASSUME responses \in Seq([id : Requests, cycle : Nat])
    PROVE  /\ [k \in DOMAIN responses |-> responses[k].id] \in Seq(Requests)
           /\ Service!Answered = Answered
           /\ Service!Pending = (1 .. accepted) \ Answered
<1> DEFINE a == [k \in DOMAIN responses |-> responses[k].id]
<1>1. /\ DOMAIN responses = 1 .. Len(responses) /\ Len(responses) \in Nat
      /\ \A k \in 1 .. Len(responses) : responses[k] \in [id : Requests, cycle : Nat]
  <2> DEFINE R == [id : Requests, cycle : Nat]
  <2> HIDE DEF R
  <2>1. responses \in Seq(R)
    BY DEF R
  <2>2. /\ DOMAIN responses = 1 .. Len(responses) /\ Len(responses) \in Nat
        /\ \A k \in 1 .. Len(responses) : responses[k] \in R
    BY <2>1
  <2> QED
    BY <2>2 DEF R
<1>2. a \in [1 .. Len(responses) -> Requests]
  BY <1>1
<1>3. a \in Seq(Requests)
  BY <1>1, <1>2
<1>4. Service!Answered = Answered
  BY DEF Service!Answered, Answered
<1> QED
  BY <1>3, <1>4 DEF Service!Pending

\* An answer appends to the answers of the service.
LEMMA AnswerAppends ==
    ASSUME responses \in Seq([id : Requests, cycle : Nat]),
           NEW i \in Requests, NEW now \in Nat,
           responses' = responses \o <<[id |-> i, cycle |-> now]>>
    PROVE  [k \in DOMAIN responses |-> responses[k].id]' =
               Append([k \in DOMAIN responses |-> responses[k].id], i)
<1> DEFINE a == [k \in DOMAIN responses |-> responses[k].id]
           b == [k \in DOMAIN responses' |-> responses'[k].id]
<1>1. /\ responses' \in Seq([id : Requests, cycle : Nat])
      /\ Len(responses') = Len(responses) + 1
      /\ \A k \in DOMAIN responses : responses'[k] = responses[k]
      /\ responses'[Len(responses) + 1] = [id |-> i, cycle |-> now]
  BY OneMore
<1>2. /\ DOMAIN responses = 1 .. Len(responses) /\ Len(responses) \in Nat
      /\ DOMAIN responses' = 1 .. Len(responses) + 1
  BY <1>1
<1>3. /\ a \in Seq(Requests) /\ Len(a) = Len(responses)
      /\ \A k \in 1 .. Len(responses) : a[k] = responses[k].id
  BY <1>2, ServiceAnswers
<1>4. b \in Seq(Requests) /\ Len(b) = Len(responses) + 1
  <2>1. b \in [1 .. Len(responses) + 1 -> Requests]
    BY <1>1, <1>2, <1>3
  <2> QED
    BY <1>2, <2>1
<1>5. (\A k \in 1 .. Len(responses) : b[k] = a[k]) /\ b[Len(responses) + 1] = i
  BY <1>1, <1>2, <1>3
<1> HIDE DEF a, b
<1>6. /\ Append(a, i) \in Seq(Requests) /\ Len(Append(a, i)) = Len(responses) + 1
      /\ \A k \in 1 .. Len(responses) : Append(a, i)[k] = a[k]
      /\ Append(a, i)[Len(responses) + 1] = i
  BY <1>3, AppendProperties
<1>7. \A k \in 1 .. Len(b) : b[k] = Append(a, i)[k]
  BY <1>2, <1>4, <1>5, <1>6
<1>8. b = Append(a, i)
  BY <1>4, <1>6, <1>7, SeqEqual
<1> QED
  BY <1>8 DEF a, b

\* A tick is a cycle of the service: the request that is answered was in a
\* bank, hence accepted in an earlier cycle.
LEMMA CycleServes ==
    ASSUME DRAMAssumption, Inv, NEW c, ChannelInv(c), ~failed,
           c.scheduled \subseteq (1 .. accepted) \ Answered,
           accepted' \in {accepted} \union (1 .. NumRequests \cap {accepted + 1}),
           Tick(c, currentCycle + 1), UNCHANGED <<request, failed>>
    PROVE  Service!Cycle
<1> DEFINE now == currentCycle + 1
           a == [k \in DOMAIN responses |-> responses[k].id]
<1>1. /\ request \in [Requests -> RequestType] /\ now \in Nat
      /\ responses \in Seq([id : Requests, cycle : Nat])
      /\ c.scheduled \subseteq Requests
  BY DEF Inv, TypeOK, ChannelInv, ChannelType
<1>2. AnswersNone(c) \/ \E i \in c.scheduled : AnswersOne(c, i, now)
  BY <1>1, TickPreserves
<1>3. a' = a \/ \E i \in Service!Pending : a' = Append(a, i)
  <2>1. CASE AnswersNone(c)
    BY <2>1 DEF AnswersNone
  <2>2. ASSUME NEW i \in c.scheduled, AnswersOne(c, i, now)
        PROVE  i \in Service!Pending /\ a' = Append(a, i)
    <3>1. i \in Requests /\ responses' = responses \o <<[id |-> i, cycle |-> now]>>
      BY <1>1, <2>2 DEF AnswersOne
    <3>2. a' = Append(a, i)
      BY <1>1, <3>1, AnswerAppends
    <3>3. i \in Service!Pending
      BY <1>1, ServiceAnswers
    <3> QED
      BY <3>2, <3>3
  <2> QED
    BY <1>2, <2>1, <2>2
<1> QED
  BY <1>3 DEF Service!Cycle

\* Every step of the channel is a step of the service, or none.
LEMMA StepServes == ASSUME Inv, [Next]_vars PROVE [Service!Next]_(Service!vars)
<1> USE DRAMAssumption
<1>1. ChannelInv(ch)
  BY DEF Inv, TypeOK, AnsweredOnce, ScheduledInBank, OneModeAtATime, ChannelInv
<1>2. /\ ch.RQ \union ch.WQ = (1 .. accepted) \ Answered
      /\ ch.scheduled \subseteq (1 .. accepted) \ Answered
      /\ request \in [Requests -> RequestType] /\ currentCycle \in Nat
      /\ accepted \in 0 .. NumRequests
      /\ responses \in Seq([id : Requests, cycle : Nat])
      /\ ch.RQ \in SUBSET Requests /\ ch.WQ \in SUBSET Requests
  BY <1>1 DEF Inv, TypeOK, AnsweredOnce, ChannelType, ChannelInv, BanksHoldScheduled
<1>3. CASE ProcessRequest
  <2> DEFINE i == accepted + 1
             c == AddRequest(ch, i)
  <2>1. i \in Requests /\ i \in 1 .. NumRequests /\ accepted' = accepted + 1
    BY <1>2, <1>3 DEF ProcessRequest, Requests
  <2>2. ChannelInv(c)
    BY <1>1, <1>2, <2>1, AddPreserves
  <2>3. c.scheduled = ch.scheduled
    BY <1>1 DEF AddRequest, ChannelInv, ChannelType
  <2>4. Tick(c, currentCycle + 1) /\ UNCHANGED <<request, failed>> /\ ~failed
    BY <1>3 DEF ProcessRequest
  <2> HIDE DEF c
  <2>5. Service!Cycle
    BY <1>2, <2>1, <2>2, <2>3, <2>4, CycleServes
  <2> QED
    BY <2>5 DEF Service!Next
<1>4. CASE ProcessNothing
  <2>1. Tick(ch, currentCycle + 1) /\ UNCHANGED <<request, accepted, failed>> /\ ~failed
    BY <1>4 DEF ProcessNothing
  <2>2. Service!Cycle
    BY <1>1, <1>2, <2>1, CycleServes
  <2> QED
    BY <2>2 DEF Service!Next
<1>5. CASE ProcessFails
  <2>1. Service!Pending = ch.RQ \union ch.WQ
    BY <1>2, ServiceAnswers
  <2>2. /\ Cardinality(ch.RQ) <= Cardinality(ch.RQ \union ch.WQ)
        /\ Cardinality(ch.WQ) <= Cardinality(ch.RQ \union ch.WQ)
        /\ Cardinality(ch.RQ) \in Nat /\ Cardinality(ch.WQ) \in Nat
        /\ Cardinality(ch.RQ \union ch.WQ) \in Nat
    <3>1. ch.RQ \union ch.WQ \in SUBSET Requests
      BY <1>2
    <3> QED
      BY <3>1, QueueLengths
  <2>3. Cardinality(ch.RQ) >= RQSize \/ Cardinality(ch.WQ) >= WQSize
    BY <1>5 DEF ProcessFails, QueueFull
  <2>4. Cardinality(ch.RQ \union ch.WQ) >= IF RQSize < WQSize THEN RQSize ELSE WQSize
    <3> DEFINE r == Cardinality(ch.RQ)  w == Cardinality(ch.WQ)
               u == Cardinality(ch.RQ \union ch.WQ)
    <3>1. RQSize \in Nat /\ WQSize \in Nat
      BY DEF DRAMAssumption
    <3>2. r <= u /\ w <= u /\ r \in Nat /\ w \in Nat /\ u \in Nat
          /\ (r >= RQSize \/ w >= WQSize)
      BY <2>2, <2>3
    <3> HIDE DEF r, w, u
    <3>3. u >= IF RQSize < WQSize THEN RQSize ELSE WQSize
      BY <3>1, <3>2
    <3> QED
      BY <3>3 DEF u
  <2>5. Cardinality(Service!Pending) >= IF RQSize < WQSize THEN RQSize ELSE WQSize
    BY <2>1, <2>4
  <2>6. failed' = TRUE /\ accepted' = accepted /\ responses' = responses
    BY <1>5 DEF ProcessFails
  <2>7. Service!Fail
    BY <2>5, <2>6 DEF Service!Fail, Service!Cardinality, Cardinality
  <2> QED
    BY <2>7 DEF Service!Next
<1>6. CASE UNCHANGED vars
  BY <1>6 DEF vars, Service!vars
<1> QED
  BY <1>3, <1>4, <1>5, <1>6 DEF Next, Process, Stopped

\* The node accepts and answers as the memory service does: requests come in
\* order, each answer is to a request accepted in an earlier cycle and not yet
\* answered, and Process fails only when as many requests wait as the smaller
\* queue holds.
THEOREM ImplementsService == Spec => Service!SafeSpec
<1>1. Init => Service!Init
  BY DEF Init, Service!Init
<1>2. Inv /\ [Next]_vars => [Service!Next]_(Service!vars)
  BY StepServes
<1> QED
  BY <1>1, <1>2, ChannelInvariant, PTL DEF Spec, Service!SafeSpec

-----------------------------------------------------------------------------
(***************************************************************************)
(* When a channel answers: the turn-around time of its data bus, and the   *)
(* order in which it serves requests of one kind for one row.              *)
(***************************************************************************)

-----------------------------------------------------------------------------
(* What each part of operate() does to the fields that time depends on.    *)

\* finishDBusRequest does nothing, or it frees the bus and answers.
LEMMA FinishFields ==
    ASSUME DRAMAssumption, NEW c, ChannelInv(c), NEW now \in Nat
    PROVE  LET d == FinishDBusRequest(c, now)
               i == c.bank[c.active].pkt IN
           \/ /\ Completed(c, now) = <<>> /\ d = c
              /\ c.active # None => c.bank[c.active].readyTime > now
           \/ /\ Completed(c, now) = <<[id |-> i, cycle |-> now]>>
              /\ c.active # None /\ c.bank[c.active].readyTime <= now
              /\ d.active = None
              /\ d.dbusAvailable = c.dbusAvailable /\ d.writeMode = c.writeMode
              /\ d.readyTime = c.readyTime /\ d.scheduled = c.scheduled \ {i}
              /\ d.RQ = c.RQ \ {i} /\ d.WQ = c.WQ \ {i}
<1>1. c \in ChannelType
  BY DEF ChannelInv
<1>2. CASE c.active = None \/ c.bank[c.active].readyTime > now
  BY <1>2 DEF FinishDBusRequest, Completed
<1>3. CASE ~(c.active = None \/ c.bank[c.active].readyTime > now)
  <2>1. c.active # None /\ c.bank[c.active].readyTime <= now
    BY <1>1, <1>3 DEF ChannelType, BankType
  <2> QED
    BY <1>1, <1>3, <2>1 DEF FinishDBusRequest, Completed, ChannelType
<1> QED
  BY <1>2, <1>3

\* swapWriteMode leaves the data bus with the bank that has it, and lets it
\* rest after the burst.
LEMMA SwapFields ==
    ASSUME DRAMAssumption, NEW c, ChannelInv(c), NEW now \in Nat
    PROVE  LET d == SwapWriteMode(c, now) IN
           /\ d.active = c.active
           /\ c.active # None => d.bank[c.active] = c.bank[c.active]
           /\ \/ d = c
              \/ d.dbusAvailable = (IF c.active = None THEN now
                                    ELSE c.bank[c.active].readyTime) + TRAS
           /\ d.readyTime = [i \in Requests |->
                 IF i \in Preempted(c) THEN now ELSE c.readyTime[i]]
           /\ d.scheduled = c.scheduled \ Preempted(c)
           /\ d.RQ = c.RQ /\ d.WQ = c.WQ
<1>1. c \in ChannelType
  BY DEF ChannelInv
<1>2. CASE ~ShouldSwitch(c)
  BY <1>1, <1>2 DEF SwapWriteMode, Preempted, ChannelType
<1>3. CASE ShouldSwitch(c)
  <2>1. c.active # None => c.active \in Banks
    BY <1>1 DEF ChannelType
  <2> QED
    BY <1>1, <1>3, <2>1 DEF SwapWriteMode, ChannelType
<1> QED
  BY <1>2, <1>3

\* populateDBus gives a free bus, once it has rested, to a bank that is ready.
LEMMA PopulateFields ==
    ASSUME DRAMAssumption, NEW c, ChannelInv(c), NEW now \in Nat
    PROVE  LET d == PopulateDBus(c, now) IN
           /\ d.readyTime = c.readyTime /\ d.scheduled = c.scheduled
           /\ d.writeMode = c.writeMode
           /\ d.RQ = c.RQ /\ d.WQ = c.WQ
           /\ \A b \in Banks : d.bank[b].valid = c.bank[b].valid
           /\ \/ d = c
              \/ /\ c.active = None /\ c.dbusAvailable <= now
                 /\ d.active \in Banks /\ c.bank[d.active].valid
                 /\ d.bank[d.active].pkt = c.bank[d.active].pkt
                 /\ d.bank[d.active].readyTime = now + BurstTime
<1> DEFINE d == PopulateDBus(c, now)
           b == CHOOSE b \in FirstReady(c, now) : TRUE
           bank == [c.bank EXCEPT ![b].readyTime = now + BurstTime]
<1>1. c \in ChannelType
  BY DEF ChannelInv
<1>2. CASE c.active # None \/ c.dbusAvailable > now \/ FirstReady(c, now) = {}
  BY <1>2 DEF PopulateDBus
<1>3. CASE ~(c.active # None \/ c.dbusAvailable > now \/ FirstReady(c, now) = {})
  <2>1. b \in Banks /\ c.bank[b].valid
    BY <1>3 DEF FirstReady, ReadyBanks
  <2>2. d = [c EXCEPT !.active = b, !.bank = bank, !.dbusAvailable = now + BurstTime]
    BY <1>1, <1>3 DEF PopulateDBus, ChannelType
  <2>3. c.active = None /\ c.dbusAvailable <= now
    BY <1>1, <1>3 DEF ChannelType
  <2> HIDE DEF b, d
  <2>4. /\ bank[b].pkt = c.bank[b].pkt /\ bank[b].readyTime = now + BurstTime
        /\ \A a \in Banks : bank[a].valid = c.bank[a].valid
    BY <1>1, <2>1 DEF ChannelType, BankType
  <2> HIDE DEF bank
  <2>5. /\ d.active = b /\ d.bank = bank /\ d.readyTime = c.readyTime
        /\ d.scheduled = c.scheduled /\ d.writeMode = c.writeMode
        /\ d.RQ = c.RQ /\ d.WQ = c.WQ
    BY <1>1, <2>2 DEF ChannelType
  <2> QED
    BY <2>1, <2>3, <2>4, <2>5 DEF d
<1> QED
  BY <1>2, <1>3

\* schedulePacket and servicePacket give a free bank its best request, and do
\* not touch the bank on the bus.
LEMMA ServiceFields ==
    ASSUME DRAMAssumption, request \in [Requests -> RequestType],
           NEW c, ChannelInv(c), NEW now \in Nat
    PROVE  LET i == SchedulePacket(c, now)
               d == ServicePacket(c, i, now) IN
           /\ d.active = c.active /\ d.dbusAvailable = c.dbusAvailable
           /\ d.readyTime = c.readyTime /\ d.writeMode = c.writeMode
           /\ d.RQ = c.RQ /\ d.WQ = c.WQ
           /\ c.active # None => d.bank[c.active] = c.bank[c.active]
           /\ \/ d.scheduled = c.scheduled
              \/ i \in Best(c, now) /\ d.scheduled = c.scheduled \union {i}
<1> DEFINE i == SchedulePacket(c, now)
           d == ServicePacket(c, i, now)
           h == request[i].bank
           new == [valid |-> TRUE, pkt |-> i, readyTime |-> now + AccessLatency(c, i),
                   openRow |-> request[i].row]
<1>1. c \in ChannelType
  BY DEF ChannelInv
<1>2. CASE i = None
  BY <1>2 DEF ServicePacket
<1>3. CASE i # None
  <2>1. i \in Best(c, now)
    BY <1>3 DEF SchedulePacket
  <2>2. d = [c EXCEPT !.scheduled = c.scheduled \union {i},
                      !.bank = [c.bank EXCEPT ![h] = new]]
    BY <1>1, <1>3 DEF ServicePacket, ChannelType
  <2> HIDE DEF i, d, new
  <2>3. ~c.bank[h].valid
    BY <2>1 DEF Best, Schedulable
  <2>4. c.active # None => c.active \in Banks /\ c.active # h
    BY <1>1, <2>3 DEF ChannelType, ChannelInv, BanksHoldScheduled
  <2>5. c.active # None => [c.bank EXCEPT ![h] = new][c.active] = c.bank[c.active]
    BY <1>1, <2>4 DEF ChannelType
  <2>6. /\ d.active = c.active /\ d.dbusAvailable = c.dbusAvailable
        /\ d.readyTime = c.readyTime /\ d.writeMode = c.writeMode
        /\ d.RQ = c.RQ /\ d.WQ = c.WQ
        /\ d.bank = [c.bank EXCEPT ![h] = new]
        /\ d.scheduled = c.scheduled \union {i}
    BY <1>1, <2>2 DEF ChannelType
  <2> QED
    BY <2>1, <2>5, <2>6 DEF i, d
<1> QED
  BY <1>2, <1>3

-----------------------------------------------------------------------------
(* The data bus.  t is the time of the next tick.                          *)

Rest(i, j) == IF request[i].isWrite = request[j].isWrite THEN 0 ELSE TRAS

\* A burst ends at a tick, not between two, and a switch that comes during a
\* burst of the other kind has reserved the time to turn around.
BusReserved(c, t) ==
    c.active # None =>
        /\ c.bank[c.active].readyTime >= t
        /\ request[c.bank[c.active].pkt].isWrite # c.writeMode =>
             c.dbusAvailable >= c.bank[c.active].readyTime + TRAS

\* After response x the free bus rests if the mode has changed, and the next
\* burst started late enough.
BusRestsAfter(c, x, t) ==
    /\ x.cycle <= t
    /\ (c.active = None /\ request[x.id].isWrite # c.writeMode) =>
         c.dbusAvailable >= x.cycle + TRAS
    /\ c.active # None =>
         c.bank[c.active].readyTime >= x.cycle + BurstTime + Rest(x.id, c.bank[c.active].pkt)

Responses == [id : Requests, cycle : Nat]

BusInv ==
    /\ currentCycle = IF cycle = 0 THEN 0 ELSE cycle - 1
    /\ BusReserved(ch, currentCycle + 1)
    /\ responses # <<>> => BusRestsAfter(ch, responses[Len(responses)], currentCycle + 1)
    /\ BusTurnaround

\* The switch and the scheduling keep the reservation of the bus, and a burst
\* that starts has waited for it.
LEMMA BusAfterFinish ==
    ASSUME DRAMAssumption, request \in [Requests -> RequestType],
           NEW c, ChannelInv(c), NEW now \in Nat, BusReserved(c, now),
           c.active # None => c.bank[c.active].readyTime > now,
           NEW next \in {now, now + 1}
    PROVE  LET s == SwapWriteMode(c, now)
               p == PopulateDBus(s, now)
               d == ServicePacket(p, SchedulePacket(p, now), now) IN
           /\ BusReserved(d, next)
           /\ \A x \in Responses : BusRestsAfter(c, x, now) => BusRestsAfter(d, x, next)
<1> DEFINE s == SwapWriteMode(c, now)
           p == PopulateDBus(s, now)
           d == ServicePacket(p, SchedulePacket(p, now), now)
<1>1. /\ ChannelInv(s) /\ s.active = c.active
      /\ c.active # None => s.bank[c.active] = c.bank[c.active]
      /\ \/ s = c
         \/ s.dbusAvailable = (IF c.active = None THEN now
                               ELSE c.bank[c.active].readyTime) + TRAS
  BY SwapPreserves, SwapFields
<1> HIDE DEF s
<1>2. /\ ChannelInv(p) /\ p.writeMode = s.writeMode
      /\ \/ p = s
         \/ /\ s.active = None /\ s.dbusAvailable <= now
            /\ p.active \in Banks /\ s.bank[p.active].valid
            /\ p.bank[p.active].pkt = s.bank[p.active].pkt
            /\ p.bank[p.active].readyTime = now + BurstTime
  BY <1>1, PopulatePreserves, PopulateFields
<1> HIDE DEF p
<1>3. /\ d.active = p.active /\ d.dbusAvailable = p.dbusAvailable
      /\ d.writeMode = p.writeMode
      /\ p.active # None => d.bank[p.active] = p.bank[p.active]
  BY <1>2, ServiceFields
<1> HIDE DEF d
<1>4. /\ c \in ChannelType /\ s \in ChannelType /\ p \in ChannelType
      /\ TRAS \in Nat /\ BurstTime \in Nat /\ BurstTime >= 1
  BY <1>1, <1>2, DRAMAssumption DEF ChannelInv, DRAMAssumption, BurstTime
<1>5. /\ s.active # None =>
           /\ s.bank[s.active].readyTime \in Nat /\ s.bank[s.active].readyTime > now
           /\ request[s.bank[s.active].pkt].isWrite # s.writeMode =>
                s.dbusAvailable >= s.bank[s.active].readyTime + TRAS
      /\ s.dbusAvailable \in Nat
  <2>1. s.dbusAvailable \in Nat
    BY <1>4 DEF ChannelType
  <2>2. c.active # None => c.bank[c.active].readyTime \in Nat
    BY <1>4 DEF ChannelType, BankType
  <2> QED
    BY <1>1, <1>4, <2>1, <2>2 DEF BusReserved
<1>6. s.active = None /\ p # s => request[p.bank[p.active].pkt].isWrite = p.writeMode
  <2> SUFFICES ASSUME s.active = None, p # s
               PROVE  request[p.bank[p.active].pkt].isWrite = p.writeMode
    OBVIOUS
  <2>1. p.active \in Banks /\ s.bank[p.active].valid /\ p.active # s.active
    BY <1>2 DEF Banks, None
  <2> QED
    BY <1>1, <1>2, <2>1 DEF ChannelInv, OneMode
<1>7. BusReserved(d, next)
  <2> SUFFICES ASSUME d.active # None
               PROVE  /\ d.bank[d.active].readyTime >= next
                      /\ request[d.bank[d.active].pkt].isWrite # d.writeMode =>
                           d.dbusAvailable >= d.bank[d.active].readyTime + TRAS
    BY DEF BusReserved
  <2>1. CASE p = s
    BY <1>3, <1>4, <1>5, <2>1
  <2>2. CASE p # s
    <3>1. s.active = None /\ p.bank[p.active].readyTime = now + BurstTime
      BY <1>2, <2>2
    <3>2. request[d.bank[d.active].pkt].isWrite = d.writeMode
      BY <1>3, <1>6, <2>2, <3>1
    <3> QED
      BY <1>3, <1>4, <3>1, <3>2
  <2> QED
    BY <2>1, <2>2
<1>8. ASSUME NEW x \in Responses, BusRestsAfter(c, x, now) PROVE BusRestsAfter(d, x, next)
  <2>1. x.cycle \in Nat /\ x.cycle <= now
    BY <1>8 DEF Responses, BusRestsAfter
  <2>2. /\ (s.active = None /\ request[x.id].isWrite # s.writeMode) =>
             s.dbusAvailable >= x.cycle + TRAS
        /\ s.active # None =>
             s.bank[s.active].readyTime >=
                 x.cycle + BurstTime + Rest(x.id, s.bank[s.active].pkt)
    BY <1>1, <1>4, <1>8, <2>1 DEF BusRestsAfter
  <2>3. Rest(x.id, d.bank[d.active].pkt) \in Nat
    BY <1>4 DEF Rest
  <2>4. CASE p = s
    BY <1>3, <2>1, <2>2, <2>4 DEF BusRestsAfter
  <2>5. CASE p # s
    <3>1. /\ s.active = None /\ s.dbusAvailable <= now
          /\ p.bank[p.active].readyTime = now + BurstTime
          /\ p.active # None
      BY <1>2, <2>5 DEF Banks, None
    <3>2. request[d.bank[d.active].pkt].isWrite = s.writeMode
      BY <1>2, <1>3, <1>6, <2>5, <3>1
    <3>3. CASE request[x.id].isWrite = s.writeMode
      <4>1. Rest(x.id, d.bank[d.active].pkt) = 0
        BY <3>2, <3>3 DEF Rest
      <4> QED
        BY <1>3, <1>4, <2>1, <3>1, <4>1 DEF BusRestsAfter
    <3>4. CASE request[x.id].isWrite # s.writeMode
      <4>1. Rest(x.id, d.bank[d.active].pkt) = TRAS
        BY <3>2, <3>4 DEF Rest
      <4>2. now >= x.cycle + TRAS
        BY <1>4, <1>5, <2>1, <2>2, <3>1, <3>4
      <4> QED
        BY <1>3, <1>4, <2>1, <3>1, <4>1, <4>2 DEF BusRestsAfter
    <3> QED
      BY <3>3, <3>4
  <2> QED
    BY <2>4, <2>5
<1> QED
  BY <1>7, <1>8 DEF s, p, d

\* A cycle in which the channel ticks; c is the channel with the request that
\* has arrived, if any.
LEMMA BusTick ==
    ASSUME DRAMAssumption, Inv, BusInv, NEW c, ChannelInv(c),
           c.active = ch.active, c.bank = ch.bank, c.writeMode = ch.writeMode,
           c.dbusAvailable = ch.dbusAvailable,
           Tick(c, currentCycle + 1), UNCHANGED request
    PROVE  BusInv'
<1> DEFINE now == currentCycle + 1
           f == FinishDBusRequest(c, now)
           i == c.bank[c.active].pkt
           n == Len(responses)
<1>1. /\ request \in [Requests -> RequestType] /\ now \in Nat /\ cycle \in Nat
      /\ currentCycle \in Nat /\ responses \in Seq(Responses) /\ TRAS \in Nat
      /\ n \in Nat /\ DOMAIN responses = 1 .. n
      /\ responses # <<>> => n \in 1 .. n
  <2>1. responses \in Seq(Responses)
    BY DEF Inv, TypeOK, Responses
  <2> HIDE DEF Responses
  <2> QED
    BY <2>1, DRAMAssumption DEF Inv, TypeOK, DRAMAssumption
<1>2. /\ currentCycle = IF cycle = 0 THEN 0 ELSE cycle - 1
      /\ BusReserved(c, now)
      /\ responses # <<>> => BusRestsAfter(c, responses[n], now)
      /\ BusTurnaround
  BY DEF BusInv, BusReserved, BusRestsAfter
<1>3. /\ currentCycle' = (IF cycle' = 0 THEN 0 ELSE cycle' - 1)
      /\ currentCycle' + 1 \in {now, now + 1}
  BY <1>1, <1>2 DEF Tick
<1>4. ch' = ServicePacket(PopulateDBus(SwapWriteMode(f, now), now),
                SchedulePacket(PopulateDBus(SwapWriteMode(f, now), now), now), now)
      /\ responses' = responses \o Completed(c, now)
  BY DEF Tick
<1>5. ChannelInv(f)
  BY <1>1, FinishPreserves
<1>6. \/ /\ Completed(c, now) = <<>> /\ f = c
         /\ c.active # None => c.bank[c.active].readyTime > now
      \/ /\ Completed(c, now) = <<[id |-> i, cycle |-> now]>>
         /\ c.active # None /\ c.bank[c.active].readyTime <= now
         /\ f.active = None
         /\ f.dbusAvailable = c.dbusAvailable /\ f.writeMode = c.writeMode
  BY <1>1, FinishFields
<1>7. ASSUME BusReserved(f, now), f.active # None => f.bank[f.active].readyTime > now
      PROVE  /\ BusReserved(ch', currentCycle' + 1)
             /\ \A x \in Responses : BusRestsAfter(f, x, now)
                                       => BusRestsAfter(ch', x, currentCycle' + 1)
  BY <1>1, <1>3, <1>4, <1>5, <1>7, BusAfterFinish
<1> HIDE DEF f
<1>8. CASE Completed(c, now) = <<>>
  <2>1. responses' = responses
    <3>1. responses \o <<>> = responses
      BY <1>1
    <3> QED
      BY <1>4, <1>8, <3>1
  <2>2. /\ BusReserved(ch', currentCycle' + 1)
        /\ responses # <<>> => BusRestsAfter(ch', responses[n], currentCycle' + 1)
    <3>1. f = c /\ (c.active # None => c.bank[c.active].readyTime > now)
      <4>1. Completed(c, now) # <<[id |-> i, cycle |-> now]>>
        BY <1>8
      <4> QED
        BY <1>6, <4>1
    <3>2. responses # <<>> => responses[n] \in Responses
      <4> HIDE DEF Responses
      <4> QED
        BY <1>1
    <3> QED
      BY <1>2, <1>7, <3>1, <3>2
  <2>3. BusReserved(ch, currentCycle + 1)'
    BY <2>2 DEF BusReserved
  <2>4. (responses # <<>> => BusRestsAfter(ch, responses[Len(responses)], currentCycle + 1))'
    BY <2>1, <2>2 DEF BusRestsAfter, Rest
  <2>5. BusTurnaround'
    BY <1>2, <2>1 DEF BusTurnaround
  <2> QED
    BY <1>3, <2>3, <2>4, <2>5 DEF BusInv
<1>9. CASE Completed(c, now) # <<>>
  <2> DEFINE y == [id |-> i, cycle |-> now]
  <2>1. /\ responses' = responses \o <<y>>
        /\ c.active # None /\ c.bank[c.active].readyTime <= now
        /\ f.active = None
        /\ f.dbusAvailable = c.dbusAvailable /\ f.writeMode = c.writeMode
    BY <1>4, <1>6, <1>9
  <2>2. i \in Requests /\ c.bank[c.active].readyTime \in Nat /\ c.dbusAvailable \in Nat
    <3>1. c.active \in Banks /\ c \in ChannelType
      BY <2>1 DEF ChannelInv, ChannelType
    <3>2. i \in c.scheduled
      BY <2>1, <3>1 DEF ChannelInv, BanksHoldScheduled
    <3> QED
      BY <3>1, <3>2 DEF ChannelType, BankType
  <2>3. y \in Responses /\ y.id = i /\ y.cycle = now
    BY <1>1, <2>2 DEF Responses
  <2> HIDE DEF y
  <2>4. /\ Len(responses') = n + 1
        /\ \A k \in 1 .. n : responses'[k] = responses[k]
        /\ responses'[n + 1] = y
    <3> HIDE DEF Responses
    <3> QED
      BY <1>1, <2>1, <2>3
  <2>5. c.bank[c.active].readyTime = now
    BY <1>1, <1>2, <2>1, <2>2 DEF BusReserved
  <2>6. BusReserved(f, now) /\ BusRestsAfter(f, y, now)
    BY <1>1, <1>2, <2>1, <2>2, <2>3, <2>5 DEF BusReserved, BusRestsAfter
  <2>7. /\ BusReserved(ch', currentCycle' + 1)
        /\ BusRestsAfter(ch', y, currentCycle' + 1)
    BY <1>7, <2>1, <2>3, <2>6
  <2>8. BusReserved(ch, currentCycle + 1)'
    BY <2>7 DEF BusReserved
  <2>9. (responses # <<>> => BusRestsAfter(ch, responses[Len(responses)], currentCycle + 1))'
    BY <2>4, <2>7 DEF BusRestsAfter, Rest
  <2>10. BusTurnaround'
    <3> SUFFICES ASSUME NEW k \in 2 .. n + 1
                 PROVE  responses'[k].cycle - responses'[k - 1].cycle >=
                          BurstTime + Rest(responses'[k - 1].id, responses'[k].id)
      BY <2>4 DEF BusTurnaround, Rest
    <3>1. CASE k \in 2 .. n
      <4>1. responses'[k] = responses[k] /\ responses'[k - 1] = responses[k - 1]
        BY <1>1, <2>4, <3>1
      <4> QED
        BY <1>2, <3>1, <4>1 DEF BusTurnaround, Rest
    <3>2. CASE k = n + 1
      <4>1. responses # <<>> /\ n \in 1 .. n
        BY <1>1, <3>2
      <4>2. responses'[k] = y /\ responses'[k - 1] = responses[n]
        BY <1>1, <2>4, <3>2, <4>1
      <4>3. now >= responses[n].cycle + BurstTime + Rest(responses[n].id, i)
        BY <1>2, <2>1, <2>5, <4>1 DEF BusRestsAfter
      <4>4. responses[n].cycle \in Nat /\ Rest(responses[n].id, i) \in Nat
        <5>1. responses[n] \in Responses
          <6> HIDE DEF Responses
          <6> QED
            BY <1>1, <4>1
        <5> QED
          BY <1>1, <5>1 DEF Responses, Rest
      <4> QED
        BY <1>1, <2>3, <4>2, <4>3, <4>4 DEF BurstTime
    <3> QED
      BY <1>1, <3>1, <3>2
  <2> QED
    BY <1>3, <2>8, <2>9, <2>10 DEF BusInv
<1> QED
  BY <1>8, <1>9

\* Every step keeps the invariant of the data bus.
LEMMA BusStep == ASSUME Inv, BusInv, [Next]_vars PROVE BusInv'
<1> USE DRAMAssumption
<1>1. ChannelInv(ch) /\ currentCycle \in Nat /\ request \in [Requests -> RequestType]
      /\ accepted \in 0 .. NumRequests
  BY DEF Inv, TypeOK, AnsweredOnce, ScheduledInBank, OneModeAtATime, ChannelInv
<1>2. CASE ProcessRequest
  <2> DEFINE i == accepted + 1
             c == AddRequest(ch, i)
  <2>1. i \in Requests
    BY <1>1, <1>2 DEF ProcessRequest, Requests
  <2>2. ChannelInv(c)
    BY <1>1, <2>1, AddPreserves
  <2>3. /\ c.active = ch.active /\ c.bank = ch.bank /\ c.writeMode = ch.writeMode
        /\ c.dbusAvailable = ch.dbusAvailable
    BY <1>1 DEF AddRequest, ChannelInv, ChannelType
  <2>4. Tick(c, currentCycle + 1) /\ UNCHANGED request
    BY <1>2 DEF ProcessRequest
  <2> HIDE DEF c
  <2> QED
    BY <2>2, <2>3, <2>4, BusTick
<1>3. CASE ProcessNothing
  BY <1>1, <1>3, BusTick DEF ProcessNothing
<1>4. CASE ProcessFails
  BY <1>4 DEF ProcessFails, BusInv, BusReserved, BusRestsAfter, Rest, BusTurnaround
<1>5. CASE UNCHANGED vars
  BY <1>5 DEF vars, BusInv, BusReserved, BusRestsAfter, Rest, BusTurnaround
<1> QED
  BY <1>2, <1>3, <1>4, <1>5 DEF Next, Process, Stopped

\* Two bursts never overlap on the data bus, and between a read and a write it
\* rests for the turn-around time, whatever the timings and the mode switches
\* (swapWriteMode, populateDBus, finishDBusRequest).
THEOREM BusTurnsAround == Spec => []BusTurnaround
<1>1. Init => BusInv
  BY DEF Init, NewDRAMChannel, BusInv, BusReserved, BusTurnaround
<1>2. Inv /\ BusInv /\ [Next]_vars => BusInv'
  BY BusStep
<1>3. BusInv => BusTurnaround
  BY DEF BusInv
<1> QED
  BY <1>1, <1>2, <1>3, ChannelInvariant, PTL DEF Spec

-----------------------------------------------------------------------------
(* The order of service.  n requests have been accepted, R lost their bank  *)
(* to a switch, A have been answered.                                       *)

\* Unless a switch has reset their age, requests are as old as their numbers
\* say.
StampedInOrder(c, n, R, t) ==
    \A i \in (1 .. n) \ R :
        /\ c.readyTime[i] <= t
        /\ \A j \in 1 .. n : i < j => c.readyTime[i] <= c.readyTime[j]

\* Of two like requests the later has not been scheduled while the earlier waits.
OldestFirst(c, n, R, A) ==
    \A i \in (1 .. n) \ (R \union A), j \in 1 .. n :
        i < j /\ request[i] = request[j] => j \notin c.scheduled \union A

OrderInv ==
    /\ StampedInOrder(ch, accepted, rescheduled, currentCycle)
    /\ OldestFirst(ch, accepted, rescheduled, Answered)
    /\ OvertakenWhenRescheduled

\* schedulePacket does not prefer the later of two like requests.
LEMMA BestIsOldest ==
    ASSUME DRAMAssumption, request \in [Requests -> RequestType],
           NEW c, ChannelInv(c), NEW now \in Nat, NEW t \in Nat,
           NEW n \in 0 .. NumRequests, NEW R, NEW A,
           c.RQ \union c.WQ = (1 .. n) \ A,
           StampedInOrder(c, n, R, t), OldestFirst(c, n, R, A)
    PROVE  OldestFirst(ServicePacket(c, SchedulePacket(c, now), now), n, R, A)
<1> DEFINE b == SchedulePacket(c, now)
           d == ServicePacket(c, b, now)
<1>1. \/ d.scheduled = c.scheduled
      \/ b \in Best(c, now) /\ d.scheduled = c.scheduled \union {b}
  BY ServiceFields
<1> HIDE DEF d, b
<1>2. c \in ChannelType /\ 1 .. n \subseteq Requests
  BY DEF ChannelInv, Requests
<1>3. CASE d.scheduled = c.scheduled
  BY <1>3 DEF OldestFirst, d, b
<1>4. CASE b \in Best(c, now) /\ d.scheduled = c.scheduled \union {b}
  <2> SUFFICES ASSUME NEW i \in (1 .. n) \ (R \union A), b \in 1 .. n, i < b,
                      request[i] = request[b]
               PROVE  FALSE
    BY <1>4 DEF OldestFirst, d, b
  <2>1. /\ i \in Requests /\ b \in Requests /\ request[i] \in RequestType
        /\ c.readyTime[i] \in Nat /\ c.readyTime[b] \in Nat
    BY <1>2 DEF ChannelType
  <2>2. b \in Schedulable(c)
    BY <1>4 DEF Best
  <2>3. i \in c.RQ \union c.WQ
    BY DEF OldestFirst
  <2>4. i \notin c.scheduled
    BY <2>2 DEF Schedulable, ChannelInv, BanksHoldScheduled
  <2>5. i \in Schedulable(c)
    <3>1. /\ b \in (IF c.writeMode THEN c.WQ ELSE c.RQ)
          /\ ~c.bank[request[i].bank].valid
      BY <2>2 DEF Schedulable
    <3>2. QueuesOfTheirKind(c)
      BY DEF ChannelInv
    <3>3. i \in (IF c.writeMode THEN c.WQ ELSE c.RQ)
      BY <2>3, <3>1, <3>2 DEF QueuesOfTheirKind
    <3> QED
      BY <2>4, <3>1, <3>3 DEF Schedulable
  <2>6. \/ Priority(c, b, now) > Priority(c, i, now)
        \/ Priority(c, b, now) = Priority(c, i, now) /\ b <= i
    BY <1>4, <2>5 DEF Best
  <2>7. RowHit(c, i) <=> RowHit(c, b)
    BY DEF RowHit
  <2>8. c.readyTime[i] <= c.readyTime[b]
    BY DEF StampedInOrder
  <2> DEFINE hit == IF RowHit(c, b) THEN 1000 ELSE 0
  <2>9. hit \in Nat
    OBVIOUS
  <2>10. /\ Priority(c, b, now) = 100 + hit + (now - c.readyTime[b])
         /\ Priority(c, i, now) = 100 + hit + (now - c.readyTime[i])
    BY <2>7 DEF Priority
  <2> HIDE DEF hit
  <2> QED
    BY <2>1, <2>6, <2>8, <2>9, <2>10
<1> QED
  BY <1>1, <1>3, <1>4 DEF d, b

\* A cycle in which the channel ticks; c is the channel with the request that
\* has arrived, if any.
LEMMA OrderTick ==
    ASSUME DRAMAssumption, Inv, NEW c, ChannelInv(c),
           accepted <= accepted', accepted' \in 0 .. NumRequests,
           c.RQ \union c.WQ = (1 .. accepted') \ Answered,
           StampedInOrder(c, accepted', rescheduled, currentCycle),
           OldestFirst(c, accepted', rescheduled, Answered),
           OvertakenWhenRescheduled, currentCycle <= cycle,
           Tick(c, currentCycle + 1), UNCHANGED request
    PROVE  OrderInv'
<1> DEFINE now == currentCycle + 1
           n == accepted'
           f == FinishDBusRequest(c, now)
           s == SwapWriteMode(f, now)
           p == PopulateDBus(s, now)
           R == rescheduled'
           A == Answered'
<1>1. /\ request \in [Requests -> RequestType] /\ now \in Nat /\ cycle \in Nat
      /\ currentCycle \in Nat /\ responses \in Seq([id : Requests, cycle : Nat])
      /\ 1 .. n \subseteq Requests /\ Answered \subseteq 1 .. n
      /\ now >= currentCycle /\ currentCycle' = cycle
  BY DEF Inv, TypeOK, AnsweredOnce, Requests, Tick
<1>2. /\ ch' = ServicePacket(p, SchedulePacket(p, now), now)
      /\ responses' = responses \o Completed(c, now)
      /\ R = rescheduled \union Preempted(f)
  BY DEF Tick
<1>3. ChannelInv(f)
  BY <1>1, FinishPreserves
<1>4. \/ /\ responses' = responses /\ A = Answered /\ f = c
      \/ \E i \in c.scheduled :
           /\ responses' = responses \o <<[id |-> i, cycle |-> now]>>
           /\ A = Answered \union {i}
           /\ f.readyTime = c.readyTime /\ f.scheduled = c.scheduled \ {i}
           /\ f.RQ = c.RQ \ {i} /\ f.WQ = c.WQ \ {i}
  <2>1. CASE Completed(c, now) = <<>> /\ f = c
    <3>1. responses \o <<>> = responses
      BY <1>1
    <3>2. responses' = responses
      BY <1>2, <2>1, <3>1
    <3> QED
      BY <2>1, <3>2 DEF Answered
  <2>2. CASE /\ Completed(c, now) = <<[id |-> c.bank[c.active].pkt, cycle |-> now]>>
             /\ c.active # None
             /\ f.readyTime = c.readyTime /\ f.scheduled = c.scheduled \ {c.bank[c.active].pkt}
             /\ f.RQ = c.RQ \ {c.bank[c.active].pkt} /\ f.WQ = c.WQ \ {c.bank[c.active].pkt}
    <3> DEFINE i == c.bank[c.active].pkt
    <3>1. i \in c.scheduled /\ i \in Requests
      BY <2>2 DEF ChannelInv, ChannelType, BanksHoldScheduled
    <3> HIDE DEF i
    <3>2. responses' = responses \o <<[id |-> i, cycle |-> now]>>
      BY <1>2, <2>2 DEF i
    <3>3. A = Answered \union {i}
      BY <1>1, <3>1, <3>2, OneMore
    <3> QED
      BY <2>2, <3>1, <3>2, <3>3 DEF i
  <2> QED
    BY <1>1, <2>1, <2>2, FinishFields
<1>5. /\ f.readyTime = c.readyTime
      /\ f.RQ \union f.WQ = (1 .. n) \ A
      /\ OldestFirst(f, n, rescheduled, A)
  <2>1. CASE A = Answered /\ f = c
    BY <2>1
  <2>2. ASSUME NEW i \in c.scheduled,
               A = Answered \union {i}, f.scheduled = c.scheduled \ {i},
               f.RQ = c.RQ \ {i}, f.WQ = c.WQ \ {i}
        PROVE  /\ f.RQ \union f.WQ = (1 .. n) \ A
               /\ OldestFirst(f, n, rescheduled, A)
    BY <2>2 DEF OldestFirst
  <2> QED
    BY <1>4, <2>1, <2>2
<1> HIDE DEF A, f
<1>6. /\ ChannelInv(s)
      /\ s.readyTime = [i \in Requests |-> IF i \in Preempted(f) THEN now ELSE f.readyTime[i]]
      /\ s.scheduled = f.scheduled \ Preempted(f)
      /\ s.RQ = f.RQ /\ s.WQ = f.WQ
  <2>1. now \in Nat
    BY <1>1
  <2> HIDE DEF now
  <2>2. ChannelInv(s)
    BY <1>1, <1>3, <2>1, SwapPreserves
  <2>3. /\ s.readyTime = [i \in Requests |-> IF i \in Preempted(f) THEN now ELSE f.readyTime[i]]
        /\ s.scheduled = f.scheduled \ Preempted(f)
        /\ s.RQ = f.RQ /\ s.WQ = f.WQ
    BY <1>3, <2>1, SwapFields
  <2> QED
    BY <2>2, <2>3
<1>7. /\ StampedInOrder(s, n, R, currentCycle)
      /\ OldestFirst(s, n, R, A)
  <2>1. OldestFirst(s, n, R, A)
    BY <1>2, <1>5, <1>6 DEF OldestFirst
  <2>2. \A i \in (1 .. n) \ R : /\ s.readyTime[i] = c.readyTime[i]
                               /\ i \in (1 .. n) \ rescheduled
    BY <1>1, <1>2, <1>5, <1>6
  <2>3. \A j \in 1 .. n : s.readyTime[j] = c.readyTime[j] \/ s.readyTime[j] = now
    BY <1>1, <1>5, <1>6
  <2>4. \A j \in 1 .. n : c.readyTime[j] \in Nat
    BY <1>1 DEF ChannelInv, ChannelType
  <2>5. StampedInOrder(s, n, R, currentCycle)
    <3> SUFFICES ASSUME NEW i \in (1 .. n) \ R
                 PROVE  /\ s.readyTime[i] <= currentCycle
                        /\ \A j \in 1 .. n : i < j => s.readyTime[i] <= s.readyTime[j]
      BY DEF StampedInOrder
    <3>1. /\ c.readyTime[i] <= currentCycle
          /\ \A j \in 1 .. n : i < j => c.readyTime[i] <= c.readyTime[j]
      BY <2>2 DEF StampedInOrder
    <3>2. s.readyTime[i] = c.readyTime[i] /\ c.readyTime[i] \in Nat
      BY <2>2, <2>4
    <3> HIDE DEF R, n, s, now
    <3> QED
      BY <1>1, <2>3, <2>4, <3>1, <3>2
  <2> QED
    BY <2>1, <2>5
<1> HIDE DEF s
<1>8. /\ ChannelInv(p) /\ p.readyTime = s.readyTime /\ p.scheduled = s.scheduled
      /\ p.RQ = s.RQ /\ p.WQ = s.WQ
  BY <1>1, <1>6, PopulatePreserves, PopulateFields
<1> HIDE DEF p
<1>9. /\ StampedInOrder(p, n, R, currentCycle)
      /\ OldestFirst(p, n, R, A)
      /\ p.RQ \union p.WQ = (1 .. n) \ A
  BY <1>5, <1>6, <1>7, <1>8 DEF StampedInOrder, OldestFirst
<1>10. OldestFirst(ch', n, R, A)
  BY <1>1, <1>2, <1>8, <1>9, BestIsOldest
<1>11. StampedInOrder(ch', n, R, currentCycle')
  <2>1. ch'.readyTime = p.readyTime
    BY <1>1, <1>2, <1>8, ServiceFields
  <2>2. \A j \in 1 .. n : p.readyTime[j] \in Nat
    BY <1>1, <1>8 DEF ChannelInv, ChannelType
  <2> QED
    BY <1>1, <1>9, <2>1, <2>2 DEF StampedInOrder
<1>12. OvertakenWhenRescheduled'
  <2>1. CASE responses' = responses
    BY <1>2, <2>1 DEF OvertakenWhenRescheduled
  <2>2. ASSUME NEW i \in c.scheduled,
               responses' = responses \o <<[id |-> i, cycle |-> now]>>
        PROVE  OvertakenWhenRescheduled'
    <3>1. i \in Requests /\ i \in (1 .. n) \ Answered
      BY DEF ChannelInv, BanksHoldScheduled, ChannelType
    <3>2. /\ Len(responses) \in Nat /\ DOMAIN responses = 1 .. Len(responses)
          /\ DOMAIN responses' = 1 .. Len(responses) + 1
          /\ \A k \in 1 .. Len(responses) : responses'[k] = responses[k]
          /\ responses'[Len(responses) + 1] = [id |-> i, cycle |-> now]
      BY <1>1, <2>2, <3>1, OneMore
    <3>3. responses'[Len(responses) + 1].id = i
      BY <3>2
    <3>4. \A k \in 1 .. Len(responses) : responses[k].id \in Answered
      BY <3>2 DEF Answered
    <3> SUFFICES ASSUME NEW k \in DOMAIN responses', NEW l \in DOMAIN responses', k < l,
                        responses'[l].id < responses'[k].id,
                        request[responses'[k].id] = request[responses'[l].id]
                 PROVE  responses'[l].id \in R
      BY DEF OvertakenWhenRescheduled
    <3>5. CASE l \in 1 .. Len(responses)
      <4>1. k \in 1 .. Len(responses)
        BY <3>2, <3>5
      <4> QED
        BY <1>2, <3>2, <3>5, <4>1 DEF OvertakenWhenRescheduled
    <3>6. CASE l = Len(responses) + 1
      <4>1. k \in 1 .. Len(responses)
        BY <3>2, <3>6
      <4>2. responses'[k].id \in Answered /\ responses'[l].id = i
        BY <3>2, <3>3, <3>4, <3>6, <4>1
      <4>3. i \in rescheduled
        BY <1>1, <3>1, <4>2 DEF OldestFirst
      <4> QED
        BY <1>2, <4>2, <4>3
    <3> QED
      BY <3>2, <3>5, <3>6
  <2> QED
    BY <1>4, <2>1, <2>2
<1>13. StampedInOrder(ch, accepted, rescheduled, currentCycle)'
  BY <1>11 DEF StampedInOrder
<1>14. OldestFirst(ch, accepted, rescheduled, Answered)'
  BY <1>10 DEF OldestFirst, A
<1> QED
  BY <1>12, <1>13, <1>14 DEF OrderInv

\* Every step keeps the order.
LEMMA OrderStep == ASSUME Inv, BusInv, OrderInv, [Next]_vars PROVE OrderInv'
<1> USE DRAMAssumption
<1>1. /\ ChannelInv(ch) /\ currentCycle \in Nat /\ cycle \in Nat
      /\ request \in [Requests -> RequestType]
      /\ accepted \in 0 .. NumRequests /\ NumRequests \in Nat
      /\ ch.RQ \union ch.WQ = (1 .. accepted) \ Answered
      /\ Answered \subseteq 1 .. accepted
  BY DEF Inv, TypeOK, AnsweredOnce, ScheduledInBank, OneModeAtATime, ChannelInv,
         DRAMAssumption
<1>2. currentCycle <= cycle
  BY <1>1 DEF BusInv
<1>3. /\ StampedInOrder(ch, accepted, rescheduled, currentCycle)
      /\ OldestFirst(ch, accepted, rescheduled, Answered)
      /\ OvertakenWhenRescheduled
  BY DEF OrderInv
<1>4. CASE ProcessRequest
  <2> DEFINE i == accepted + 1
             c == AddRequest(ch, i)
  <2>1. i \in Requests /\ accepted' = i /\ i \in Nat
    BY <1>1, <1>4 DEF ProcessRequest, Requests
  <2>2. /\ ChannelInv(c)
        /\ c.RQ \union c.WQ = (ch.RQ \union ch.WQ) \union {i}
    <3>1. /\ ChannelInv(c)
          /\ request[i].isWrite => c.RQ = ch.RQ /\ c.WQ = ch.WQ \union {i}
          /\ ~request[i].isWrite => c.RQ = ch.RQ \union {i} /\ c.WQ = ch.WQ
      BY <1>1, <2>1, AddPreserves
    <3> HIDE DEF c, i
    <3> QED
      BY <3>1
  <2>3. c.scheduled = ch.scheduled /\ c.readyTime = [ch.readyTime EXCEPT ![i] = currentCycle]
    BY <1>1 DEF AddRequest, ChannelInv, ChannelType
  <2>4. Tick(c, currentCycle + 1) /\ UNCHANGED request
    BY <1>4 DEF ProcessRequest
  <2> HIDE DEF c
  <2>5. 1 .. i = (1 .. accepted) \union {i} /\ i \notin 1 .. accepted
    BY <1>1
  <2>6. c.RQ \union c.WQ = (1 .. i) \ Answered
    BY <1>1, <2>2, <2>5
  <2>7. StampedInOrder(c, i, rescheduled, currentCycle)
    <3>1. /\ c.readyTime[i] = currentCycle
          /\ \A j \in 1 .. accepted : c.readyTime[j] = ch.readyTime[j]
      BY <1>1, <2>1, <2>3 DEF ChannelInv, ChannelType, Requests
    <3>2. \A j \in 1 .. accepted : j < i
      BY <1>1
    <3>3. \A j \in 1 .. i : ~(i < j)
      BY <2>1
    <3> QED
      BY <1>1, <1>3, <2>5, <3>1, <3>2, <3>3 DEF StampedInOrder
  <2>8. OldestFirst(c, i, rescheduled, Answered)
    <3>1. i \notin ch.scheduled \union Answered
      BY <1>1, <2>5 DEF ChannelInv, BanksHoldScheduled
    <3>2. \A j \in 1 .. i : ~(i < j)
      BY <2>1
    <3> QED
      BY <1>3, <2>3, <2>5, <3>1, <3>2 DEF OldestFirst
  <2>9. accepted <= i /\ i \in 0 .. NumRequests
    BY <1>1, <2>1 DEF Requests
  <2> HIDE DEF i
  <2> QED
    BY <1>2, <1>3, <2>1, <2>2, <2>4, <2>6, <2>7, <2>8, <2>9, OrderTick
<1>5. CASE ProcessNothing
  <2>1. accepted <= accepted
    BY <1>1
  <2> QED
    BY <1>1, <1>2, <1>3, <1>5, <2>1, OrderTick DEF ProcessNothing
<1>6. CASE ProcessFails
  BY <1>6 DEF ProcessFails, OrderInv, StampedInOrder, OldestFirst, Answered,
              OvertakenWhenRescheduled
<1>7. CASE UNCHANGED vars
  BY <1>7 DEF vars, OrderInv, StampedInOrder, OldestFirst, Answered,
              OvertakenWhenRescheduled
<1> QED
  BY <1>4, <1>5, <1>6, <1>7 DEF Next, Process, Stopped

\* Of two requests of one kind for one row the earlier is answered first unless
\* a mode switch has reset its age: the ages, the one bank the two share and
\* the preference for the oldest leave no other way (schedulePacket,
\* swapWriteMode).
THEOREM LikeRequestsInOrder == Spec => []OvertakenWhenRescheduled
<1>1. Init => OrderInv
  <2> SUFFICES ASSUME Init PROVE OrderInv
    OBVIOUS
  <2>1. 1 .. accepted = {} /\ DOMAIN responses = {}
    BY DEF Init
  <2> QED
    BY <2>1 DEF OrderInv, StampedInOrder, OldestFirst, OvertakenWhenRescheduled
<1>2. Init => BusInv
  BY DEF Init, NewDRAMChannel, BusInv, BusReserved, BusTurnaround
<1>3. Inv /\ BusInv /\ [Next]_vars => BusInv'
  BY BusStep
<1>4. Inv /\ BusInv /\ OrderInv /\ [Next]_vars => OrderInv'
  BY OrderStep
<1>5. OrderInv => OvertakenWhenRescheduled
  BY DEF OrderInv
<1> QED
  BY <1>1, <1>2, <1>3, <1>4, <1>5, ChannelInvariant, PTL DEF Spec
=============================================================================
