--------------------------- MODULE DRAMChannel ---------------------------
(***************************************************************************)
(* internal/capabilities/memory/dram and the node that drives it           *)
(* (nodes/cpu/champsim/flowsim/dram_node.go).                              *)
(*                                                                         *)
(* A step is one cycle of DRAMNodeHandler.Process: it takes the request    *)
(* that arrives, if any, ticks the channel and sends the responses.        *)
(* DRAMChannel.operate is the composition of its four parts, each a        *)
(* function of the channel's state, in the order of the code.              *)
(*                                                                         *)
(* Requests are numbered in the order they arrive.  The queues append and  *)
(* delete, so they are sorted by that number and a set stands for each.    *)
(***************************************************************************)
EXTENDS Naturals, Sequences, FiniteSets

CONSTANTS
    NumRequests,
    NumBanks,
    NumRows,
    RQSize, WQSize,            \* sizes of the read and the write queue
    TRP, TRCD, TCAS, TRAS,     \* timing parameters
    Workloads,                 \* what the requests are
    LastArrival,               \* no request arrives after this cycle
    MaxCycle                   \* bound on the cycles of a run

Requests == 1 .. NumRequests
Banks == 1 .. NumBanks
Rows == 1 .. NumRows
RequestType == [isWrite : BOOLEAN, bank : Banks, row : Rows]

None == 0                      \* no request, no bank and no row

ASSUME DRAMAssumption ==
    /\ NumRequests \in Nat /\ NumBanks \in Nat /\ NumRows \in Nat
    /\ RQSize \in Nat /\ WQSize \in Nat
    /\ TRP \in Nat /\ TRCD \in Nat /\ TCAS \in Nat /\ TRAS \in Nat
    /\ Workloads \subseteq [Requests -> RequestType]
    /\ LastArrival \in Nat /\ MaxCycle \in Nat

BurstTime == 8

VARIABLES
    request,        \* the workload: what each request asks for
    cycle,          \* of the node
    currentCycle,   \* of the channel
    ch,             \* the channel: queues, banks, data bus, mode
    accepted,       \* requests 1 .. accepted have been accepted
    responses,      \* responses sent, with the cycle of their callback
    rescheduled,    \* history: requests that lost their bank to a mode switch
    failed          \* Process has returned an error

vars == <<request, cycle, currentCycle, ch, accepted, responses, rescheduled, failed>>

-----------------------------------------------------------------------------
(* The parts of operate(), at time now.                                    *)

\* Fault: the queue keeps the request that was answered.
FinishKeepsRequest(c, now) ==
    IF c.active = None \/ c.bank[c.active].readyTime > now THEN c
    ELSE [c EXCEPT !.bank[c.active].valid = FALSE,
                   !.bank[c.active].pkt = None,
                   !.scheduled = @ \ {c.bank[c.active].pkt},
                   !.active = None]

\* The burst on the data bus is over: the bank is released, its row stays
\* open, and the request leaves its queue.
FinishDBusRequest(c, now) ==
    IF c.active = None \/ c.bank[c.active].readyTime > now THEN c
    ELSE LET done == {c.bank[c.active].pkt}
         IN  [c EXCEPT !.bank[c.active].valid = FALSE,
                       !.bank[c.active].pkt = None,
                       !.scheduled = @ \ done,
                       !.RQ = @ \ done,
                       !.WQ = @ \ done,
                       !.active = None]

\* The callback of the same request: the response that goes out.
Completed(c, now) ==
    IF c.active = None \/ c.bank[c.active].readyTime > now THEN <<>>
    ELSE <<[id |-> c.bank[c.active].pkt, cycle |-> now]>>

ShouldSwitch(c) ==
    LET w == Cardinality(c.WQ)
        reading == c.RQ # {}
    IN  IF c.writeMode
        THEN w = 0 \/ (reading /\ w < (WQSize * 6) \div 8)
        ELSE w >= (WQSize * 7) \div 8 \/ (~reading /\ w > 0)

\* Requests that a mode switch takes out of their banks again: all but the
\* one on the data bus.
Preempted(c) ==
    IF ~ShouldSwitch(c) THEN {}
    ELSE {c.bank[b].pkt : b \in {b \in Banks : b # c.active /\ c.bank[b].valid}}

\* Fault: the burst on the data bus is not waited for.
SwapForgetsBurst(c, now) ==
    IF ~ShouldSwitch(c) THEN c
    ELSE [c EXCEPT
        !.writeMode = ~c.writeMode,
        !.scheduled = @ \ Preempted(c),
        !.readyTime = [i \in Requests |->
            IF i \in Preempted(c) THEN now ELSE c.readyTime[i]],
        !.bank = [b \in Banks |->
            IF b = c.active \/ ~c.bank[b].valid THEN c.bank[b]
            ELSE [valid |-> FALSE, pkt |-> None, readyTime |-> c.bank[b].readyTime,
                  openRow |-> IF c.bank[b].readyTime >= now + TCAS
                              THEN c.bank[b].openRow ELSE None]],
        !.dbusAvailable = now]

\* Fault: a switch to the other mode leaves the banks as they are.
SwapKeepsBanks(c, now) ==
    IF ~ShouldSwitch(c) THEN c
    ELSE [c EXCEPT
        !.writeMode = ~c.writeMode,
        !.dbusAvailable = (IF c.active = None THEN now
                           ELSE c.bank[c.active].readyTime) + TRAS]

\* Fault: the banks are reset, but not the requests they held.
SwapStrands(c, now) ==
    IF ~ShouldSwitch(c) THEN c
    ELSE [c EXCEPT
        !.writeMode = ~c.writeMode,
        !.bank = [b \in Banks |->
            IF b = c.active \/ ~c.bank[b].valid THEN c.bank[b]
            ELSE [valid |-> FALSE, pkt |-> None, readyTime |-> c.bank[b].readyTime,
                  openRow |-> None]],
        !.dbusAvailable = (IF c.active = None THEN now
                           ELSE c.bank[c.active].readyTime) + TRAS]

SwapWriteMode(c, now) ==
    IF ~ShouldSwitch(c) THEN c
    ELSE [c EXCEPT
        !.writeMode = ~c.writeMode,
        !.scheduled = @ \ Preempted(c),
        !.readyTime = [i \in Requests |->
            IF i \in Preempted(c) THEN now ELSE c.readyTime[i]],
        !.bank = [b \in Banks |->
            IF b = c.active \/ ~c.bank[b].valid THEN c.bank[b]
            ELSE [valid |-> FALSE, pkt |-> None, readyTime |-> c.bank[b].readyTime,
                  openRow |-> IF c.bank[b].readyTime >= now + TCAS
                              THEN c.bank[b].openRow ELSE None]],
        !.dbusAvailable = (IF c.active = None THEN now
                           ELSE c.bank[c.active].readyTime) + TRAS]

\* Banks that may transfer their data, and the one that is ready longest.
ReadyBanks(c, now) == {b \in Banks : c.bank[b].valid /\ c.bank[b].readyTime <= now}
FirstReady(c, now) ==
    {b \in ReadyBanks(c, now) : \A d \in ReadyBanks(c, now) :
        \/ c.bank[b].readyTime < c.bank[d].readyTime
        \/ c.bank[b].readyTime = c.bank[d].readyTime /\ b <= d}

PopulateDBus(c, now) ==
    IF c.active # None \/ c.dbusAvailable > now \/ FirstReady(c, now) = {} THEN c
    ELSE LET b == CHOOSE b \in FirstReady(c, now) : TRUE
         IN  [c EXCEPT !.active = b,
                       !.bank[b].readyTime = now + BurstTime,
                       !.dbusAvailable = now + BurstTime]

RowHit(c, i) == c.bank[request[i].bank].openRow = request[i].row

\* Fault: a busy bank does not keep a request from being scheduled.
SchedulableWhenBusy(c) ==
    (IF c.writeMode THEN c.WQ ELSE c.RQ) \ c.scheduled

\* Requests of the current mode whose bank is free.
Schedulable(c) ==
    {i \in (IF c.writeMode THEN c.WQ ELSE c.RQ) \ c.scheduled :
        ~c.bank[request[i].bank].valid}

\* Fault: age does not count.
PriorityByRow(c, i, now) == 100 + (IF RowHit(c, i) THEN 1000 ELSE i)

\* Row hits first, then the oldest (FR-FCFS).
Priority(c, i, now) ==
    100 + (IF RowHit(c, i) THEN 1000 ELSE 0) + (now - c.readyTime[i])

Best(c, now) ==
    {i \in Schedulable(c) : \A j \in Schedulable(c) :
        \/ Priority(c, i, now) > Priority(c, j, now)
        \/ Priority(c, i, now) = Priority(c, j, now) /\ i <= j}

SchedulePacket(c, now) ==
    IF Best(c, now) = {} THEN None ELSE CHOOSE i \in Best(c, now) : TRUE

AccessLatency(c, i) ==
    IF RowHit(c, i) THEN TCAS
    ELSE IF c.bank[request[i].bank].openRow = None THEN TRCD + TCAS
    ELSE TRP + TRCD + TCAS

ServicePacket(c, i, now) ==
    IF i = None THEN c
    ELSE [c EXCEPT !.scheduled = @ \union {i},
                   !.bank[request[i].bank] =
                       [valid |-> TRUE, pkt |-> i,
                        readyTime |-> now + AccessLatency(c, i),
                        openRow |-> request[i].row]]

-----------------------------------------------------------------------------
NewDRAMChannel ==
    [RQ |-> {}, WQ |-> {}, scheduled |-> {},
     readyTime |-> [i \in Requests |-> 0],
     bank |-> [b \in Banks |-> [valid |-> FALSE, pkt |-> None, readyTime |-> 0,
                                openRow |-> None]],
     active |-> None, writeMode |-> FALSE, dbusAvailable |-> 0]

Init ==
    /\ request \in Workloads
    /\ cycle = 0 /\ currentCycle = 0
    /\ ch = NewDRAMChannel
    /\ accepted = 0 /\ responses = <<>> /\ rescheduled = {} /\ failed = FALSE

\* Fault: a full queue takes one more.
QueueOverfull(i) == IF request[i].isWrite THEN Cardinality(ch.WQ) > WQSize
                    ELSE Cardinality(ch.RQ) > RQSize

QueueFull(i) == IF request[i].isWrite THEN Cardinality(ch.WQ) >= WQSize
                ELSE Cardinality(ch.RQ) >= RQSize

AddRequest(c, i) ==
    LET stamped == [c EXCEPT !.readyTime[i] = currentCycle]
    IN  IF request[i].isWrite THEN [stamped EXCEPT !.WQ = @ \union {i}]
        ELSE [stamped EXCEPT !.RQ = @ \union {i}]

\* The node sets the channel's clock after the tick, to the cycle it is in:
\* the channel operates twice at time 1, in cycles 0 and 1.
\* The steps of operate() each have one outcome; \E names it.
Tick(c, now) ==
    /\ \E finished \in {FinishDBusRequest(c, now)} :
       \E switched \in {SwapWriteMode(finished, now)} :
       \E populated \in {PopulateDBus(switched, now)} :
       \E next \in {SchedulePacket(populated, now)} :
         /\ ch' = ServicePacket(populated, next, now)
         /\ responses' = responses \o Completed(c, now)
         /\ rescheduled' = rescheduled \union Preempted(finished)
    /\ currentCycle' = cycle
    /\ cycle' = cycle + 1

\* Process in a cycle in which a request arrives, and in one without.
ProcessRequest ==
    /\ ~failed /\ cycle < MaxCycle /\ cycle <= LastArrival
    /\ accepted < NumRequests /\ ~QueueFull(accepted + 1)
    /\ \E c \in {AddRequest(ch, accepted + 1)} : Tick(c, currentCycle + 1)
    /\ accepted' = accepted + 1
    /\ UNCHANGED <<request, failed>>

ProcessNothing ==
    /\ ~failed /\ cycle < MaxCycle
    /\ Tick(ch, currentCycle + 1)
    /\ UNCHANGED <<request, accepted, failed>>

\* The queue is full: Process returns the error before the channel ticks, and
\* the node's worker ends.
ProcessFails ==
    /\ ~failed /\ cycle < MaxCycle /\ cycle <= LastArrival
    /\ accepted < NumRequests /\ QueueFull(accepted + 1)
    /\ failed' = TRUE
    /\ UNCHANGED <<request, cycle, currentCycle, ch, accepted, responses, rescheduled>>

\* The run is over.
Stopped == (failed \/ cycle = MaxCycle) /\ UNCHANGED vars

Process == ProcessRequest \/ ProcessNothing \/ ProcessFails
Next == Process \/ Stopped

Spec == Init /\ [][Next]_vars
\* The node's worker ticks it in every cycle.
FairSpec == Spec /\ WF_vars(Process)

-----------------------------------------------------------------------------
(* Properties.                                                             *)

BankType == [valid : BOOLEAN, pkt : {None} \union Requests, readyTime : Nat,
             openRow : Rows \union {None}]
ChannelType == [RQ : SUBSET Requests, WQ : SUBSET Requests,
                scheduled : SUBSET Requests, readyTime : [Requests -> Nat],
                bank : [Banks -> BankType], active : {None} \union Banks,
                writeMode : BOOLEAN, dbusAvailable : Nat]

\* Every variable keeps its type, and no queue grows beyond its size.
TypeOK ==
    /\ request \in [Requests -> RequestType]
    /\ cycle \in Nat /\ currentCycle \in Nat
    /\ ch \in ChannelType
    /\ accepted \in 0 .. NumRequests
    /\ responses \in Seq([id : Requests, cycle : Nat])
    /\ rescheduled \subseteq Requests
    /\ failed \in BOOLEAN
    /\ Cardinality(ch.RQ) <= RQSize /\ Cardinality(ch.WQ) <= WQSize

Answered == {responses[k].id : k \in DOMAIN responses}

QueuesOfTheirKind(c) ==
    /\ \A i \in c.RQ : ~request[i].isWrite
    /\ \A i \in c.WQ : request[i].isWrite

\* Every accepted request waits in the queue of its kind or has been answered,
\* and none is answered twice (finishDBusRequest, removeFromQueue).
AnsweredOnce ==
    /\ ch.RQ \union ch.WQ = (1 .. accepted) \ Answered
    /\ Answered \subseteq 1 .. accepted
    /\ QueuesOfTheirKind(ch)
    /\ \A k, l \in DOMAIN responses : responses[k].id = responses[l].id => k = l

BanksHoldScheduled(c) ==
    /\ \A b \in Banks : c.bank[b].valid =>
         c.bank[b].pkt \in c.scheduled /\ request[c.bank[b].pkt].bank = b
    /\ \A i \in c.scheduled :
         c.bank[request[i].bank].valid /\ c.bank[request[i].bank].pkt = i
    /\ c.scheduled \subseteq c.RQ \union c.WQ
    /\ c.active # None => c.bank[c.active].valid

\* A request is marked as scheduled exactly while the bank it belongs to holds
\* it, and the data bus serves a bank that holds one: the mode switch releases
\* both sides, so no request is served twice and none is forgotten.
ScheduledInBank == BanksHoldScheduled(ch)

OneMode(c) ==
    \A b \in Banks : b # c.active /\ c.bank[b].valid =>
        request[c.bank[b].pkt].isWrite = c.writeMode

\* Only the request on the data bus may be of the other kind than the mode
\* (swapWriteMode takes the others out of their banks).
OneModeAtATime == OneMode(ch)

\* Two transfers never overlap on the data bus, and between a read and a write
\* it rests for the turn-around time.
BusTurnaround ==
    \A k \in 2 .. Len(responses) :
        LET x == responses[k - 1]  y == responses[k]
        IN  y.cycle - x.cycle >= BurstTime +
                (IF request[x.id].isWrite = request[y.id].isWrite THEN 0 ELSE TRAS)

\* Of two requests of one kind for one row the earlier is answered first,
\* unless a mode switch has put it back: that resets its age.
OvertakenWhenRescheduled ==
    \A k, l \in DOMAIN responses :
        (k < l /\ responses[l].id < responses[k].id
           /\ request[responses[k].id] = request[responses[l].id])
        => responses[l].id \in rescheduled

\* The channel and its node implement the memory service; with its fairness,
\* every accepted request is answered, whatever the mode switches undo.
Service == INSTANCE MemoryService WITH
    Capacity <- IF RQSize < WQSize THEN RQSize ELSE WQSize,
    answers <- [k \in DOMAIN responses |-> responses[k].id]
ImplementsMemoryService == Service!Spec
=============================================================================
