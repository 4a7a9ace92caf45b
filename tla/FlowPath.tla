------------------------------ MODULE FlowPath ------------------------------
(***************************************************************************)
(* One connection of a network (Network.Connect): the OutputQueue of a     *)
(* source node, a port, a link, a second port and the InputQueue of a sink *)
(* node.  Source, link and sink are goroutines of their own that advance   *)
(* cycle by cycle to the target of Network.AdvanceTo; only the ports keep  *)
(* them in step.  A port is the Mailbox that AheadPort implements, and a   *)
(* cycle of a component is one step, taken when none of its calls blocks.  *)
(*                                                                         *)
(* The kind of the link and the workload are fixed at the start: inject[c] *)
(* packets are handed to the output queue in cycle c, and the sink frees   *)
(* up to drain[c] packets, the oldest first.  Packets are numbered in the  *)
(* order the output queue accepts them.                                    *)
(***************************************************************************)
EXTENDS Queues, LinkTypes, FiniteSets

CONSTANTS
    LastCycle,     \* the last target of AdvanceTo
    Workloads      \* the kind of the link, and what the handlers of the two
                   \* nodes do, cycle by cycle

Cycles == 0 .. LastCycle

ASSUME FlowPathAssumption ==
    /\ LastCycle \in Nat
    /\ Workloads \subseteq [kind : {"buffered", "bufferless"},
                            inject : [Cycles -> Nat], drain : [Cycles -> Nat]]

\* Decisions reach past the last cycle by the lookahead of the input queue.
Horizon == 0 .. (LastCycle + InCapacity + Latency + 1)

VARIABLES
    kind,           \* "buffered" or "bufferless": the handler of the link
    inject, drain,  \* the workload
    target,         \* of the current AdvanceTo
    src,            \* source node: cycle, phase, outputQueueAhead and the
                    \* number of packets accepted so far
    oq,             \* the packets of its output queue
    link,           \* link: cycle and handler state
    sink,           \* sink node: cycle and nextUpdateCycle
    iq,             \* the packets of its input queue, oldest first
    A, B,           \* the ports: done, decision and mail
    arrived,        \* arrived[c]: what the sink received in cycle c
    fault           \* "none", "overflow" (Tick failed) or "panic" (UpdateReady)

vars == <<kind, inject, drain, target, src, oq, link, sink, iq, A, B, arrived, fault>>

-----------------------------------------------------------------------------
(* Ports.                                                                  *)

NewPort(readyCycles) ==
    [done |-> -1,
     decision |-> [c \in Horizon |-> IF c \in readyCycles THEN "ready" ELSE "unset"],
     mail |-> [c \in Cycles |-> <<>>]]

Decided(p, c) == p.decision[c] # "unset"
IsReady(p, c) == p.decision[c] = "ready"

\* UpdateReady of several cycles: only the undecided ones change.
UpdateReady(p, cycles, ready) ==
    [p EXCEPT !.decision = [c \in Horizon |->
        IF c \in cycles /\ ~Decided(p, c)
        THEN IF ready THEN "ready" ELSE "notReady"
        ELSE p.decision[c]]]

\* UpdateReady panics when it is told the opposite of an earlier decision.
Contradicts(p, cycles, ready) ==
    \E c \in cycles : Decided(p, c) /\ IsReady(p, c) # ready

\* The packets with stamp c, in the order of their sends.
StampedFor(packets, c) ==
    LET first[n \in 0 .. Len(packets)] ==
            IF n = 0 THEN <<>>
            ELSE IF packets[n].cycle = c THEN Append(first[n - 1], packets[n].packet)
            ELSE first[n - 1]
    IN  first[Len(packets)]

\* Packets sent with a stamp each; the stamp selects the compartment.
SendAll(p, packets) ==
    [p EXCEPT !.mail = [c \in Cycles |-> p.mail[c] \o StampedFor(packets, c)]]

\* Fault: Receive waits for the cycle before the one it receives.
PreviousClosed(p, c) == p.done >= c - 1

\* Receive(c) blocks until the sender has marked the cycle done.
Closed(p, c) == p.done >= c

MarkDone(p, c) == [p EXCEPT !.done = c]
Received(p, c) == [p EXCEPT !.mail[c] = <<>>]

-----------------------------------------------------------------------------
\* SetUpstreamPort of the input queue marks cycles 0 and 1, Link.Init cycles
\* 0 .. latency (buffered) or cycle 0 (bufferless).
Init ==
    /\ \E w \in Workloads : kind = w.kind /\ inject = w.inject /\ drain = w.drain
    /\ target = -1
    /\ src = [cycle |-> 0, phase |-> "process", ahead |-> 0, accepted |-> 0]
    /\ oq = <<>> /\ iq = <<>>
    /\ link = [cycle |-> 0,
               handler |-> IF kind = "buffered" THEN BufferedInit
                           ELSE BufferlessInit]
    /\ sink = [cycle |-> 0, nextUpdateCycle |-> 0]
    /\ A = NewPort(IF kind = "buffered" THEN 0 .. Latency ELSE {0})
    /\ B = NewPort({0, 1})
    /\ arrived = [c \in Cycles |-> <<>>]
    /\ fault = "none"

\* Network.AdvanceTo: every worker has reached the last target and gets a new one.
AdvanceTo ==
    /\ target < LastCycle
    /\ src.cycle > target /\ link.cycle > target /\ sink.cycle > target
    /\ \E t \in (target + 1) .. LastCycle : target' = t
    /\ UNCHANGED <<kind, inject, drain, src, oq, link, sink, iq, A, B, arrived, fault>>

-----------------------------------------------------------------------------
(* Source node: Process injects, tickOutputQueues sends.                   *)

SourceProcess ==
    /\ src.phase = "process" /\ src.cycle <= target
    /\ LET c       == src.cycle
           packets == [i \in 1 .. inject[c] |-> src.accepted + i]
       IN  /\ oq' = Inject(oq, packets)
           /\ src' = [src EXCEPT !.phase = "send",
                                 !.accepted = @ + Len(oq') - Len(oq),
                                 !.ahead = IF @ > c THEN @ ELSE c]
    /\ UNCHANGED <<kind, inject, drain, target, link, sink, iq, A, B, arrived, fault>>

\* Fault: a future cycle is ticked whatever waits in the queue.
TicksFragments == src.ahead <= target

\* The current cycle is always ticked, a future one only while a full burst
\* waits in the queue.
MayTick ==
    /\ src.ahead <= target
    /\ src.ahead > src.cycle => Len(oq) >= OutBandwidth

\* OutputQueue.Tick(src.ahead): TrySend blocks until the cycle is decided.
SourceSend ==
    /\ src.phase = "send" /\ MayTick
    /\ oq # <<>> => Decided(A, src.ahead)
    /\ LET c == src.ahead
           n == SendCount(oq, IsReady(A, c))
       IN  /\ A' = MarkDone(SendAll(A, Stamped(c, SubSeq(oq, 1, n))), c)
           /\ oq' = SubSeq(oq, n + 1, Len(oq))
    /\ src' = [src EXCEPT !.ahead = @ + 1]
    /\ UNCHANGED <<kind, inject, drain, target, link, sink, iq, B, arrived, fault>>

SourceNext ==
    /\ src.phase = "send" /\ src.ahead > src.cycle /\ ~MayTick
    /\ src' = [src EXCEPT !.cycle = @ + 1, !.phase = "process"]
    /\ UNCHANGED <<kind, inject, drain, target, oq, link, sink, iq, A, B, arrived, fault>>

-----------------------------------------------------------------------------
(* Link.Tick: Receive, Process, MarkDone.                                  *)

Incoming(c) == IF c < Latency THEN <<>> ELSE A.mail[c - Latency]

\* Process blocks on the decision of the downstream: a buffered link always
\* asks, a bufferless one only when it has a packet to send.
Asks(c) == \/ kind = "buffered"
           \/ link.handler.pending # <<>>
           \/ Incoming(c) # <<>>

LinkTick ==
    LET c == link.cycle
        r == IF kind = "buffered"
             THEN BufferedProcess(link.handler, c, Incoming(c), IsReady(B, c))
             ELSE BufferlessProcess(link.handler, c, Incoming(c), IsReady(B, c))
        up == IF c < Latency THEN A ELSE Received(A, c - Latency)
    IN  /\ c <= target /\ fault # "panic"
        /\ c >= Latency => Closed(A, c - Latency)
        /\ Asks(c) => Decided(B, c)
        /\ A' = UpdateReady(up, {c + 1}, r.readyNext)
        /\ fault' = IF Contradicts(A, {c + 1}, r.readyNext) THEN "panic" ELSE fault
        /\ B' = MarkDone(SendAll(B, r.sent), c)
        /\ link' = [cycle |-> c + 1, handler |-> r.state]
        /\ UNCHANGED <<kind, inject, drain, target, src, oq, sink, iq, arrived>>

-----------------------------------------------------------------------------
(* Sink node: InputQueue.Tick, then the handler frees the oldest packets.  *)
(* A sink whose Tick failed stays where it is: the model ends there.       *)

SinkTick ==
    LET c       == sink.cycle
        packets == B.mail[c]
        stored  == Store(iq, packets)
        d       == Declared(stored, c, sink.nextUpdateCycle)
        freed   == Least(drain[c], Len(stored))
    IN  /\ c <= target /\ fault = "none"
        /\ Closed(B, c)
        /\ arrived' = [arrived EXCEPT ![c] = packets]
        /\ IF Overflows(iq, packets)
           THEN /\ fault' = "overflow"
                /\ iq' = stored
                /\ B' = Received(B, c)
                /\ sink' = sink
           ELSE /\ fault' = IF Contradicts(B, d.cycles, d.ready) THEN "panic" ELSE "none"
                /\ iq' = SubSeq(stored, freed + 1, Len(stored))
                /\ B' = UpdateReady(Received(B, c), d.cycles, d.ready)
                /\ sink' = [cycle |-> c + 1,
                            nextUpdateCycle |-> NextUpdateCycle(stored, c, sink.nextUpdateCycle)]
        /\ UNCHANGED <<kind, inject, drain, target, src, oq, link, A>>

-----------------------------------------------------------------------------
Source == SourceProcess \/ SourceSend \/ SourceNext

Finished ==
    /\ target = LastCycle
    /\ src.cycle > target /\ link.cycle > target /\ sink.cycle > target
    /\ UNCHANGED vars

Next == AdvanceTo \/ Source \/ LinkTick \/ SinkTick \/ Finished

\* Every goroutine runs when none of its calls blocks, and the caller of the
\* simulation asks for the next target.
Spec == Init /\ [][Next]_vars
FairSpec == /\ Spec
            /\ WF_vars(AdvanceTo) /\ WF_vars(Source)
            /\ WF_vars(LinkTick) /\ WF_vars(SinkTick)

-----------------------------------------------------------------------------
(* The lock-step reference: in every cycle the source, the link and the    *)
(* sink take their turns, in that order, and the output queue is ticked    *)
(* for that cycle only.  Sync[c] is the state after cycle c.               *)

Sync[c \in Cycles \union {-1}] ==
    IF c = -1
    THEN [oq |-> <<>>, iq |-> <<>>, accepted |-> 0, nextUpdateCycle |-> 0,
          handler |-> IF kind = "buffered" THEN BufferedInit ELSE BufferlessInit,
          readyA |-> TRUE, readyB |-> {0, 1},
          sent |-> [d \in Cycles |-> <<>>], arrived |-> [d \in Cycles |-> <<>>]]
    ELSE
    LET s       == Sync[c - 1]
        queued  == Inject(s.oq, [i \in 1 .. inject[c] |-> s.accepted + i])
        n       == SendCount(queued, s.readyA)
        sent    == [s.sent EXCEPT ![c] = SubSeq(queued, 1, n)]
        in      == IF c < Latency THEN <<>> ELSE sent[c - Latency]
        ready   == c \in s.readyB
        r       == IF kind = "buffered"
                   THEN BufferedProcess(s.handler, c, in, ready)
                   ELSE BufferlessProcess(s.handler, c, in, ready)
        packets == StampedFor(r.sent, c)
        stored  == Store(s.iq, packets)
        d       == Declared(stored, c, s.nextUpdateCycle)
    IN  [oq |-> SubSeq(queued, n + 1, Len(queued)),
         iq |-> SubSeq(stored, Least(drain[c], Len(stored)) + 1, Len(stored)),
         accepted |-> s.accepted + Len(queued) - Len(s.oq),
         nextUpdateCycle |-> NextUpdateCycle(stored, c, s.nextUpdateCycle),
         handler |-> r.state,
         readyA |-> c < Latency \/ r.readyNext,
         readyB |-> s.readyB \union (IF d.ready THEN d.cycles ELSE {}),
         sent |-> sent,
         arrived |-> [s.arrived EXCEPT ![c] = packets]]

-----------------------------------------------------------------------------
(* Properties.                                                             *)

\* Every variable keeps its type, and no queue and no slot of the link holds
\* more than its capacity.
TypeOK ==
    /\ inject \in [Cycles -> Nat] /\ drain \in [Cycles -> Nat]
    /\ target \in -1 .. LastCycle
    /\ src.cycle \in 0 .. (LastCycle + 1) /\ src.phase \in {"process", "send"}
    /\ src.ahead \in 0 .. (LastCycle + 1) /\ src.accepted \in Nat
    /\ oq \in Seq(1 .. src.accepted) /\ Len(oq) <= OutCapacity
    /\ iq \in Seq(1 .. src.accepted) /\ Len(iq) <= InCapacity
    /\ link.cycle \in 0 .. (LastCycle + 1)
    /\ kind = "buffered" =>
         \A i \in DOMAIN link.handler.slots : Len(link.handler.slots[i]) <= Bandwidth
    /\ sink.cycle \in 0 .. (LastCycle + 1)
    /\ A.done \in -1 .. LastCycle /\ B.done \in -1 .. LastCycle
    /\ fault \in {"none", "overflow", "panic"}

\* The readiness an input queue declares cycles ahead keeps it from
\* overflowing, and neither it nor the link ever takes a decision back.
NoFault == fault = "none"

\* Where the accepted packets are: in a queue, a port, the link or arrived.
Positions(place, s) == {[place |-> place, at |-> i, packet |-> s[i]] : i \in DOMAIN s}
Whereabouts ==
    Positions(<<"oq">>, oq)
    \union (UNION {Positions(<<"A", c>>, A.mail[c]) : c \in Cycles})
    \union (UNION {Positions(<<"B", c>>, B.mail[c]) : c \in Cycles})
    \union (UNION {Positions(<<"arrived", c>>, arrived[c]) : c \in Cycles})
    \union
    (IF kind = "bufferless" THEN Positions(<<"pending">>, link.handler.pending)
     ELSE Positions(<<"pending">>, link.handler.pendingPackets)
          \union (UNION {{[place |-> <<"slot", i>>, at |-> j,
                           packet |-> link.handler.slots[i][j].packet] :
                          j \in DOMAIN link.handler.slots[i]} :
                         i \in DOMAIN link.handler.slots}))

\* Every accepted packet is in exactly one place: none vanishes on the way
\* from pending list to slot to port, and none is sent twice.
Conserved ==
    /\ {x.packet : x \in Whereabouts} = 1 .. src.accepted
    /\ Cardinality(Whereabouts) = src.accepted

\* A packet is stranded in the second port, under a cycle the sink has
\* already received, only if the sink refused that cycle.
StrandedOnlyWhenRefused ==
    \A c \in Cycles :
        c < sink.cycle /\ B.mail[c] # <<>> => Decided(B, c) /\ ~IsReady(B, c)

\* No packet is ever stranded in the second port.
NoneStranded ==
    \A c \in Cycles : c < sink.cycle => B.mail[c] = <<>>

\* The backpressure a buffered link puts on its upstream bounds the packets
\* that wait for a slot: those that the cycle in which the slot fills up leaves
\* over, and those of the cycles that the latency reaches back from there.
PendingBounded ==
    kind = "buffered" =>
        Len(link.handler.pendingPackets) < (Latency + 1) * OutBandwidth

\* What the sink receives in each cycle is what the lock-step reference says,
\* whatever the schedule of the goroutines, however AdvanceTo divides the run
\* and however far ahead the source ticks its output queue.
Deterministic ==
    sink.cycle = LastCycle + 1 => arrived = Sync[LastCycle].arrived

\* Every component reaches the last cycle: the decisions, the cycles done and
\* the tick-ahead of the source never make them wait for one another for ever.
Terminates ==
    <>(src.cycle > LastCycle /\ link.cycle > LastCycle /\ sink.cycle > LastCycle)
=============================================================================
