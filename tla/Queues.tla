------------------------------- MODULE Queues -------------------------------
(***************************************************************************)
(* The queues of a node as functions on their contents: OutputQueue        *)
(* (internal/core/queue/output_queue.go), a ring buffer that sends in      *)
(* strict FIFO order, and InputQueue (input_queue.go), a slot array that   *)
(* declares its readiness several cycles ahead.                            *)
(***************************************************************************)
EXTENDS Integers, Sequences

CONSTANTS OutCapacity, OutBandwidth, InCapacity, InBandwidth

ASSUME QueuesAssumption ==
    /\ OutCapacity \in Nat \ {0} /\ OutBandwidth \in Nat \ {0}
    /\ InCapacity \in Nat \ {0} /\ InBandwidth \in Nat \ {0}

Least(a, b) == IF a < b THEN a ELSE b

\* InjectPackets: all of the packets or, when they do not fit, none.
Inject(oq, packets) ==
    IF Len(oq) + Len(packets) > OutCapacity THEN oq ELSE oq \o packets

\* Tick: how many packets leave from the head in a cycle.
SendCount(oq, ready) == IF ready THEN Least(OutBandwidth, Len(oq)) ELSE 0

\* Does the input queue run out of slots?  Tick stores what fits, then fails.
Overflows(iq, packets) == Len(iq) + Len(packets) > InCapacity

Store(iq, packets) ==
    iq \o SubSeq(packets, 1, Least(Len(packets), InCapacity - Len(iq)))

\* Fault: a free slot is counted as a ready cycle, whatever the bandwidth.
OneSlotPerCycle(iq) == InCapacity - Len(iq)

\* Cycles ahead for which a full burst of inBandwidth packets has room.
RemainReadyCycle(iq) == (InCapacity - Len(iq)) \div InBandwidth

\* What Tick(c) declares: the cycles, and whether they are ready.
Declared(iq, c, nextUpdateCycle) ==
    IF RemainReadyCycle(iq) = 0
    THEN [cycles |-> {c + 1}, ready |-> FALSE]
    ELSE [cycles |-> nextUpdateCycle .. (c + RemainReadyCycle(iq)),
          ready |-> TRUE]

\* Fault: a full queue skips a cycle that nobody decides.
SkipsOneCycle(iq, c, nextUpdateCycle) ==
    IF RemainReadyCycle(iq) = 0 THEN c + 3
    ELSE IF nextUpdateCycle > c + RemainReadyCycle(iq) THEN nextUpdateCycle
    ELSE c + RemainReadyCycle(iq) + 1

NextUpdateCycle(iq, c, nextUpdateCycle) ==
    IF RemainReadyCycle(iq) = 0 THEN c + 2
    ELSE IF nextUpdateCycle > c + RemainReadyCycle(iq) THEN nextUpdateCycle
    ELSE c + RemainReadyCycle(iq) + 1
=============================================================================
