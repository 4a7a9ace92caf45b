----------------------------- MODULE MCFlowPath -----------------------------
(***************************************************************************)
(* Workloads for FlowPath: the source's handler produces Burst packets in  *)
(* some cycles, the sink's handler frees nothing in some cycles and all it *)
(* has in the others.                                                      *)
(***************************************************************************)
EXTENDS FlowPath

CONSTANTS
    Burst,       \* packets of a burst
    BurstAt,     \* sets of cycles with a burst
    StallAt,     \* sets of cycles in which the sink is stalled
    DelayAt      \* bursts over a bufferless link, to a sink never stalled

Injection(bursts) == [c \in Cycles |-> IF c \in bursts THEN Burst ELSE 0]
Drain(stalls)     == [c \in Cycles |-> IF c \in stalls THEN 0 ELSE InCapacity]

\* A slot that fills up with packets of two cycles leaves the most over.
Uneven == [c \in Cycles |-> IF c \in {1, 3, 4, 5} THEN 2
                            ELSE IF c \in {0, 2} THEN 1 ELSE 0]

MCWorkloads ==
    {[kind |-> "buffered", inject |-> Uneven, drain |-> Drain(Cycles)]}
    \union {[kind |-> "buffered", inject |-> Injection(b), drain |-> Drain(s)] :
        b \in BurstAt, s \in StallAt}
    \union {[kind |-> "bufferless", inject |-> Injection(b), drain |-> Drain({})] :
        b \in DelayAt}
=============================================================================
