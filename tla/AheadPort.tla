----------------------------- MODULE AheadPort -----------------------------
(***************************************************************************)
(* A port (internal/core/ahead_port/port.go): a bounded Go channel and the *)
(* cache pendingPackets between an upstream and a downstream component,    *)
(* kept in step by two ComponentSyncs.  The handshake is the abstract one  *)
(* of module Handshake, which ComponentSync is checked to implement.       *)
(*                                                                         *)
(* Packets are numbered in the order in which they enter the channel, a    *)
(* FIFO: it holds the packets drained + 1 .. Len(tag), and tag[n] is the   *)
(* cycle packet n is stamped with.  A list of pendingPackets is the set of *)
(* its numbers; the code appends to it in increasing order.                *)
(***************************************************************************)
EXTENDS Integers, Sequences, FiniteSets

CONSTANTS
    LastCycle,     \* the last cycle either side simulates
    Initial,       \* cycles declared ready at the start
    Ahead,         \* how far past its own cycle the downstream side decides
    Capacity,      \* of the channel (64 in NewPort)
    MaxPerCycle    \* packets the upstream side sends in one cycle

ASSUME PortAssumption ==
    /\ LastCycle \in Nat
    /\ Ahead \in Nat \ {0}
    /\ Initial \in 1 .. (LastCycle + Ahead)
    /\ Capacity \in Nat \ {0}
    /\ MaxPerCycle \in Nat

VARIABLES
    done, asking, answer, decision, rCycle, waited,  \* see Handshake
    tag,             \* tag[n]: the cycle of the n-th packet sent
    drained,         \* how many packets have left the channel
    pendingPackets,  \* the cache: for each cycle, the packets drained for it
    pcS,             \* upstream goroutine: "tick" or "push" (in TrySend)
    pcR,             \* downstream goroutine: a step of Receive, or "process"
    received         \* what Receive(c) returned, for each cycle c

H == INSTANCE Handshake

hVars == <<done, asking, answer, decision, rCycle, waited>>
vars == <<hVars, tag, drained, pendingPackets, pcS, pcR, received>>

Cycles == 0 .. LastCycle
Channel == drained + 1 .. Len(tag)
SentFor(c) == {n \in DOMAIN tag : tag[n] = c}

Init ==
    /\ H!Init
    /\ tag = <<>> /\ drained = 0
    /\ pendingPackets = [c \in Cycles |-> {}]
    /\ pcS = "tick" /\ pcR = "drain"
    /\ received = [c \in Cycles |-> {}]

-----------------------------------------------------------------------------
(* Upstream: TrySend and MarkDone.  After a refusal the caller sends       *)
(* nothing more in that cycle, as OutputQueue.Tick does.                   *)

CallTrySend ==
    /\ pcS = "tick" /\ answer # "no"
    /\ Cardinality(SentFor(done + 1)) < MaxPerCycle
    /\ H!Ask
    /\ UNCHANGED <<tag, drained, pendingPackets, pcS, pcR, received>>

IsReadyReturns ==
    /\ H!Answer
    /\ pcS' = IF answer' = "yes" THEN "push" ELSE "tick"
    /\ UNCHANGED <<tag, drained, pendingPackets, pcR, received>>

\* Fault: the send does not look at the capacity.
PushUnbounded ==
    /\ pcS = "push"
    /\ tag' = Append(tag, done + 1)
    /\ pcS' = "tick"
    /\ UNCHANGED <<hVars, drained, pendingPackets, pcR, received>>

\* The channel send of TrySend blocks while the channel is full.
Push ==
    /\ pcS = "push"
    /\ Len(tag) - drained < Capacity
    /\ tag' = Append(tag, done + 1)
    /\ pcS' = "tick"
    /\ UNCHANGED <<hVars, drained, pendingPackets, pcR, received>>

MarkDone ==
    /\ pcS = "tick"
    /\ H!MarkDone
    /\ UNCHANGED <<tag, drained, pendingPackets, pcS, pcR, received>>

-----------------------------------------------------------------------------
(* Downstream: Receive(rCycle) drains, waits, drains again and collects.   *)

Take ==
    LET n == drained + 1 IN
    /\ drained' = n
    /\ pendingPackets' = [pendingPackets EXCEPT ![tag[n]] = @ \union {n}]

Drain ==
    /\ pcR \in {"drain", "finalDrain"}
    /\ Channel # {}
    /\ Take
    /\ UNCHANGED <<hVars, tag, pcS, pcR, received>>

DrainedOnce ==
    /\ pcR = "drain" /\ Channel = {}
    /\ pcR' = "wait"
    /\ UNCHANGED <<hVars, tag, drained, pendingPackets, pcS, received>>

\* Fault: no final drain after WaitDone.
NoFinalDrain ==
    /\ pcR = "wait"
    /\ H!WaitReturns
    /\ received' = [received EXCEPT ![rCycle] = pendingPackets[rCycle]]
    /\ pendingPackets' = [pendingPackets EXCEPT ![rCycle] = {}]
    /\ pcR' = "process"
    /\ UNCHANGED <<tag, drained, pcS>>

WaitDone ==
    /\ pcR = "wait"
    /\ H!WaitReturns
    /\ pcR' = "finalDrain"
    /\ UNCHANGED <<tag, drained, pendingPackets, pcS, received>>

\* Fault: the collected packets stay in the cache.
CollectKeepsCache ==
    /\ pcR = "finalDrain" /\ Channel = {}
    /\ received' = [received EXCEPT ![rCycle] = pendingPackets[rCycle]]
    /\ pcR' = "process"
    /\ UNCHANGED <<hVars, tag, drained, pendingPackets, pcS>>

Collect ==
    /\ pcR = "finalDrain" /\ Channel = {}
    /\ received' = [received EXCEPT ![rCycle] = pendingPackets[rCycle]]
    /\ pendingPackets' = [pendingPackets EXCEPT ![rCycle] = {}]
    /\ pcR' = "process"
    /\ UNCHANGED <<hVars, tag, drained, pcS>>

\* Between two calls of Receive the component decides which cycles it is
\* ready for and ends its cycle.
UpdateReady ==
    /\ pcR = "process"
    /\ H!Declare
    /\ UNCHANGED <<tag, drained, pendingPackets, pcS, pcR, received>>

NextCycle ==
    /\ pcR = "process"
    /\ H!Proceed
    /\ pcR' = IF rCycle = LastCycle THEN "end" ELSE "drain"
    /\ UNCHANGED <<tag, drained, pendingPackets, pcS, received>>

-----------------------------------------------------------------------------
Upstream   == CallTrySend \/ IsReadyReturns \/ Push \/ MarkDone
Receive    == Drain \/ DrainedOnce \/ WaitDone \/ Collect
Downstream == Receive \/ UpdateReady \/ NextCycle

Finished == done = LastCycle /\ pcR = "end" /\ UNCHANGED vars

Next == Upstream \/ Downstream \/ Finished

\* Both goroutines run whenever they can.
Spec == Init /\ [][Next]_vars
FairSpec == Spec /\ WF_vars(Upstream) /\ WF_vars(Downstream)

-----------------------------------------------------------------------------
(* Properties.                                                             *)

\* Every variable keeps its type, and the channel never holds more packets
\* than it has room for.
TypeOK ==
    /\ done \in -1 .. LastCycle
    /\ asking \in BOOLEAN /\ waited \in BOOLEAN
    /\ answer \in {"none", "yes", "no"}
    /\ rCycle \in 0 .. (LastCycle + 1)
    /\ tag \in Seq(Cycles)
    /\ drained \in 0 .. Len(tag) /\ Len(tag) - drained <= Capacity
    /\ pendingPackets \in [Cycles -> SUBSET DOMAIN tag]
    /\ received \in [Cycles -> SUBSET DOMAIN tag]
    /\ pcS \in {"tick", "push"}
    /\ pcR \in {"drain", "wait", "finalDrain", "process", "end"}

\* Receive(c) returns exactly the packets sent for cycle c, whatever the
\* interleaving of its two drains with the sender, and leaves none behind in
\* the cache.
ReceiveComplete ==
    \A c \in Cycles :
        (c < rCycle \/ (c = rCycle /\ pcR = "process")) =>
            /\ received[c] = SentFor(c)
            /\ pendingPackets[c] = {}

\* The port is a mailbox with one compartment per cycle.  With the fairness of
\* the mailbox: a sender blocked on the full channel and a receiver blocked in
\* WaitDone never wait for each other for ever.
MailboxOf(c) == pendingPackets[c] \union {n \in Channel : tag[n] = c}
Abstract == INSTANCE Mailbox WITH
    Packets <- 1 .. ((LastCycle + 1) * MaxPerCycle),
    mail    <- [c \in Cycles |-> MailboxOf(c)],
    next    <- IF pcR = "process" THEN rCycle + 1 ELSE rCycle
ImplementsMailbox == Abstract!Spec
=============================================================================
