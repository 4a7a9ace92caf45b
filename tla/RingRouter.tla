----------------------------- MODULE RingRouter -----------------------------
(***************************************************************************)
(* A bufferless ring (internal/core/node/bufferless_ring_router.go): every *)
(* router takes what its ring input and its worker deliver, ejects what is *)
(* for the worker, forwards the rest and injects the worker's packets.     *)
(*                                                                         *)
(* A tick of a router is a step.  A link is the pipe that FlowPath shows   *)
(* it to be, which loses and repeats nothing; its latency, and how far the *)
(* next router is behind, are left open.  The links of NewBufferlessRing   *)
(* are bufferless and never refuse a cycle; the buffered links that        *)
(* Connect makes by default may (Refusing).                                *)
(***************************************************************************)
EXTENDS Integers, FiniteSets, SequencesExt

CONSTANTS
    NumRouters,
    Workloads,       \* the targets of each worker's packets, in order
    Bandwidth,       \* packets per cycle
    Capacity,        \* of every queue of a router
    BufferCapacity,  \* of the injection buffer
    Refusing         \* may a link refuse a cycle?

Routers == 1 .. NumRouters

ASSUME RingAssumption ==
    /\ NumRouters \in Nat \ {0} /\ Bandwidth \in Nat \ {0}
    /\ Capacity \in Nat \ {0} /\ BufferCapacity \in Nat /\ Refusing \in BOOLEAN
    /\ Workloads \subseteq [Routers -> Seq(Routers)]

VARIABLES
    todo,        \* the workload
    link,        \* link[r]: what r has sent and the next router not received
    router,      \* of each router: the queues and the injection buffer
    accepted,    \* how many packets of each worker have reached its router
    delivered,   \* what the worker of each router has been sent
    dropped      \* packets whose injection failed

vars == <<todo, link, router, accepted, delivered, dropped>>

\* Packet k of worker r.
Packet(r, k) == [from |-> r, no |-> k, target |-> todo[r][k]]

Previous(r) == IF r = 1 THEN NumRouters ELSE r - 1

NewRouter == [localIn |-> <<>>, ringOut |-> <<>>, localOut |-> <<>>, buffer |-> <<>>]

Init ==
    /\ todo \in Workloads
    /\ link = [r \in Routers |-> <<>>]
    /\ router = [r \in Routers |-> NewRouter]
    /\ accepted = [r \in Routers |-> 0]
    /\ delivered = [r \in Routers |-> <<>>]
    /\ dropped = {}

-----------------------------------------------------------------------------
Full(q) == Len(q) >= Capacity

\* OutputQueue.InjectPackets: all of a batch or none of it.
Fits(q, batch) == Len(q) + Len(batch) <= Capacity
Inject(q, batch) == IF Fits(q, batch) THEN q \o batch ELSE q

\* A packet leaves the ring at the router of its worker, if there is room.
Ejects(r, p) == p.target = r /\ ~Full(router[r].localOut)

\* The loop over the ring input: the packets that leave the ring, or the rest.
Sorted(r, ring, leave) ==
    LET first[n \in 0 .. Len(ring)] ==
            IF n = 0 THEN <<>>
            ELSE IF Ejects(r, ring[n]) = leave THEN Append(first[n - 1], ring[n])
            ELSE first[n - 1]
    IN  first[Len(ring)]

\* Fault: a packet for the worker is also sent on round the ring.
ForwardsAll(r, ring) == ring

Ejected(r, ring)   == Sorted(r, ring, TRUE)
Forwarded(r, ring) == Sorted(r, ring, FALSE)

\* Fault: the injection buffer is emptied only when a new packet comes.
InjectsWithNext(r, local) == ~Full(router[r].ringOut) /\ local # <<>>

\* The worker's packets go out unless the ring output is full.
MayInject(r, local) == ~Full(router[r].ringOut)

\* Fault: the capacity of the buffer is not looked at.
BufferAll(r, local) == Len(local)

\* Those that do not go out wait in the injection buffer and, when that is
\* full, in their queue.
Buffered(r, local) == Min({Len(local), BufferCapacity - Len(router[r].buffer)})

\* Process: forwarded and injected packets are one batch, whose error is
\* ignored; they have left the input queues and the buffer before.
Process(r, ring, local) ==
    LET old   == router[r]
        eject == Ejected(r, ring)
        batch == Forwarded(r, ring)
                     \o (IF MayInject(r, local) THEN old.buffer \o local ELSE <<>>)
        n     == Buffered(r, local)
    IN  [ringOut  |-> Inject(old.ringOut, batch),
         localOut |-> Inject(old.localOut, eject),
         buffer   |-> IF MayInject(r, local) THEN <<>>
                      ELSE old.buffer \o SubSeq(local, 1, n),
         localIn  |-> IF MayInject(r, local) THEN <<>>
                      ELSE SubSeq(local, n + 1, Len(local)),
         lost     |-> (IF Fits(old.ringOut, batch) THEN {} ELSE ToSet(batch))
                      \cup (IF Fits(old.localOut, eject) THEN {} ELSE ToSet(eject))]

First(q) == Min({Bandwidth, Len(q)})
Rest(q, n) == SubSeq(q, n + 1, Len(q))

\* BaseNode.Tick: m packets arrive on the ring and n from the worker; the ring
\* output and the output to the worker send a burst if their links are ready.
Tick(r, m, n, ringReady, localReady) ==
    /\ m <= Len(link[Previous(r)])
    /\ n <= Len(todo[r]) - accepted[r]
    /\ Len(router[r].localIn) + n <= Capacity
    /\ \E p \in {Process(r, SubSeq(link[Previous(r)], 1, m),
                       router[r].localIn \o [k \in 1 .. n |-> Packet(r, accepted[r] + k)])} :
         \E send \in {IF ringReady THEN First(p.ringOut) ELSE 0},
            eject \in {IF localReady THEN First(p.localOut) ELSE 0} :
            /\ router' = [router EXCEPT ![r] =
                   [localIn  |-> p.localIn,
                    buffer   |-> p.buffer,
                    ringOut  |-> Rest(p.ringOut, send),
                    localOut |-> Rest(p.localOut, eject)]]
            /\ link' = [q \in Routers |->
                   (IF q = Previous(r) THEN Rest(link[q], m) ELSE link[q])
                       \o (IF q = r THEN SubSeq(p.ringOut, 1, send) ELSE <<>>)]
            /\ delivered' = [delivered EXCEPT ![r] = @ \o SubSeq(p.localOut, 1, eject)]
            /\ dropped' = dropped \cup p.lost
    /\ accepted' = [accepted EXCEPT ![r] = @ + n]
    /\ UNCHANGED todo

\* A tick in which no link refuses.
Ready(r) == \E m, n \in 0 .. Bandwidth : Tick(r, m, n, TRUE, TRUE)

Refused(r) ==
    /\ Refusing
    /\ \E m, n \in 0 .. Bandwidth, b \in BOOLEAN : Tick(r, m, n, b, ~b)

Next == (\E r \in Routers : Ready(r)) \/ (\E r \in Routers : Refused(r))

Spec == Init /\ [][Next]_vars

\* Every router is ticked again and again; what is on a link arrives, and no
\* link refuses for ever.
Arrives(r) ==
    \E n \in 0 .. Bandwidth : Tick(r, First(link[Previous(r)]), n, TRUE, TRUE)

FairSpec == Spec /\ \A r \in Routers : WF_vars(Arrives(r))

-----------------------------------------------------------------------------
(* Properties.                                                             *)

Packets == UNION {{Packet(r, k) : k \in 1 .. accepted[r]} : r \in Routers}

\* Every variable keeps its type: the packets are those the workers have sent,
\* no queue of a router is longer than its capacity, and the injection buffer
\* holds no more than it was allocated for.
TypeOK ==
    /\ todo \in Workloads /\ accepted \in [Routers -> Nat]
    /\ \A r \in Routers :
         /\ accepted[r] <= Len(todo[r])
         /\ \A q \in {router[r].localIn, router[r].ringOut, router[r].localOut} :
              ToSet(q) \subseteq Packets /\ Len(q) <= Capacity
         /\ ToSet(router[r].buffer) \subseteq Packets
         /\ Len(router[r].buffer) <= BufferCapacity
         /\ ToSet(link[r]) \subseteq Packets /\ ToSet(delivered[r]) \subseteq Packets
    /\ dropped \subseteq Packets

\* What waits at the router of worker r to be injected, oldest first.
Waiting(r) == router[r].buffer \o router[r].localIn

\* What was taken off the ring at router r.
Ejections(r) == delivered[r] \o router[r].localOut

\* What router r has put on the ring and the next router not received.
Ring(r) == link[r] \o router[r].ringOut

Held(r) == Waiting(r) \o Ring(r) \o Ejections(r)

\* Where packet p is.
Places(p) == UNION {{r} \X {i \in DOMAIN Held(r) : Held(r)[i] = p} : r \in Routers}

\* A packet a router has accepted is in one place: it waits, in the worker's
\* order, behind all that were injected; or it is on the ring; or it was taken
\* off at the router of its target; or it is gone, because the error of
\* InjectPackets was ignored.  A packet that goes round again, and one that
\* waited in the injection buffer, is neither duplicated nor left behind.
Conserved ==
    /\ \A p \in Packets : Cardinality(Places(p)) = IF p \in dropped THEN 0 ELSE 1
    /\ \A r \in Routers :
         /\ \A p \in ToSet(Ejections(r)) : p.target = r
         /\ Waiting(r) = [i \in 1 .. Len(Waiting(r)) |->
                              Packet(r, accepted[r] - Len(Waiting(r)) + i)]

\* Every packet leaves the ring: no injection buffer is forgotten, and no
\* packet circles for ever past a worker whose link takes packets again.
Leaves ==
    []<>(\A p \in Packets : p \in dropped \/ p \in ToSet(delivered[p.target]))

\* "Backpressure only (no packet dropping)", says the router of itself.
NothingDropped == dropped = {}
=============================================================================
