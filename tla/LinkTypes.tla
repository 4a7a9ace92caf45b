----------------------------- MODULE LinkTypes -----------------------------
(***************************************************************************)
(* The two flow-control handlers of a link, as functions on their state:   *)
(* BufferedLinkType (internal/core/link/handler_buffered.go), a ring of    *)
(* slots whose index is shifted by every cycle of backpressure, and        *)
(* BufferlessLinkType (handler_bufferless.go), which forwards at once and  *)
(* retries refused packets in the next cycle.                              *)
(*                                                                         *)
(* A packet on its way is stamped: [cycle |-> c, packet |-> p].  Both      *)
(* handlers are described from the port's answers of one cycle: what they  *)
(* send, what they keep and whether they are ready for the next cycle.     *)
(***************************************************************************)
EXTENDS Integers, Sequences

CONSTANTS Latency, Bandwidth

ASSUME LinkAssumption == Latency \in Nat \ {0} /\ Bandwidth \in Nat \ {0}

Smaller(a, b) == IF a < b THEN a ELSE b

Stamped(c, packets) ==
    [i \in DOMAIN packets |-> [cycle |-> c, packet |-> packets[i]]]

-----------------------------------------------------------------------------
(* Buffered.  pendingPackets keeps no cycle: every packet in it was put    *)
(* there in an earlier cycle and is raised to the current one first.       *)

BufferedInit ==
    [slots |-> [i \in 0 .. Latency - 1 |-> <<>>],
     totalBackpressure |-> 0,
     pendingPackets |-> <<>>]

SlotIndex(h, c) == (c - h.totalBackpressure) % Latency

\* Fault: a link is always ready for one more cycle.
AlwaysSpace(h, c) == TRUE

CheckSpace(h, c) == Len(h.slots[SlotIndex(h, c)]) < Bandwidth

\* Fault: the room in a slot is not looked at.
FillUnbounded(h, c, incoming) ==
    [h EXCEPT !.slots[SlotIndex(h, c)] =
                 @ \o Stamped(c, h.pendingPackets \o incoming),
              !.pendingPackets = <<>>]

\* Steps 1 and 2 of Process: pending packets, then new ones, enter the slot of
\* the cycle while it has room; the others are pending.
Fill(h, c, incoming) ==
    LET i       == SlotIndex(h, c)
        waiting == h.pendingPackets \o incoming
        n       == Smaller(Bandwidth - Len(h.slots[i]), Len(waiting))
    IN  [h EXCEPT
           !.slots[i] = @ \o Stamped(c, SubSeq(waiting, 1, n)),
           !.pendingPackets = SubSeq(waiting, n + 1, Len(waiting))]

\* Fault: a slot that was sent is not cleared.
SendKeepsSlot(h, c, ready) ==
    [state |-> IF ready THEN h ELSE [h EXCEPT !.totalBackpressure = @ + 1],
     sent  |-> IF ready THEN h.slots[SlotIndex(h, c)] ELSE <<>>]

\* Step 3: a ready downstream takes the whole slot, each packet with the stamp
\* it got when it entered the slot; otherwise the ring is shifted.
Send(h, c, ready) ==
    IF ready
    THEN [state |-> [h EXCEPT !.slots[SlotIndex(h, c)] = <<>>],
          sent  |-> h.slots[SlotIndex(h, c)]]
    ELSE [state |-> [h EXCEPT !.totalBackpressure = @ + 1],
          sent  |-> <<>>]

BufferedProcess(h, c, incoming, ready) ==
    LET r == Send(Fill(h, c, incoming), c, ready)
    IN  [state |-> r.state, sent |-> r.sent,
         readyNext |-> CheckSpace(r.state, c + 1)]

-----------------------------------------------------------------------------
(* Bufferless.  pending is the list of packets to retry in the next cycle. *)

BufferlessInit == [pending |-> <<>>]

\* Each packet is offered with a TrySend of its own.  The port refuses only
\* the first one: the refusal is pruned when it is read, and the same cycle is
\* then below readyUntil (ComponentSync, AnswerIsDecision).
BufferlessProcess(h, c, incoming, ready) ==
    LET offered == h.pending \o incoming
        refused == IF ready \/ offered = <<>> THEN 0 ELSE 1
    IN  [state |-> [h EXCEPT !.pending = SubSeq(offered, 1, refused)],
         sent  |-> Stamped(c, SubSeq(offered, refused + 1, Len(offered))),
         readyNext |-> TRUE]
=============================================================================
