-------------------------- MODULE MCDRAMChannel --------------------------
(***************************************************************************)
(* Workloads for DRAMChannel.                                              *)
(***************************************************************************)
EXTENDS DRAMChannel

Rd(b, r) == [isWrite |-> FALSE, bank |-> b, row |-> r]
Wr(b, r) == [isWrite |-> TRUE, bank |-> b, row |-> r]

\* Row hits, misses and conflicts on one and on two banks, alone and mixed
\* with enough writes to switch the mode early, late and back.
MCWorkloads == {
    <<Rd(1, 1), Rd(1, 1), Rd(1, 2), Rd(2, 1), Rd(1, 1)>>,
    <<Rd(1, 1), Wr(1, 1), Wr(1, 1), Rd(1, 1), Rd(2, 2)>>,
    <<Wr(1, 1), Rd(1, 1), Wr(2, 1), Rd(2, 1), Wr(1, 2)>>,
    <<Rd(1, 1), Rd(1, 1), Wr(1, 2), Wr(2, 2), Wr(1, 2)>>,
    <<Wr(1, 1), Wr(1, 1), Rd(2, 1), Rd(1, 1), Wr(1, 1)>>,
    <<Rd(2, 1), Rd(1, 2), Wr(2, 1), Rd(1, 2), Rd(1, 1)>>}
=============================================================================
