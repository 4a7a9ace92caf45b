---------------------------- MODULE MCCoherence ----------------------------
(***************************************************************************)
(* Every workload of Coherence: each transaction may be any operation of   *)
(* any requester.  Requesters are alike, and so are transactions.          *)
(***************************************************************************)
EXTENDS Coherence

CONSTANTS n1, n2, n3, t1, t2, t3, t4

MCWorkloads == [Txns -> [op : Ops, node : Nodes]]
Symmetry == Permutations(Nodes) \cup Permutations(Txns)

\* After a conflict only the runs of two transactions go on.
RacesOfTwo == raced => Cardinality({t \in Txns : At(t, "start")}) >= Cardinality(Txns) - 2
=============================================================================
