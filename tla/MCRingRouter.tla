---------------------------- MODULE MCRingRouter ----------------------------
(***************************************************************************)
(* Workloads of RingRouter: two workers that flood the third, and packets  *)
(* that cross at every router.                                             *)
(***************************************************************************)
EXTENDS RingRouter

MCWorkloads ==
    { << <<3, 3, 2>>, <<3, 3>>, <<>> >>, << <<3, 2>>, <<1, 3>>, <<2>> >> }
=============================================================================
