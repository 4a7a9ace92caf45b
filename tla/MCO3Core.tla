------------------------------ MODULE MCO3Core ------------------------------
(* Instances of O3Core: two architectural registers and four physical ones,  *)
(* three blocks, two MSHRs, a cache of one line, a ROB of three entries.     *)
EXTENDS O3Core

CONSTANTS x, y, z, ProgramLength

Op(src, dst, loads, stores, branch) ==
    [src |-> src, dst |-> dst, loads |-> loads, stores |-> stores, branch |-> branch]

MCArch == {1, 2}

Kinds ==
    {Op(<<1>>, <<1>>, <<>>, <<>>, FALSE),          \* arithmetic
     Op(<<1>>, <<2>>, <<x>>, <<>>, FALSE),         \* load
     Op(<<2>>, <<>>, <<>>, <<x>>, FALSE),          \* store
     Op(<<1, 2>>, <<1>>, <<y>>, <<z>>, FALSE),     \* load and store
     Op(<<2>>, <<>>, <<>>, <<>>, TRUE)}            \* branch

MCPrograms == [1 .. ProgramLength -> Kinds]
=============================================================================
