SPECIFICATION Spec
CONSTANTS
    n1 = n1
    n2 = n2
    n3 = n3
    t1 = t1
    t2 = t2
    t3 = t3
    t4 = t4
    Nodes = {n1, n2, n3}
    Txns = {t1, t2, t3, t4}
    Workloads <- MCWorkloads
CONSTRAINT RacesOfTwo
SYMMETRY Symmetry
INVARIANTS
    TypeOK
    OnlyRacesBreakWriter
    OnlyRacesBreakDirectory
