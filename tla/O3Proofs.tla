------------------------------ MODULE O3Proofs ------------------------------
(***************************************************************************)
(* What O3Core promises for every program and every size, proved: its      *)
(* types and queue bounds, the conservation of the physical registers, the *)
(* data flow of renaming, the precise committed state, the counting of     *)
(* memory operations and the one request behind every MSHR.                *)
(*                                                                         *)
(* The inductive invariant IInv says, besides the types: the queues hold   *)
(* the instructions in program order (Order), which are renamed in that    *)
(* order (Progress); where the loops over the ROB and the operands stand   *)
(* (Place, Scan), how far an operand list is renamed (Operands) and that   *)
(* the free registers suffice for the rest (Enough); every physical        *)
(* register has one owner (Ownership), whose entry of the register file    *)
(* names it (Contents); and the maps and the renamed sources name the      *)
(* newest result there is (Latest, Sources).  MSHRInv and OpsInv are the   *)
(* invariants of the cache and of the load and store queues.               *)
(***************************************************************************)
EXTENDS O3Core, TLAPS, FiniteSetTheorems, SequenceTheorems, NaturalsInduction,
        WellFoundedInduction

Stages == {"respond", "retire", "release", "loads", "stores", "complete",
           "execute", "access", "schedule", "sources", "results", "dispatch",
           "decode", "fetch"}

InstrState == [ready : Nat, scheduled : BOOLEAN, executed : BOOLEAN,
               completed : BOOLEAN, memDone : Nat, src : Seq(Nat), dst : Seq(Nat)]
Register == [arch : 0 .. 255, producer : {0} \cup Ids, valid : BOOLEAN]
Miss == [block : Blocks, instr : Ids, ready : Nat]
Request == [block : Blocks, instr : Ids]

PcType == [stage : Stages, n : Nat, k : Nat \ {0}, i : Nat]
PipeType == [fetch : Seq(Ids), decode : Seq(Ids), rob : Seq(Ids), next : Nat]
InstrType == [Ids -> InstrState]
RegsType == [free : Seq(Phys), front : [Arch -> Phys \cup {NoReg}],
             back : [Arch -> Phys \cup {NoReg}], file : [Phys -> Register]]
LsqType == [loads : Seq(Entry), stores : Seq(Entry),
            pendingLoads : Seq(PendingOp), pendingStores : Seq(PendingOp)]
L1Type == [lines : Seq(Blocks), mshr : Seq(Miss), requests : Seq(Request)]
Sent == [block : Blocks, instr : Ids, sent : 0 .. MaxCycle]

Types ==
    /\ program \in Programs
    /\ now \in 0 .. MaxCycle
    /\ pc \in PcType
    /\ pipe \in PipeType
    /\ instr \in InstrType
    /\ regs \in RegsType
    /\ lsq \in LsqType
    /\ l1 \in L1Type
    /\ net \subseteq Sent

Sizes ==
    /\ Len(pipe.fetch) <= FetchQueueSize
    /\ Len(pipe.decode) <= DecodeQueueSize
    /\ Len(pipe.rob) <= ROBSize
    /\ Len(lsq.loads) <= LQSize
    /\ Len(lsq.stores) <= SQSize
    /\ Len(l1.lines) <= Ways
    /\ Len(l1.mshr) <= MSHRSize

\* The instructions that left the ROB, and the newest one dispatched.
Gone == pipe.next - 1 - Len(pipe.fetch) - Len(pipe.decode) - Len(pipe.rob)
Newest == Gone + Len(pipe.rob)

Order ==
    /\ Gone >= 0
    /\ pipe.next <= Len(program) + 1
    /\ \A j \in 1 .. Len(pipe.rob) : pipe.rob[j] = Gone + j
    /\ \A j \in 1 .. Len(pipe.decode) : pipe.decode[j] = Newest + j
    /\ \A j \in 1 .. Len(pipe.fetch) :
           pipe.fetch[j] = Newest + Len(pipe.decode) + j

InScan == pc.stage \in {"sources", "results"}

Progress ==
    /\ \A i \in Ids : i <= Gone => instr[i].completed
    /\ \A i \in Ids : i > Newest =>
           ~instr[i].scheduled /\ instr[i].memDone = 0
    /\ \A i \in Ids : instr[i].executed => instr[i].scheduled
    /\ \A i \in Ids : instr[i].completed => instr[i].executed
    /\ \A i \in Ids : \A h \in Ids : h < i /\ instr[i].scheduled => instr[h].scheduled
    /\ \A i \in Ids : \A h \in Ids :
           h < i /\ i <= Newest /\ ~instr[h].scheduled /\ ~instr[i].scheduled
               => instr[h].ready <= instr[i].ready
    /\ \A i \in Ids : i <= Newest /\ ~instr[i].scheduled
                          => instr[i].ready <= now + DispatchLatency

Place ==
    /\ pc.stage = "release" => /\ pc.i = Gone /\ pc.i \in Ids
                               /\ pc.k <= Len(program[pc.i].dst) + 1
    /\ pc.stage = "access" => pc.i \in Ids /\ Gone < pc.i /\ pc.i <= Newest
    /\ InScan => /\ pc.k <= Len(pipe.rob) /\ pc.i >= 1
                 /\ instr[Gone + pc.k].scheduled /\ ~instr[Gone + pc.k].executed
                 /\ \A i \in Ids : i > Gone + pc.k => ~instr[i].scheduled
    /\ pc.stage = "sources" => pc.i <= Len(program[Gone + pc.k].src) + 1
    /\ pc.stage = "results" => pc.i <= Len(program[Gone + pc.k].dst) + 1

\* What the scan of the ROB has passed in this cycle is renamed or not ready.
Scan ==
    pc.stage = "schedule" \/ InScan =>
        \A i \in Ids : Gone < i /\ i < Gone + pc.k =>
            instr[i].scheduled \/ now < instr[i].ready

\* The results that are committed already.
Committed(i) ==
    IF i > Gone THEN {}
    ELSE IF pc.stage = "release" /\ pc.i = i THEN 1 .. pc.k - 1
    ELSE DOMAIN program[i].dst

Lengths ==
    \A i \in Ids : /\ Len(instr[i].src) = Len(program[i].src)
                   /\ Len(instr[i].dst) = Len(program[i].dst)

Operands ==
    \A i \in Ids :
        /\ \A j \in DOMAIN program[i].src \ RenamedSources(i) :
               instr[i].src[j] = program[i].src[j]
        /\ \A j \in DOMAIN program[i].dst \ (RenamedResults(i) \cup Committed(i)) :
               instr[i].dst[j] = program[i].dst[j]
        /\ instr[i].scheduled => Len(program[i].dst) <= NPhys

NeededFor(i, from) == {j \in DOMAIN instr[i].src : j >= from /\ Unmapped(instr[i].src[j])}

Enough ==
    /\ pc.stage = "sources" =>
           Len(regs.free) >= Cardinality(NeededFor(Gone + pc.k, pc.i))
                             + Len(program[Gone + pc.k].dst)
    /\ pc.stage = "results" =>
           Len(regs.free) >= Len(program[Gone + pc.k].dst) + 1 - pc.i

Ownership ==
    /\ \A j \in DOMAIN regs.free : \A h \in DOMAIN regs.free :
           regs.free[j] = regs.free[h] => j = h
    /\ \A a \in Arch : \A b \in Arch :
           regs.back[a] # NoReg /\ regs.back[a] = regs.back[b] => a = b
    /\ \A j \in DOMAIN regs.free : \A a \in Arch : regs.back[a] # regs.free[j]
    /\ \A i \in Ids : \A k \in RenamedResults(i) : instr[i].dst[k] \in Phys
    /\ \A i \in Ids : \A k \in RenamedResults(i) :
           \A j \in DOMAIN regs.free : instr[i].dst[k] # regs.free[j]
    /\ \A i \in Ids : \A k \in RenamedResults(i) :
           \A a \in Arch : instr[i].dst[k] # regs.back[a]
    /\ \A i \in Ids : \A k \in RenamedResults(i) :
           \A h \in Ids : \A l \in RenamedResults(h) :
               instr[i].dst[k] = instr[h].dst[l] => i = h /\ k = l
    /\ \A p \in Phys :
           \/ \E j \in DOMAIN regs.free : regs.free[j] = p
           \/ \E a \in Arch : regs.back[a] = p
           \/ \E i \in Ids : \E k \in RenamedResults(i) : instr[i].dst[k] = p

\* Result k of instruction i is the newest one for register a before b.
NewestResult(a, b, i, k) ==
    /\ i \in Ids /\ i < b /\ k \in DOMAIN program[i].dst /\ program[i].dst[k] = a
    /\ \A h \in Ids : \A l \in DOMAIN program[h].dst :
           program[h].dst[l] = a /\ h < b => h < i \/ (h = i /\ l <= k)

\* The same among the committed results, and among those that are renamed.
NewestCommitted(a, i, k) ==
    /\ i \in Ids /\ k \in Committed(i) /\ program[i].dst[k] = a
    /\ \A h \in Ids : \A l \in Committed(h) :
           program[h].dst[l] = a => h < i \/ (h = i /\ l <= k)

Renamed(i) == Committed(i) \cup RenamedResults(i)

NewestRenamed(a, i, k) ==
    /\ i \in Ids /\ k \in Renamed(i) /\ program[i].dst[k] = a
    /\ \A h \in Ids : \A l \in Renamed(h) :
           program[h].dst[l] = a => h < i \/ (h = i /\ l <= k)

Contents ==
    /\ \A i \in Ids : \A k \in RenamedResults(i) :
           regs.file[instr[i].dst[k]] = [arch |-> program[i].dst[k], producer |-> i,
                                         valid |-> instr[i].completed]
    /\ \A a \in Arch : regs.back[a] # NoReg =>
           regs.file[regs.back[a]].arch = a /\ regs.file[regs.back[a]].valid
    /\ \A a \in Arch : \A i \in Ids : \A k \in Committed(i) :
           NewestCommitted(a, i, k) =>
               /\ regs.back[a] # NoReg /\ regs.back[a] = instr[i].dst[k]
               /\ regs.file[regs.back[a]].producer = i
    /\ \A a \in Arch :
           (\A i \in Ids : \A k \in Committed(i) : program[i].dst[k] # a)
           /\ regs.back[a] # NoReg => regs.file[regs.back[a]].producer = 0

Latest ==
    /\ \A a \in Arch : \A i \in Ids : \A k \in Renamed(i) :
           program[i].dst[k] = a => regs.front[a] # NoReg
    /\ \A a \in Arch : \A i \in Ids : \A k \in Renamed(i) :
           NewestRenamed(a, i, k) => regs.front[a] = instr[i].dst[k]
    /\ \A a \in Arch :
           (\A i \in Ids : \A k \in Renamed(i) : program[i].dst[k] # a)
               => regs.front[a] = regs.back[a]

Sources ==
    \A i \in Ids : i > Gone =>
        \A j \in RenamedSources(i) :
            LET a == program[i].src[j]
            IN  /\ \A h \in Ids : \A l \in DOMAIN program[h].dst :
                       NewestResult(a, i, h, l) =>
                           /\ instr[i].src[j] = instr[h].dst[l]
                           /\ instr[i].executed => instr[h].completed
                /\ (\A h \in Ids : \A l \in DOMAIN program[h].dst :
                        program[h].dst[l] = a => h >= i) =>
                            regs.back[a] # NoReg /\ instr[i].src[j] = regs.back[a]

IInv == /\ Types /\ Sizes /\ Order /\ Progress /\ Place /\ Scan /\ Lengths
        /\ Operands /\ Enough /\ Ownership /\ Contents /\ Latest /\ Sources

-----------------------------------------------------------------------------
(* Sequences: the first index that passes a test, and removal at an index. *)

\* A set of naturals that is not empty has a least element.
LEMMA LeastNumber ==
    ASSUME NEW T, T \subseteq Nat, T # {}
    PROVE  \E x \in T : \A y \in T : x <= y
<1> DEFINE R == OpToRel(<, Nat)
<1>1. \A x, y \in Nat : y < x => <<y, x>> \in R
  <2> SUFFICES ASSUME NEW x \in Nat, NEW y \in Nat, y < x
               PROVE  <<y, x>> \in OpToRel(<, Nat)
    OBVIOUS
  <2> DEFINE ss == <<y, x>>
  <2>1. ss \in Nat \X Nat /\ ss[1] < ss[2]
    OBVIOUS
  <2> QED BY <2>1 DEF OpToRel
<1>2. IsWellFoundedOn(R, Nat)
  BY NatLessThanWellFounded
<1> HIDE DEF R
<1>3. PICK x \in T : \A y \in T : ~(<<y, x>> \in R)
  BY <1>2, WFMin
<1>4. ASSUME NEW y \in T
      PROVE  x <= y
  <2>1. x \in Nat /\ y \in Nat
    OBVIOUS
  <2>2. ~(y < x)
    BY <1>1, <1>3, <2>1
  <2> QED BY <2>1, <2>2
<1> QED BY <1>4

\* The loops of the code stop at the first hit: Min picks a member.
LEMMA MinMember ==
    ASSUME NEW T, T \subseteq Nat, T # {}
    PROVE  Min(T) \in T
<1>1. PICK x \in T : \A y \in T : x <= y
  BY LeastNumber
<1> QED BY <1>1 DEF Min

\* Removing one entry of a queue shifts the later ones forward.
LEMMA RemoveAtProps ==
    ASSUME NEW S, NEW q \in Seq(S), NEW j \in 1 .. Len(q)
    PROVE  /\ RemoveAt(q, j) \in Seq(S)
           /\ Len(RemoveAt(q, j)) = Len(q) - 1
           /\ \A m \in 1 .. Len(q) - 1 :
                  RemoveAt(q, j)[m] = IF m < j THEN q[m] ELSE q[m + 1]
<1> DEFINE u == SubSeq(q, 1, j - 1)
           v == SubSeq(q, j + 1, Len(q))
<1>1. u \in Seq(S) /\ Len(u) = j - 1 /\ \A m \in 1 .. j - 1 : u[m] = q[m]
  OBVIOUS
<1>2. v \in Seq(S) /\ Len(v) = Len(q) - j
      /\ \A m \in 1 .. Len(q) - j : v[m] = q[j + m]
  OBVIOUS
<1>3. RemoveAt(q, j) = u \o v
  BY DEF RemoveAt
<1> HIDE DEF u, v
<1>4. u \o v \in Seq(S) /\ Len(u \o v) = Len(q) - 1
  BY <1>1, <1>2
<1>5. \A m \in 1 .. Len(q) - 1 : (u \o v)[m] = IF m < j THEN q[m] ELSE q[m + 1]
  BY <1>1, <1>2
<1> QED BY <1>3, <1>4, <1>5

\* An entry of a queue is its two fields.
LEMMA EntryFields ==
    ASSUME NEW S, NEW e \in [instr : S, done : BOOLEAN]
    PROVE  e = [instr |-> e.instr, done |-> e.done]
  OBVIOUS

\* Completing an entry changes its flag and nothing else.
LEMMA EntryDone ==
    ASSUME NEW S, NEW e \in [instr : S, done : BOOLEAN]
    PROVE  [e EXCEPT !.done = TRUE] = [instr |-> e.instr, done |-> TRUE]
<1> DEFINE f == [e EXCEPT !.done = TRUE]
<1>1. f \in [instr : S, done : BOOLEAN]
  OBVIOUS
<1>2. f.instr = e.instr
  OBVIOUS
<1>3. f.done = TRUE
  OBVIOUS
<1> HIDE DEF f
<1>4. f = [instr |-> f.instr, done |-> f.done]
  BY <1>1, EntryFields
<1>5. f = [instr |-> e.instr, done |-> TRUE]
  BY <1>2, <1>3, <1>4
<1> QED BY <1>5 DEF f

\* completeLoad and completeStore: a response completes one waiting entry of
\* its instruction, or none when none waits.
LEMMA AnswerProps ==
    ASSUME NEW S, NEW q \in Seq([instr : S, done : BOOLEAN]), NEW i
    PROVE  \/ ~WaitsIn(q, i) /\ Answer(q, i) = q
           \/ /\ WaitsIn(q, i)
              /\ \E j \in 1 .. Len(q) :
                     /\ q[j] = [instr |-> i, done |-> FALSE]
                     /\ Answer(q, i) = [q EXCEPT ![j] = [instr |-> i, done |-> TRUE]]
<1> DEFINE T == {j \in 1 .. Len(q) : q[j] = [instr |-> i, done |-> FALSE]}
           s == IF T # {} THEN Min(T) ELSE 0
           r == [q EXCEPT ![s].done = TRUE]
<1>1. Answer(q, i) = IF s = 0 THEN q ELSE r
  BY DEF Answer, SelectInSeq
<1> HIDE DEF r
<1>2. DOMAIN q = 1 .. Len(q) /\ T \subseteq 1 .. Len(q) /\ T \subseteq Nat
  OBVIOUS
<1>3. CASE T = {}
  BY <1>1, <1>2, <1>3 DEF WaitsIn
<1>4. CASE T # {}
  <2>1. Min(T) \in T
    BY <1>2, <1>4, MinMember
  <2>2. s \in 1 .. Len(q) /\ q[s] = [instr |-> i, done |-> FALSE] /\ s # 0
    BY <2>1, <1>4
  <2>3. Answer(q, i) = r
    BY <1>1, <2>2
  <2> HIDE DEF s
  <2>4. [q[s] EXCEPT !.done = TRUE] = [instr |-> i, done |-> TRUE]
    <3>1. q[s] \in [instr : S, done : BOOLEAN]
      BY <2>2
    <3>2. q[s].instr = i
      BY <2>2
    <3> QED BY <3>1, <3>2, EntryDone
  <2>5. r = [q EXCEPT ![s] = [instr |-> i, done |-> TRUE]]
    BY <2>4 DEF r
  <2> QED BY <2>2, <2>3, <2>5, <1>2 DEF WaitsIn
<1> QED BY <1>3, <1>4

\* removeLoad and removeStore: one entry of the instruction goes, if any.
LEMMA RemoveEntryProps ==
    ASSUME NEW S, NEW q \in Seq(S), NEW i
    PROVE  \/ RemoveEntry(q, i) = q
           \/ \E j \in 1 .. Len(q) : q[j].instr = i /\ RemoveEntry(q, i) = RemoveAt(q, j)
<1> DEFINE T == {j \in 1 .. Len(q) : q[j].instr = i}
           s == IF T # {} THEN Min(T) ELSE 0
<1>1. RemoveEntry(q, i) = IF \E j \in 1 .. Len(q) : q[j].instr = i
                          THEN RemoveAt(q, s) ELSE q
  BY DEF RemoveEntry, RemoveFirstMatch, SelectInSeq
<1>2. CASE T = {}
  BY <1>1, <1>2
<1>3. CASE T # {}
  <2>1. T \subseteq Nat
    OBVIOUS
  <2>2. Min(T) \in T
    BY <2>1, <1>3, MinMember
  <2>3. s \in T
    BY <2>2, <1>3
  <2> HIDE DEF s
  <2> QED BY <1>1, <2>3
<1> QED BY <1>2, <1>3

\* HandleFill releases the MSHR of the block that arrived.
LEMMA ReleaseProps ==
    ASSUME NEW S, NEW q \in Seq(S), NEW b
    PROVE  \/ RemoveMSHR(q, b) = q /\ \A j \in 1 .. Len(q) : q[j].block # b
           \/ \E j \in 1 .. Len(q) : q[j].block = b /\ RemoveMSHR(q, b) = RemoveAt(q, j)
<1> DEFINE T == {j \in 1 .. Len(q) : q[j].block = b}
           s == IF T # {} THEN Min(T) ELSE 0
<1>1. RemoveMSHR(q, b) = IF \E j \in 1 .. Len(q) : q[j].block = b
                         THEN RemoveAt(q, s) ELSE q
  BY DEF RemoveMSHR, RemoveFirstMatch, SelectInSeq
<1>2. CASE T = {}
  BY <1>1, <1>2
<1>3. CASE T # {}
  <2>1. T \subseteq Nat
    OBVIOUS
  <2>2. Min(T) \in T
    BY <2>1, <1>3, MinMember
  <2>3. s \in T
    BY <2>2, <1>3
  <2> HIDE DEF s
  <2> QED BY <1>1, <2>3
<1> QED BY <1>2, <1>3

\* A touched or refilled line leaves its place in the LRU order.
LEMMA RemoveLineProps ==
    ASSUME NEW S, NEW q \in Seq(S), NEW b
    PROVE  \/ RemoveFirst(q, b) = q /\ \A j \in 1 .. Len(q) : q[j] # b
           \/ \E j \in 1 .. Len(q) : q[j] = b /\ RemoveFirst(q, b) = RemoveAt(q, j)
<1> DEFINE T == {j \in 1 .. Len(q) : q[j] = b}
           s == IF T # {} THEN Min(T) ELSE 0
<1>1. RemoveFirst(q, b) = IF \E j \in 1 .. Len(q) : q[j] = b THEN RemoveAt(q, s) ELSE q
  BY DEF RemoveFirst, SelectInSeq
<1>2. CASE T = {}
  BY <1>1, <1>2
<1>3. CASE T # {}
  <2>1. T \subseteq Nat
    OBVIOUS
  <2>2. Min(T) \in T
    BY <2>1, <1>3, MinMember
  <2>3. s \in T
    BY <2>2, <1>3
  <2> HIDE DEF s
  <2> QED BY <1>1, <2>3
<1> QED BY <1>2, <1>3

\* processPendingMemOps takes an operation that is due.
LEMMA DueProps ==
    ASSUME NEW S, NEW q \in Seq(S), DueIn(q) # 0
    PROVE  DueIn(q) \in 1 .. Len(q)
<1> DEFINE T == {j \in 1 .. Len(q) : q[j].ready <= now}
<1>1. DueIn(q) = IF T # {} THEN Min(T) ELSE 0
  BY DEF DueIn, SelectInSeq
<1>2. T # {} => Min(T) \in T
  <2>1. T \subseteq Nat
    OBVIOUS
  <2> HIDE DEF T
  <2> QED BY <2>1, MinMember
<1> QED BY <1>1, <1>2

\* completeInflightInstruction takes an instruction that can complete.
LEMMA CompletesProps ==
    ASSUME NEW S, NEW q \in Seq(S), SelectInSeq(q, Completes) # 0
    PROVE  /\ SelectInSeq(q, Completes) \in 1 .. Len(q)
           /\ Completes(q[SelectInSeq(q, Completes)])
<1> DEFINE T == {j \in 1 .. Len(q) : Completes(q[j])}
<1>1. SelectInSeq(q, Completes) = IF T # {} THEN Min(T) ELSE 0
  BY DEF SelectInSeq
<1>2. T # {} => Min(T) \in T
  <2>1. T \subseteq Nat
    OBVIOUS
  <2> HIDE DEF T
  <2> QED BY <2>1, MinMember
<1> QED BY <1>1, <1>2

\* execute takes an instruction whose sources are valid.
LEMMA ExecutesProps ==
    ASSUME NEW S, NEW q \in Seq(S), SelectInSeq(q, Executes) # 0
    PROVE  /\ SelectInSeq(q, Executes) \in 1 .. Len(q)
           /\ Executes(q[SelectInSeq(q, Executes)])
<1> DEFINE T == {j \in 1 .. Len(q) : Executes(q[j])}
<1>1. SelectInSeq(q, Executes) = IF T # {} THEN Min(T) ELSE 0
  BY DEF SelectInSeq
<1>2. T # {} => Min(T) \in T
  <2>1. T \subseteq Nat
    OBVIOUS
  <2> HIDE DEF T
  <2> QED BY <2>1, MinMember
<1> QED BY <1>1, <1>2

-----------------------------------------------------------------------------
(* The types of the variables.                                             *)

\* The widths and sizes a core is configured with are naturals.
LEMMA SizeTypes ==
    /\ NPhys \in Nat \ {0} /\ MaxCycle \in Nat /\ MaxDelay \in Nat
    /\ FetchWidth \in Nat /\ DispatchWidth \in Nat /\ ScheduleWidth \in Nat
    /\ FetchQueueSize \in Nat /\ DecodeQueueSize \in Nat /\ ROBSize \in Nat
    /\ Ways \in Nat \ {0} /\ MSHRSize \in Nat /\ LQSize \in Nat /\ SQSize \in Nat
    /\ FetchLatency \in Nat /\ DecodeLatency \in Nat /\ DispatchLatency \in Nat
    /\ ExecuteLatency \in Nat /\ HitLatency \in Nat /\ FillLatency \in Nat
  BY SizesAssumption

\* The trace reader hands out instructions of the program, numbered from one.
LEMMA ProgramType ==
    ASSUME Types
    PROVE  /\ Len(program) \in Nat /\ Ids = 1 .. Len(program) /\ Ids \subseteq Nat
           /\ \A i \in Ids :
                 /\ program[i].src \in Seq(Arch) /\ program[i].dst \in Seq(Arch)
                 /\ program[i].loads \in Seq(Blocks) /\ program[i].stores \in Seq(Blocks)
                 /\ NumMemOps(i) \in Nat
<1>1. program \in Seq(Instruction)
  BY ProgramsAssumption DEF Types
<1>2. Len(program) \in Nat /\ Ids = 1 .. Len(program) /\ Ids \subseteq Nat
  BY <1>1 DEF Ids
<1>3. \A i \in Ids : program[i] \in Instruction
  BY <1>1, <1>2
<1>4. \A i \in Ids :
          /\ program[i].src \in Seq(Arch) /\ program[i].dst \in Seq(Arch)
          /\ program[i].loads \in Seq(Blocks) /\ program[i].stores \in Seq(Blocks)
  <2> SUFFICES ASSUME NEW i \in Ids
               PROVE  /\ program[i].src \in Seq(Arch) /\ program[i].dst \in Seq(Arch)
                      /\ program[i].loads \in Seq(Blocks)
                      /\ program[i].stores \in Seq(Blocks)
    OBVIOUS
  <2> DEFINE r == program[i]
  <2>1. r \in Instruction
    BY <1>3
  <2> HIDE DEF r
  <2>2. /\ r.src \in Seq(Arch) /\ r.dst \in Seq(Arch)
        /\ r.loads \in Seq(Blocks) /\ r.stores \in Seq(Blocks)
    BY <2>1 DEF Instruction
  <2> QED BY <2>2 DEF r
<1>5. \A i \in Ids : NumMemOps(i) \in Nat
  <2> SUFFICES ASSUME NEW i \in Ids
               PROVE  NumMemOps(i) \in Nat
    OBVIOUS
  <2> DEFINE u == program[i].loads
             v == program[i].stores
  <2>1. u \in Seq(Blocks) /\ v \in Seq(Blocks)
    BY <1>4
  <2>2. NumMemOps(i) = Len(u) + Len(v)
    BY DEF NumMemOps
  <2> HIDE DEF u, v
  <2> QED BY <2>1, <2>2
<1> QED BY <1>2, <1>4, <1>5

\* Registers are numbered from zero, so that no register is none of them.
LEMMA PhysType == Phys \subseteq Nat /\ NoReg \notin Phys /\ NoReg \notin Nat
  BY SizeTypes DEF Phys, NoReg

\* The fields of the variables.
LEMMA FieldTypes ==
    ASSUME Types
    PROVE  /\ pc.stage \in Stages /\ pc.n \in Nat /\ pc.k \in Nat /\ pc.k > 0 /\ pc.i \in Nat
           /\ pipe.fetch \in Seq(Ids) /\ pipe.decode \in Seq(Ids)
           /\ pipe.rob \in Seq(Ids) /\ pipe.next \in Nat
           /\ regs.free \in Seq(Phys) /\ regs.front \in [Arch -> Phys \cup {NoReg}]
           /\ regs.back \in [Arch -> Phys \cup {NoReg}] /\ regs.file \in [Phys -> Register]
           /\ lsq.loads \in Seq(Entry) /\ lsq.stores \in Seq(Entry)
           /\ lsq.pendingLoads \in Seq(PendingOp) /\ lsq.pendingStores \in Seq(PendingOp)
           /\ l1.lines \in Seq(Blocks) /\ l1.mshr \in Seq(Miss) /\ l1.requests \in Seq(Request)
           /\ now \in Nat
<1>1. now \in Nat
  BY SizeTypes DEF Types
<1> QED BY <1>1 DEF Types, PcType, PipeType, RegsType, LsqType, L1Type

\* The fields of an instruction.
LEMMA InstrFields ==
    ASSUME Types, NEW i \in Ids
    PROVE  /\ instr[i] \in InstrState /\ instr[i].ready \in Nat
           /\ instr[i].scheduled \in BOOLEAN /\ instr[i].executed \in BOOLEAN
           /\ instr[i].completed \in BOOLEAN /\ instr[i].memDone \in Nat
           /\ instr[i].src \in Seq(Nat) /\ instr[i].dst \in Seq(Nat)
<1>1. instr[i] \in InstrState
  BY DEF Types, InstrType
<1> QED BY <1>1 DEF InstrState

\* No step changes the program, so that types are compared with the ones of
\* the state before it.
LEMMA TypesFrom ==
    ASSUME Types, program' = program, now' \in 0 .. MaxCycle, pc' \in PcType,
           pipe' \in PipeType, instr' \in InstrType, regs' \in RegsType,
           lsq' \in LsqType, l1' \in L1Type, net' \subseteq Sent
    PROVE  Types'
<1>1. Ids' = Ids
  BY DEF Ids
<1>2. PipeType' = PipeType /\ InstrType' = InstrType
  BY <1>1 DEF PipeType, InstrType
<1>3. Register' = Register /\ Entry' = Entry /\ PendingOp' = PendingOp
      /\ Miss' = Miss /\ Request' = Request
  BY <1>1 DEF Register, Entry, PendingOp, Miss, Request
<1>4. RegsType' = RegsType /\ LsqType' = LsqType /\ L1Type' = L1Type /\ Sent' = Sent
  BY <1>1, <1>3 DEF RegsType, LsqType, L1Type, Sent
<1> QED BY <1>2, <1>4 DEF Types, PcType

\* The step to another stage.
LEMMA GotoType ==
    ASSUME NEW stage \in Stages, Goto(stage)
    PROVE  pc' \in PcType /\ pc'.stage = stage
  BY DEF Goto, PcType

\* A change of one field of an instruction keeps its type.
LEMMA InstrUpdate ==
    ASSUME Types, NEW i \in Ids, NEW e \in InstrState,
           instr' = [instr EXCEPT ![i] = e]
    PROVE  instr' \in InstrType
  BY DEF Types, InstrType

\* completeLoad and completeStore keep the types of the queues.
LEMMA AnswerType ==
    ASSUME Types, NEW q \in Seq(Entry), NEW i \in Ids
    PROVE  Answer(q, i) \in Seq(Entry) /\ Len(Answer(q, i)) = Len(q)
<1>1. Entry = [instr : Ids, done : BOOLEAN]
  BY DEF Entry
<1>2. [instr |-> i, done |-> TRUE] \in Entry
  BY <1>1
<1>3. CASE Answer(q, i) = q
  BY <1>3
<1>4. CASE \E j \in 1 .. Len(q) : Answer(q, i) = [q EXCEPT ![j] = [instr |-> i, done |-> TRUE]]
  BY <1>2, <1>4
<1> QED BY <1>1, <1>3, <1>4, AnswerProps

\* A stage sets the cycle of the next one, and no other field.
LEMMA SetReady ==
    ASSUME NEW e \in InstrState, NEW v \in Nat
    PROVE  LET d == [e EXCEPT !.ready = v]
           IN  /\ d \in InstrState /\ d.ready = v
               /\ d.scheduled = e.scheduled /\ d.executed = e.executed /\ d.completed = e.completed
               /\ d.memDone = e.memDone /\ d.src = e.src /\ d.dst = e.dst
  BY DEF InstrState

\* schedule marks an instruction, and changes no other field.
LEMMA SetScheduled ==
    ASSUME NEW e \in InstrState, NEW v \in BOOLEAN
    PROVE  LET d == [e EXCEPT !.scheduled = v]
           IN  /\ d \in InstrState /\ d.scheduled = v
               /\ d.ready = e.ready /\ d.executed = e.executed /\ d.completed = e.completed
               /\ d.memDone = e.memDone /\ d.src = e.src /\ d.dst = e.dst
  BY DEF InstrState

\* execute marks an instruction, and changes no other field.
LEMMA SetExecuted ==
    ASSUME NEW e \in InstrState, NEW v \in BOOLEAN
    PROVE  LET d == [e EXCEPT !.executed = v]
           IN  /\ d \in InstrState /\ d.executed = v
               /\ d.ready = e.ready /\ d.scheduled = e.scheduled /\ d.completed = e.completed
               /\ d.memDone = e.memDone /\ d.src = e.src /\ d.dst = e.dst
  BY DEF InstrState

\* A completed instruction is marked, and no other field changes.
LEMMA SetCompleted ==
    ASSUME NEW e \in InstrState, NEW v \in BOOLEAN
    PROVE  LET d == [e EXCEPT !.completed = v]
           IN  /\ d \in InstrState /\ d.completed = v
               /\ d.ready = e.ready /\ d.scheduled = e.scheduled /\ d.executed = e.executed
               /\ d.memDone = e.memDone /\ d.src = e.src /\ d.dst = e.dst
  BY DEF InstrState

\* A memory operation is counted, and no other field changes.
LEMMA SetMemDone ==
    ASSUME NEW e \in InstrState, NEW v \in Nat
    PROVE  LET d == [e EXCEPT !.memDone = v]
           IN  /\ d \in InstrState /\ d.memDone = v
               /\ d.ready = e.ready /\ d.scheduled = e.scheduled /\ d.executed = e.executed
               /\ d.completed = e.completed /\ d.src = e.src /\ d.dst = e.dst
  BY DEF InstrState

\* Renaming a source changes that list only.
LEMMA SetSrc ==
    ASSUME NEW e \in InstrState, NEW v \in Seq(Nat)
    PROVE  LET d == [e EXCEPT !.src = v]
           IN  /\ d \in InstrState /\ d.src = v
               /\ d.ready = e.ready /\ d.scheduled = e.scheduled /\ d.executed = e.executed
               /\ d.completed = e.completed /\ d.memDone = e.memDone /\ d.dst = e.dst
  BY DEF InstrState

\* Renaming a result changes that list only.
LEMMA SetDst ==
    ASSUME NEW e \in InstrState, NEW v \in Seq(Nat)
    PROVE  LET d == [e EXCEPT !.dst = v]
           IN  /\ d \in InstrState /\ d.dst = v
               /\ d.ready = e.ready /\ d.scheduled = e.scheduled /\ d.executed = e.executed
               /\ d.completed = e.completed /\ d.memDone = e.memDone /\ d.src = e.src
  BY DEF InstrState

\* The counter of the instruction grows by one, or nothing changes.
LEMMA CountOpProps ==
    ASSUME Types, NEW q, NEW i \in Ids, CountOp(q, i)
    PROVE  /\ instr' \in InstrType
           /\ \A h \in Ids :
                 /\ instr'[h].ready = instr[h].ready
                 /\ instr'[h].scheduled = instr[h].scheduled
                 /\ instr'[h].executed = instr[h].executed
                 /\ instr'[h].completed = instr[h].completed
                 /\ instr'[h].src = instr[h].src /\ instr'[h].dst = instr[h].dst
                 /\ instr'[h].memDone = IF h = i /\ i \in InRob /\ WaitsIn(q, i)
                                        THEN instr[h].memDone + 1 ELSE instr[h].memDone
<1> DEFINE e == [instr[i] EXCEPT !.memDone = @ + 1]
<1>1. instr[i] \in InstrState /\ instr[i].memDone + 1 \in Nat
  BY InstrFields
<1>2. e \in InstrState
  BY <1>1, SetMemDone
<1>3. /\ e.ready = instr[i].ready /\ e.scheduled = instr[i].scheduled
      /\ e.executed = instr[i].executed /\ e.completed = instr[i].completed
      /\ e.src = instr[i].src /\ e.dst = instr[i].dst /\ e.memDone = instr[i].memDone + 1
  BY <1>1, SetMemDone
<1>4. instr' = IF i \in InRob /\ WaitsIn(q, i) THEN [instr EXCEPT ![i] = e] ELSE instr
  BY DEF CountOp
<1> HIDE DEF e
<1>5. instr \in [Ids -> InstrState]
  BY DEF Types, InstrType
<1>6. CASE i \in InRob /\ WaitsIn(q, i)
  <2>1. instr' = [instr EXCEPT ![i] = e]
    BY <1>4, <1>6
  <2>2. instr' \in InstrType
    BY <2>1, <1>2, InstrUpdate
  <2>3. \A h \in Ids : instr'[h] = IF h = i THEN e ELSE instr[h]
    BY <2>1, <1>5
  <2> QED BY <2>2, <2>3, <1>3, <1>6
<1>7. CASE ~(i \in InRob /\ WaitsIn(q, i))
  <2>1. instr' = instr
    BY <1>4, <1>7
  <2> QED BY <2>1, <1>7 DEF Types
<1> QED BY <1>6, <1>7

-----------------------------------------------------------------------------
(* The queues in program order, and the operands that are renamed.         *)

SourcesAt(i) ==
    IF pc.stage = "sources" /\ i = Gone + pc.k THEN 1 .. pc.i - 1
    ELSE IF instr[i].scheduled THEN 1 .. Len(program[i].src) ELSE {}

ResultsAt(i) ==
    IF pc.stage = "sources" /\ i = Gone + pc.k THEN {}
    ELSE IF pc.stage = "results" /\ i = Gone + pc.k THEN 1 .. pc.i - 1
    ELSE IF pc.stage = "release" /\ i = Gone THEN pc.k .. Len(program[i].dst)
    ELSE IF Gone < i /\ i <= Newest /\ instr[i].scheduled
         THEN 1 .. Len(program[i].dst) ELSE {}

Ordered == Types /\ Order /\ Place /\ Lengths

Views == \A i \in Ids : /\ RenamedSources(i) = SourcesAt(i)
                        /\ RenamedResults(i) = ResultsAt(i)
                        /\ i \in InRob <=> Gone < i /\ i <= Newest

\* The order of the queues is arithmetic on natural numbers.
LEMMA OrderTypes ==
    ASSUME Types, Order
    PROVE  /\ Gone \in Nat /\ Newest \in Nat /\ Newest = Gone + Len(pipe.rob)
           /\ Newest + Len(pipe.decode) + Len(pipe.fetch) + 1 = pipe.next
           /\ Len(pipe.rob) \in Nat /\ Len(pipe.decode) \in Nat /\ Len(pipe.fetch) \in Nat
           /\ pipe.next <= Len(program) + 1
<1> DEFINE f == Len(pipe.fetch)
           d == Len(pipe.decode)
           r == Len(pipe.rob)
           n == pipe.next
<1>1. pipe.fetch \in Seq(Ids) /\ pipe.decode \in Seq(Ids) /\ pipe.rob \in Seq(Ids)
      /\ pipe.next \in Nat
  BY FieldTypes
<1>2. f \in Nat /\ d \in Nat /\ r \in Nat /\ n \in Nat
  BY <1>1
<1>3. Gone = n - 1 - f - d - r /\ Newest = Gone + r /\ Gone >= 0
      /\ pipe.next <= Len(program) + 1
  BY DEF Order, Gone, Newest
<1>4. r = Len(pipe.rob) /\ d = Len(pipe.decode) /\ f = Len(pipe.fetch) /\ n = pipe.next
  OBVIOUS
<1> HIDE DEF f, d, r, n
<1>5. Gone \in Nat /\ Newest \in Nat /\ Newest + d + f + 1 = n
  BY <1>2, <1>3
<1> QED BY <1>2, <1>3, <1>4, <1>5

\* The ROB holds an interval of the program.
LEMMA RobInterval ==
    ASSUME Types, Order
    PROVE  /\ \A i \in Ids : i \in InRob <=> Gone < i /\ i <= Newest
           /\ \A j \in 1 .. Len(pipe.rob) : /\ pipe.rob[j] = Gone + j /\ Gone + j \in Ids
                                            /\ Gone + j \in InRob
           /\ InRob \subseteq Ids
<1>1. /\ Gone \in Nat /\ Newest \in Nat /\ Newest = Gone + Len(pipe.rob)
      /\ Len(pipe.rob) \in Nat
  BY OrderTypes
<1>2. pipe.rob \in Seq(Ids)
  BY FieldTypes
<1>3. InRob = {pipe.rob[j] : j \in 1 .. Len(pipe.rob)}
  BY <1>2 DEF InRob, ToSet
<1>4. \A j \in 1 .. Len(pipe.rob) : pipe.rob[j] = Gone + j /\ pipe.rob[j] \in Ids
  BY <1>2 DEF Order
<1>5. ASSUME NEW i \in Ids, Gone < i, i <= Newest
      PROVE  i \in InRob
  <2>1. i \in Nat
    BY ProgramType
  <2>2. i - Gone \in 1 .. Len(pipe.rob) /\ Gone + (i - Gone) = i
    BY <1>1, <1>5, <2>1
  <2> QED BY <2>2, <1>3, <1>4
<1>6. ASSUME NEW i \in InRob
      PROVE  Gone < i /\ i <= Newest
  BY <1>1, <1>3, <1>4
<1> QED BY <1>3, <1>4, <1>5, <1>6

\* Which operands are renamed, by position in the program.
LEMMA ViewsHold == Ordered => Views
<1> SUFFICES ASSUME Ordered, NEW i \in Ids
             PROVE  /\ RenamedSources(i) = SourcesAt(i)
                    /\ RenamedResults(i) = ResultsAt(i)
                    /\ i \in InRob <=> Gone < i /\ i <= Newest
  BY DEF Views
<1> USE DEF Ordered
<1>1. i \in InRob <=> Gone < i /\ i <= Newest
  BY RobInterval
<1>2. pc.stage \in {"sources", "results"} => pc.k \in 1 .. Len(pipe.rob)
  BY FieldTypes DEF Place, InScan
<1>3. pc.stage \in {"sources", "results"} => (pipe.rob[pc.k] = i <=> i = Gone + pc.k)
  BY <1>2, RobInterval
<1>4. /\ DOMAIN instr[i].src = 1 .. Len(program[i].src)
      /\ DOMAIN instr[i].dst = 1 .. Len(program[i].dst)
      /\ Len(instr[i].dst) = Len(program[i].dst)
  BY InstrFields DEF Lengths
<1>5. RenamedSources(i) = SourcesAt(i)
  BY <1>3, <1>4 DEF RenamedSources, SourcesAt
<1>6. pc.stage = "release" => pc.i = Gone
  BY DEF Place
<1>7. RenamedResults(i) = ResultsAt(i)
  BY <1>1, <1>3, <1>4, <1>6 DEF RenamedResults, ResultsAt
<1> QED BY <1>1, <1>5, <1>7

\* The same after a step.
LEMMA ViewsAfter == Ordered' => Views'
  BY ViewsHold, PTL

\* A result is committed or on its way, never both, and never more than the
\* program has.
LEMMA ResultsApart ==
    ASSUME Ordered, NEW i \in Ids
    PROVE  /\ RenamedResults(i) \subseteq DOMAIN program[i].dst
           /\ Committed(i) \subseteq DOMAIN program[i].dst
           /\ RenamedResults(i) \cap Committed(i) = {}
           /\ RenamedSources(i) \subseteq DOMAIN program[i].src
<1> USE DEF Ordered
<1>1. RenamedSources(i) = SourcesAt(i) /\ RenamedResults(i) = ResultsAt(i)
  BY ViewsHold DEF Views
<1>2. program[i].src \in Seq(Arch) /\ program[i].dst \in Seq(Arch) /\ i \in Nat
  BY ProgramType
<1>3. /\ DOMAIN program[i].src = 1 .. Len(program[i].src)
      /\ DOMAIN program[i].dst = 1 .. Len(program[i].dst)
      /\ Len(program[i].src) \in Nat /\ Len(program[i].dst) \in Nat
  BY <1>2
<1>4. Gone \in Nat /\ pc.k \in Nat /\ pc.k > 0 /\ pc.i \in Nat
  BY OrderTypes, FieldTypes
<1>5. SourcesAt(i) \subseteq DOMAIN program[i].src
  BY <1>3, <1>4 DEF SourcesAt, Place, InScan
<1>6. ResultsAt(i) \subseteq DOMAIN program[i].dst
  BY <1>3, <1>4 DEF ResultsAt, Place, InScan
<1>7. Committed(i) \subseteq DOMAIN program[i].dst
  BY <1>3, <1>4 DEF Committed, Place, InScan
<1>8. ResultsAt(i) \cap Committed(i) = {}
  BY <1>2, <1>3, <1>4 DEF ResultsAt, Committed, Place, InScan
<1> QED BY <1>1, <1>5, <1>6, <1>7, <1>8

-----------------------------------------------------------------------------
(* What a step that moves no register keeps.                               *)

SameResults ==
    /\ program' = program
    /\ \A i \in Ids : /\ RenamedResults(i)' = RenamedResults(i)
                      /\ Committed(i)' = Committed(i)
                      /\ instr'[i].dst = instr[i].dst

SameSources ==
    /\ program' = program
    /\ \A i \in Ids : /\ RenamedSources(i)' = RenamedSources(i)
                      /\ instr'[i].src = instr[i].src

\* Registers and results as before: the owners are the same.
LEMMA KeepOwnership ==
    ASSUME Ownership, SameResults, regs'.free = regs.free, regs'.back = regs.back
    PROVE  Ownership'
<1>1. Ids' = Ids
  BY DEF Ids, SameResults
<1>2. \A i \in Ids : RenamedResults(i)' = RenamedResults(i) /\ instr'[i].dst = instr[i].dst
  BY DEF SameResults
<1>3. ASSUME NEW p \in Phys
      PROVE  \/ \E j \in DOMAIN regs'.free : regs'.free[j] = p
             \/ \E a \in Arch : regs'.back[a] = p
             \/ \E i \in Ids : \E k \in RenamedResults(i)' : instr'[i].dst[k] = p
  BY <1>2 DEF Ownership
<1>4. ASSUME NEW i \in Ids, NEW k \in RenamedResults(i)'
      PROVE  /\ instr'[i].dst[k] \in Phys
             /\ \A j \in DOMAIN regs'.free : instr'[i].dst[k] # regs'.free[j]
             /\ \A a \in Arch : instr'[i].dst[k] # regs'.back[a]
  BY <1>2 DEF Ownership
<1>5. ASSUME NEW i \in Ids, NEW k \in RenamedResults(i)',
             NEW h \in Ids, NEW l \in RenamedResults(h)', instr'[i].dst[k] = instr'[h].dst[l]
      PROVE  i = h /\ k = l
  BY <1>2, <1>5 DEF Ownership
<1>6. /\ \A j \in DOMAIN regs'.free : \A h \in DOMAIN regs'.free :
             regs'.free[j] = regs'.free[h] => j = h
      /\ \A a \in Arch : \A b \in Arch :
             regs'.back[a] # NoReg /\ regs'.back[a] = regs'.back[b] => a = b
      /\ \A j \in DOMAIN regs'.free : \A a \in Arch : regs'.back[a] # regs'.free[j]
  BY DEF Ownership
<1> QED BY <1>1, <1>3, <1>4, <1>5, <1>6 DEF Ownership

\* A result is the newest committed one after the step when it was before.
LEMMA KeepNewest ==
    ASSUME SameResults, NEW a, NEW i, NEW k
    PROVE  /\ NewestCommitted(a, i, k)' <=> NewestCommitted(a, i, k)
           /\ NewestRenamed(a, i, k)' <=> NewestRenamed(a, i, k)
           /\ \A h \in Ids : Renamed(h)' = Renamed(h)
<1>1. Ids' = Ids /\ program' = program
  BY DEF Ids, SameResults
<1>2. \A h \in Ids : Committed(h)' = Committed(h) /\ Renamed(h)' = Renamed(h)
  BY DEF SameResults, Renamed
<1> QED BY <1>1, <1>2 DEF NewestCommitted, NewestRenamed

\* The register file describes the same owners.
LEMMA KeepContents ==
    ASSUME Contents, SameResults, regs' = regs,
           \A i \in Ids : instr'[i].completed = instr[i].completed
    PROVE  Contents'
<1>1. Ids' = Ids /\ program' = program
  BY DEF Ids, SameResults
<1>2. \A i \in Ids : /\ RenamedResults(i)' = RenamedResults(i)
                     /\ Committed(i)' = Committed(i)
                     /\ instr'[i].dst = instr[i].dst
  BY DEF SameResults
<1>3. \A a, i, k : NewestCommitted(a, i, k)' <=> NewestCommitted(a, i, k)
  BY KeepNewest
<1>4. ASSUME NEW i \in Ids, NEW k \in RenamedResults(i)'
      PROVE  regs'.file[instr'[i].dst[k]] = [arch |-> program'[i].dst[k], producer |-> i,
                                            valid |-> instr'[i].completed]
  BY <1>1, <1>2 DEF Contents
<1>5. ASSUME NEW a \in Arch, NEW i \in Ids, NEW k \in Committed(i)',
             NewestCommitted(a, i, k)'
      PROVE  /\ regs'.back[a] # NoReg /\ regs'.back[a] = instr'[i].dst[k]
             /\ regs'.file[regs'.back[a]].producer = i
  BY <1>1, <1>2, <1>3, <1>5 DEF Contents
<1>6. ASSUME NEW a \in Arch,
             \A i \in Ids : \A k \in Committed(i)' : program'[i].dst[k] # a,
             regs'.back[a] # NoReg
      PROVE  regs'.file[regs'.back[a]].producer = 0
  BY <1>1, <1>2, <1>6 DEF Contents
<1>7. \A a \in Arch : regs'.back[a] # NoReg =>
          regs'.file[regs'.back[a]].arch = a /\ regs'.file[regs'.back[a]].valid
  BY DEF Contents
<1> QED BY <1>1, <1>4, <1>5, <1>6, <1>7 DEF Contents

\* The front map names the same newest results.
LEMMA KeepLatest ==
    ASSUME Latest, SameResults, regs'.front = regs.front, regs'.back = regs.back
    PROVE  Latest'
<1>1. Ids' = Ids /\ program' = program
  BY DEF Ids, SameResults
<1>2. \A i \in Ids : Renamed(i)' = Renamed(i) /\ instr'[i].dst = instr[i].dst
  BY KeepNewest DEF SameResults
<1>3. \A a, i, k : NewestRenamed(a, i, k)' <=> NewestRenamed(a, i, k)
  BY KeepNewest
<1>4. \A a \in Arch : \A i \in Ids : \A k \in Renamed(i)' :
           program'[i].dst[k] = a => regs'.front[a] # NoReg
  BY <1>1, <1>2 DEF Latest
<1>5. \A a \in Arch : \A i \in Ids : \A k \in Renamed(i)' :
           NewestRenamed(a, i, k)' => regs'.front[a] = instr'[i].dst[k]
  BY <1>2, <1>3 DEF Latest
<1>6. \A a \in Arch :
           (\A i \in Ids : \A k \in Renamed(i)' : program'[i].dst[k] # a)
               => regs'.front[a] = regs'.back[a]
  BY <1>1, <1>2 DEF Latest
<1> QED BY <1>1, <1>4, <1>5, <1>6 DEF Latest

\* The renamed sources name the same results, for what is still in flight.
LEMMA KeepSources ==
    ASSUME Types, Sources, SameResults, SameSources, regs'.back = regs.back,
           Gone' \in Int, Gone \in Int, Gone' >= Gone,
           \A i \in Ids : instr'[i].executed = instr[i].executed,
           \A i \in Ids : instr[i].completed => instr'[i].completed
    PROVE  Sources'
<1>1. Ids' = Ids /\ program' = program
  BY DEF Ids, SameResults
<1>2. \A i \in Ids : /\ RenamedSources(i)' = RenamedSources(i)
                     /\ instr'[i].src = instr[i].src /\ instr'[i].dst = instr[i].dst
  BY DEF SameResults, SameSources
<1>4. ASSUME NEW i \in Ids, i > Gone', NEW j \in RenamedSources(i)'
      PROVE  /\ \A h \in Ids : \A l \in DOMAIN program[h].dst :
                    NewestResult(program[i].src[j], i, h, l) =>
                        /\ instr'[i].src[j] = instr'[h].dst[l]
                        /\ instr'[i].executed => instr'[h].completed
             /\ (\A h \in Ids : \A l \in DOMAIN program[h].dst :
                     program[h].dst[l] = program[i].src[j] => h >= i) =>
                         regs'.back[program[i].src[j]] # NoReg
                         /\ instr'[i].src[j] = regs'.back[program[i].src[j]]
  <2> DEFINE a == program[i].src[j]
  <2>1. i > Gone /\ j \in RenamedSources(i)
    BY <1>2, <1>4, ProgramType
  <2>2. ASSUME NEW h \in Ids, NEW l \in DOMAIN program[h].dst, NewestResult(a, i, h, l)
        PROVE  /\ instr'[i].src[j] = instr'[h].dst[l]
               /\ instr'[i].executed => instr'[h].completed
    <3>1. /\ instr[i].src[j] = instr[h].dst[l]
          /\ instr[i].executed => instr[h].completed
      BY <2>1, <2>2 DEF Sources
    <3> QED BY <3>1, <1>2
  <2>3. ASSUME \A h \in Ids : \A l \in DOMAIN program[h].dst :
                   program[h].dst[l] = a => h >= i
        PROVE  regs'.back[a] # NoReg /\ instr'[i].src[j] = regs'.back[a]
    BY <1>2, <2>1, <2>3 DEF Sources
  <2> QED BY <2>2, <2>3
<1>5. ASSUME NEW i \in Ids, i > Gone', NEW j \in RenamedSources(i)'
      PROVE  LET a == program[i].src[j]
             IN  /\ \A h \in Ids : \A l \in DOMAIN program[h].dst :
                        NewestResult(a, i, h, l) =>
                            /\ instr'[i].src[j] = instr'[h].dst[l]
                            /\ instr'[i].executed => instr'[h].completed
                 /\ (\A h \in Ids : \A l \in DOMAIN program[h].dst :
                         program[h].dst[l] = a => h >= i) =>
                             regs'.back[a] # NoReg /\ instr'[i].src[j] = regs'.back[a]
  BY <1>4, <1>5
<1> QED BY <1>1, <1>5 DEF Sources, NewestResult

\* The operands that are not renamed are still those of the program.
LEMMA KeepOperands ==
    ASSUME Operands, SameResults, SameSources,
           \A i \in Ids : instr'[i].scheduled =>
               instr[i].scheduled \/ Len(program[i].dst) <= NPhys
    PROVE  Operands'
<1>1. Ids' = Ids /\ program' = program
  BY DEF Ids, SameResults
<1>2. \A i \in Ids : /\ RenamedSources(i)' = RenamedSources(i)
                     /\ RenamedResults(i)' = RenamedResults(i)
                     /\ Committed(i)' = Committed(i)
                     /\ instr'[i].src = instr[i].src /\ instr'[i].dst = instr[i].dst
  BY DEF SameResults, SameSources
<1> QED BY <1>1, <1>2 DEF Operands

-----------------------------------------------------------------------------
(* Steps that leave pipeline and registers alone.                          *)

Renames == {"release", "sources", "results"}

\* What the memory side, the ends of the stages and the scan over renamed
\* instructions may do: move on, and count operations of the ROB.
Quiet ==
    /\ program' = program /\ pipe' = pipe /\ regs' = regs /\ now' >= now
    /\ pc.stage \notin Renames /\ pc'.stage \notin Renames
    /\ pc'.stage = "access" => pc.stage = "access" /\ pc'.i = pc.i
    /\ \A i \in Ids :
          /\ instr'[i].ready = instr[i].ready
          /\ instr'[i].scheduled = instr[i].scheduled
          /\ instr'[i].executed = instr[i].executed
          /\ instr'[i].completed = instr[i].completed
          /\ instr'[i].src = instr[i].src /\ instr'[i].dst = instr[i].dst
          /\ i \notin InRob => instr'[i].memDone = instr[i].memDone

\* The part of the invariant that is about the pipeline and the registers.
CoreInv == /\ Order /\ Progress /\ Place /\ Lengths /\ Operands
           /\ Enough /\ Ownership /\ Contents /\ Latest /\ Sources

\* Outside the three loops that move registers every operand is either
\* renamed or not, by the flags of its instruction.
LEMMA ViewsOutside ==
    ASSUME Ordered, pc.stage \notin Renames, NEW i \in Ids
    PROVE  /\ RenamedSources(i) = IF instr[i].scheduled
                                  THEN 1 .. Len(program[i].src) ELSE {}
           /\ RenamedResults(i) = IF Gone < i /\ i <= Newest /\ instr[i].scheduled
                                  THEN 1 .. Len(program[i].dst) ELSE {}
           /\ Committed(i) = IF i > Gone THEN {} ELSE DOMAIN program[i].dst
<1>1. RenamedSources(i) = SourcesAt(i) /\ RenamedResults(i) = ResultsAt(i)
  BY ViewsHold DEF Views
<1>2. pc.stage # "release" /\ pc.stage # "sources" /\ pc.stage # "results"
  BY DEF Renames
<1> QED BY <1>1, <1>2 DEF SourcesAt, ResultsAt, Committed

\* The same after a step.
LEMMA ViewsOutsideAfter ==
    (Ordered /\ pc.stage \notin Renames =>
        \A i \in Ids :
           /\ RenamedSources(i) = IF instr[i].scheduled
                                  THEN 1 .. Len(program[i].src) ELSE {}
           /\ RenamedResults(i) = IF Gone < i /\ i <= Newest /\ instr[i].scheduled
                                  THEN 1 .. Len(program[i].dst) ELSE {}
           /\ Committed(i) = IF i > Gone THEN {} ELSE DOMAIN program[i].dst)'
<1>1. (Ordered /\ pc.stage \notin Renames =>
        \A i \in Ids :
           /\ RenamedSources(i) = IF instr[i].scheduled
                                  THEN 1 .. Len(program[i].src) ELSE {}
           /\ RenamedResults(i) = IF Gone < i /\ i <= Newest /\ instr[i].scheduled
                                  THEN 1 .. Len(program[i].dst) ELSE {}
           /\ Committed(i) = IF i > Gone THEN {} ELSE DOMAIN program[i].dst)
  BY ViewsOutside
<1> QED BY <1>1, PTL

\* The order of the queues is kept with them.
LEMMA SamePipe ==
    ASSUME pipe' = pipe
    PROVE  Gone' = Gone /\ Newest' = Newest /\ InRob' = InRob
  BY DEF Gone, Newest, InRob

\* A step that leaves renaming alone keeps what is known of it.
LEMMA QuietKeeps ==
    ASSUME Types, CoreInv, Quiet, Types'
    PROVE  CoreInv'
<1>1. Gone' = Gone /\ Newest' = Newest /\ program' = program /\ regs' = regs /\ pipe' = pipe
  BY SamePipe DEF Quiet
<1>2. Ids' = Ids
  BY <1>1 DEF Ids
<1>3. \A i \in Ids :
          /\ instr'[i].ready = instr[i].ready
          /\ instr'[i].scheduled = instr[i].scheduled
          /\ instr'[i].executed = instr[i].executed
          /\ instr'[i].completed = instr[i].completed
          /\ instr'[i].src = instr[i].src /\ instr'[i].dst = instr[i].dst
          /\ i > Newest => instr'[i].memDone = instr[i].memDone
  <2>1. \A i \in Ids : i > Newest => i \notin InRob
    BY RobInterval, OrderTypes, ProgramType DEF CoreInv
  <2> QED BY <2>1 DEF Quiet
<1>4. pc.stage \notin Renames /\ pc'.stage \notin Renames
      /\ (pc'.stage = "access" => pc.stage = "access" /\ pc'.i = pc.i)
  BY DEF Quiet
<1>5. Order'
  BY <1>1 DEF CoreInv, Order
<1>6. Lengths'
  BY <1>1, <1>2, <1>3 DEF CoreInv, Lengths
<1>7. Place'
  <2>1. pc'.stage # "release" /\ pc'.stage # "sources" /\ pc'.stage # "results"
    BY <1>4 DEF Renames
  <2> QED BY <1>1, <1>2, <1>4, <2>1 DEF CoreInv, Place, InScan
<1>8. Progress'
  <2>1. ASSUME NEW i \in Ids, i <= Newest, ~instr[i].scheduled
        PROVE  instr'[i].ready <= now' + DispatchLatency
    <3>1. instr[i].ready <= now + DispatchLatency
      BY <2>1 DEF CoreInv, Progress
    <3>2. instr[i].ready \in Nat /\ now \in Nat /\ now' \in Nat /\ now' >= now
          /\ DispatchLatency \in Nat
      BY InstrFields, SizeTypes DEF Types, Quiet
    <3> QED BY <3>1, <3>2, <1>3
  <2> QED BY <1>1, <1>2, <1>3, <2>1 DEF CoreInv, Progress
<1>9. Ordered /\ Ordered'
  BY <1>5, <1>6, <1>7 DEF Ordered, CoreInv
<1>10. \A i \in Ids : /\ RenamedSources(i)' = RenamedSources(i)
                      /\ RenamedResults(i)' = RenamedResults(i)
                      /\ Committed(i)' = Committed(i)
  BY <1>1, <1>2, <1>3, <1>4, <1>9, ViewsOutside, ViewsOutsideAfter
<1>11. SameResults /\ SameSources
  BY <1>1, <1>3, <1>10 DEF SameResults, SameSources
<1>12. Enough'
  BY <1>4 DEF Enough, Renames
<1>13. Operands' /\ Ownership' /\ Contents' /\ Latest'
  BY <1>1, <1>3, <1>11, KeepOperands, KeepOwnership, KeepContents, KeepLatest DEF CoreInv
<1>14. Sources'
  <2>1. Gone' \in Int /\ Gone \in Int /\ Gone' >= Gone
    BY <1>1, OrderTypes DEF CoreInv
  <2> QED BY <1>1, <1>3, <1>11, <2>1, KeepSources DEF CoreInv
<1> QED BY <1>5, <1>6, <1>7, <1>8, <1>12, <1>13, <1>14 DEF CoreInv

-----------------------------------------------------------------------------
(* The quiet steps: the memory side and the ends of the stages.            *)

\* Taking a line or an MSHR out of its list makes the list no longer.
LEMMA RemoveLineType ==
    ASSUME NEW S, NEW q \in Seq(S), NEW b
    PROVE  RemoveFirst(q, b) \in Seq(S) /\ Len(RemoveFirst(q, b)) <= Len(q)
<1>1. CASE RemoveFirst(q, b) = q
  BY <1>1
<1>2. CASE \E j \in 1 .. Len(q) : q[j] = b /\ RemoveFirst(q, b) = RemoveAt(q, j)
  <2>1. PICK j \in 1 .. Len(q) : RemoveFirst(q, b) = RemoveAt(q, j)
    BY <1>2
  <2>2. RemoveAt(q, j) \in Seq(S) /\ Len(RemoveAt(q, j)) = Len(q) - 1
    BY RemoveAtProps
  <2>3. Len(q) \in Nat
    OBVIOUS
  <2> QED BY <2>1, <2>2, <2>3
<1> QED BY <1>1, <1>2, RemoveLineProps

\* Releasing an MSHR leaves a queue of the same kind that is no longer.
LEMMA RemoveMSHRType ==
    ASSUME NEW S, NEW q \in Seq(S), NEW b
    PROVE  RemoveMSHR(q, b) \in Seq(S) /\ Len(RemoveMSHR(q, b)) <= Len(q)
<1>1. CASE RemoveMSHR(q, b) = q
  BY <1>1
<1>2. CASE \E j \in 1 .. Len(q) : q[j].block = b /\ RemoveMSHR(q, b) = RemoveAt(q, j)
  <2>1. PICK j \in 1 .. Len(q) : RemoveMSHR(q, b) = RemoveAt(q, j)
    BY <1>2
  <2>2. RemoveAt(q, j) \in Seq(S) /\ Len(RemoveAt(q, j)) = Len(q) - 1
    BY RemoveAtProps
  <2>3. Len(q) \in Nat
    OBVIOUS
  <2> QED BY <2>1, <2>2, <2>3
<1> QED BY <1>1, <1>2, ReleaseProps

\* Refilling a line keeps the cache within its ways and empties an MSHR.
LEMMA FillType ==
    ASSUME Types, Sizes, NEW b \in Blocks, HandleFill(b)
    PROVE  /\ l1' \in L1Type
           /\ Len(l1'.lines) <= Ways /\ Len(l1'.mshr) <= MSHRSize
           /\ l1'.mshr = RemoveMSHR(l1.mshr, b) /\ l1'.requests = l1.requests
<1> DEFINE others == RemoveFirst(l1.lines, b)
           kept == IF Len(others) = Ways THEN Tail(others) ELSE others
           m == RemoveMSHR(l1.mshr, b)
<1>1. l1 \in L1Type /\ l1' = [l1 EXCEPT !.mshr = m, !.lines = Append(kept, b)]
  BY DEF HandleFill, Types
<1>2. l1.lines \in Seq(Blocks) /\ l1.mshr \in Seq(Miss) /\ Ways \in Nat \ {0}
      /\ MSHRSize \in Nat
  BY FieldTypes, SizeTypes
<1>3. Len(l1.lines) <= Ways /\ Len(l1.mshr) <= MSHRSize
  BY DEF Sizes
<1>4. others \in Seq(Blocks) /\ Len(others) <= Ways
  <2>1. others \in Seq(Blocks) /\ Len(others) <= Len(l1.lines)
    BY <1>2, RemoveLineType
  <2> QED BY <2>1, <1>2, <1>3
<1>5. m \in Seq(Miss) /\ Len(m) <= MSHRSize
  <2>1. m \in Seq(Miss) /\ Len(m) <= Len(l1.mshr)
    BY <1>2, RemoveMSHRType
  <2> QED BY <2>1, <1>2, <1>3
<1> HIDE DEF others, m
<1>6. kept \in Seq(Blocks) /\ Len(kept) < Ways
  BY <1>2, <1>4
<1> HIDE DEF kept
<1>7. Append(kept, b) \in Seq(Blocks) /\ Len(Append(kept, b)) <= Ways
  BY <1>2, <1>6
<1> DEFINE w == Append(kept, b)
<1> HIDE DEF w
<1>8. l1' = [l1 EXCEPT !.mshr = m, !.lines = w]
  BY <1>1 DEF w
<1>9. w \in Seq(Blocks) /\ Len(w) <= Ways
  BY <1>7 DEF w
<1>10. l1' \in L1Type /\ l1'.lines = w /\ l1'.mshr = m /\ l1'.requests = l1.requests
  BY <1>1, <1>5, <1>8, <1>9 DEF L1Type
<1> QED BY <1>5, <1>9, <1>10 DEF m

\* The load queue after a response has the length it had.
LEMMA LoadAnswered ==
    ASSUME Types, Sizes, NEW i \in Ids, NEW pending \in Seq(PendingOp),
           lsq' = [lsq EXCEPT !.pendingLoads = pending, !.loads = Answer(@, i)]
    PROVE  lsq' \in LsqType /\ Len(lsq'.loads) <= LQSize /\ Len(lsq'.stores) <= SQSize
<1> DEFINE q == Answer(lsq.loads, i)
<1>1. q \in Seq(Entry) /\ Len(q) = Len(lsq.loads)
  BY FieldTypes, AnswerType
<1>2. lsq' = [lsq EXCEPT !.pendingLoads = pending, !.loads = q] /\ lsq \in LsqType
  BY DEF Types
<1> HIDE DEF q
<1>3. lsq' \in LsqType /\ lsq'.loads = q /\ lsq'.stores = lsq.stores
  BY <1>1, <1>2 DEF LsqType
<1> QED BY <1>1, <1>3 DEF Sizes

\* The same for the store queue.
LEMMA StoreAnswered ==
    ASSUME Types, Sizes, NEW i \in Ids, NEW pending \in Seq(PendingOp),
           lsq' = [lsq EXCEPT !.pendingStores = pending, !.stores = Answer(@, i)]
    PROVE  lsq' \in LsqType /\ Len(lsq'.loads) <= LQSize /\ Len(lsq'.stores) <= SQSize
<1> DEFINE q == Answer(lsq.stores, i)
<1>1. q \in Seq(Entry) /\ Len(q) = Len(lsq.stores)
  BY FieldTypes, AnswerType
<1>2. lsq' = [lsq EXCEPT !.pendingStores = pending, !.stores = q] /\ lsq \in LsqType
  BY DEF Types
<1> HIDE DEF q
<1>3. lsq' \in LsqType /\ lsq'.stores = q /\ lsq'.loads = lsq.loads
  BY <1>1, <1>2 DEF LsqType
<1> QED BY <1>1, <1>3 DEF Sizes

\* A step that counts at most one operation is quiet.
LEMMA CountQuiet ==
    ASSUME Types, NEW q, NEW i \in Ids, CountOp(q, i),
           program' = program, pipe' = pipe, regs' = regs, now' >= now,
           pc.stage \notin Renames, pc'.stage \notin Renames, pc'.stage # "access"
    PROVE  Quiet /\ instr' \in InstrType
  BY CountOpProps DEF Quiet

\* CPUNodeHandler.Process with a response: the fill, then the load queue.
LEMMA ResponseQuiet ==
    ASSUME Types, Sizes, HandleMemoryResponse
    PROVE  Types' /\ Sizes' /\ Quiet
<1>1. PICK r \in net : /\ net' = net \ {r} /\ HandleFill(r.block)
                       /\ CountOp(lsq.loads, r.instr)
                       /\ lsq' = [lsq EXCEPT !.loads = Answer(@, r.instr)]
  BY DEF HandleMemoryResponse
<1>2. r.block \in Blocks /\ r.instr \in Ids /\ net' \subseteq Sent
  BY <1>1 DEF Types, Sent
<1>3. /\ program' = program /\ pipe' = pipe /\ regs' = regs
      /\ now' = now + 1 /\ now < MaxCycle /\ pc.stage = "respond" /\ Goto("retire")
  BY DEF HandleMemoryResponse, Tick
<1>4. now' \in 0 .. MaxCycle /\ now' >= now
  BY <1>3, SizeTypes DEF Types
<1>5. pc' \in PcType /\ pc'.stage = "retire"
  BY <1>3, GotoType DEF Stages
<1>6. Quiet /\ instr' \in InstrType
  BY <1>1, <1>2, <1>3, <1>4, <1>5, CountQuiet DEF Renames
<1>7. lsq' = [lsq EXCEPT !.pendingLoads = lsq.pendingLoads, !.loads = Answer(@, r.instr)]
  BY <1>1 DEF Types, LsqType
<1>8. lsq' \in LsqType /\ Len(lsq'.loads) <= LQSize /\ Len(lsq'.stores) <= SQSize
  BY <1>2, <1>7, FieldTypes, LoadAnswered
<1>9. l1' \in L1Type /\ Len(l1'.lines) <= Ways /\ Len(l1'.mshr) <= MSHRSize
  BY <1>1, <1>2, FillType
<1>10. Types'
  BY <1>2, <1>3, <1>4, <1>5, <1>6, <1>8, <1>9, TypesFrom DEF Types
<1> QED BY <1>3, <1>6, <1>8, <1>9, <1>10 DEF Sizes

\* Nothing but the place in the cycle changes.
LEMMA MoveQuiet ==
    ASSUME Types, Sizes, pc' \in PcType, now' \in 0 .. MaxCycle, now' >= now,
           pc.stage \notin Renames, pc'.stage \notin Renames, pc'.stage # "access",
           UNCHANGED <<program, pipe, instr, regs, lsq, l1, net>>
    PROVE  Types' /\ Sizes' /\ Quiet
<1>1. Types'
  BY TypesFrom DEF Types
<1> QED BY <1>1 DEF Sizes, Quiet

\* Process without a response.
LEMMA NoResponseQuiet ==
    ASSUME Types, Sizes, NoResponse
    PROVE  Types' /\ Sizes' /\ Quiet
<1>1. /\ now' = now + 1 /\ now < MaxCycle /\ pc.stage = "respond" /\ Goto("retire")
      /\ UNCHANGED <<program, pipe, instr, regs, lsq, l1, net>>
  BY DEF NoResponse, Tick
<1>2. now' \in 0 .. MaxCycle /\ now' >= now
  BY <1>1, SizeTypes DEF Types
<1>3. pc' \in PcType /\ pc'.stage = "retire"
  BY <1>1, GotoType DEF Stages
<1> QED BY <1>1, <1>2, <1>3, MoveQuiet DEF Renames

\* A stage that has nothing left to do hands over to the next one.
LEMMA StageEndQuiet ==
    ASSUME Types, Sizes,
           Retired \/ LoadsDone \/ StoresDone \/ Completed \/ Executed
             \/ Scheduled \/ Dispatched \/ Decoded
    PROVE  Types' /\ Sizes' /\ Quiet
<1>1. PICK stage \in {"loads", "stores", "complete", "execute", "schedule",
                      "dispatch", "decode", "fetch"} : Goto(stage)
  BY DEF Retired, LoadsDone, StoresDone, Completed, Executed, Scheduled, Dispatched,
         Decoded
<1>2. pc.stage \notin Renames /\ UNCHANGED <<program, now, pipe, instr, regs, lsq, l1, net>>
  BY DEF Retired, LoadsDone, StoresDone, Completed, Executed, Scheduled, Dispatched,
         Decoded, Renames
<1>3. stage \in Stages /\ stage \notin Renames /\ stage # "access"
  BY DEF Stages, Renames
<1>4. pc' \in PcType /\ pc'.stage = stage
  BY <1>1, <1>3, GotoType
<1>5. now' \in 0 .. MaxCycle /\ now' >= now
  BY <1>2, SizeTypes DEF Types
<1> QED BY <1>2, <1>3, <1>4, <1>5, MoveQuiet

\* The end of an instruction's accesses.
LEMMA AccessedQuiet ==
    ASSUME Types, Sizes, Accessed
    PROVE  Types' /\ Sizes' /\ Quiet
<1>1. /\ pc.stage = "access" /\ pc' = [stage |-> "execute", n |-> pc.n, k |-> 1, i |-> 0]
      /\ UNCHANGED <<program, now, pipe, instr, regs, lsq, l1, net>>
  BY DEF Accessed
<1>2. pc' \in PcType /\ pc'.stage = "execute"
  BY <1>1, FieldTypes DEF PcType, Stages
<1>3. now' \in 0 .. MaxCycle /\ now' >= now
  BY <1>1, SizeTypes DEF Types
<1> QED BY <1>1, <1>2, <1>3, MoveQuiet DEF Renames

\* The place of the scan moves by one, and the budget of the stage is used up
\* by instructions that are not executed.
LEMMA ScannedType ==
    ASSUME Types, NEW i \in Ids, Scanned(i)
    PROVE  pc' \in PcType /\ pc'.stage = "schedule"
<1>1. pc.n \in Nat /\ pc.k \in Nat /\ pc.k > 0
  BY FieldTypes
<1>2. (IF instr[i].executed THEN pc.n ELSE pc.n + 1) \in Nat
  BY <1>1
<1>3. pc.k + 1 \in Nat \ {0}
  BY <1>1
<1> QED BY <1>2, <1>3 DEF Scanned, PcType, Stages

\* schedule passes over an instruction.
LEMMA SkipQuiet ==
    ASSUME Types, Sizes, Order, ScheduleSkip
    PROVE  Types' /\ Sizes' /\ Quiet
<1>1. /\ pc.stage = "schedule" /\ pc.k <= Len(pipe.rob) /\ Scanned(pipe.rob[pc.k])
      /\ UNCHANGED <<program, now, pipe, instr, regs, lsq, l1, net>>
  BY DEF ScheduleSkip, ScanGoesOn
<1>2. pipe.rob[pc.k] \in Ids
  <2>1. pc.k \in Nat /\ pc.k > 0
    BY FieldTypes
  <2>2. Len(pipe.rob) \in Nat
    BY OrderTypes
  <2>3. pc.k \in 1 .. Len(pipe.rob)
    BY <1>1, <2>1, <2>2
  <2>4. pipe.rob \in Seq(Ids)
    BY FieldTypes
  <2> QED BY <2>3, <2>4
<1>3. pc' \in PcType /\ pc'.stage = "schedule"
  BY <1>1, <1>2, ScannedType
<1>4. now' \in 0 .. MaxCycle /\ now' >= now
  BY <1>1, SizeTypes DEF Types
<1> QED BY <1>1, <1>3, <1>4, MoveQuiet DEF Renames

\* processPendingMemOps completes a load.
LEMMA CompleteLoadQuiet ==
    ASSUME Types, Sizes, CompleteLoad
    PROVE  Types' /\ Sizes' /\ Quiet
<1> DEFINE j == DueIn(lsq.pendingLoads)
           i == lsq.pendingLoads[j].instr
           rest == RemoveAt(lsq.pendingLoads, j)
<1>1. /\ pc.stage = "loads" /\ j # 0
      /\ lsq' = [lsq EXCEPT !.pendingLoads = rest, !.loads = Answer(@, i)]
      /\ CountOp(lsq.loads, i)
      /\ UNCHANGED <<program, now, pc, pipe, regs, l1, net>>
  BY DEF CompleteLoad
<1>2. lsq.pendingLoads \in Seq(PendingOp)
  BY FieldTypes
<1>3. j \in 1 .. Len(lsq.pendingLoads)
  BY <1>1, <1>2, DueProps
<1>4. i \in Ids
  <2> HIDE DEF j
  <2>1. lsq.pendingLoads[j] \in PendingOp
    BY <1>2, <1>3
  <2> QED BY <2>1 DEF PendingOp
<1>5. rest \in Seq(PendingOp)
  BY <1>2, <1>3, RemoveAtProps
<1> HIDE DEF j, i, rest
<1>6. lsq' \in LsqType /\ Len(lsq'.loads) <= LQSize /\ Len(lsq'.stores) <= SQSize
  BY <1>1, <1>4, <1>5, LoadAnswered
<1>7. now' \in 0 .. MaxCycle /\ now' >= now
  BY <1>1, SizeTypes DEF Types
<1>8. Quiet /\ instr' \in InstrType
  BY <1>1, <1>4, <1>7, CountQuiet DEF Renames
<1>9. Types'
  BY <1>1, <1>6, <1>7, <1>8, TypesFrom DEF Types
<1> QED BY <1>1, <1>6, <1>8, <1>9 DEF Sizes

\* processPendingMemOps completes a store.
LEMMA CompleteStoreQuiet ==
    ASSUME Types, Sizes, CompleteStore
    PROVE  Types' /\ Sizes' /\ Quiet
<1> DEFINE j == DueIn(lsq.pendingStores)
           i == lsq.pendingStores[j].instr
           rest == RemoveAt(lsq.pendingStores, j)
<1>1. /\ pc.stage = "stores" /\ j # 0
      /\ lsq' = [lsq EXCEPT !.pendingStores = rest, !.stores = Answer(@, i)]
      /\ CountOp(lsq.stores, i)
      /\ UNCHANGED <<program, now, pc, pipe, regs, l1, net>>
  BY DEF CompleteStore
<1>2. lsq.pendingStores \in Seq(PendingOp)
  BY FieldTypes
<1>3. j \in 1 .. Len(lsq.pendingStores)
  BY <1>1, <1>2, DueProps
<1>4. i \in Ids
  <2> HIDE DEF j
  <2>1. lsq.pendingStores[j] \in PendingOp
    BY <1>2, <1>3
  <2> QED BY <2>1 DEF PendingOp
<1>5. rest \in Seq(PendingOp)
  BY <1>2, <1>3, RemoveAtProps
<1> HIDE DEF j, i, rest
<1>6. lsq' \in LsqType /\ Len(lsq'.loads) <= LQSize /\ Len(lsq'.stores) <= SQSize
  BY <1>1, <1>4, <1>5, StoreAnswered
<1>7. now' \in 0 .. MaxCycle /\ now' >= now
  BY <1>1, SizeTypes DEF Types
<1>8. Quiet /\ instr' \in InstrType
  BY <1>1, <1>4, <1>7, CountQuiet DEF Renames
<1>9. Types'
  BY <1>1, <1>6, <1>7, <1>8, TypesFrom DEF Types
<1> QED BY <1>1, <1>6, <1>8, <1>9 DEF Sizes

\* Within a cycle the clock stands still.
LEMMA SameTime ==
    ASSUME Types, now' = now
    PROVE  now' \in 0 .. MaxCycle /\ now' >= now
<1>1. MaxCycle \in Nat /\ now \in 0 .. MaxCycle
  BY SizeTypes DEF Types
<1> QED BY <1>1

\* An access completes in some later cycle.
LEMMA AccessReadyType ==
    ASSUME Types, NEW b
    PROVE  AccessReady(b) \in Nat
<1>1. now \in Nat /\ HitLatency \in Nat /\ FillLatency \in Nat
  BY FieldTypes, SizeTypes
<1>2. CASE MissOn(b) # {}
  <2>1. (CHOOSE j \in MissOn(b) : TRUE) \in DOMAIN l1.mshr
    BY <1>2 DEF MissOn
  <2> DEFINE j == CHOOSE j \in MissOn(b) : TRUE
  <2>2. j \in DOMAIN l1.mshr
    BY <2>1
  <2>3. l1.mshr \in Seq(Miss)
    BY FieldTypes
  <2> HIDE DEF j
  <2>4. l1.mshr[j] \in Miss
    BY <2>2, <2>3
  <2>5. l1.mshr[j].ready \in Nat
    BY <2>4 DEF Miss
  <2>6. l1.mshr[CHOOSE h \in MissOn(b) : TRUE].ready \in Nat
    BY <2>5 DEF j
  <2> QED BY <1>1, <1>2, <2>6 DEF AccessReady
<1>3. CASE MissOn(b) = {}
  BY <1>1, <1>3 DEF AccessReady
<1> QED BY <1>2, <1>3

\* An access touches a line, joins a miss, or takes a free MSHR.
LEMMA AccessType ==
    ASSUME Types, Sizes, NEW i \in Ids, NEW b \in Blocks, Access(i, b)
    PROVE  l1' \in L1Type /\ Len(l1'.lines) <= Ways /\ Len(l1'.mshr) <= MSHRSize
<1>1. l1.lines \in Seq(Blocks) /\ l1.mshr \in Seq(Miss) /\ l1.requests \in Seq(Request)
      /\ l1 \in L1Type
  BY FieldTypes DEF Types
<1>2. Len(l1.lines) <= Ways /\ Len(l1.mshr) <= MSHRSize /\ MSHRSize \in Nat /\ Ways \in Nat
  BY SizeTypes DEF Sizes
<1>3. CASE b \in ToSet(l1.lines)
  <2> DEFINE w == Append(RemoveFirst(l1.lines, b), b)
  <2>1. l1' = [l1 EXCEPT !.lines = w]
    BY <1>3 DEF Access
  <2>2. \E j \in 1 .. Len(l1.lines) : l1.lines[j] = b
    BY <1>1, <1>3 DEF ToSet
  <2>3. PICK j \in 1 .. Len(l1.lines) : RemoveFirst(l1.lines, b) = RemoveAt(l1.lines, j)
    BY <1>1, <2>2, RemoveLineProps
  <2>4. RemoveFirst(l1.lines, b) \in Seq(Blocks)
        /\ Len(RemoveFirst(l1.lines, b)) = Len(l1.lines) - 1
    BY <1>1, <2>3, RemoveAtProps
  <2>5. w \in Seq(Blocks) /\ Len(w) = Len(l1.lines)
    BY <1>1, <2>4
  <2> HIDE DEF w
  <2>6. l1' \in L1Type /\ l1'.lines = w /\ l1'.mshr = l1.mshr
    BY <1>1, <2>1, <2>5 DEF L1Type
  <2> QED BY <1>2, <2>5, <2>6
<1>4. CASE b \notin ToSet(l1.lines) /\ (MissOn(b) # {} \/ Len(l1.mshr) = MSHRSize)
  <2>1. l1' = l1
    BY <1>4 DEF Access
  <2> QED BY <1>1, <1>2, <2>1
<1>5. CASE b \notin ToSet(l1.lines) /\ MissOn(b) = {} /\ Len(l1.mshr) # MSHRSize
  <2> DEFINE e == [block |-> b, instr |-> i, ready |-> now + FillLatency]
             r == [block |-> b, instr |-> i]
  <2>1. l1' = [l1 EXCEPT !.mshr = Append(l1.mshr, e), !.requests = Append(l1.requests, r)]
    BY <1>5 DEF Access
  <2>2. now + FillLatency \in Nat
    BY FieldTypes, SizeTypes
  <2>3. e \in Miss /\ r \in Request
    BY <2>2 DEF Miss, Request
  <2> HIDE DEF e, r
  <2> DEFINE m == Append(l1.mshr, e)
             q == Append(l1.requests, r)
  <2>4. m \in Seq(Miss) /\ q \in Seq(Request) /\ Len(m) = Len(l1.mshr) + 1
    BY <1>1, <2>3
  <2>5. l1' = [l1 EXCEPT !.mshr = m, !.requests = q]
    BY <2>1
  <2> HIDE DEF m, q
  <2>6. l1' \in L1Type /\ l1'.lines = l1.lines /\ l1'.mshr = m
    BY <1>1, <2>4, <2>5 DEF L1Type
  <2>7. Len(l1.mshr) \in Nat
    BY <1>1
  <2> QED BY <1>2, <1>5, <2>4, <2>6, <2>7
<1> QED BY <1>3, <1>4, <1>5

\* execute sends the loads of an instruction to the cache.
LEMMA AccessLoadQuiet ==
    ASSUME Types, Sizes, Place, AccessLoad
    PROVE  Types' /\ Sizes' /\ Quiet
<1> DEFINE b == program[pc.i].loads[pc.k]
           e == [instr |-> pc.i, ready |-> AccessReady(b)]
<1>1. /\ pc.stage = "access" /\ pc.k <= Len(program[pc.i].loads)
      /\ lsq' = [lsq EXCEPT !.pendingLoads = Append(@, e)]
      /\ Access(pc.i, b) /\ pc' = [pc EXCEPT !.k = @ + 1]
      /\ UNCHANGED <<program, now, pipe, instr, regs, net>>
  BY DEF AccessLoad
<1>2. pc.i \in Ids /\ pc.k \in Nat /\ pc.k > 0
  BY <1>1, FieldTypes DEF Place
<1>3. program[pc.i].loads \in Seq(Blocks)
  BY <1>2, ProgramType
<1>4. b \in Blocks
  BY <1>1, <1>2, <1>3
<1>5. e \in PendingOp
  BY <1>2, AccessReadyType DEF PendingOp
<1> HIDE DEF b, e
<1> DEFINE q == Append(lsq.pendingLoads, e)
<1>6. q \in Seq(PendingOp)
  BY <1>5, FieldTypes
<1>7. lsq' = [lsq EXCEPT !.pendingLoads = q] /\ lsq \in LsqType
  BY <1>1 DEF Types
<1> HIDE DEF q
<1>8. lsq' \in LsqType /\ lsq'.loads = lsq.loads /\ lsq'.stores = lsq.stores
  BY <1>6, <1>7 DEF LsqType
<1>9. l1' \in L1Type /\ Len(l1'.lines) <= Ways /\ Len(l1'.mshr) <= MSHRSize
  BY <1>1, <1>2, <1>4, AccessType
<1>10. pc' \in PcType /\ pc'.stage = "access" /\ pc'.i = pc.i
  BY <1>1, <1>2 DEF Types, PcType
<1>11. now' \in 0 .. MaxCycle /\ now' >= now
  BY <1>1, SameTime
<1>12. Types'
  BY <1>1, <1>8, <1>9, <1>10, <1>11, TypesFrom DEF Types
<1> QED BY <1>1, <1>8, <1>9, <1>10, <1>11, <1>12 DEF Sizes, Quiet, Renames

\* execute sends the stores of an instruction to the cache.
LEMMA AccessStoreQuiet ==
    ASSUME Types, Sizes, Place, AccessStore
    PROVE  Types' /\ Sizes' /\ Quiet
<1> DEFINE s == pc.k - Len(program[pc.i].loads)
           b == program[pc.i].stores[s]
           e == [instr |-> pc.i, ready |-> AccessReady(b)]
<1>1. /\ pc.stage = "access" /\ s \in DOMAIN program[pc.i].stores
      /\ lsq' = [lsq EXCEPT !.pendingStores = Append(@, e)]
      /\ Access(pc.i, b) /\ pc' = [pc EXCEPT !.k = @ + 1]
      /\ UNCHANGED <<program, now, pipe, instr, regs, net>>
  BY DEF AccessStore
<1>2. pc.i \in Ids /\ pc.k \in Nat /\ pc.k > 0
  BY <1>1, FieldTypes DEF Place
<1>3. program[pc.i].stores \in Seq(Blocks)
  BY <1>2, ProgramType
<1>4. b \in Blocks
  BY <1>1, <1>3
<1>5. e \in PendingOp
  BY <1>2, AccessReadyType DEF PendingOp
<1> HIDE DEF b, e, s
<1> DEFINE q == Append(lsq.pendingStores, e)
<1>6. q \in Seq(PendingOp)
  BY <1>5, FieldTypes
<1>7. lsq' = [lsq EXCEPT !.pendingStores = q] /\ lsq \in LsqType
  BY <1>1 DEF Types
<1> HIDE DEF q
<1>8. lsq' \in LsqType /\ lsq'.loads = lsq.loads /\ lsq'.stores = lsq.stores
  BY <1>6, <1>7 DEF LsqType
<1>9. l1' \in L1Type /\ Len(l1'.lines) <= Ways /\ Len(l1'.mshr) <= MSHRSize
  BY <1>1, <1>2, <1>4, AccessType
<1>10. pc' \in PcType /\ pc'.stage = "access" /\ pc'.i = pc.i
  BY <1>1, <1>2 DEF Types, PcType
<1>11. now' \in 0 .. MaxCycle /\ now' >= now
  BY <1>1, SameTime
<1>12. Types'
  BY <1>1, <1>8, <1>9, <1>10, <1>11, TypesFrom DEF Types
<1> QED BY <1>1, <1>8, <1>9, <1>10, <1>11, <1>12 DEF Sizes, Quiet, Renames

\* The end of the cycle hands the requests to the network.
LEMMA FetchedQuiet ==
    ASSUME Types, Sizes, Fetched
    PROVE  Types' /\ Sizes' /\ Quiet
<1> DEFINE sent == {[block |-> r.block, instr |-> r.instr, sent |-> now] :
                        r \in ToSet(l1.requests)}
<1>1. /\ pc.stage = "fetch" /\ net' = net \cup sent
      /\ l1' = [l1 EXCEPT !.requests = <<>>] /\ Goto("respond")
      /\ UNCHANGED <<program, now, pipe, instr, regs, lsq>>
  BY DEF Fetched
<1>2. l1.requests \in Seq(Request) /\ now \in 0 .. MaxCycle /\ l1 \in L1Type /\ net \subseteq Sent
  BY FieldTypes DEF Types
<1>3. sent \subseteq Sent
  <2>1. ToSet(l1.requests) \subseteq Request
    BY <1>2 DEF ToSet
  <2>2. ASSUME NEW r \in Request
        PROVE  [block |-> r.block, instr |-> r.instr, sent |-> now] \in Sent
    BY <1>2 DEF Request, Sent
  <2> QED BY <2>1, <2>2
<1> HIDE DEF sent
<1>4. net' \subseteq Sent
  BY <1>1, <1>2, <1>3
<1>5. l1' \in L1Type /\ l1'.lines = l1.lines /\ l1'.mshr = l1.mshr
  <2> DEFINE none == <<>>
  <2>1. none \in Seq(Request) /\ l1' = [l1 EXCEPT !.requests = none]
    BY <1>1
  <2> HIDE DEF none
  <2> QED BY <2>1, <1>2 DEF L1Type
<1>6. pc' \in PcType /\ pc'.stage = "respond"
  BY <1>1, GotoType DEF Stages
<1>7. now' \in 0 .. MaxCycle /\ now' >= now
  BY <1>1, SameTime
<1>8. Types'
  BY <1>1, <1>4, <1>5, <1>6, <1>7, TypesFrom DEF Types
<1> QED BY <1>1, <1>5, <1>6, <1>7, <1>8 DEF Sizes, Quiet, Renames

-----------------------------------------------------------------------------
(* The steps that move instructions, or mark them, but no register.        *)

\* Removing an instruction's entry makes a queue no longer.
LEMMA RemoveEntryType ==
    ASSUME NEW S, NEW q \in Seq(S), NEW i
    PROVE  RemoveEntry(q, i) \in Seq(S) /\ Len(RemoveEntry(q, i)) <= Len(q)
<1>1. CASE RemoveEntry(q, i) = q
  BY <1>1
<1>2. CASE \E j \in 1 .. Len(q) : q[j].instr = i /\ RemoveEntry(q, i) = RemoveAt(q, j)
  <2>1. PICK j \in 1 .. Len(q) : RemoveEntry(q, i) = RemoveAt(q, j)
    BY <1>2
  <2>2. RemoveAt(q, j) \in Seq(S) /\ Len(RemoveAt(q, j)) = Len(q) - 1
    BY RemoveAtProps
  <2>3. Len(q) \in Nat
    OBVIOUS
  <2> QED BY <2>1, <2>2, <2>3
<1> QED BY <1>1, <1>2, RemoveEntryProps

\* What is left when neither a register nor an operand has moved.
LEMMA KeepAll ==
    ASSUME Types, CoreInv, Order', Place', Lengths', Progress', Enough',
           SameResults, SameSources, regs' = regs,
           Gone' \in Int, Gone \in Int, Gone' >= Gone,
           \A i \in Ids : instr'[i].scheduled =>
               instr[i].scheduled \/ Len(program[i].dst) <= NPhys,
           \A i \in Ids : /\ instr'[i].executed = instr[i].executed
                          /\ instr'[i].completed = instr[i].completed
    PROVE  CoreInv'
<1>1. Operands' /\ Ownership' /\ Contents' /\ Latest'
  BY KeepOperands, KeepOwnership, KeepContents, KeepLatest DEF CoreInv
<1>2. Sources'
  BY KeepSources DEF CoreInv
<1> QED BY <1>1, <1>2 DEF CoreInv

\* Where the ROB starts and ends, from the lengths of the queues.
LEMMA RobShrinks ==
    ASSUME Len(pipe.rob) \in Nat, Len(pipe.decode) \in Nat, Len(pipe.fetch) \in Nat,
           pipe.next \in Nat, pipe'.next = pipe.next, pipe'.fetch = pipe.fetch,
           pipe'.decode = pipe.decode, Len(pipe'.rob) = Len(pipe.rob) - 1
    PROVE  Gone' = Gone + 1 /\ Newest' = Newest
<1> DEFINE n == pipe.next
           f == Len(pipe.fetch)
           d == Len(pipe.decode)
           r == Len(pipe.rob)
<1>1. Gone = n - 1 - f - d - r /\ Newest = Gone + r
  BY DEF Gone, Newest
<1>2. Gone' = n - 1 - f - d - (r - 1) /\ Newest' = Gone' + (r - 1)
  BY DEF Gone, Newest
<1>3. n \in Nat /\ f \in Nat /\ d \in Nat /\ r \in Nat
  OBVIOUS
<1> HIDE DEF n, f, d, r
<1>4. Gone' = Gone + 1
  BY <1>1, <1>2, <1>3
<1>5. Newest' = Newest
  <2>1. Gone \in Int
    BY <1>1, <1>3
  <2> QED BY <1>1, <1>2, <1>3, <1>4, <2>1
<1> QED BY <1>4, <1>5

\* The head of the ROB leaves it; its results are still its own.
LEMMA RetireKeeps ==
    ASSUME Types, Sizes, CoreInv, Retire
    PROVE  Types' /\ Sizes' /\ CoreInv'
<1> DEFINE i == Head(pipe.rob)
           ls == IF program[i].loads # <<>> THEN RemoveEntry(lsq.loads, i) ELSE lsq.loads
           ss == IF program[i].stores # <<>> THEN RemoveEntry(lsq.stores, i) ELSE lsq.stores
<1>1. /\ pc.stage = "retire" /\ pipe.rob # <<>> /\ instr[i].completed
      /\ pipe' = [pipe EXCEPT !.rob = Tail(@)]
      /\ lsq' = [lsq EXCEPT !.loads = ls, !.stores = ss]
      /\ pc' = [stage |-> "release", n |-> pc.n + 1, k |-> 1, i |-> i]
      /\ UNCHANGED <<program, now, instr, regs, l1, net>>
  BY DEF Retire, CanRetire
<1>2. /\ pipe.rob \in Seq(Ids) /\ lsq.loads \in Seq(Entry) /\ lsq.stores \in Seq(Entry)
      /\ pc.n \in Nat
  BY FieldTypes
<1>3. /\ Gone \in Nat /\ Newest \in Nat /\ Newest = Gone + Len(pipe.rob)
      /\ Len(pipe.rob) \in Nat /\ Len(pipe.decode) \in Nat /\ Len(pipe.fetch) \in Nat
  BY OrderTypes DEF CoreInv
<1>4. Len(pipe.rob) > 0 /\ i = pipe.rob[1]
  BY <1>1, <1>2
<1>5. i = Gone + 1 /\ i \in Ids /\ i \in Nat
  <2>1. 1 \in 1 .. Len(pipe.rob)
    BY <1>3, <1>4
  <2> QED BY <2>1, <1>3, <1>4, RobInterval DEF CoreInv
<1>6. /\ ls \in Seq(Entry) /\ Len(ls) <= Len(lsq.loads)
      /\ ss \in Seq(Entry) /\ Len(ss) <= Len(lsq.stores)
  <2>1. Len(lsq.loads) \in Nat /\ Len(lsq.stores) \in Nat
    BY <1>2
  <2> QED BY <1>2, <2>1, RemoveEntryType
<1> DEFINE r == Tail(pipe.rob)
<1>7. /\ r \in Seq(Ids) /\ Len(r) = Len(pipe.rob) - 1
      /\ \A j \in 1 .. Len(pipe.rob) - 1 : r[j] = pipe.rob[j + 1]
  BY <1>2, <1>4
<1>8. pipe' = [pipe EXCEPT !.rob = r]
  BY <1>1
<1> HIDE DEF i, ls, ss, r
<1>9. /\ pipe' \in PipeType /\ pipe'.rob = r /\ pipe'.decode = pipe.decode
      /\ pipe'.fetch = pipe.fetch /\ pipe'.next = pipe.next
  BY <1>7, <1>8 DEF Types, PipeType
<1>10. lsq' \in LsqType /\ lsq'.loads = ls /\ lsq'.stores = ss
  BY <1>1, <1>6 DEF Types, LsqType
<1>11. /\ pc' \in PcType /\ pc'.stage = "release" /\ pc'.n = pc.n + 1
       /\ pc'.k = 1 /\ pc'.i = i
  BY <1>1, <1>2, <1>5 DEF PcType, Stages
<1>12. Types'
  BY <1>1, <1>9, <1>10, <1>11, SameTime, TypesFrom DEF Types
<1>13. Sizes'
  <2>1. /\ Len(lsq.loads) \in Nat /\ Len(lsq.stores) \in Nat
        /\ Len(ls) \in Nat /\ Len(ss) \in Nat
        /\ LQSize \in Nat /\ SQSize \in Nat /\ ROBSize \in Nat
    BY <1>2, <1>6, SizeTypes
  <2>2. Len(lsq'.loads) <= LQSize
    BY <1>6, <1>10, <2>1 DEF Sizes
  <2>3. Len(lsq'.stores) <= SQSize
    BY <1>6, <1>10, <2>1 DEF Sizes
  <2>4. Len(pipe'.rob) <= ROBSize
    BY <1>3, <1>7, <1>9, <2>1 DEF Sizes
  <2> QED BY <1>1, <1>9, <2>2, <2>3, <2>4 DEF Sizes
<1>14. Gone' = Gone + 1 /\ Newest' = Newest
  <2>1. pipe.next \in Nat
    BY FieldTypes
  <2>2. Len(pipe'.rob) = Len(pipe.rob) - 1
    BY <1>7, <1>9
  <2> QED BY <1>3, <1>9, <2>1, <2>2, RobShrinks
<1>15. Ids' = Ids /\ program' = program /\ instr' = instr /\ regs' = regs /\ now' = now
  BY <1>1 DEF Ids
<1>16. instr[i].completed /\ instr[i].scheduled
  BY <1>1, <1>5 DEF CoreInv, Progress, i
<1>17. Order'
  <2>1. Gone' >= 0
    BY <1>3, <1>14
  <2>2. \A j \in 1 .. Len(pipe'.rob) : pipe'.rob[j] = Gone' + j
    <3> SUFFICES ASSUME NEW j \in 1 .. Len(r)
                 PROVE  r[j] = Gone + 1 + j
      BY <1>9, <1>14
    <3>1. j + 1 \in 1 .. Len(pipe.rob) /\ j \in 1 .. Len(pipe.rob) - 1
      BY <1>3, <1>7
    <3>2. pipe.rob[j + 1] = Gone + (j + 1)
      BY <3>1 DEF CoreInv, Order
    <3> QED BY <3>1, <3>2, <1>3, <1>7
  <2> QED BY <2>1, <2>2, <1>9, <1>14, <1>15 DEF CoreInv, Order
<1>18. Lengths'
  BY <1>15 DEF CoreInv, Lengths
<1>19. Progress'
  <2>1. \A h \in Ids : h <= Gone + 1 => instr[h].completed
    BY <1>3, <1>5, <1>16, ProgramType DEF CoreInv, Progress
  <2> QED BY <2>1, <1>14, <1>15 DEF CoreInv, Progress
<1>20. Place'
  <2>1. program[i].dst \in Seq(Arch)
    BY <1>5, ProgramType
  <2>2. 1 <= Len(program[i].dst) + 1
    BY <2>1
  <2> QED BY <2>2, <1>5, <1>11, <1>14, <1>15 DEF Place, InScan
<1>21. Enough'
  BY <1>11 DEF Enough
<1>22. Ordered /\ Ordered'
  BY <1>12, <1>17, <1>18, <1>20 DEF Ordered, CoreInv
<1>23. \A h \in Ids : /\ RenamedSources(h)' = RenamedSources(h)
                      /\ RenamedResults(h)' = RenamedResults(h)
                      /\ Committed(h)' = Committed(h)
  <2> SUFFICES ASSUME NEW h \in Ids
               PROVE  /\ RenamedSources(h)' = RenamedSources(h)
                      /\ RenamedResults(h)' = RenamedResults(h)
                      /\ Committed(h)' = Committed(h)
    OBVIOUS
  <2>1. /\ RenamedSources(h) = IF instr[h].scheduled THEN 1 .. Len(program[h].src) ELSE {}
        /\ RenamedResults(h) = IF Gone < h /\ h <= Newest /\ instr[h].scheduled
                               THEN 1 .. Len(program[h].dst) ELSE {}
        /\ Committed(h) = IF h > Gone THEN {} ELSE DOMAIN program[h].dst
    BY <1>1, <1>22, ViewsOutside DEF Renames
  <2>2. RenamedSources(h)' = SourcesAt(h)' /\ RenamedResults(h)' = ResultsAt(h)'
    BY <1>15, <1>22, ViewsAfter DEF Views
  <2>3. h \in Nat
    BY ProgramType
  <2>4. SourcesAt(h)' = IF instr[h].scheduled THEN 1 .. Len(program[h].src) ELSE {}
    BY <1>11, <1>15 DEF SourcesAt
  <2>5. ResultsAt(h)' = RenamedResults(h)
    <3>1. CASE h = Gone + 1
      <4>1. ResultsAt(h)' = 1 .. Len(program[h].dst)
        BY <3>1, <1>11, <1>14, <1>15 DEF ResultsAt
      <4>2. Gone < h /\ h <= Newest /\ instr[h].scheduled
        BY <3>1, <1>3, <1>4, <1>5, <1>16
      <4> QED BY <4>1, <4>2, <2>1
    <3>2. CASE h # Gone + 1
      <4>1. ResultsAt(h)' = IF Gone + 1 < h /\ h <= Newest /\ instr[h].scheduled
                            THEN 1 .. Len(program[h].dst) ELSE {}
        BY <3>2, <1>11, <1>14, <1>15 DEF ResultsAt
      <4>2. Gone + 1 < h <=> Gone < h
        BY <3>2, <2>3, <1>3
      <4> QED BY <4>1, <4>2, <2>1
    <3> QED BY <3>1, <3>2
  <2>6. Committed(h)' = Committed(h)
    <3>1. Committed(h)' = IF h > Gone + 1 THEN {}
                          ELSE IF h = Gone + 1 THEN 1 .. 0 ELSE DOMAIN program[h].dst
      BY <1>5, <1>11, <1>14, <1>15 DEF Committed
    <3> QED BY <3>1, <2>1, <2>3, <1>3
  <2> QED BY <2>1, <2>2, <2>4, <2>5, <2>6
<1>24. SameResults /\ SameSources
  BY <1>15, <1>23 DEF SameResults, SameSources
<1>25. CoreInv'
  BY <1>3, <1>14, <1>15, <1>17, <1>18, <1>19, <1>20, <1>21, <1>24, KeepAll
<1> QED BY <1>12, <1>13, <1>25

\* How the ROB moves with the lengths of the queues.
LEMMA QueueMoves ==
    ASSUME Len(pipe.rob) \in Nat, Len(pipe.decode) \in Nat, Len(pipe.fetch) \in Nat,
           pipe.next \in Nat, NEW x \in Int, NEW y \in Int, NEW z \in Int, NEW w \in Int,
           pipe'.next = pipe.next + w, Len(pipe'.fetch) = Len(pipe.fetch) + x,
           Len(pipe'.decode) = Len(pipe.decode) + y, Len(pipe'.rob) = Len(pipe.rob) + z,
           x + y + z = w
    PROVE  Gone' = Gone /\ Newest' = Newest + z
<1> DEFINE n == pipe.next
           f == Len(pipe.fetch)
           d == Len(pipe.decode)
           r == Len(pipe.rob)
<1>1. Gone = n - 1 - f - d - r /\ Newest = Gone + r
  BY DEF Gone, Newest
<1>2. /\ Gone' = pipe'.next - 1 - Len(pipe'.fetch) - Len(pipe'.decode) - Len(pipe'.rob)
      /\ Newest' = Gone' + Len(pipe'.rob)
  BY DEF Gone, Newest
<1>3. /\ n \in Nat /\ f \in Nat /\ d \in Nat /\ r \in Nat
      /\ pipe'.next = n + w /\ Len(pipe'.fetch) = f + x
      /\ Len(pipe'.decode) = d + y /\ Len(pipe'.rob) = r + z
  OBVIOUS
<1> HIDE DEF n, f, d, r
<1>4. Gone' = Gone
  <2>1. Gone' = (n + w) - 1 - (f + x) - (d + y) - (r + z)
    BY <1>2, <1>3, Zenon
  <2>2. (n + w) - 1 - (f + x) - (d + y) - (r + z) = n - 1 - f - d - r
    BY <1>3
  <2> QED BY <1>1, <2>1, <2>2
<1>5. Newest' = Newest + z
  <2>1. Gone \in Int
    BY <1>1, <1>3
  <2>2. Newest' = Gone + (r + z)
    BY <1>2, <1>3, <1>4, Zenon
  <2> QED BY <1>1, <1>3, <2>1, <2>2
<1> QED BY <1>4, <1>5

\* A stage of the front end sets the cycle of an instruction that is not in
\* the ROB, or just enters it, and moves it along.
LEMMA FrontKeeps ==
    ASSUME Types, CoreInv, Types', Order', NEW f \in Ids, NEW r \in Nat,
           program' = program, now' = now, regs' = regs, pipe' \in PipeType,
           instr' = [instr EXCEPT ![f].ready = r],
           Gone' = Gone, f > Newest,
           \/ Newest' = Newest
           \/ Newest' = Newest + 1 /\ f = Newest + 1 /\ r = now + DispatchLatency,
           pc.stage \notin Renames, pc'.stage \notin Renames, pc'.stage # "access"
    PROVE  CoreInv'
<1>1. Ids' = Ids /\ Gone \in Nat /\ Newest \in Nat /\ f \in Nat /\ Ids \subseteq Nat
  BY OrderTypes, ProgramType DEF Ids, CoreInv
<1>2. \A i \in Ids :
          /\ i # f => instr'[i].ready = instr[i].ready
          /\ instr'[f].ready = r
          /\ instr'[i].scheduled = instr[i].scheduled
          /\ instr'[i].executed = instr[i].executed
          /\ instr'[i].completed = instr[i].completed
          /\ instr'[i].memDone = instr[i].memDone
          /\ instr'[i].src = instr[i].src /\ instr'[i].dst = instr[i].dst
  <2> DEFINE e == [instr[f] EXCEPT !.ready = r]
  <2>1. instr[f] \in InstrState /\ instr \in [Ids -> InstrState]
    BY InstrFields DEF Types, InstrType
  <2>2. /\ e.ready = r /\ e.scheduled = instr[f].scheduled /\ e.executed = instr[f].executed
        /\ e.completed = instr[f].completed /\ e.memDone = instr[f].memDone
        /\ e.src = instr[f].src /\ e.dst = instr[f].dst
    BY <2>1, SetReady
  <2>3. instr' = [instr EXCEPT ![f] = e]
    OBVIOUS
  <2> HIDE DEF e
  <2>4. \A i \in Ids : instr'[i] = IF i = f THEN e ELSE instr[i]
    BY <2>1, <2>3
  <2> QED BY <2>2, <2>4
<1>3. Lengths'
  BY <1>1, <1>2 DEF CoreInv, Lengths
<1>4. Place'
  BY DEF Place, InScan, Renames
<1>5. ~instr[f].scheduled
  BY DEF CoreInv, Progress
<1>6. Progress'
  <2>1. \A i \in Ids : i <= Gone' => instr'[i].completed
    BY <1>2 DEF CoreInv, Progress
  <2>2. \A i \in Ids : i > Newest' => ~instr'[i].scheduled /\ instr'[i].memDone = 0
    <3> SUFFICES ASSUME NEW i \in Ids, i > Newest'
                 PROVE  ~instr[i].scheduled /\ instr[i].memDone = 0
      BY <1>2
    <3>1. i > Newest
      BY <1>1
    <3> QED BY <3>1 DEF CoreInv, Progress
  <2>3. /\ \A i \in Ids : instr'[i].executed => instr'[i].scheduled
        /\ \A i \in Ids : instr'[i].completed => instr'[i].executed
        /\ \A i \in Ids : \A h \in Ids : h < i /\ instr'[i].scheduled => instr'[h].scheduled
    BY <1>2 DEF CoreInv, Progress
  <2>4. ASSUME NEW i \in Ids, i <= Newest', ~instr'[i].scheduled
        PROVE  instr'[i].ready <= now' + DispatchLatency
    <3>1. CASE i = f
      <4>1. f = Newest'
        BY <1>1, <2>4, <3>1
      <4>2. r = now + DispatchLatency
        BY <1>1, <4>1
      <4>3. r <= r
        OBVIOUS
      <4> QED BY <1>2, <3>1, <4>2, <4>3
    <3>2. CASE i # f
      <4>1. i <= Newest
        BY <1>1, <2>4, <3>2
      <4> QED BY <1>2, <2>4, <3>2, <4>1 DEF CoreInv, Progress
    <3> QED BY <3>1, <3>2
  <2>5. ASSUME NEW i \in Ids, NEW h \in Ids,
               h < i, i <= Newest', ~instr'[h].scheduled, ~instr'[i].scheduled
        PROVE  instr'[h].ready <= instr'[i].ready
    <3>1. h # f
      BY <1>1, <2>5
    <3>2. h <= Newest
      BY <1>1, <2>5
    <3>3. CASE i = f
      <4>1. f = Newest'
        BY <1>1, <2>5, <3>3
      <4>2. instr[h].ready <= now + DispatchLatency
        BY <1>2, <2>5, <3>2 DEF CoreInv, Progress
      <4>3. r = now + DispatchLatency
        BY <1>1, <4>1
      <4> QED BY <1>2, <3>1, <3>3, <4>2, <4>3
    <3>4. CASE i # f
      <4>1. i <= Newest
        BY <1>1, <2>5, <3>4
      <4> QED BY <1>2, <2>5, <3>1, <3>4, <4>1 DEF CoreInv, Progress
    <3> QED BY <3>3, <3>4
  <2> QED BY <1>1, <2>1, <2>2, <2>3, <2>4, <2>5 DEF Progress
<1>7. Ordered /\ Ordered'
  BY <1>3, <1>4 DEF Ordered, CoreInv
<1>8. \A i \in Ids : i > Newest => ~instr[i].scheduled
  BY DEF CoreInv, Progress
<1>9. \A i \in Ids : /\ RenamedSources(i)' = RenamedSources(i)
                     /\ RenamedResults(i)' = RenamedResults(i)
                     /\ Committed(i)' = Committed(i)
  <2> SUFFICES ASSUME NEW i \in Ids
               PROVE  /\ RenamedSources(i)' = RenamedSources(i)
                      /\ RenamedResults(i)' = RenamedResults(i)
                      /\ Committed(i)' = Committed(i)
    OBVIOUS
  <2>1. /\ RenamedSources(i) = IF instr[i].scheduled THEN 1 .. Len(program[i].src) ELSE {}
        /\ RenamedResults(i) = IF Gone < i /\ i <= Newest /\ instr[i].scheduled
                               THEN 1 .. Len(program[i].dst) ELSE {}
        /\ Committed(i) = IF i > Gone THEN {} ELSE DOMAIN program[i].dst
    BY <1>7, ViewsOutside
  <2>2. /\ RenamedSources(i)' = IF instr'[i].scheduled THEN 1 .. Len(program[i].src) ELSE {}
        /\ RenamedResults(i)' = IF Gone < i /\ i <= Newest' /\ instr'[i].scheduled
                                THEN 1 .. Len(program[i].dst) ELSE {}
        /\ Committed(i)' = IF i > Gone THEN {} ELSE DOMAIN program[i].dst
    BY <1>1, <1>7, ViewsOutsideAfter
  <2>3. instr'[i].scheduled = instr[i].scheduled
    BY <1>2
  <2>4. instr[i].scheduled => (i <= Newest' <=> i <= Newest)
    BY <1>1, <1>8
  <2> QED BY <2>1, <2>2, <2>3, <2>4
<1>10. SameResults /\ SameSources
  BY <1>2, <1>9 DEF SameResults, SameSources
<1>11. Enough'
  BY DEF Enough, Renames
<1> QED BY <1>1, <1>2, <1>3, <1>4, <1>6, <1>10, <1>11, KeepAll

\* Moving the head of one queue to the end of the next keeps what they hold.
LEMMA MoveHead ==
    ASSUME NEW S, NEW q \in Seq(S), NEW w \in Seq(S), q # <<>>
    PROVE  /\ Tail(q) \in Seq(S) /\ Append(w, Head(q)) \in Seq(S) /\ Head(q) = q[1]
           /\ Head(q) \in S /\ Len(q) \in Nat /\ Len(q) > 0
           /\ Len(Tail(q)) = Len(q) - 1 /\ Len(Append(w, Head(q))) = Len(w) + 1
           /\ \A j \in 1 .. Len(q) - 1 : Tail(q)[j] = q[j + 1]
           /\ \A j \in 1 .. Len(w) + 1 :
                  Append(w, Head(q))[j] = IF j = Len(w) + 1 THEN q[1] ELSE w[j]
  OBVIOUS

\* The cycle of the next stage of an instruction.
LEMMA LaterType ==
    ASSUME Types
    PROVE  /\ now + FetchLatency \in Nat /\ now + DecodeLatency \in Nat
           /\ now + DispatchLatency \in Nat /\ now + ExecuteLatency \in Nat
<1>1. now \in Nat
  BY FieldTypes
<1>2. /\ FetchLatency \in Nat /\ DecodeLatency \in Nat /\ DispatchLatency \in Nat
      /\ ExecuteLatency \in Nat
  BY SizeTypes
<1> QED BY <1>1, <1>2

\* The count of a stage moves, its place in the cycle does not.
LEMMA CountMoves ==
    ASSUME Types, NEW n \in Nat, pc' = [pc EXCEPT !.n = n]
    PROVE  pc' \in PcType /\ pc'.stage = pc.stage /\ pc'.k = pc.k /\ pc'.i = pc.i
  BY DEF Types, PcType

\* Positions in the queues, counted from both ends.
LEMMA Positions ==
    ASSUME NEW a \in Nat, NEW b \in Nat, NEW c \in Nat
    PROVE  /\ a + (b + 1) = a + 1 + b
           /\ a + b + 1 = a + (b + 1)
           /\ a + b + (c + 1) = a + (b + 1) + c
           /\ a + b + c + 1 = a + b + (c + 1)
           /\ a + 1 + (b - 1) + c = a + b + c
           /\ a + b + 1 > a /\ a + b + c + 1 > a /\ a + b + c + 1 > 0
  OBVIOUS

\* AddLoad and AddStore fill a queue up to its size and no further.
LEMMA EnterType ==
    ASSUME Types, NEW q \in Seq(Entry), NEW size \in Nat, Len(q) <= size,
           NEW i \in Ids, NEW ops \in Seq(Blocks)
    PROVE  Enter(q, size, i, ops) \in Seq(Entry) /\ Len(Enter(q, size, i, ops)) <= size
<1> DEFINE room == size - Len(q)
           n == IF Len(ops) < room THEN Len(ops) ELSE room
           added == [j \in 1 .. n |-> [instr |-> i, done |-> FALSE]]
<1>1. Enter(q, size, i, ops) = q \o added
  BY DEF Enter
<1>2. n \in Nat /\ n <= size - Len(q) /\ Len(q) \in Nat
  OBVIOUS
<1> HIDE DEF room, n
<1>3. [instr |-> i, done |-> FALSE] \in Entry
  BY DEF Entry
<1>4. added \in Seq(Entry) /\ Len(added) = n
  BY <1>2, <1>3
<1> HIDE DEF added
<1>5. q \o added \in Seq(Entry) /\ Len(q \o added) = Len(q) + n
  BY <1>2, <1>4
<1> QED BY <1>1, <1>2, <1>5

\* dispatch: the oldest decoded instruction enters the ROB and the queues.
LEMMA DispatchKeeps ==
    ASSUME Types, Sizes, CoreInv, Dispatch
    PROVE  Types' /\ Sizes' /\ CoreInv'
<1> DEFINE f == Head(pipe.decode)
           ls == Enter(lsq.loads, LQSize, f, program[f].loads)
           ss == Enter(lsq.stores, SQSize, f, program[f].stores)
           d == Tail(pipe.decode)
           r == Append(pipe.rob, f)
           t == now + DispatchLatency
<1>1. /\ pc.stage = "dispatch" /\ pipe.decode # <<>> /\ Len(pipe.rob) < ROBSize
      /\ pipe' = [pipe EXCEPT !.decode = d, !.rob = r]
      /\ lsq' = [lsq EXCEPT !.loads = ls, !.stores = ss]
      /\ instr' = [instr EXCEPT ![f].ready = t]
      /\ pc' = [pc EXCEPT !.n = @ + 1]
      /\ UNCHANGED <<program, now, regs, l1, net>>
  BY DEF Dispatch, CanDispatch, Dispatchable
<1>2. /\ pipe.decode \in Seq(Ids) /\ pipe.rob \in Seq(Ids)
      /\ lsq.loads \in Seq(Entry) /\ lsq.stores \in Seq(Entry) /\ pc.n \in Nat
      /\ pipe.next \in Nat /\ pipe.fetch \in Seq(Ids)
  BY FieldTypes
<1>3. /\ d \in Seq(Ids) /\ r \in Seq(Ids) /\ f = pipe.decode[1]
      /\ f \in Ids /\ Len(pipe.decode) \in Nat /\ Len(pipe.decode) > 0
      /\ Len(d) = Len(pipe.decode) - 1 /\ Len(r) = Len(pipe.rob) + 1
      /\ \A j \in 1 .. Len(pipe.decode) - 1 : d[j] = pipe.decode[j + 1]
      /\ \A j \in 1 .. Len(pipe.rob) + 1 :
             r[j] = IF j = Len(pipe.rob) + 1 THEN pipe.decode[1] ELSE pipe.rob[j]
  BY <1>1, <1>2, MoveHead
<1>4. /\ Gone \in Nat /\ Newest \in Nat /\ Newest = Gone + Len(pipe.rob)
      /\ Len(pipe.rob) \in Nat /\ Len(pipe.decode) \in Nat /\ Len(pipe.fetch) \in Nat
  BY OrderTypes DEF CoreInv
<1>5. program[f].loads \in Seq(Blocks) /\ program[f].stores \in Seq(Blocks)
  BY <1>3, ProgramType
<1>6. /\ ls \in Seq(Entry) /\ Len(ls) <= LQSize
      /\ ss \in Seq(Entry) /\ Len(ss) <= SQSize
  BY <1>2, <1>3, <1>5, EnterType, SizeTypes DEF Sizes
<1>7. t \in Nat
  BY LaterType
<1> HIDE DEF f, ls, ss, d, r
<1>8. /\ pipe' \in PipeType /\ pipe'.rob = r /\ pipe'.decode = d
      /\ pipe'.fetch = pipe.fetch /\ pipe'.next = pipe.next
  BY <1>1, <1>3 DEF Types, PipeType
<1>9. lsq' \in LsqType /\ lsq'.loads = ls /\ lsq'.stores = ss
  BY <1>1, <1>6 DEF Types, LsqType
<1>10. pc' \in PcType /\ pc'.stage = "dispatch"
  <2>1. pc.n + 1 \in Nat /\ pc' = [pc EXCEPT !.n = pc.n + 1]
    BY <1>1, <1>2
  <2> QED BY <2>1, <1>1, CountMoves
<1>11. instr' \in InstrType
  <2> DEFINE e == [instr[f] EXCEPT !.ready = t]
  <2>1. e \in InstrState
    BY <1>3, <1>7, InstrFields, SetReady
  <2>2. instr' = [instr EXCEPT ![f] = e]
    BY <1>1
  <2> HIDE DEF e
  <2> QED BY <1>3, <2>1, <2>2, InstrUpdate
<1>12. Types'
  BY <1>1, <1>8, <1>9, <1>10, <1>11, SameTime, TypesFrom DEF Types
<1>13. Sizes'
  <2>1. ROBSize \in Nat /\ DecodeQueueSize \in Nat
    BY SizeTypes
  <2>2. Len(r) = Len(pipe.rob) + 1 /\ Len(d) = Len(pipe.decode) - 1
    BY <1>3
  <2>3. Len(pipe.rob) < ROBSize /\ Len(pipe.decode) <= DecodeQueueSize
    BY <1>1 DEF Sizes
  <2>4. Len(pipe.rob) + 1 <= ROBSize /\ Len(pipe.decode) - 1 <= DecodeQueueSize
    BY <1>4, <2>1, <2>3
  <2>5. Len(pipe'.rob) <= ROBSize /\ Len(pipe'.decode) <= DecodeQueueSize
    BY <1>8, <2>2, <2>4
  <2> QED BY <1>1, <1>6, <1>8, <1>9, <2>5 DEF Sizes
<1>14. Gone' = Gone /\ Newest' = Newest + 1
  <2>1. /\ Len(pipe'.decode) = Len(pipe.decode) + (-1) /\ Len(pipe'.rob) = Len(pipe.rob) + 1
        /\ Len(pipe'.fetch) = Len(pipe.fetch) + 0 /\ pipe'.next = pipe.next + 0
    BY <1>2, <1>3, <1>4, <1>8
  <2>2. 0 + (-1) + 1 = 0 /\ -1 \in Int /\ 1 \in Int /\ 0 \in Int
    OBVIOUS
  <2> QED BY <1>2, <1>4, <2>1, <2>2, QueueMoves
<1>15. f = Newest + 1
  <2>1. 1 \in 1 .. Len(pipe.decode)
    BY <1>3
  <2> QED BY <2>1, <1>3 DEF CoreInv, Order
<1>16. Order'
  <2>1. \A j \in 1 .. Len(pipe'.rob) : pipe'.rob[j] = Gone' + j
    <3> SUFFICES ASSUME NEW j \in 1 .. Len(pipe.rob) + 1
                 PROVE  r[j] = Gone + j
      BY <1>3, <1>8, <1>14
    <3>1. CASE j = Len(pipe.rob) + 1
      BY <3>1, <1>3, <1>4, <1>15
    <3>2. CASE j # Len(pipe.rob) + 1
      <4>1. j \in 1 .. Len(pipe.rob)
        BY <3>2, <1>4
      <4> QED BY <3>2, <4>1, <1>3 DEF CoreInv, Order
    <3> QED BY <3>1, <3>2
  <2>2. \A j \in 1 .. Len(pipe'.decode) : pipe'.decode[j] = Newest' + j
    <3> SUFFICES ASSUME NEW j \in 1 .. Len(pipe.decode) - 1
                 PROVE  d[j] = Newest + 1 + j
      BY <1>3, <1>8, <1>14
    <3>1. j + 1 \in 1 .. Len(pipe.decode)
      BY <1>4
    <3>2. pipe.decode[j + 1] = Newest + (j + 1)
      BY <3>1 DEF CoreInv, Order
    <3>3. Newest + (j + 1) = Newest + 1 + j
      <4>1. Newest \in Nat /\ j \in Nat
        BY <1>4
      <4> QED BY <4>1, Positions
    <3> QED BY <3>2, <3>3, <1>3
  <2>3. \A j \in 1 .. Len(pipe'.fetch) : pipe'.fetch[j] = Newest' + Len(pipe'.decode) + j
    <3> SUFFICES ASSUME NEW j \in 1 .. Len(pipe.fetch)
                 PROVE  pipe.fetch[j] = Newest + 1 + (Len(pipe.decode) - 1) + j
      BY <1>3, <1>8, <1>14
    <3>1. pipe.fetch[j] = Newest + Len(pipe.decode) + j
      BY DEF CoreInv, Order
    <3>2. Newest + 1 + (Len(pipe.decode) - 1) + j = Newest + Len(pipe.decode) + j
      <4>1. Newest \in Nat /\ Len(pipe.decode) \in Nat /\ j \in Nat
        BY <1>4
      <4> QED BY <4>1, Positions
    <3> QED BY <3>1, <3>2
  <2> QED BY <2>1, <2>2, <2>3, <1>1, <1>8, <1>14 DEF CoreInv, Order
<1>17. CoreInv'
  <2>1. f > Newest
    <3>1. f \in Nat
      BY <1>3, ProgramType
    <3> QED BY <3>1, <1>4, <1>15
  <2>2. pc.stage \notin Renames /\ pc'.stage \notin Renames /\ pc'.stage # "access"
    BY <1>1, <1>10 DEF Renames
  <2> HIDE DEF t
  <2>3. t = now + DispatchLatency
    BY DEF t
  <2> QED BY <1>1, <1>3, <1>7, <1>8, <1>12, <1>14, <1>15, <1>16, <2>1, <2>2, <2>3, FrontKeeps
<1> QED BY <1>12, <1>13, <1>17

\* decode: the oldest fetched instruction moves to the decoded ones.
LEMMA DecodeKeeps ==
    ASSUME Types, Sizes, CoreInv, Decode
    PROVE  Types' /\ Sizes' /\ CoreInv'
<1> DEFINE f == Head(pipe.fetch)
           q == Tail(pipe.fetch)
           d == Append(pipe.decode, f)
           t == now + DecodeLatency
<1>1. /\ pc.stage = "decode" /\ pipe.fetch # <<>> /\ Len(pipe.decode) < DecodeQueueSize
      /\ pipe' = [pipe EXCEPT !.fetch = q, !.decode = d]
      /\ instr' = [instr EXCEPT ![f].ready = t]
      /\ pc' = [pc EXCEPT !.n = @ + 1]
      /\ UNCHANGED <<program, now, regs, lsq, l1, net>>
  BY DEF Decode, CanDecode
<1>2. /\ pipe.decode \in Seq(Ids) /\ pipe.fetch \in Seq(Ids) /\ pc.n \in Nat
      /\ pipe.next \in Nat
  BY FieldTypes
<1>3. /\ q \in Seq(Ids) /\ d \in Seq(Ids) /\ f = pipe.fetch[1]
      /\ f \in Ids /\ Len(pipe.fetch) \in Nat /\ Len(pipe.fetch) > 0
      /\ Len(q) = Len(pipe.fetch) - 1 /\ Len(d) = Len(pipe.decode) + 1
      /\ \A j \in 1 .. Len(pipe.fetch) - 1 : q[j] = pipe.fetch[j + 1]
      /\ \A j \in 1 .. Len(pipe.decode) + 1 :
             d[j] = IF j = Len(pipe.decode) + 1 THEN pipe.fetch[1] ELSE pipe.decode[j]
  BY <1>1, <1>2, MoveHead
<1>4. /\ Gone \in Nat /\ Newest \in Nat /\ Newest = Gone + Len(pipe.rob)
      /\ Len(pipe.rob) \in Nat /\ Len(pipe.decode) \in Nat /\ Len(pipe.fetch) \in Nat
  BY OrderTypes DEF CoreInv
<1>7. t \in Nat
  BY LaterType
<1> HIDE DEF f, d, q
<1>8. /\ pipe' \in PipeType /\ pipe'.fetch = q /\ pipe'.decode = d
      /\ pipe'.rob = pipe.rob /\ pipe'.next = pipe.next
  BY <1>1, <1>3 DEF Types, PipeType
<1>10. pc' \in PcType /\ pc'.stage = "decode"
  <2>1. pc.n + 1 \in Nat /\ pc' = [pc EXCEPT !.n = pc.n + 1]
    BY <1>1, <1>2
  <2> QED BY <2>1, <1>1, CountMoves
<1>11. instr' \in InstrType
  <2> DEFINE e == [instr[f] EXCEPT !.ready = t]
  <2>1. e \in InstrState
    BY <1>3, <1>7, InstrFields, SetReady
  <2>2. instr' = [instr EXCEPT ![f] = e]
    BY <1>1
  <2> HIDE DEF e
  <2> QED BY <1>3, <2>1, <2>2, InstrUpdate
<1>12. Types'
  BY <1>1, <1>8, <1>10, <1>11, SameTime, TypesFrom DEF Types
<1>13. Sizes'
  <2>1. FetchQueueSize \in Nat /\ DecodeQueueSize \in Nat
    BY SizeTypes
  <2>2. Len(d) = Len(pipe.decode) + 1 /\ Len(q) = Len(pipe.fetch) - 1
    BY <1>3
  <2>3. Len(pipe.decode) < DecodeQueueSize /\ Len(pipe.fetch) <= FetchQueueSize
    BY <1>1 DEF Sizes
  <2>4. Len(pipe.decode) + 1 <= DecodeQueueSize /\ Len(pipe.fetch) - 1 <= FetchQueueSize
    BY <1>4, <2>1, <2>3
  <2>5. Len(pipe'.fetch) <= FetchQueueSize /\ Len(pipe'.decode) <= DecodeQueueSize
    BY <1>8, <2>2, <2>4
  <2> QED BY <1>1, <1>8, <2>5 DEF Sizes
<1>14. Gone' = Gone /\ Newest' = Newest
  <2>1. /\ Len(pipe'.fetch) = Len(pipe.fetch) + (-1) /\ Len(pipe'.decode) = Len(pipe.decode) + 1
        /\ Len(pipe'.rob) = Len(pipe.rob) + 0 /\ pipe'.next = pipe.next + 0
    BY <1>2, <1>3, <1>4, <1>8
  <2>2. -1 + 1 + 0 = 0 /\ -1 \in Int /\ 1 \in Int /\ 0 \in Int
    OBVIOUS
  <2>3. Gone' = Gone /\ Newest' = Newest + 0
    BY <1>2, <1>4, <2>1, <2>2, QueueMoves
  <2> QED BY <2>3, <1>4
<1>15. f = Newest + Len(pipe.decode) + 1
  <2>1. 1 \in 1 .. Len(pipe.fetch)
    BY <1>3
  <2> QED BY <2>1, <1>3 DEF CoreInv, Order
<1>16. Order'
  <2>1. \A j \in 1 .. Len(pipe'.rob) : pipe'.rob[j] = Gone' + j
    BY <1>8, <1>14 DEF CoreInv, Order
  <2>2. \A j \in 1 .. Len(pipe'.decode) : pipe'.decode[j] = Newest' + j
    <3> SUFFICES ASSUME NEW j \in 1 .. Len(pipe.decode) + 1
                 PROVE  d[j] = Newest + j
      BY <1>3, <1>8, <1>14
    <3>1. CASE j = Len(pipe.decode) + 1
      <4>1. d[j] = Newest + Len(pipe.decode) + 1
        BY <3>1, <1>3, <1>15
      <4>2. Newest + Len(pipe.decode) + 1 = Newest + (Len(pipe.decode) + 1)
        <5>1. Newest \in Nat /\ Len(pipe.decode) \in Nat
          BY <1>4
        <5> QED BY <5>1
      <4> QED BY <3>1, <4>1, <4>2
    <3>2. CASE j # Len(pipe.decode) + 1
      <4>1. j \in 1 .. Len(pipe.decode)
        BY <3>2, <1>4
      <4> QED BY <3>2, <4>1, <1>3 DEF CoreInv, Order
    <3> QED BY <3>1, <3>2
  <2>3. \A j \in 1 .. Len(pipe'.fetch) : pipe'.fetch[j] = Newest' + Len(pipe'.decode) + j
    <3> SUFFICES ASSUME NEW j \in 1 .. Len(pipe.fetch) - 1
                 PROVE  q[j] = Newest + (Len(pipe.decode) + 1) + j
      BY <1>3, <1>8, <1>14
    <3>1. j + 1 \in 1 .. Len(pipe.fetch)
      BY <1>4
    <3>2. pipe.fetch[j + 1] = Newest + Len(pipe.decode) + (j + 1)
      BY <3>1 DEF CoreInv, Order
    <3>3. Newest + Len(pipe.decode) + (j + 1) = Newest + (Len(pipe.decode) + 1) + j
      <4>1. Newest \in Nat /\ Len(pipe.decode) \in Nat /\ j \in Nat
        BY <1>4
      <4> QED BY <4>1, Positions
    <3> QED BY <3>2, <3>3, <1>3
  <2> QED BY <2>1, <2>2, <2>3, <1>1, <1>8, <1>14 DEF CoreInv, Order
<1>17. CoreInv'
  <2>1. f > Newest
    <3>1. Newest \in Nat /\ Len(pipe.decode) \in Nat
      BY <1>4
    <3>2. Newest + Len(pipe.decode) + 1 > Newest
      BY <3>1
    <3> QED BY <3>2, <1>15
  <2>2. pc.stage \notin Renames /\ pc'.stage \notin Renames /\ pc'.stage # "access"
    BY <1>1, <1>10 DEF Renames
  <2> HIDE DEF t
  <2> QED BY <1>1, <1>3, <1>7, <1>8, <1>12, <1>14, <1>16, <2>1, <2>2, FrontKeeps
<1> QED BY <1>12, <1>13, <1>17

\* fetch: the next instruction of the trace enters the pipeline.
LEMMA FetchKeeps ==
    ASSUME Types, Sizes, CoreInv, Fetch
    PROVE  Types' /\ Sizes' /\ CoreInv'
<1> DEFINE f == pipe.next
           q == Append(pipe.fetch, f)
           t == now + FetchLatency
           n == IF program[pipe.next].branch THEN FetchWidth ELSE pc.n + 1
<1>1. /\ pc.stage = "fetch" /\ f <= Len(program) /\ Len(pipe.fetch) < FetchQueueSize
      /\ pipe' = [pipe EXCEPT !.fetch = q, !.next = f + 1]
      /\ instr' = [instr EXCEPT ![f].ready = t]
      /\ pc' = [pc EXCEPT !.n = n]
      /\ UNCHANGED <<program, now, regs, lsq, l1, net>>
  BY DEF Fetch, CanFetch
<1>2. /\ pipe.fetch \in Seq(Ids) /\ pc.n \in Nat /\ f \in Nat /\ n \in Nat
  BY FieldTypes, SizeTypes
<1>4. /\ Gone \in Nat /\ Newest \in Nat /\ Newest = Gone + Len(pipe.rob)
      /\ Len(pipe.rob) \in Nat /\ Len(pipe.decode) \in Nat /\ Len(pipe.fetch) \in Nat
      /\ Newest + Len(pipe.decode) + Len(pipe.fetch) + 1 = f
  BY OrderTypes DEF CoreInv
<1>5. f \in Ids
  <2>1. f > 0
    <3>1. Newest \in Nat /\ Len(pipe.decode) \in Nat /\ Len(pipe.fetch) \in Nat
      BY <1>4
    <3>2. Newest + Len(pipe.decode) + Len(pipe.fetch) + 1 > 0
      BY <3>1, Positions
    <3> QED BY <3>2, <1>4
  <2> QED BY <1>1, <1>2, <2>1, ProgramType
<1>6. /\ q \in Seq(Ids) /\ Len(q) = Len(pipe.fetch) + 1
      /\ \A j \in 1 .. Len(pipe.fetch) + 1 :
             q[j] = IF j = Len(pipe.fetch) + 1 THEN f ELSE pipe.fetch[j]
  BY <1>2, <1>5
<1>7. t \in Nat /\ f + 1 \in Nat
  BY <1>2, LaterType
<1> HIDE DEF f, q, n
<1>8. /\ pipe' \in PipeType /\ pipe'.fetch = q /\ pipe'.decode = pipe.decode
      /\ pipe'.rob = pipe.rob /\ pipe'.next = f + 1
  BY <1>1, <1>6, <1>7 DEF Types, PipeType
<1>10. pc' \in PcType /\ pc'.stage = "fetch"
  BY <1>1, <1>2, CountMoves
<1>11. instr' \in InstrType
  <2> DEFINE e == [instr[f] EXCEPT !.ready = t]
  <2>1. e \in InstrState
    BY <1>5, <1>7, InstrFields, SetReady
  <2>2. instr' = [instr EXCEPT ![f] = e]
    BY <1>1
  <2> HIDE DEF e
  <2> QED BY <1>5, <2>1, <2>2, InstrUpdate
<1>12. Types'
  BY <1>1, <1>8, <1>10, <1>11, SameTime, TypesFrom DEF Types
<1>13. Sizes'
  <2>1. FetchQueueSize \in Nat
    BY SizeTypes
  <2>2. Len(q) = Len(pipe.fetch) + 1
    BY <1>6
  <2>3. Len(pipe.fetch) + 1 <= FetchQueueSize
    BY <1>1, <1>4, <2>1
  <2>4. Len(pipe'.fetch) <= FetchQueueSize
    BY <1>8, <2>2, <2>3
  <2> QED BY <1>1, <1>8, <2>4 DEF Sizes
<1>14. Gone' = Gone /\ Newest' = Newest
  <2>1. /\ Len(pipe'.fetch) = Len(pipe.fetch) + 1 /\ Len(pipe'.decode) = Len(pipe.decode) + 0
        /\ Len(pipe'.rob) = Len(pipe.rob) + 0 /\ pipe'.next = pipe.next + 1
        /\ pipe.next \in Nat
    BY <1>2, <1>4, <1>6, <1>8 DEF f
  <2>2. 1 + 0 + 0 = 1 /\ 1 \in Int /\ 0 \in Int
    OBVIOUS
  <2>3. Gone' = Gone /\ Newest' = Newest + 0
    BY <1>4, <2>1, <2>2, QueueMoves
  <2> QED BY <2>3, <1>4
<1>16. Order'
  <2>1. \A j \in 1 .. Len(pipe'.rob) : pipe'.rob[j] = Gone' + j
    BY <1>8, <1>14 DEF CoreInv, Order
  <2>2. \A j \in 1 .. Len(pipe'.decode) : pipe'.decode[j] = Newest' + j
    BY <1>8, <1>14 DEF CoreInv, Order
  <2>3. \A j \in 1 .. Len(pipe'.fetch) : pipe'.fetch[j] = Newest' + Len(pipe'.decode) + j
    <3> SUFFICES ASSUME NEW j \in 1 .. Len(pipe.fetch) + 1
                 PROVE  q[j] = Newest + Len(pipe.decode) + j
      BY <1>6, <1>8, <1>14
    <3>1. CASE j = Len(pipe.fetch) + 1
      <4>1. q[j] = f
        BY <3>1, <1>6
      <4>2. Newest + Len(pipe.decode) + Len(pipe.fetch) + 1
               = Newest + Len(pipe.decode) + (Len(pipe.fetch) + 1)
        <5>1. Newest \in Nat /\ Len(pipe.decode) \in Nat /\ Len(pipe.fetch) \in Nat
          BY <1>4
        <5> QED BY <5>1, Positions
      <4> QED BY <3>1, <4>1, <4>2, <1>4
    <3>2. CASE j # Len(pipe.fetch) + 1
      <4>1. j \in 1 .. Len(pipe.fetch)
        BY <3>2, <1>4
      <4> QED BY <3>2, <4>1, <1>6 DEF CoreInv, Order
    <3> QED BY <3>1, <3>2
  <2>4. pipe'.next <= Len(program) + 1
    <3>1. Len(program) \in Nat
      BY ProgramType
    <3> QED BY <3>1, <1>1, <1>2, <1>8
  <2> QED BY <2>1, <2>2, <2>3, <2>4, <1>1, <1>4, <1>14 DEF Order
<1>17. CoreInv'
  <2>1. f > Newest
    <3>1. Newest \in Nat /\ Len(pipe.decode) \in Nat /\ Len(pipe.fetch) \in Nat
      BY <1>4
    <3>2. Newest + Len(pipe.decode) + Len(pipe.fetch) + 1 > Newest
      BY <3>1, Positions
    <3> QED BY <3>2, <1>4
  <2>2. pc.stage \notin Renames /\ pc'.stage \notin Renames /\ pc'.stage # "access"
    BY <1>1, <1>10 DEF Renames
  <2> HIDE DEF t
  <2> QED BY <1>1, <1>5, <1>7, <1>8, <1>12, <1>14, <1>16, <2>1, <2>2, FrontKeeps
<1> QED BY <1>12, <1>13, <1>17

-----------------------------------------------------------------------------
(* The ends of the loops that move registers, and the two marks.           *)

\* The end of a loop changes the place in the cycle only: what was renamed or
\* committed in the loop is so after it.
LEMMA LoopEndKeeps ==
    ASSUME Types, Sizes, CoreInv, pc' \in PcType,
           UNCHANGED <<program, now, pipe, instr, regs, lsq, l1, net>>,
           Place', Enough',
           \A i \in Ids : /\ SourcesAt(i)' = SourcesAt(i)
                          /\ ResultsAt(i)' = ResultsAt(i)
                          /\ Committed(i)' = Committed(i)
    PROVE  Types' /\ Sizes' /\ CoreInv'
<1>1. Types' /\ Sizes'
  BY TypesFrom DEF Types, Sizes
<1>2. Gone' = Gone /\ Newest' = Newest /\ Ids' = Ids
  BY SamePipe DEF Ids
<1>3. Order' /\ Progress' /\ Lengths'
  BY <1>2 DEF CoreInv, Order, Progress, Lengths
<1>4. Ordered /\ Ordered'
  BY <1>1, <1>3 DEF Ordered, CoreInv
<1>5. Views /\ Views'
  BY <1>4, ViewsHold, ViewsAfter
<1>6. SameResults /\ SameSources
  BY <1>2, <1>5 DEF Views, SameResults, SameSources
<1>7. Gone' \in Int /\ Gone \in Int /\ Gone' >= Gone
  BY <1>2, OrderTypes DEF CoreInv
<1> QED BY <1>1, <1>3, <1>6, <1>7, KeepAll

\* The number of an operand list is a natural number.
LEMMA OperandLengths ==
    ASSUME Ordered, NEW i \in Ids
    PROVE  /\ Len(program[i].src) \in Nat /\ Len(program[i].dst) \in Nat
           /\ DOMAIN program[i].src = 1 .. Len(program[i].src)
           /\ DOMAIN program[i].dst = 1 .. Len(program[i].dst)
           /\ Len(instr[i].src) = Len(program[i].src)
           /\ Len(instr[i].dst) = Len(program[i].dst)
           /\ DOMAIN instr[i].src = 1 .. Len(program[i].src)
           /\ DOMAIN instr[i].dst = 1 .. Len(program[i].dst)
           /\ i \in Nat
<1>1. /\ program[i].src \in Seq(Arch) /\ program[i].dst \in Seq(Arch) /\ i \in Nat
  BY ProgramType DEF Ordered
<1>2. instr[i].src \in Seq(Nat) /\ instr[i].dst \in Seq(Nat)
  BY InstrFields DEF Ordered
<1>3. Len(instr[i].src) = Len(program[i].src) /\ Len(instr[i].dst) = Len(program[i].dst)
  BY DEF Ordered, Lengths
<1> QED BY <1>1, <1>2, <1>3

\* While it is renamed, the instruction is the one of the scan in the ROB.
LEMMA RenamingIs ==
    ASSUME Ordered, pc.stage \in {"sources", "results"} \/ pc.k <= Len(pipe.rob)
    PROVE  /\ pipe.rob[pc.k] = Gone + pc.k /\ Gone + pc.k \in Ids
           /\ Gone < Gone + pc.k /\ Gone + pc.k <= Newest /\ Gone \in Nat /\ Newest \in Nat
           /\ pc.k \in Nat /\ pc.k > 0 /\ Newest = Gone + Len(pipe.rob)
           /\ Len(pipe.rob) \in Nat
<1>1. /\ Gone \in Nat /\ Newest \in Nat /\ Newest = Gone + Len(pipe.rob)
      /\ Len(pipe.rob) \in Nat
  BY OrderTypes DEF Ordered
<1>2. pc.k \in Nat /\ pc.k > 0 /\ pc.k <= Len(pipe.rob)
  BY FieldTypes DEF Ordered, Place, InScan
<1>3. pc.k \in 1 .. Len(pipe.rob)
  BY <1>1, <1>2
<1>4. pipe.rob[pc.k] = Gone + pc.k /\ Gone + pc.k \in Ids
  BY <1>3, RobInterval DEF Ordered
<1>5. Gone < Gone + pc.k
  BY <1>1, <1>2
<1>6. Gone + pc.k <= Gone + Len(pipe.rob)
  BY <1>1, <1>2
<1> QED BY <1>1, <1>2, <1>4, <1>5, <1>6

\* retire: all registers of the instruction are released.
LEMMA ReleasedKeeps ==
    ASSUME Types, Sizes, CoreInv, Released
    PROVE  Types' /\ Sizes' /\ CoreInv'
<1>1. /\ pc.stage = "release" /\ pc.k > Len(instr[pc.i].dst)
      /\ pc' = [stage |-> "retire", n |-> pc.n, k |-> 1, i |-> 0]
      /\ UNCHANGED <<program, now, pipe, instr, regs, lsq, l1, net>>
  BY DEF Released
<1>2. pc.i = Gone /\ pc.i \in Ids /\ pc.k <= Len(program[pc.i].dst) + 1
  BY <1>1 DEF CoreInv, Place
<1>3. Ordered
  BY DEF Ordered, CoreInv
<1>4. /\ Len(program[pc.i].dst) \in Nat /\ Len(instr[pc.i].dst) = Len(program[pc.i].dst)
      /\ DOMAIN program[pc.i].dst = 1 .. Len(program[pc.i].dst)
  BY <1>2, <1>3, OperandLengths
<1>5. pc.k \in Nat /\ pc.n \in Nat
  BY FieldTypes
<1>6. pc.k = Len(program[pc.i].dst) + 1
  BY <1>1, <1>2, <1>4, <1>5
<1>7. pc' \in PcType /\ pc'.stage = "retire"
  BY <1>1, <1>5 DEF PcType, Stages
<1>8. Place' /\ Enough'
  BY <1>7 DEF Place, Enough, InScan
<1>9. Gone' = Gone /\ Newest' = Newest /\ Gone \in Nat
  BY <1>1, <1>3, SamePipe, OrderTypes DEF Ordered
<1>10. \A i \in Ids : /\ SourcesAt(i)' = SourcesAt(i)
                      /\ ResultsAt(i)' = ResultsAt(i)
                      /\ Committed(i)' = Committed(i)
  <2> SUFFICES ASSUME NEW i \in Ids
               PROVE  /\ SourcesAt(i)' = SourcesAt(i)
                      /\ ResultsAt(i)' = ResultsAt(i)
                      /\ Committed(i)' = Committed(i)
    OBVIOUS
  <2>1. SourcesAt(i)' = SourcesAt(i)
    BY <1>1, <1>7 DEF SourcesAt
  <2>2. pc.k .. Len(program[pc.i].dst) = {} /\ 1 .. pc.k - 1 = DOMAIN program[pc.i].dst
    BY <1>4, <1>6
  <2>3. ~(Gone < Gone) /\ ~(Gone > Gone)
    BY <1>9
  <2>4. ResultsAt(i)' = ResultsAt(i)
    BY <1>1, <1>2, <1>7, <1>9, <2>2, <2>3 DEF ResultsAt
  <2>5. Committed(i)' = Committed(i)
    BY <1>1, <1>2, <1>7, <1>9, <2>2, <2>3 DEF Committed
  <2> QED BY <2>1, <2>4, <2>5
<1> QED BY <1>1, <1>7, <1>8, <1>10, LoopEndKeeps

\* The registers an instruction still needs for its sources are counted.
LEMMA NeededIsFinite ==
    ASSUME Ordered, NEW i \in Ids, NEW from
    PROVE  IsFiniteSet(NeededFor(i, from)) /\ Cardinality(NeededFor(i, from)) \in Nat
<1>1. NeededFor(i, from) \subseteq 1 .. Len(program[i].src)
  <2>1. DOMAIN instr[i].src = 1 .. Len(program[i].src)
    BY OperandLengths
  <2>2. NeededFor(i, from) \subseteq DOMAIN instr[i].src
    BY DEF NeededFor
  <2> QED BY <2>1, <2>2
<1>2. IsFiniteSet(1 .. Len(program[i].src))
  <2>1. Len(program[i].src) \in Nat
    BY OperandLengths
  <2> QED BY <2>1, FS_Interval
<1> QED BY <1>1, <1>2, FS_Subset, FS_CardinalityType

\* schedule: all sources are renamed, the results come next.
LEMMA SourcesDoneKeeps ==
    ASSUME Types, Sizes, CoreInv, SourcesDone
    PROVE  Types' /\ Sizes' /\ CoreInv'
<1> DEFINE c == Gone + pc.k
<1>1. /\ pc.stage = "sources" /\ pc.i > Len(instr[Renaming].src)
      /\ pc' = [pc EXCEPT !.stage = "results", !.i = 1]
      /\ UNCHANGED <<program, now, pipe, instr, regs, lsq, l1, net>>
  BY DEF SourcesDone
<1>2. Ordered
  BY DEF Ordered, CoreInv
<1>3. Renaming = c /\ c \in Ids /\ Gone \in Nat /\ pc.k \in Nat
  BY <1>1, <1>2, RenamingIs DEF Renaming
<1>4. /\ pc.k <= Len(pipe.rob) /\ instr[c].scheduled /\ ~instr[c].executed
      /\ \A i \in Ids : i > c => ~instr[i].scheduled
      /\ pc.i <= Len(program[c].src) + 1
      /\ Len(regs.free) >= Cardinality(NeededFor(c, pc.i)) + Len(program[c].dst)
  BY <1>1 DEF CoreInv, Place, InScan, Enough
<1>5. /\ Len(program[c].src) \in Nat /\ Len(instr[c].src) = Len(program[c].src)
      /\ Len(program[c].dst) \in Nat
  BY <1>2, <1>3, OperandLengths
<1>6. pc.i = Len(program[c].src) + 1
  <2>1. pc.i \in Nat /\ pc.i > Len(program[c].src)
    BY <1>1, <1>3, <1>5, FieldTypes
  <2> QED BY <2>1, <1>4, <1>5
<1>7. pc' \in PcType /\ pc'.stage = "results" /\ pc'.i = 1 /\ pc'.k = pc.k
  BY <1>1 DEF Types, PcType, Stages
<1>8. Gone' = Gone /\ Newest' = Newest
  BY <1>1, SamePipe
<1> HIDE DEF c
<1>9. Gone' + pc'.k = c /\ Ids' = Ids
  BY <1>1, <1>7, <1>8 DEF c, Ids
<1>10. Place'
  <2>1. 1 <= Len(program[c].dst) + 1 /\ 1 >= 1
    BY <1>5
  <2>2. /\ pc'.stage # "release" /\ pc'.stage # "access" /\ pc'.stage # "sources"
        /\ pipe' = pipe /\ program' = program /\ instr' = instr
    BY <1>1, <1>7
  <2>3. /\ pc'.k <= Len(pipe'.rob) /\ pc'.i >= 1
        /\ instr'[Gone' + pc'.k].scheduled /\ ~instr'[Gone' + pc'.k].executed
        /\ \A i \in Ids' : i > Gone' + pc'.k => ~instr'[i].scheduled
        /\ pc'.i <= Len(program'[Gone' + pc'.k].dst) + 1
    BY <2>1, <2>2, <1>4, <1>7, <1>9
  <2> QED BY <2>2, <2>3 DEF Place, InScan
<1>11. Enough'
  <2>1. Cardinality(NeededFor(c, pc.i)) \in Nat
    BY <1>2, <1>3, NeededIsFinite
  <2>2. Len(regs.free) \in Nat
    BY FieldTypes
  <2>3. Len(regs.free) >= Len(program[c].dst) + 1 - 1
    BY <2>1, <2>2, <1>4, <1>5
  <2> QED BY <2>3, <1>1, <1>7, <1>9 DEF Enough
<1>12. \A i \in Ids : /\ SourcesAt(i)' = SourcesAt(i)
                      /\ ResultsAt(i)' = ResultsAt(i)
                      /\ Committed(i)' = Committed(i)
  <2> SUFFICES ASSUME NEW i \in Ids
               PROVE  /\ SourcesAt(i)' = SourcesAt(i)
                      /\ ResultsAt(i)' = ResultsAt(i)
                      /\ Committed(i)' = Committed(i)
    OBVIOUS
  <2>1. 1 .. pc.i - 1 = 1 .. Len(program[c].src) /\ 1 .. 1 - 1 = {}
    BY <1>5, <1>6
  <2>2. SourcesAt(i) = IF i = c THEN 1 .. pc.i - 1
                       ELSE IF instr[i].scheduled THEN 1 .. Len(program[i].src) ELSE {}
    BY <1>1 DEF SourcesAt, c
  <2>3. SourcesAt(i)' = IF instr[i].scheduled THEN 1 .. Len(program[i].src) ELSE {}
    BY <1>1, <1>7 DEF SourcesAt
  <2>4. ResultsAt(i) = IF i = c THEN {}
                       ELSE IF Gone < i /\ i <= Newest /\ instr[i].scheduled
                            THEN 1 .. Len(program[i].dst) ELSE {}
    BY <1>1 DEF ResultsAt, c
  <2>5. ResultsAt(i)' = IF i = c THEN 1 .. 1 - 1
                        ELSE IF Gone < i /\ i <= Newest /\ instr[i].scheduled
                             THEN 1 .. Len(program[i].dst) ELSE {}
    BY <1>1, <1>7, <1>8, <1>9 DEF ResultsAt
  <2>6. Committed(i)' = Committed(i)
    BY <1>1, <1>7, <1>8 DEF Committed
  <2> QED BY <1>4, <2>1, <2>2, <2>3, <2>4, <2>5, <2>6
<1> QED BY <1>1, <1>7, <1>10, <1>11, <1>12, LoopEndKeeps

\* schedule: all results are renamed, the scan goes on.
LEMMA ResultsDoneKeeps ==
    ASSUME Types, Sizes, CoreInv, ResultsDone
    PROVE  Types' /\ Sizes' /\ CoreInv'
<1> DEFINE c == Gone + pc.k
<1>1. /\ pc.stage = "results" /\ pc.i > Len(instr[Renaming].dst)
      /\ Scanned(Renaming)
      /\ UNCHANGED <<program, now, pipe, instr, regs, lsq, l1, net>>
  BY DEF ResultsDone
<1>2. Ordered
  BY DEF Ordered, CoreInv
<1>3. /\ Renaming = c /\ c \in Ids /\ Gone \in Nat /\ pc.k \in Nat
      /\ Gone < c /\ c <= Newest
  BY <1>1, <1>2, RenamingIs DEF Renaming
<1>4. instr[c].scheduled /\ pc.i <= Len(program[c].dst) + 1
  BY <1>1 DEF CoreInv, Place, InScan
<1>5. Len(program[c].dst) \in Nat /\ Len(instr[c].dst) = Len(program[c].dst)
  BY <1>2, <1>3, OperandLengths
<1>6. pc.i = Len(program[c].dst) + 1
  <2>1. pc.i \in Nat /\ pc.i > Len(program[c].dst)
    BY <1>1, <1>3, <1>5, FieldTypes
  <2> QED BY <2>1, <1>4, <1>5
<1>7. pc' \in PcType /\ pc'.stage = "schedule"
  <2>1. pc.k + 1 \in Nat \ {0} /\ pc.n \in Nat /\ pc.n + 1 \in Nat
    <3>1. pc.k \in Nat /\ pc.n \in Nat
      BY FieldTypes
    <3> QED BY <3>1
  <2> QED BY <2>1, <1>1 DEF Scanned, PcType, Stages
<1>8. Gone' = Gone /\ Newest' = Newest
  BY <1>1, SamePipe
<1> HIDE DEF c
<1>9. Place' /\ Enough'
  BY <1>7 DEF Place, Enough, InScan
<1>10. \A i \in Ids : /\ SourcesAt(i)' = SourcesAt(i)
                      /\ ResultsAt(i)' = ResultsAt(i)
                      /\ Committed(i)' = Committed(i)
  <2> SUFFICES ASSUME NEW i \in Ids
               PROVE  /\ SourcesAt(i)' = SourcesAt(i)
                      /\ ResultsAt(i)' = ResultsAt(i)
                      /\ Committed(i)' = Committed(i)
    OBVIOUS
  <2>1. 1 .. pc.i - 1 = 1 .. Len(program[c].dst)
    BY <1>5, <1>6
  <2>2. SourcesAt(i)' = SourcesAt(i)
    BY <1>1, <1>7 DEF SourcesAt
  <2>3. ResultsAt(i) = IF i = c THEN 1 .. pc.i - 1
                       ELSE IF Gone < i /\ i <= Newest /\ instr[i].scheduled
                            THEN 1 .. Len(program[i].dst) ELSE {}
    BY <1>1 DEF ResultsAt, c
  <2>4. ResultsAt(i)' = IF Gone < i /\ i <= Newest /\ instr[i].scheduled
                        THEN 1 .. Len(program[i].dst) ELSE {}
    BY <1>1, <1>7, <1>8 DEF ResultsAt
  <2>5. Committed(i)' = Committed(i)
    BY <1>1, <1>7, <1>8 DEF Committed
  <2> QED BY <1>3, <1>4, <2>1, <2>2, <2>3, <2>4, <2>5
<1> QED BY <1>1, <1>7, <1>9, <1>10, LoopEndKeeps

\* A core never has more free registers than registers.
LEMMA FreeFits ==
    ASSUME Types, Ownership
    PROVE  Len(regs.free) \in Nat /\ Len(regs.free) <= NPhys
<1> DEFINE n == Len(regs.free)
           f == [j \in 1 .. n |-> regs.free[j]]
<1>1. regs.free \in Seq(Phys) /\ NPhys \in Nat
  BY FieldTypes, SizeTypes
<1>2. n \in Nat /\ DOMAIN regs.free = 1 .. n /\ \A j \in 1 .. n : regs.free[j] \in Phys
  BY <1>1
<1>3. \A j \in 1 .. n : \A h \in 1 .. n : regs.free[j] = regs.free[h] => j = h
  BY <1>2 DEF Ownership
<1> HIDE DEF n
<1>4. f \in Injection(1 .. n, Phys)
  BY <1>2, <1>3 DEF Injection, IsInjective
<1>5. /\ IsFiniteSet(Phys) /\ Cardinality(Phys) = NPhys
      /\ Cardinality(1 .. n) = n
  <2>1. Cardinality(1 .. n) = n
    BY <1>2, FS_Interval
  <2>2. IsFiniteSet(0 .. NPhys - 1) /\ Cardinality(0 .. NPhys - 1) = NPhys
    <3>1. /\ IsFiniteSet(0 .. NPhys - 1)
          /\ Cardinality(0 .. NPhys - 1) = IF 0 > NPhys - 1 THEN 0 ELSE (NPhys - 1) - 0 + 1
      BY <1>1, FS_Interval
    <3> QED BY <3>1, SizeTypes
  <2> QED BY <2>1, <2>2 DEF Phys
<1>6. Cardinality(1 .. n) <= Cardinality(Phys)
  BY <1>4, <1>5, FS_Injection
<1> QED BY <1>2, <1>5, <1>6 DEF n

\* schedule: an instruction is taken up when its turn has come and the free
\* registers suffice; it is the first in the ROB that is not taken up yet.
LEMMA ScheduleKeeps ==
    ASSUME Types, Sizes, CoreInv, Scan, Schedule
    PROVE  Types' /\ Sizes' /\ CoreInv'
<1> DEFINE c == Gone + pc.k
           e == [instr[c] EXCEPT !.scheduled = TRUE]
<1>1. /\ pc.stage = "schedule" /\ pc.k <= Len(pipe.rob)
      /\ EnoughRegisters(pipe.rob[pc.k]) /\ Schedules(pipe.rob[pc.k])
      /\ instr' = [instr EXCEPT ![pipe.rob[pc.k]].scheduled = TRUE]
      /\ pc' = [pc EXCEPT !.stage = "sources", !.i = 1]
      /\ UNCHANGED <<program, now, pipe, regs, lsq, l1, net>>
  BY DEF Schedule, ScanGoesOn
<1>2. Ordered
  BY DEF Ordered, CoreInv
<1>3. /\ pipe.rob[pc.k] = c /\ c \in Ids /\ Gone \in Nat /\ Newest \in Nat
      /\ pc.k \in Nat /\ pc.k > 0 /\ Gone < c /\ c <= Newest
  BY <1>1, <1>2, RenamingIs
<1>4. /\ ~instr[c].scheduled /\ now >= instr[c].ready /\ ~instr[c].executed
      /\ EnoughRegisters(c)
  <2>1. Schedules(c) /\ EnoughRegisters(c)
    BY <1>1, <1>3
  <2> QED BY <2>1, <1>3 DEF Schedules, CoreInv, Progress
<1>5. pc' \in PcType /\ pc'.stage = "sources" /\ pc'.i = 1 /\ pc'.k = pc.k
  BY <1>1 DEF Types, PcType, Stages
<1>6. Gone' = Gone /\ Newest' = Newest /\ Ids' = Ids
  BY <1>1, SamePipe DEF Ids
<1>7. /\ e \in InstrState /\ e.scheduled = TRUE /\ e.ready = instr[c].ready
      /\ e.executed = instr[c].executed /\ e.completed = instr[c].completed
      /\ e.memDone = instr[c].memDone /\ e.src = instr[c].src /\ e.dst = instr[c].dst
  BY <1>3, InstrFields, SetScheduled
<1>8. instr' = [instr EXCEPT ![c] = e]
  BY <1>1, <1>3
<1> HIDE DEF c, e
<1>9. \A i \in Ids : instr'[i] = IF i = c THEN e ELSE instr[i]
  BY <1>8 DEF Types, InstrType
<1>10. \A i \in Ids :
          /\ instr'[i].scheduled <=> (i = c \/ instr[i].scheduled)
          /\ instr'[i].ready = instr[i].ready
          /\ instr'[i].executed = instr[i].executed
          /\ instr'[i].completed = instr[i].completed
          /\ instr'[i].memDone = instr[i].memDone
          /\ instr'[i].src = instr[i].src /\ instr'[i].dst = instr[i].dst
  BY <1>7, <1>9
<1>11. instr' \in InstrType
  BY <1>3, <1>7, <1>8, InstrUpdate
<1>12. Types' /\ Sizes'
  BY <1>1, <1>5, <1>11, TypesFrom DEF Types, Sizes
<1>13. Order' /\ Lengths'
  BY <1>1, <1>6, <1>10 DEF CoreInv, Order, Lengths
<1>14. Gone' + pc'.k = c
  BY <1>5, <1>6 DEF c
<1>15. \A i \in Ids : i > c => ~instr[i].scheduled
  BY <1>3, <1>4 DEF CoreInv, Progress
<1>16. \A h \in Ids : h < c => instr[h].scheduled
  <2> SUFFICES ASSUME NEW h \in Ids, h < c
               PROVE  instr[h].scheduled
    OBVIOUS
  <2>1. h \in Nat /\ c \in Nat
    BY <1>3, ProgramType
  <2>2. CASE h <= Gone
    BY <2>2 DEF CoreInv, Progress
  <2>3. CASE ~(h <= Gone)
    <3>1. Gone < h
      BY <1>3, <2>1, <2>3
    <3>2. instr[h].scheduled \/ now < instr[h].ready
      BY <1>1, <3>1 DEF Scan, c
    <3>3. ~instr[h].scheduled => instr[h].ready <= instr[c].ready
      BY <1>3, <1>4 DEF CoreInv, Progress
    <3>4. instr[h].ready \in Nat /\ instr[c].ready \in Nat /\ now \in Nat
      <4>1. instr[h].ready \in Nat /\ instr[c].ready \in Nat
        BY <1>3, InstrFields
      <4>2. now \in Nat
        BY FieldTypes
      <4> QED BY <4>1, <4>2
    <3>5. now >= instr[c].ready
      BY <1>4
    <3> QED BY <3>2, <3>3, <3>4, <3>5
  <2> QED BY <2>2, <2>3
<1>17. Progress'
  <2>1. \A i \in Ids : i > Newest => ~instr'[i].scheduled /\ instr'[i].memDone = 0
    <3>1. \A i \in Ids : i > Newest => i # c
      BY <1>3, ProgramType
    <3> QED BY <1>10, <3>1 DEF CoreInv, Progress
  <2>2. \A i \in Ids : \A h \in Ids : h < i /\ instr'[i].scheduled => instr'[h].scheduled
    BY <1>10, <1>16 DEF CoreInv, Progress
  <2>3. /\ \A i \in Ids : i <= Gone => instr'[i].completed
        /\ \A i \in Ids : instr'[i].executed => instr'[i].scheduled
        /\ \A i \in Ids : instr'[i].completed => instr'[i].executed
        /\ \A i \in Ids : i <= Newest /\ ~instr'[i].scheduled
                              => instr'[i].ready <= now + DispatchLatency
    BY <1>10 DEF CoreInv, Progress
  <2>4. \A i \in Ids : \A h \in Ids :
           h < i /\ i <= Newest /\ ~instr'[h].scheduled /\ ~instr'[i].scheduled
               => instr'[h].ready <= instr'[i].ready
    BY <1>10 DEF CoreInv, Progress
  <2> QED BY <1>1, <1>6, <2>1, <2>2, <2>3, <2>4 DEF Progress
<1>18. Place'
  <2>1. /\ pc'.stage # "release" /\ pc'.stage # "access" /\ pc'.stage # "results"
        /\ pipe' = pipe /\ program' = program
    BY <1>1, <1>5
  <2>2. 1 <= Len(program[c].src) + 1 /\ 1 >= 1
    <3>1. Len(program[c].src) \in Nat
      BY <1>2, <1>3, OperandLengths
    <3> QED BY <3>1
  <2>3. \A i \in Ids : i > c => i # c
    BY <1>3, ProgramType
  <2>4. /\ pc'.k <= Len(pipe'.rob) /\ pc'.i >= 1
        /\ instr'[Gone' + pc'.k].scheduled /\ ~instr'[Gone' + pc'.k].executed
        /\ \A i \in Ids' : i > Gone' + pc'.k => ~instr'[i].scheduled
        /\ pc'.i <= Len(program'[Gone' + pc'.k].src) + 1
    BY <2>1, <2>2, <2>3, <1>1, <1>3, <1>4, <1>5, <1>6, <1>10, <1>14, <1>15
  <2> QED BY <2>1, <2>4 DEF Place, InScan
<1>19. Ordered'
  BY <1>12, <1>13, <1>18 DEF Ordered
<1>20. \A i \in Ids : /\ RenamedSources(i)' = RenamedSources(i)
                      /\ RenamedResults(i)' = RenamedResults(i)
                      /\ Committed(i)' = Committed(i)
  <2> SUFFICES ASSUME NEW i \in Ids
               PROVE  /\ RenamedSources(i)' = RenamedSources(i)
                      /\ RenamedResults(i)' = RenamedResults(i)
                      /\ Committed(i)' = Committed(i)
    OBVIOUS
  <2>1. /\ RenamedSources(i) = IF instr[i].scheduled THEN 1 .. Len(program[i].src) ELSE {}
        /\ RenamedResults(i) = IF Gone < i /\ i <= Newest /\ instr[i].scheduled
                               THEN 1 .. Len(program[i].dst) ELSE {}
        /\ Committed(i) = IF i > Gone THEN {} ELSE DOMAIN program[i].dst
    BY <1>1, <1>2, ViewsOutside DEF Renames
  <2>2. RenamedSources(i)' = SourcesAt(i)' /\ RenamedResults(i)' = ResultsAt(i)'
    BY <1>6, <1>19, ViewsAfter DEF Views
  <2>3. SourcesAt(i)' = IF i = c THEN 1 .. 1 - 1
                        ELSE IF instr'[i].scheduled THEN 1 .. Len(program[i].src) ELSE {}
    BY <1>1, <1>5, <1>14 DEF SourcesAt
  <2>4. ResultsAt(i)' = IF i = c THEN {}
                        ELSE IF Gone < i /\ i <= Newest /\ instr'[i].scheduled
                        THEN 1 .. Len(program[i].dst) ELSE {}
    BY <1>1, <1>5, <1>6, <1>14 DEF ResultsAt
  <2>5. Committed(i)' = IF i > Gone THEN {} ELSE DOMAIN program[i].dst
    BY <1>1, <1>5, <1>6 DEF Committed
  <2>6. 1 .. 1 - 1 = {}
    OBVIOUS
  <2>7. i # c => (instr'[i].scheduled <=> instr[i].scheduled)
    BY <1>10
  <2> QED BY <1>4, <2>1, <2>2, <2>3, <2>4, <2>5, <2>6, <2>7
<1>21. SameResults /\ SameSources
  BY <1>1, <1>10, <1>20 DEF SameResults, SameSources
<1>22. Len(program[c].dst) <= NPhys /\ Enough'
  <2> DEFINE T == {j \in DOMAIN instr[c].src : Unmapped(instr[c].src[j])}
  <2>1. Len(regs.free) >= Cardinality(T) + Len(program[c].dst)
    <3>1. Len(instr[c].dst) = Len(program[c].dst)
      BY <1>2, <1>3, OperandLengths
    <3> QED BY <3>1, <1>4 DEF EnoughRegisters
  <2>2. DOMAIN instr[c].src \subseteq {j \in Nat : j >= 1}
    <3>1. DOMAIN instr[c].src = 1 .. Len(program[c].src)
      BY <1>2, <1>3, OperandLengths
    <3> QED BY <3>1
  <2>3. T = NeededFor(c, 1)
    BY <2>2 DEF NeededFor
  <2>4. Cardinality(T) \in Nat
    BY <1>2, <1>3, <2>3, NeededIsFinite
  <2> HIDE DEF T
  <2>6. Len(program[c].dst) \in Nat
    BY <1>2, <1>3, OperandLengths
  <2>7. Len(regs.free) \in Nat /\ Len(regs.free) <= NPhys /\ NPhys \in Nat
    BY FreeFits, SizeTypes DEF CoreInv
  <2>8. Len(program[c].dst) <= NPhys
    BY <2>1, <2>4, <2>6, <2>7
  <2>9. NeededFor(Gone + pc.k, pc.i)' = T
    <3>1. instr'[c].src = instr[c].src /\ regs' = regs
      BY <1>1, <1>3, <1>10
    <3>2. NeededFor(Gone + pc.k, pc.i)' = NeededFor(c, 1)
      BY <1>5, <1>14, <3>1 DEF NeededFor, Unmapped
    <3> QED BY <3>2, <2>3
  <2>10. Enough'
    <3>1. Len(regs'.free) >= Cardinality(NeededFor(Gone + pc.k, pc.i)')
                             + Len(program'[Gone' + pc'.k].dst)
      BY <1>1, <1>14, <2>1, <2>9
    <3> QED BY <3>1, <1>5 DEF Enough
  <2> QED BY <2>8, <2>10
<1>23. Gone' \in Int /\ Gone \in Int /\ Gone' >= Gone
  BY <1>3, <1>6
<1>24. \A i \in Ids : instr'[i].scheduled =>
           instr[i].scheduled \/ Len(program[i].dst) <= NPhys
  BY <1>10, <1>22
<1>25. CoreInv'
  BY <1>1, <1>10, <1>13, <1>17, <1>18, <1>21, <1>22, <1>23, <1>24, KeepAll
<1> QED BY <1>12, <1>25

\* The renamed sources after a step that keeps the program.
LEMMA SourcesAfter ==
    ASSUME program' = program,
           \A i \in Ids : \A j \in RenamedSources(i)' : i > Gone' =>
               /\ \A h \in Ids : \A l \in DOMAIN program[h].dst :
                      NewestResult(program[i].src[j], i, h, l) =>
                          /\ instr'[i].src[j] = instr'[h].dst[l]
                          /\ instr'[i].executed => instr'[h].completed
               /\ (\A h \in Ids : \A l \in DOMAIN program[h].dst :
                       program[h].dst[l] = program[i].src[j] => h >= i) =>
                           regs'.back[program[i].src[j]] # NoReg
                           /\ instr'[i].src[j] = regs'.back[program[i].src[j]]
    PROVE  Sources'
<1>1. Ids' = Ids
  BY DEF Ids
<1>2. ASSUME NEW i \in Ids, i > Gone', NEW j \in RenamedSources(i)'
      PROVE  LET a == program[i].src[j]
             IN  /\ \A h \in Ids : \A l \in DOMAIN program[h].dst :
                        NewestResult(a, i, h, l) =>
                            /\ instr'[i].src[j] = instr'[h].dst[l]
                            /\ instr'[i].executed => instr'[h].completed
                 /\ (\A h \in Ids : \A l \in DOMAIN program[h].dst :
                         program[h].dst[l] = a => h >= i) =>
                             regs'.back[a] # NoReg /\ instr'[i].src[j] = regs'.back[a]
  BY <1>2
<1> QED BY <1>1, <1>2 DEF Sources, NewestResult

\* execute: an instruction whose sources are all valid executes, so the last
\* writers of its sources have completed.
LEMMA ExecuteKeeps ==
    ASSUME Types, Sizes, CoreInv, Execute
    PROVE  Types' /\ Sizes' /\ CoreInv'
<1> DEFINE s == SelectInSeq(pipe.rob, Executes)
           c == pipe.rob[s]
           t == now + ExecuteLatency
           d == [instr[c] EXCEPT !.executed = TRUE]
           e == [d EXCEPT !.ready = t]
<1>1. /\ pc.stage = "execute" /\ s # 0
      /\ instr' = [instr EXCEPT ![c].executed = TRUE, ![c].ready = t]
      /\ pc' = [stage |-> "access", n |-> pc.n + 1, k |-> 1, i |-> c]
      /\ UNCHANGED <<program, now, pipe, regs, lsq, l1, net>>
  BY DEF Execute
<1>2. Ordered /\ Order
  BY DEF Ordered, CoreInv
<1>3. s \in 1 .. Len(pipe.rob) /\ Executes(c)
  <2>1. pipe.rob \in Seq(Ids)
    BY FieldTypes
  <2> QED BY <1>1, <2>1, ExecutesProps
<1>4. /\ Gone \in Nat /\ Newest \in Nat /\ c \in Ids /\ c \in Nat /\ Ids \subseteq Nat
      /\ Gone < c /\ c <= Newest
  <2>1. c = Gone + s /\ c \in Ids /\ c \in InRob
    BY <1>2, <1>3, RobInterval
  <2>2. Gone < c /\ c <= Newest
    BY <1>2, <2>1, RobInterval
  <2>3. Gone \in Nat /\ Newest \in Nat
    BY <1>2, OrderTypes
  <2> QED BY <2>1, <2>2, <2>3, ProgramType
<1>5. instr[c].scheduled /\ ~instr[c].executed /\ SourcesValid(c)
  BY <1>3 DEF Executes
<1>6. t \in Nat /\ pc.n + 1 \in Nat
  <2>1. pc.n \in Nat
    BY FieldTypes
  <2> QED BY <2>1, LaterType
<1> HIDE DEF s, c, t
<1>7. /\ d \in InstrState /\ d.scheduled = instr[c].scheduled /\ d.executed = TRUE
      /\ d.completed = instr[c].completed /\ d.memDone = instr[c].memDone
      /\ d.src = instr[c].src /\ d.dst = instr[c].dst
  BY <1>4, InstrFields, SetExecuted
<1>8. instr' = [instr EXCEPT ![c] = e]
  <2>1. instr \in [Ids -> InstrState]
    BY DEF Types, InstrType
  <2> QED BY <2>1, <1>1, <1>4
<1> HIDE DEF d
<1>9. /\ e \in InstrState /\ e.scheduled = d.scheduled /\ e.executed = d.executed
      /\ e.completed = d.completed /\ e.memDone = d.memDone
      /\ e.src = d.src /\ e.dst = d.dst
  BY <1>6, <1>7, SetReady
<1> HIDE DEF e
<1>10. \A i \in Ids : instr'[i] = IF i = c THEN e ELSE instr[i]
  BY <1>8 DEF Types, InstrType
<1>11. \A i \in Ids :
          /\ instr'[i].scheduled = instr[i].scheduled
          /\ i # c => instr'[i].executed = instr[i].executed
          /\ instr'[c].executed
          /\ i # c => instr'[i].ready = instr[i].ready
          /\ instr'[i].completed = instr[i].completed
          /\ instr'[i].memDone = instr[i].memDone
          /\ instr'[i].src = instr[i].src /\ instr'[i].dst = instr[i].dst
  BY <1>4, <1>7, <1>9, <1>10
<1>12. instr' \in InstrType
  BY <1>4, <1>8, <1>9, InstrUpdate
<1>13. /\ pc' \in PcType /\ pc'.stage = "access" /\ pc'.i = c
  BY <1>1, <1>4, <1>6 DEF PcType, Stages
<1>14. Types' /\ Sizes'
  BY <1>1, <1>12, <1>13, TypesFrom DEF Types, Sizes
<1>15. Gone' = Gone /\ Newest' = Newest /\ Ids' = Ids
  BY <1>1, SamePipe DEF Ids
<1>16. Order' /\ Lengths'
  <2>1. pipe' = pipe /\ program' = program
    BY <1>1
  <2>2. Order'
    BY <2>1, <1>15 DEF CoreInv, Order
  <2>3. Lengths'
    BY <2>1, <1>11, <1>15 DEF CoreInv, Lengths
  <2> QED BY <2>2, <2>3
<1>17. Progress'
  <2>1. /\ \A i \in Ids : i <= Gone => instr'[i].completed
        /\ \A i \in Ids : i > Newest => ~instr'[i].scheduled /\ instr'[i].memDone = 0
        /\ \A i \in Ids : \A h \in Ids : h < i /\ instr'[i].scheduled => instr'[h].scheduled
    BY <1>11 DEF CoreInv, Progress
  <2>2. /\ \A i \in Ids : instr'[i].executed => instr'[i].scheduled
        /\ \A i \in Ids : instr'[i].completed => instr'[i].executed
    BY <1>5, <1>11 DEF CoreInv, Progress
  <2>3. \A i \in Ids : ~instr'[i].scheduled => i # c
    BY <1>5, <1>11
  <2>4. \A i \in Ids : i <= Newest /\ ~instr'[i].scheduled
                           => instr'[i].ready <= now + DispatchLatency
    BY <1>11, <2>3 DEF CoreInv, Progress
  <2>5. \A i \in Ids : \A h \in Ids :
           h < i /\ i <= Newest /\ ~instr'[h].scheduled /\ ~instr'[i].scheduled
               => instr'[h].ready <= instr'[i].ready
    BY <1>11, <2>3 DEF CoreInv, Progress
  <2> QED BY <1>1, <1>15, <2>1, <2>2, <2>4, <2>5 DEF Progress
<1>18. Place' /\ Enough'
  <2>1. Gone' < pc'.i /\ pc'.i <= Newest' /\ pc'.i \in Ids'
    BY <1>4, <1>13, <1>15
  <2> QED BY <2>1, <1>13 DEF Place, InScan, Enough
<1>19. Ordered'
  BY <1>14, <1>16, <1>18 DEF Ordered
<1>20. \A i \in Ids : /\ RenamedSources(i)' = RenamedSources(i)
                      /\ RenamedResults(i)' = RenamedResults(i)
                      /\ Committed(i)' = Committed(i)
  <2> SUFFICES ASSUME NEW i \in Ids
               PROVE  /\ RenamedSources(i)' = RenamedSources(i)
                      /\ RenamedResults(i)' = RenamedResults(i)
                      /\ Committed(i)' = Committed(i)
    OBVIOUS
  <2>1. /\ RenamedSources(i) = IF instr[i].scheduled THEN 1 .. Len(program[i].src) ELSE {}
        /\ RenamedResults(i) = IF Gone < i /\ i <= Newest /\ instr[i].scheduled
                               THEN 1 .. Len(program[i].dst) ELSE {}
        /\ Committed(i) = IF i > Gone THEN {} ELSE DOMAIN program[i].dst
    BY <1>1, <1>2, ViewsOutside DEF Renames
  <2>2. pc'.stage \notin Renames
    BY <1>13 DEF Renames
  <2>3. /\ RenamedSources(i)' = IF instr'[i].scheduled THEN 1 .. Len(program[i].src) ELSE {}
        /\ RenamedResults(i)' = IF Gone < i /\ i <= Newest /\ instr'[i].scheduled
                                THEN 1 .. Len(program[i].dst) ELSE {}
        /\ Committed(i)' = IF i > Gone THEN {} ELSE DOMAIN program[i].dst
    BY <1>1, <1>15, <1>19, <2>2, ViewsOutsideAfter
  <2>4. instr'[i].scheduled = instr[i].scheduled
    BY <1>11
  <2> QED BY <2>1, <2>3, <2>4
<1>21. SameResults /\ SameSources
  BY <1>1, <1>11, <1>20 DEF SameResults, SameSources
<1>22. Operands' /\ Ownership' /\ Contents' /\ Latest'
  BY <1>1, <1>11, <1>21, KeepOperands, KeepOwnership, KeepContents, KeepLatest DEF CoreInv
<1>23. ASSUME NEW j \in RenamedSources(c), NEW h \in Ids, NEW l \in DOMAIN program[h].dst,
              NewestResult(program[c].src[j], c, h, l)
       PROVE  instr[h].completed
  <2>1. h < c /\ h \in Nat
    BY <1>4, <1>23 DEF NewestResult
  <2>2. CASE h <= Gone
    BY <2>2 DEF CoreInv, Progress
  <2>3. CASE ~(h <= Gone)
    <3>1. Gone < h /\ h <= Newest
      BY <1>4, <2>1, <2>3
    <3>2. instr[h].scheduled
      BY <1>4, <1>5, <2>1 DEF CoreInv, Progress
    <3>3. RenamedResults(h) = 1 .. Len(program[h].dst)
      BY <1>1, <1>2, <3>1, <3>2, ViewsOutside DEF Renames
    <3>4. l \in RenamedResults(h)
      BY <1>2, <3>3, OperandLengths
    <3>5. regs.file[instr[h].dst[l]].valid = instr[h].completed
      <4>1. regs.file[instr[h].dst[l]] = [arch |-> program[h].dst[l], producer |-> h,
                                          valid |-> instr[h].completed]
        BY <3>4 DEF CoreInv, Contents
      <4> QED BY <4>1
    <3>6. instr[c].src[j] = instr[h].dst[l]
      BY <1>4, <1>23 DEF CoreInv, Sources
    <3>7. j \in DOMAIN instr[c].src
      <4>1. RenamedSources(c) \subseteq DOMAIN program[c].src
        BY <1>2, <1>4, ResultsApart
      <4> QED BY <1>2, <1>4, <4>1, OperandLengths
    <3>8. regs.file[instr[c].src[j]].valid
      BY <1>5, <3>7 DEF SourcesValid, ToSet
    <3> QED BY <3>5, <3>6, <3>8
  <2> QED BY <2>2, <2>3
<1>24. ASSUME NEW i \in Ids, i > Gone, NEW j \in RenamedSources(i)
       PROVE  /\ \A h \in Ids : \A l \in DOMAIN program[h].dst :
                     NewestResult(program[i].src[j], i, h, l) =>
                         /\ instr'[i].src[j] = instr'[h].dst[l]
                         /\ instr'[i].executed => instr'[h].completed
              /\ (\A h \in Ids : \A l \in DOMAIN program[h].dst :
                      program[h].dst[l] = program[i].src[j] => h >= i) =>
                          regs'.back[program[i].src[j]] # NoReg
                          /\ instr'[i].src[j] = regs'.back[program[i].src[j]]
  <2>1. ASSUME NEW h \in Ids, NEW l \in DOMAIN program[h].dst,
               NewestResult(program[i].src[j], i, h, l)
        PROVE  /\ instr'[i].src[j] = instr'[h].dst[l]
               /\ instr'[i].executed => instr'[h].completed
    <3>1. /\ instr[i].src[j] = instr[h].dst[l]
          /\ instr[i].executed => instr[h].completed
      BY <1>24, <2>1 DEF CoreInv, Sources
    <3>2. i = c => instr[h].completed
      BY <1>23, <1>24, <2>1
    <3> QED BY <1>11, <3>1, <3>2
  <2>2. ASSUME \A h \in Ids : \A l \in DOMAIN program[h].dst :
                   program[h].dst[l] = program[i].src[j] => h >= i
        PROVE  regs'.back[program[i].src[j]] # NoReg
               /\ instr'[i].src[j] = regs'.back[program[i].src[j]]
    <3>1. regs.back[program[i].src[j]] # NoReg
          /\ instr[i].src[j] = regs.back[program[i].src[j]]
      BY <1>24, <2>2 DEF CoreInv, Sources
    <3> QED BY <1>1, <1>11, <3>1
  <2> QED BY <2>1, <2>2
<1>25. Sources'
  <2>1. \A i \in Ids : RenamedSources(i)' = RenamedSources(i) /\ Gone' = Gone
    BY <1>15, <1>20
  <2>2. \A i \in Ids : \A j \in RenamedSources(i)' : i > Gone' =>
            /\ \A h \in Ids : \A l \in DOMAIN program[h].dst :
                   NewestResult(program[i].src[j], i, h, l) =>
                       /\ instr'[i].src[j] = instr'[h].dst[l]
                       /\ instr'[i].executed => instr'[h].completed
            /\ (\A h \in Ids : \A l \in DOMAIN program[h].dst :
                    program[h].dst[l] = program[i].src[j] => h >= i) =>
                        regs'.back[program[i].src[j]] # NoReg
                        /\ instr'[i].src[j] = regs'.back[program[i].src[j]]
    BY <1>24, <2>1
  <2>3. program' = program
    BY <1>1
  <2> QED BY <2>2, <2>3, SourcesAfter
<1>26. CoreInv'
  BY <1>16, <1>17, <1>18, <1>22, <1>25 DEF CoreInv
<1> QED BY <1>14, <1>26

-----------------------------------------------------------------------------
(* The steps that change the register file.                                *)

\* A register becomes valid, and nothing else of its entry changes.
LEMMA SetValid ==
    ASSUME NEW e \in Register
    PROVE  LET d == [e EXCEPT !.valid = TRUE]
           IN  /\ d \in Register /\ d.valid = TRUE
               /\ d.arch = e.arch /\ d.producer = e.producer
  BY DEF Register

\* completeInflightInstruction: the results become valid, and no register
\* changes hands.
LEMMA CompleteKeeps ==
    ASSUME Types, Sizes, CoreInv, Complete
    PROVE  Types' /\ Sizes' /\ CoreInv'
<1> DEFINE s == SelectInSeq(pipe.rob, Completes)
           c == pipe.rob[s]
           e == [instr[c] EXCEPT !.completed = TRUE]
           R == ToSet(instr[c].dst)
           file == [p \in Phys |-> IF p \in R THEN [regs.file[p] EXCEPT !.valid = TRUE]
                                   ELSE regs.file[p]]
<1>1. /\ pc.stage = "complete" /\ s # 0
      /\ instr' = [instr EXCEPT ![c].completed = TRUE]
      /\ regs' = [regs EXCEPT !.file = file]
      /\ pc' = [pc EXCEPT !.n = @ + 1]
      /\ UNCHANGED <<program, now, pipe, lsq, l1, net>>
  BY DEF Complete
<1>2. Ordered /\ Order
  BY DEF Ordered, CoreInv
<1>3. s \in 1 .. Len(pipe.rob) /\ Completes(c)
  <2>1. pipe.rob \in Seq(Ids)
    BY FieldTypes
  <2> QED BY <1>1, <2>1, CompletesProps
<1>4. /\ Gone \in Nat /\ Newest \in Nat /\ c \in Ids /\ c \in Nat /\ Ids \subseteq Nat
      /\ Gone < c /\ c <= Newest
  <2>1. c = Gone + s /\ c \in Ids /\ c \in InRob
    BY <1>2, <1>3, RobInterval
  <2>2. Gone < c /\ c <= Newest
    BY <1>2, <2>1, RobInterval
  <2>3. Gone \in Nat /\ Newest \in Nat
    BY <1>2, OrderTypes
  <2> QED BY <2>1, <2>2, <2>3, ProgramType
<1>5. instr[c].executed /\ ~instr[c].completed /\ instr[c].scheduled
  BY <1>3, <1>4 DEF Completes, CoreInv, Progress
<1> HIDE DEF s, c
<1>6. /\ e \in InstrState /\ e.completed = TRUE /\ e.ready = instr[c].ready
      /\ e.scheduled = instr[c].scheduled /\ e.executed = instr[c].executed
      /\ e.memDone = instr[c].memDone /\ e.src = instr[c].src /\ e.dst = instr[c].dst
  BY <1>4, InstrFields, SetCompleted
<1>7. instr' = [instr EXCEPT ![c] = e]
  BY <1>1
<1> HIDE DEF e
<1>8. \A i \in Ids : instr'[i] = IF i = c THEN e ELSE instr[i]
  BY <1>7 DEF Types, InstrType
<1>9. \A i \in Ids :
         /\ instr'[i].ready = instr[i].ready
         /\ instr'[i].scheduled = instr[i].scheduled
         /\ instr'[i].executed = instr[i].executed
         /\ instr'[i].completed <=> (i = c \/ instr[i].completed)
         /\ instr'[i].memDone = instr[i].memDone
         /\ instr'[i].src = instr[i].src /\ instr'[i].dst = instr[i].dst
  BY <1>6, <1>8
<1>10. instr' \in InstrType
  BY <1>4, <1>6, <1>7, InstrUpdate
<1>11. \A p \in Phys : regs.file[p] \in Register
  BY FieldTypes
<1>12. /\ file \in [Phys -> Register]
       /\ \A p \in Phys : p \in R =>
             /\ file[p].arch = regs.file[p].arch /\ file[p].producer = regs.file[p].producer
             /\ file[p].valid = TRUE /\ file[p] \in Register
       /\ \A p \in Phys : p \notin R => file[p] = regs.file[p]
  <2> HIDE DEF R
  <2>1. \A p \in Phys : file[p] = IF p \in R THEN [regs.file[p] EXCEPT !.valid = TRUE]
                                  ELSE regs.file[p]
    OBVIOUS
  <2>2. \A p \in Phys : p \in R =>
           /\ file[p].arch = regs.file[p].arch /\ file[p].producer = regs.file[p].producer
           /\ file[p].valid = TRUE /\ file[p] \in Register
    <3> SUFFICES ASSUME NEW p \in Phys, p \in R
                 PROVE  /\ file[p].arch = regs.file[p].arch
                        /\ file[p].producer = regs.file[p].producer
                        /\ file[p].valid = TRUE /\ file[p] \in Register
      OBVIOUS
    <3>1. file[p] = [regs.file[p] EXCEPT !.valid = TRUE]
      BY <2>1
    <3> HIDE DEF file
    <3> QED BY <3>1, <1>11, SetValid
  <2>3. \A p \in Phys : p \notin R => file[p] = regs.file[p]
    BY <2>1
  <2>4. \A p \in Phys : file[p] \in Register
    <3> HIDE DEF file
    <3> QED BY <1>11, <2>2, <2>3
  <2>5. file \in [Phys -> Register]
    BY <2>4
  <2> QED BY <2>2, <2>3, <2>5
<1> HIDE DEF file, R
<1>13. /\ regs' \in RegsType /\ regs'.file = file /\ regs'.free = regs.free
       /\ regs'.front = regs.front /\ regs'.back = regs.back
  BY <1>1, <1>12 DEF Types, RegsType
<1>14. pc' \in PcType /\ pc'.stage = "complete"
  <2>1. pc.n + 1 \in Nat
    <3>1. pc.n \in Nat
      BY FieldTypes
    <3> QED BY <3>1
  <2> QED BY <1>1, <2>1, CountMoves
<1>15. Types' /\ Sizes'
  BY <1>1, <1>10, <1>13, <1>14, TypesFrom DEF Types, Sizes
<1>16. /\ Gone' = Gone /\ Newest' = Newest /\ Ids' = Ids
       /\ pipe' = pipe /\ program' = program /\ now' = now
  BY <1>1, SamePipe DEF Ids
<1>17. Order' /\ Lengths' /\ Progress' /\ Place' /\ Enough'
  <2>1. Order'
    BY <1>16 DEF CoreInv, Order
  <2>2. Lengths'
    BY <1>9, <1>16 DEF CoreInv, Lengths
  <2>3. Progress'
    BY <1>5, <1>9, <1>16 DEF CoreInv, Progress
  <2>4. Place' /\ Enough'
    BY <1>14 DEF Place, Enough, InScan
  <2> QED BY <2>1, <2>2, <2>3, <2>4
<1>18. Ordered'
  BY <1>15, <1>17 DEF Ordered
<1>19. \A i \in Ids : /\ RenamedSources(i)' = RenamedSources(i)
                      /\ RenamedResults(i)' = RenamedResults(i)
                      /\ Committed(i)' = Committed(i)
  <2> SUFFICES ASSUME NEW i \in Ids
               PROVE  /\ RenamedSources(i)' = RenamedSources(i)
                      /\ RenamedResults(i)' = RenamedResults(i)
                      /\ Committed(i)' = Committed(i)
    OBVIOUS
  <2>1. /\ RenamedSources(i) = IF instr[i].scheduled THEN 1 .. Len(program[i].src) ELSE {}
        /\ RenamedResults(i) = IF Gone < i /\ i <= Newest /\ instr[i].scheduled
                               THEN 1 .. Len(program[i].dst) ELSE {}
        /\ Committed(i) = IF i > Gone THEN {} ELSE DOMAIN program[i].dst
    BY <1>1, <1>2, ViewsOutside DEF Renames
  <2>2. pc'.stage \notin Renames
    BY <1>14 DEF Renames
  <2>3. /\ RenamedSources(i)' = IF instr'[i].scheduled THEN 1 .. Len(program[i].src) ELSE {}
        /\ RenamedResults(i)' = IF Gone < i /\ i <= Newest /\ instr'[i].scheduled
                                THEN 1 .. Len(program[i].dst) ELSE {}
        /\ Committed(i)' = IF i > Gone THEN {} ELSE DOMAIN program[i].dst
    BY <1>16, <1>18, <2>2, ViewsOutsideAfter
  <2>4. instr'[i].scheduled = instr[i].scheduled
    BY <1>9
  <2> QED BY <2>1, <2>3, <2>4
<1>20. SameResults /\ SameSources
  BY <1>9, <1>16, <1>19 DEF SameResults, SameSources
<1>21. Operands' /\ Ownership' /\ Latest'
  BY <1>9, <1>13, <1>20, KeepOperands, KeepOwnership, KeepLatest DEF CoreInv
<1>22. Sources'
  BY <1>4, <1>9, <1>13, <1>16, <1>20, KeepSources DEF CoreInv
<1>23. \A p \in R : \E k \in RenamedResults(c) : instr[c].dst[k] = p
  <2>1. RenamedResults(c) = 1 .. Len(program[c].dst)
    BY <1>1, <1>2, <1>4, <1>5, ViewsOutside DEF Renames
  <2>2. DOMAIN instr[c].dst = RenamedResults(c)
    BY <1>2, <1>4, <2>1, OperandLengths
  <2> QED BY <2>2 DEF R, ToSet
<1>24. \A k \in RenamedResults(c) : instr[c].dst[k] \in R
  <2>1. RenamedResults(c) \subseteq DOMAIN program[c].dst
    BY <1>2, <1>4, ResultsApart
  <2>2. DOMAIN program[c].dst = DOMAIN instr[c].dst
    BY <1>2, <1>4, OperandLengths
  <2> QED BY <2>1, <2>2 DEF R, ToSet
<1>25. ASSUME NEW i \in Ids, NEW k \in RenamedResults(i)
       PROVE  regs'.file[instr'[i].dst[k]] = [arch |-> program[i].dst[k], producer |-> i,
                                             valid |-> instr'[i].completed]
  <2> DEFINE p == instr[i].dst[k]
  <2>1. p \in Phys
    BY DEF CoreInv, Ownership
  <2>2. regs.file[p] = [arch |-> program[i].dst[k], producer |-> i,
                        valid |-> instr[i].completed]
    BY DEF CoreInv, Contents
  <2>3. instr'[i].dst[k] = p
    BY <1>9
  <2>4. instr[i].completed \in BOOLEAN /\ instr'[i].completed \in BOOLEAN
    BY <1>10, InstrFields DEF InstrType, InstrState
  <2>5. CASE i = c
    <3>1. p \in R
      BY <1>24, <2>5
    <3>2. /\ file[p].arch = program[i].dst[k] /\ file[p].producer = i
          /\ file[p].valid = TRUE /\ file[p] \in Register
      BY <1>12, <2>1, <2>2, <3>1
    <3>3. file[p] = [arch |-> program[i].dst[k], producer |-> i, valid |-> TRUE]
      BY <3>2 DEF Register
    <3>4. instr'[i].completed = TRUE
      BY <1>9, <2>4, <2>5
    <3> QED BY <1>13, <2>3, <3>3, <3>4
  <2>6. CASE i # c
    <3>1. p \notin R
      BY <1>4, <1>23, <2>6 DEF CoreInv, Ownership
    <3>2. instr'[i].completed = instr[i].completed
      BY <1>9, <2>4, <2>6
    <3> QED BY <1>12, <1>13, <2>1, <2>2, <2>3, <3>1, <3>2
  <2> QED BY <2>5, <2>6
<1>26. ASSUME NEW a \in Arch, regs.back[a] # NoReg
       PROVE  file[regs.back[a]] = regs.file[regs.back[a]]
  <2>1. regs.back[a] \in Phys
    BY <1>26, FieldTypes
  <2>2. regs.back[a] \notin R
    BY <1>4, <1>23 DEF CoreInv, Ownership
  <2> QED BY <1>12, <2>1, <2>2
<1>27. Contents'
  <2>1. \A a, i, k : NewestCommitted(a, i, k)' <=> NewestCommitted(a, i, k)
    BY <1>20, KeepNewest
  <2>2. \A i \in Ids : \A k \in RenamedResults(i)' :
           regs'.file[instr'[i].dst[k]] = [arch |-> program'[i].dst[k], producer |-> i,
                                          valid |-> instr'[i].completed]
    BY <1>16, <1>19, <1>25
  <2>3. \A a \in Arch : regs'.back[a] # NoReg =>
           regs'.file[regs'.back[a]].arch = a /\ regs'.file[regs'.back[a]].valid
    BY <1>13, <1>26 DEF CoreInv, Contents
  <2>4. ASSUME NEW a \in Arch, NEW i \in Ids, NEW k \in Committed(i)',
               NewestCommitted(a, i, k)'
        PROVE  /\ regs'.back[a] # NoReg /\ regs'.back[a] = instr'[i].dst[k]
               /\ regs'.file[regs'.back[a]].producer = i
    <3>1. NewestCommitted(a, i, k) /\ k \in Committed(i)
      BY <1>19, <2>1, <2>4
    <3>2. /\ regs.back[a] # NoReg /\ regs.back[a] = instr[i].dst[k]
          /\ regs.file[regs.back[a]].producer = i
      BY <3>1 DEF CoreInv, Contents
    <3> QED BY <1>9, <1>13, <1>26, <3>2
  <2>5. \A a \in Arch :
           (\A i \in Ids : \A k \in Committed(i)' : program'[i].dst[k] # a)
           /\ regs'.back[a] # NoReg => regs'.file[regs'.back[a]].producer = 0
    <3>1. ASSUME NEW a \in Arch,
                 \A i \in Ids : \A k \in Committed(i)' : program'[i].dst[k] # a,
                 regs'.back[a] # NoReg
          PROVE  regs'.file[regs'.back[a]].producer = 0
      <4>1. \A i \in Ids : \A k \in Committed(i) : program[i].dst[k] # a
        BY <1>16, <1>19, <3>1
      <4>2. regs.file[regs.back[a]].producer = 0
        BY <1>13, <3>1, <4>1 DEF CoreInv, Contents
      <4> QED BY <1>13, <1>26, <3>1, <4>2
    <3> QED BY <3>1
  <2> QED BY <1>16, <2>2, <2>3, <2>4, <2>5 DEF Contents
<1>28. CoreInv'
  BY <1>17, <1>21, <1>22, <1>27 DEF CoreInv
<1> QED BY <1>15, <1>28

\* A register at the end of the free list is free from then on.
LEMMA AppendFree ==
    ASSUME NEW S, NEW q \in Seq(S), NEW x \in S,
           \A j \in DOMAIN q : q[j] # x,
           \A j \in DOMAIN q : \A h \in DOMAIN q : q[j] = q[h] => j = h
    PROVE  LET w == Append(q, x)
           IN  /\ w \in Seq(S)
               /\ \A j \in DOMAIN w : w[j] = x \/ \E h \in DOMAIN q : q[h] = w[j]
               /\ \A j \in DOMAIN w : \A h \in DOMAIN w : w[j] = w[h] => j = h
               /\ \A j \in DOMAIN q : \E h \in DOMAIN w : w[h] = q[j]
               /\ \E h \in DOMAIN w : w[h] = x
<1> DEFINE w == Append(q, x)
<1>1. /\ w \in Seq(S) /\ Len(q) \in Nat /\ DOMAIN q = 1 .. Len(q)
      /\ DOMAIN w = 1 .. Len(q) + 1
      /\ \A j \in 1 .. Len(q) : w[j] = q[j]
      /\ w[Len(q) + 1] = x
  OBVIOUS
<1> HIDE DEF w
<1>2. \A j \in DOMAIN w : j = Len(q) + 1 \/ j \in 1 .. Len(q)
  BY <1>1
<1>3. \A j \in DOMAIN w : w[j] = x \/ \E h \in DOMAIN q : q[h] = w[j]
  BY <1>1, <1>2
<1>4. \A j \in DOMAIN w : \A h \in DOMAIN w : w[j] = w[h] => j = h
  BY <1>1, <1>2
<1>5. \A j \in DOMAIN q : \E h \in DOMAIN w : w[h] = q[j]
  <2>1. \A j \in DOMAIN q : j \in DOMAIN w /\ w[j] = q[j]
    BY <1>1
  <2> QED BY <2>1
<1>6. \E h \in DOMAIN w : w[h] = x
  <2>1. Len(q) + 1 \in DOMAIN w
    BY <1>1
  <2> QED BY <1>1, <2>1
<1> QED BY <1>1, <1>3, <1>4, <1>5, <1>6 DEF w

\* RetireDestRegister: the committed result takes the place of the former
\* register in the committed map, and that one is freed.
LEMMA ReleaseRegs ==
    ASSUME Types, Ownership, NEW p \in Phys, RetireDestRegister(p),
           regs.file[p].arch \in Arch
    PROVE  LET a == regs.file[p].arch
               old == regs.back[a]
           IN  /\ regs' \in RegsType /\ regs'.front = regs.front
               /\ \A b \in Arch : regs'.back[b] = IF b = a THEN p ELSE regs.back[b]
               /\ \A q \in Phys : q # old => regs'.file[q] = regs.file[q]
               /\ \A j \in DOMAIN regs'.free :
                      \/ old # NoReg /\ regs'.free[j] = old
                      \/ \E h \in DOMAIN regs.free : regs.free[h] = regs'.free[j]
               /\ \A j \in DOMAIN regs'.free : \A h \in DOMAIN regs'.free :
                      regs'.free[j] = regs'.free[h] => j = h
               /\ \A j \in DOMAIN regs.free : \E h \in DOMAIN regs'.free :
                      regs'.free[h] = regs.free[j]
               /\ old # NoReg => \E h \in DOMAIN regs'.free : regs'.free[h] = old
<1> DEFINE a == regs.file[p].arch
           old == regs.back[a]
           w == Append(regs.free, old)
           back == [regs.back EXCEPT ![a] = p]
           file == [regs.file EXCEPT ![old] = NoRegister]
<1>1. /\ regs \in RegsType /\ regs.free \in Seq(Phys) /\ a \in Arch
      /\ regs.back \in [Arch -> Phys \cup {NoReg}] /\ regs.file \in [Phys -> Register]
  BY FieldTypes DEF Types
<1>2. regs' = IF old = NoReg THEN [regs EXCEPT !.back = back]
              ELSE [regs EXCEPT !.back = back, !.free = w, !.file = file]
  BY DEF RetireDestRegister
<1>3. back \in [Arch -> Phys \cup {NoReg}]
      /\ \A b \in Arch : back[b] = IF b = a THEN p ELSE regs.back[b]
  BY <1>1
<1>4. \A j \in DOMAIN regs.free : \A h \in DOMAIN regs.free :
          regs.free[j] = regs.free[h] => j = h
  BY DEF Ownership
<1>5. CASE old = NoReg
  <2> HIDE DEF back
  <2>1. regs' = [regs EXCEPT !.back = back]
    BY <1>2, <1>5
  <2>2. /\ regs' \in RegsType /\ regs'.back = back /\ regs'.free = regs.free
        /\ regs'.file = regs.file /\ regs'.front = regs.front
    BY <1>1, <1>3, <2>1 DEF RegsType
  <2> QED BY <1>3, <1>4, <1>5, <2>2
<1>6. CASE old # NoReg
  <2>1. old \in Phys
    BY <1>1, <1>6
  <2>2. \A j \in DOMAIN regs.free : regs.free[j] # old
    BY <1>1 DEF Ownership
  <2>3. NoRegister \in Register
    BY DEF NoRegister, Register
  <2>4. file \in [Phys -> Register] /\ \A q \in Phys : q # old => file[q] = regs.file[q]
    BY <1>1, <2>1, <2>3
  <2>5. /\ w \in Seq(Phys)
        /\ \A j \in DOMAIN w : w[j] = old \/ \E h \in DOMAIN regs.free : regs.free[h] = w[j]
        /\ \A j \in DOMAIN w : \A h \in DOMAIN w : w[j] = w[h] => j = h
        /\ \A j \in DOMAIN regs.free : \E h \in DOMAIN w : w[h] = regs.free[j]
        /\ \E h \in DOMAIN w : w[h] = old
    <3> HIDE DEF old
    <3> QED BY <1>1, <1>4, <2>1, <2>2, AppendFree
  <2>6. regs' = [regs EXCEPT !.back = back, !.free = w, !.file = file]
    BY <1>2, <1>6
  <2> HIDE DEF back, w, file, old
  <2>7. /\ regs' \in RegsType /\ regs'.back = back /\ regs'.free = w
        /\ regs'.file = file /\ regs'.front = regs.front
    BY <1>1, <1>3, <2>4, <2>5, <2>6 DEF RegsType
  <2>8. /\ \A q \in Phys : q # old => regs'.file[q] = regs.file[q]
        /\ \A b \in Arch : regs'.back[b] = IF b = a THEN p ELSE regs.back[b]
    BY <1>3, <2>4, <2>7
  <2>9. /\ \A j \in DOMAIN regs'.free :
               \/ old # NoReg /\ regs'.free[j] = old
               \/ \E h \in DOMAIN regs.free : regs.free[h] = regs'.free[j]
        /\ \A j \in DOMAIN regs'.free : \A h \in DOMAIN regs'.free :
               regs'.free[j] = regs'.free[h] => j = h
        /\ \A j \in DOMAIN regs.free : \E h \in DOMAIN regs'.free :
               regs'.free[h] = regs.free[j]
        /\ \E h \in DOMAIN regs'.free : regs'.free[h] = old
    BY <1>6, <2>5, <2>7
  <2> QED BY <2>7, <2>8, <2>9 DEF old
<1> QED BY <1>5, <1>6

\* retire: one result becomes the committed one of its register; the one it
\* replaces is not the source of anything still in flight, nor a result.
LEMMA ReleaseKeeps ==
    ASSUME Types, Sizes, CoreInv, Release
    PROVE  Types' /\ Sizes' /\ CoreInv'
<1> DEFINE g == Gone
           k == pc.k
           p == instr[g].dst[k]
           a == regs.file[p].arch
           old == regs.back[a]
<1>1. /\ pc.stage = "release" /\ k <= Len(instr[pc.i].dst)
      /\ RetireDestRegister(instr[pc.i].dst[k])
      /\ pc' = [pc EXCEPT !.k = @ + 1]
      /\ UNCHANGED <<program, now, pipe, instr, lsq, l1, net>>
  BY DEF Release
<1>2. Ordered /\ Ownership /\ Contents
  BY DEF Ordered, CoreInv
<1>3. /\ pc.i = g /\ g \in Ids /\ g \in Nat /\ k \in Nat /\ k > 0
      /\ Len(program[g].dst) \in Nat
      /\ Len(instr[g].dst) = Len(program[g].dst) /\ k <= Len(program[g].dst)
      /\ DOMAIN program[g].dst = 1 .. Len(program[g].dst)
  <2>1. pc.i = g /\ g \in Ids
    BY <1>1, <1>2 DEF Ordered, Place
  <2>2. /\ Len(program[g].dst) \in Nat /\ Len(instr[g].dst) = Len(program[g].dst)
        /\ g \in Nat /\ DOMAIN program[g].dst = 1 .. Len(program[g].dst)
    BY <1>2, <2>1, OperandLengths
  <2>3. k \in Nat /\ k > 0
    BY FieldTypes
  <2> QED BY <1>1, <2>1, <2>2, <2>3
<1>4. RenamedResults(g) = k .. Len(program[g].dst) /\ k \in RenamedResults(g)
      /\ k \in DOMAIN program[g].dst
  <2>1. RenamedResults(g) = ResultsAt(g)
    BY <1>2, <1>3, ViewsHold DEF Views
  <2>2. ResultsAt(g) = k .. Len(program[g].dst)
    BY <1>1 DEF ResultsAt
  <2> QED BY <1>3, <2>1, <2>2
<1>5. /\ regs.file[p] = [arch |-> program[g].dst[k], producer |-> g,
                         valid |-> instr[g].completed]
      /\ p \in Phys /\ instr[g].completed /\ Gone \in Nat
  <2>1. instr[g].completed
    <3>1. g <= Gone
      BY <1>3
    <3> QED BY <1>3, <3>1 DEF CoreInv, Progress
  <2>2. regs.file[p] = [arch |-> program[g].dst[k], producer |-> g,
                        valid |-> instr[g].completed]
    BY <1>2, <1>3, <1>4 DEF Contents
  <2>3. p \in Phys
    BY <1>2, <1>3, <1>4 DEF Ownership
  <2> QED BY <1>3, <2>1, <2>2, <2>3
<1>6. /\ a = program[g].dst[k] /\ a \in Arch /\ regs.file[p].producer = g
      /\ regs.file[p].valid
  <2>1. program[g].dst \in Seq(Arch)
    BY <1>3, ProgramType
  <2>2. program[g].dst[k] \in Arch
    BY <1>3, <2>1
  <2> QED BY <1>5, <2>2
<1>7. RetireDestRegister(p)
  BY <1>1, <1>3
<1>8. /\ regs' \in RegsType /\ regs'.front = regs.front
      /\ \A b \in Arch : regs'.back[b] = IF b = a THEN p ELSE regs.back[b]
      /\ \A q \in Phys : q # old => regs'.file[q] = regs.file[q]
      /\ \A j \in DOMAIN regs'.free :
             \/ old # NoReg /\ regs'.free[j] = old
             \/ \E h \in DOMAIN regs.free : regs.free[h] = regs'.free[j]
      /\ \A j \in DOMAIN regs'.free : \A h \in DOMAIN regs'.free :
             regs'.free[j] = regs'.free[h] => j = h
      /\ \A j \in DOMAIN regs.free : \E h \in DOMAIN regs'.free :
             regs'.free[h] = regs.free[j]
      /\ old # NoReg => \E h \in DOMAIN regs'.free : regs'.free[h] = old
  <2> HIDE DEF p
  <2> QED BY <1>2, <1>5, <1>6, <1>7, ReleaseRegs
<1>9. /\ pc' \in PcType /\ pc'.stage = "release" /\ pc'.i = g /\ pc'.k = k + 1
  BY <1>1, <1>3 DEF Types, PcType
<1>10. Types' /\ Sizes'
  BY <1>1, <1>8, <1>9, TypesFrom DEF Types, Sizes
<1>11. /\ Gone' = Gone /\ Newest' = Newest /\ Ids' = Ids
       /\ pipe' = pipe /\ program' = program /\ now' = now /\ instr' = instr
  BY <1>1, SamePipe DEF Ids
<1>12. Order' /\ Lengths' /\ Progress' /\ Place' /\ Enough'
  <2>1. Order'
    BY <1>11 DEF CoreInv, Order
  <2>2. Lengths'
    BY <1>11 DEF CoreInv, Lengths
  <2>3. Progress'
    BY <1>11 DEF CoreInv, Progress
  <2>4. Place'
    <3>1. k + 1 <= Len(program[g].dst) + 1
      BY <1>3
    <3> QED BY <1>3, <1>9, <1>11, <3>1 DEF Place, InScan
  <2>5. Enough'
    BY <1>9 DEF Enough
  <2> QED BY <2>1, <2>2, <2>3, <2>4, <2>5
<1>13. Ordered'
  BY <1>10, <1>12 DEF Ordered
<1>14. \A i \in Ids :
          /\ RenamedSources(i)' = RenamedSources(i)
          /\ RenamedResults(i)' = IF i = g THEN RenamedResults(i) \ {k} ELSE RenamedResults(i)
          /\ Committed(i)' = IF i = g THEN Committed(i) \cup {k} ELSE Committed(i)
  <2> SUFFICES ASSUME NEW i \in Ids
               PROVE  /\ RenamedSources(i)' = RenamedSources(i)
                      /\ RenamedResults(i)' = IF i = g THEN RenamedResults(i) \ {k}
                                              ELSE RenamedResults(i)
                      /\ Committed(i)' = IF i = g THEN Committed(i) \cup {k}
                                         ELSE Committed(i)
    OBVIOUS
  <2>1. RenamedSources(i) = SourcesAt(i) /\ RenamedResults(i) = ResultsAt(i)
    BY <1>2, ViewsHold DEF Views
  <2>2. RenamedSources(i)' = SourcesAt(i)' /\ RenamedResults(i)' = ResultsAt(i)'
    BY <1>11, <1>13, ViewsAfter DEF Views
  <2>3. SourcesAt(i)' = SourcesAt(i)
    BY <1>1, <1>9, <1>11 DEF SourcesAt
  <2>4. i # g => ResultsAt(i)' = ResultsAt(i)
    BY <1>1, <1>9, <1>11 DEF ResultsAt
  <2>5. i = g => ResultsAt(i)' = k + 1 .. Len(program[g].dst)
    BY <1>1, <1>9, <1>11 DEF ResultsAt
  <2>6. k + 1 .. Len(program[g].dst) = (k .. Len(program[g].dst)) \ {k}
    BY <1>3
  <2>7. i # g => Committed(i)' = Committed(i)
    BY <1>1, <1>3, <1>9, <1>11 DEF Committed
  <2>8. i = g => Committed(i) = 1 .. k - 1 /\ Committed(i)' = 1 .. (k + 1) - 1
    <3>1. ~(g > Gone)
      BY <1>3
    <3> QED BY <1>1, <1>3, <1>9, <1>11, <3>1 DEF Committed
  <2>9. 1 .. (k + 1) - 1 = (1 .. k - 1) \cup {k}
    BY <1>3
  <2> QED BY <1>4, <2>1, <2>2, <2>3, <2>4, <2>5, <2>6, <2>7, <2>8, <2>9
<1>15. \A i \in Ids : Renamed(i)' = Renamed(i)
  BY <1>4, <1>14 DEF Renamed
<1> HIDE DEF g, k, p, a, old
<1>16. \A i \in Ids : \A l \in RenamedResults(i) : instr[i].dst[l] # old
  BY <1>2, <1>6 DEF Ownership, old
<1>17. p # old /\ \A b \in Arch : p # regs.back[b]
  BY <1>2, <1>3, <1>4, <1>6 DEF Ownership, p, old
<1>18. \A b \in Arch : b # a /\ regs.back[b] # NoReg => regs.back[b] # old
  BY <1>2, <1>6 DEF Ownership, old
<1>19. \A j \in DOMAIN regs.free : regs.free[j] # p /\ regs.free[j] # old
  BY <1>2, <1>3, <1>4, <1>6 DEF Ownership, p, old
<1>20. \A i \in Ids : \A l \in RenamedResults(i)' : l \in RenamedResults(i) /\ instr[i].dst[l] # p
  <2> SUFFICES ASSUME NEW i \in Ids, NEW l \in RenamedResults(i)'
               PROVE  l \in RenamedResults(i) /\ instr[i].dst[l] # p
    OBVIOUS
  <2>1. l \in RenamedResults(i) /\ ~(i = g /\ l = k)
    BY <1>14
  <2> QED BY <1>2, <1>3, <1>4, <2>1 DEF Ownership, p
<1>21. \A i \in Ids : \A l \in RenamedResults(i) :
          l \in RenamedResults(i)' \/ instr[i].dst[l] = p
  BY <1>14 DEF p
<1>22. Ownership'
  <2>1. \A b \in Arch : \A d \in Arch :
           regs'.back[b] # NoReg /\ regs'.back[b] = regs'.back[d] => b = d
    BY <1>2, <1>8, <1>17 DEF Ownership
  <2>2. \A j \in DOMAIN regs'.free : \A b \in Arch : regs'.back[b] # regs'.free[j]
    <3> SUFFICES ASSUME NEW j \in DOMAIN regs'.free, NEW b \in Arch
                 PROVE  regs'.back[b] # regs'.free[j]
      OBVIOUS
    <3>1. CASE old # NoReg /\ regs'.free[j] = old
      BY <3>1, <1>8, <1>17, <1>18
    <3>2. CASE \E h \in DOMAIN regs.free : regs.free[h] = regs'.free[j]
      BY <3>2, <1>2, <1>8, <1>19 DEF Ownership
    <3> QED BY <3>1, <3>2, <1>8
  <2>3. ASSUME NEW i \in Ids, NEW l \in RenamedResults(i)'
        PROVE  /\ instr[i].dst[l] \in Phys
               /\ \A j \in DOMAIN regs'.free : instr[i].dst[l] # regs'.free[j]
               /\ \A b \in Arch : instr[i].dst[l] # regs'.back[b]
    <3>1. l \in RenamedResults(i) /\ instr[i].dst[l] # p /\ instr[i].dst[l] # old
      BY <1>16, <1>20
    <3>2. instr[i].dst[l] \in Phys /\ \A b \in Arch : instr[i].dst[l] # regs.back[b]
      BY <1>2, <3>1 DEF Ownership
    <3>3. \A j \in DOMAIN regs.free : instr[i].dst[l] # regs.free[j]
      BY <1>2, <3>1 DEF Ownership
    <3>4. \A j \in DOMAIN regs'.free : instr[i].dst[l] # regs'.free[j]
      BY <1>8, <3>1, <3>3
    <3> QED BY <1>8, <3>1, <3>2, <3>4
  <2>4. \A i \in Ids : \A l \in RenamedResults(i)' : \A h \in Ids : \A m \in RenamedResults(h)' :
           instr[i].dst[l] = instr[h].dst[m] => i = h /\ l = m
    BY <1>2, <1>20 DEF Ownership
  <2>5. ASSUME NEW q \in Phys
        PROVE  \/ \E j \in DOMAIN regs'.free : regs'.free[j] = q
               \/ \E b \in Arch : regs'.back[b] = q
               \/ \E i \in Ids : \E l \in RenamedResults(i)' : instr[i].dst[l] = q
    <3>1. CASE q = p
      BY <3>1, <1>6, <1>8
    <3>2. CASE \E j \in DOMAIN regs.free : regs.free[j] = q
      BY <3>2, <1>8
    <3>3. CASE \E b \in Arch : regs.back[b] = q
      <4>1. PICK b \in Arch : regs.back[b] = q
        BY <3>3
      <4>2. CASE b = a
        <5>1. q = old /\ old # NoReg
          BY <4>1, <4>2, PhysType DEF old
        <5> QED BY <5>1, <1>8
      <4>3. CASE b # a
        BY <4>1, <4>3, <1>8
      <4> QED BY <4>2, <4>3
    <3>4. CASE q # p /\ \E i \in Ids : \E l \in RenamedResults(i) : instr[i].dst[l] = q
      BY <3>4, <1>21
    <3> QED BY <3>1, <3>2, <3>3, <3>4, <1>2 DEF Ownership
  <2> QED BY <1>8, <1>11, <2>1, <2>2, <2>3, <2>4, <2>5 DEF Ownership
<1>23. \A b \in Arch : regs'.back[b] # NoReg => regs'.file[regs'.back[b]] = regs.file[regs'.back[b]]
  <2> SUFFICES ASSUME NEW b \in Arch, regs'.back[b] # NoReg
               PROVE  regs'.file[regs'.back[b]] = regs.file[regs'.back[b]]
    OBVIOUS
  <2>1. regs'.back[b] # old
    BY <1>8, <1>17, <1>18
  <2>2. regs'.back[b] \in Phys
    BY <1>8 DEF RegsType
  <2> QED BY <1>8, <2>1, <2>2
<1>24. \A h \in Ids : \A l \in Committed(h)' : h <= g /\ (h = g => l <= k)
  <2> SUFFICES ASSUME NEW h \in Ids, NEW l \in Committed(h)'
               PROVE  h <= g /\ (h = g => l <= k)
    OBVIOUS
  <2>1. h \in Nat
    BY ProgramType
  <2>2. CASE h = g
    <3>1. Committed(h)' = 1 .. (k + 1) - 1
      <4>1. ~(h > Gone)
        BY <1>3, <2>2 DEF g
      <4> QED BY <1>9, <1>11, <2>2, <4>1 DEF Committed
    <3> QED BY <1>3, <2>2, <3>1
  <2>3. CASE h # g
    <3>1. l \in Committed(h)
      BY <1>14, <2>3
    <3>2. ~(h > Gone)
      BY <3>1 DEF Committed
    <3> QED BY <1>3, <2>1, <2>3, <3>2 DEF g
  <2> QED BY <2>2, <2>3
<1>25. Contents'
  <2>1. ASSUME NEW i \in Ids, NEW l \in RenamedResults(i)'
        PROVE  regs'.file[instr[i].dst[l]] = [arch |-> program[i].dst[l], producer |-> i,
                                              valid |-> instr[i].completed]
    <3>1. l \in RenamedResults(i) /\ instr[i].dst[l] # old /\ instr[i].dst[l] \in Phys
      BY <1>2, <1>16, <1>20 DEF Ownership
    <3> QED BY <1>2, <1>8, <3>1 DEF Contents
  <2>2. ASSUME NEW b \in Arch, regs'.back[b] # NoReg
        PROVE  regs'.file[regs'.back[b]].arch = b /\ regs'.file[regs'.back[b]].valid
    <3>1. CASE b = a
      <4>1. regs'.back[b] = p /\ regs'.file[p] = regs.file[p]
        BY <1>8, <1>23, <2>2, <3>1
      <4> QED BY <1>6, <3>1, <4>1 DEF a
    <3>2. CASE b # a
      BY <1>2, <1>8, <1>23, <2>2, <3>2 DEF Contents
    <3> QED BY <3>1, <3>2
  <2>3. ASSUME NEW b \in Arch, NEW h \in Ids, NEW l \in Committed(h)',
               NewestCommitted(b, h, l)'
        PROVE  /\ regs'.back[b] # NoReg /\ regs'.back[b] = instr[h].dst[l]
               /\ regs'.file[regs'.back[b]].producer = h
    <3>0. /\ program[h].dst[l] = b
          /\ \A i \in Ids : \A m \in Committed(i)' :
                 program[i].dst[m] = b => i < h \/ (i = h /\ m <= l)
      BY <1>11, <2>3 DEF NewestCommitted
    <3>1. CASE b = a
      <4>1. \A i \in Ids : i = g => k \in Committed(i)' /\ program[i].dst[k] = b
        BY <1>3, <1>6, <1>14, <3>1
      <4>2. g < h \/ (g = h /\ k <= l)
        BY <1>3, <3>0, <4>1
      <4>3. h <= g /\ (h = g => l <= k)
        BY <1>24
      <4>4. h \in Nat /\ l \in Nat
        <5>1. h \in Nat
          BY ProgramType
        <5>2. l = k \/ l \in Committed(h)
          BY <1>14
        <5>3. Committed(h) \subseteq DOMAIN program[h].dst
          BY <1>2, ResultsApart
        <5>4. DOMAIN program[h].dst \subseteq Nat
          BY <1>2, OperandLengths
        <5> QED BY <1>3, <5>1, <5>2, <5>3, <5>4
      <4>5. h = g /\ l = k
        BY <1>3, <4>2, <4>3, <4>4
      <4>6. regs'.back[b] = p /\ p # NoReg
        BY <1>5, <1>8, <3>1, PhysType
      <4>7. regs'.file[p] = regs.file[p]
        BY <1>23, <4>6
      <4> QED BY <1>6, <4>5, <4>6, <4>7 DEF p
    <3>2. CASE b # a
      <4>1. ~(h = g /\ l = k)
        BY <1>6, <3>0, <3>2
      <4>2. l \in Committed(h) /\ \A i \in Ids : Committed(i) \subseteq Committed(i)'
        BY <1>14, <4>1
      <4>3. NewestCommitted(b, h, l)
        BY <3>0, <4>2 DEF NewestCommitted
      <4>4. /\ regs.back[b] # NoReg /\ regs.back[b] = instr[h].dst[l]
            /\ regs.file[regs.back[b]].producer = h
        BY <1>2, <4>2, <4>3 DEF Contents
      <4>5. regs'.back[b] = regs.back[b]
        BY <1>8, <3>2
      <4> QED BY <1>23, <4>4, <4>5
    <3> QED BY <3>1, <3>2
  <2>4. ASSUME NEW b \in Arch, regs'.back[b] # NoReg,
               \A i \in Ids : \A l \in Committed(i)' : program[i].dst[l] # b
        PROVE  regs'.file[regs'.back[b]].producer = 0
    <3>1. b # a
      BY <1>3, <1>6, <1>14, <2>4
    <3>2. \A i \in Ids : \A l \in Committed(i) : program[i].dst[l] # b
      BY <1>14, <2>4
    <3>3. regs'.back[b] = regs.back[b]
      BY <1>8, <3>1
    <3>4. regs.file[regs.back[b]].producer = 0
      BY <1>2, <2>4, <3>2, <3>3 DEF Contents
    <3> QED BY <1>23, <2>4, <3>3, <3>4
  <2> QED BY <1>11, <2>1, <2>2, <2>3, <2>4 DEF Contents
<1>26. Latest'
  <2>1. \A b, i, l : NewestRenamed(b, i, l)' <=> NewestRenamed(b, i, l)
    BY <1>11, <1>15 DEF NewestRenamed
  <2>2. \A b \in Arch : \A i \in Ids : \A l \in Renamed(i)' :
           /\ program[i].dst[l] = b => regs'.front[b] # NoReg
           /\ NewestRenamed(b, i, l)' => regs'.front[b] = instr[i].dst[l]
    BY <1>8, <1>15, <2>1 DEF CoreInv, Latest
  <2>3. ASSUME NEW b \in Arch, \A i \in Ids : \A l \in Renamed(i)' : program[i].dst[l] # b
        PROVE  regs'.front[b] = regs'.back[b]
    <3>1. \A i \in Ids : \A l \in Renamed(i) : program[i].dst[l] # b
      BY <1>15, <2>3
    <3>2. b # a
      BY <1>3, <1>4, <1>6, <3>1 DEF Renamed
    <3> QED BY <1>8, <3>1, <3>2 DEF CoreInv, Latest
  <2> QED BY <1>11, <2>2, <2>3 DEF Latest
<1>27. Sources'
  <2>1. \A i \in Ids : \A j \in RenamedSources(i)' : i > Gone' =>
            /\ \A h \in Ids : \A l \in DOMAIN program[h].dst :
                   NewestResult(program[i].src[j], i, h, l) =>
                       /\ instr'[i].src[j] = instr'[h].dst[l]
                       /\ instr'[i].executed => instr'[h].completed
            /\ (\A h \in Ids : \A l \in DOMAIN program[h].dst :
                    program[h].dst[l] = program[i].src[j] => h >= i) =>
                        regs'.back[program[i].src[j]] # NoReg
                        /\ instr'[i].src[j] = regs'.back[program[i].src[j]]
    <3> SUFFICES ASSUME NEW i \in Ids, NEW j \in RenamedSources(i), i > Gone
                 PROVE  /\ \A h \in Ids : \A l \in DOMAIN program[h].dst :
                               NewestResult(program[i].src[j], i, h, l) =>
                                   /\ instr[i].src[j] = instr[h].dst[l]
                                   /\ instr[i].executed => instr[h].completed
                        /\ (\A h \in Ids : \A l \in DOMAIN program[h].dst :
                                program[h].dst[l] = program[i].src[j] => h >= i) =>
                                    regs'.back[program[i].src[j]] # NoReg
                                    /\ instr[i].src[j] = regs'.back[program[i].src[j]]
      BY <1>11, <1>14
    <3>1. \A h \in Ids : \A l \in DOMAIN program[h].dst :
              NewestResult(program[i].src[j], i, h, l) =>
                  /\ instr[i].src[j] = instr[h].dst[l]
                  /\ instr[i].executed => instr[h].completed
      BY DEF CoreInv, Sources
    <3>2. ASSUME \A h \in Ids : \A l \in DOMAIN program[h].dst :
                     program[h].dst[l] = program[i].src[j] => h >= i
          PROVE  regs'.back[program[i].src[j]] # NoReg
                 /\ instr[i].src[j] = regs'.back[program[i].src[j]]
      <4>1. regs.back[program[i].src[j]] # NoReg
            /\ instr[i].src[j] = regs.back[program[i].src[j]]
        BY <3>2 DEF CoreInv, Sources
      <4>2. i \in Nat /\ ~(g >= i)
        BY <1>3, ProgramType DEF g
      <4>3. program[i].src[j] # a
        BY <1>3, <1>4, <1>6, <3>2, <4>2
      <4>4. program[i].src[j] \in Arch
        <5>1. j \in DOMAIN program[i].src
          BY <1>2, ResultsApart
        <5>2. program[i].src \in Seq(Arch)
          BY ProgramType
        <5> QED BY <5>1, <5>2
      <4> QED BY <1>8, <4>1, <4>3, <4>4
    <3> QED BY <3>1, <3>2
  <2> QED BY <1>11, <2>1, SourcesAfter
<1>28. Operands'
  <2>1. \A i \in Ids : RenamedResults(i)' \cup Committed(i)' = RenamedResults(i) \cup Committed(i)
    BY <1>15 DEF Renamed
  <2>2. \A i \in Ids : RenamedSources(i)' = RenamedSources(i)
    BY <1>14
  <2> QED BY <1>11, <2>1, <2>2 DEF CoreInv, Operands
<1>29. CoreInv'
  BY <1>12, <1>22, <1>25, <1>26, <1>27, <1>28 DEF CoreInv
<1> QED BY <1>10, <1>29

\* An operand list keeps its length when one operand is renamed.
LEMMA OperandSet ==
    ASSUME NEW q \in Seq(Nat), NEW j \in 1 .. Len(q), NEW p \in Nat
    PROVE  LET w == [q EXCEPT ![j] = p]
           IN  /\ w \in Seq(Nat) /\ Len(w) = Len(q) /\ DOMAIN w = DOMAIN q
               /\ \A m \in DOMAIN q : w[m] = IF m = j THEN p ELSE q[m]
  OBVIOUS

\* RenameSrcRegister changes one source of one instruction.
LEMMA SourceSet ==
    ASSUME Types, NEW c \in Ids, NEW j \in 1 .. Len(instr[c].src), NEW p \in Nat,
           instr' = [instr EXCEPT ![c].src[j] = p]
    PROVE  /\ instr' \in InstrType
           /\ \A i \in Ids :
                 /\ instr'[i].ready = instr[i].ready
                 /\ instr'[i].scheduled = instr[i].scheduled
                 /\ instr'[i].executed = instr[i].executed
                 /\ instr'[i].completed = instr[i].completed
                 /\ instr'[i].memDone = instr[i].memDone
                 /\ instr'[i].dst = instr[i].dst
                 /\ Len(instr'[i].src) = Len(instr[i].src)
                 /\ DOMAIN instr'[i].src = DOMAIN instr[i].src
                 /\ i # c => instr'[i].src = instr[i].src
                 /\ \A m \in DOMAIN instr[i].src :
                        instr'[i].src[m] = IF i = c /\ m = j THEN p ELSE instr[i].src[m]
<1> DEFINE v == [instr[c].src EXCEPT ![j] = p]
           e == [instr[c] EXCEPT !.src = v]
<1>1. instr[c] \in InstrState /\ instr[c].src \in Seq(Nat)
  BY InstrFields
<1>2. /\ v \in Seq(Nat) /\ Len(v) = Len(instr[c].src) /\ DOMAIN v = DOMAIN instr[c].src
      /\ \A m \in DOMAIN instr[c].src : v[m] = IF m = j THEN p ELSE instr[c].src[m]
  BY <1>1, OperandSet
<1>3. instr' = [instr EXCEPT ![c] = e]
  OBVIOUS
<1> HIDE DEF v
<1>4. /\ e \in InstrState /\ e.src = v /\ e.ready = instr[c].ready
      /\ e.scheduled = instr[c].scheduled /\ e.executed = instr[c].executed
      /\ e.completed = instr[c].completed /\ e.memDone = instr[c].memDone
      /\ e.dst = instr[c].dst
  BY <1>1, <1>2, SetSrc
<1> HIDE DEF e
<1>5. instr' \in InstrType
  BY <1>3, <1>4, InstrUpdate
<1>6. \A i \in Ids : instr'[i] = IF i = c THEN e ELSE instr[i]
  BY <1>3 DEF Types, InstrType
<1> QED BY <1>2, <1>4, <1>5, <1>6

\* RenameDestRegister changes one result of one instruction.
LEMMA ResultSet ==
    ASSUME Types, NEW c \in Ids, NEW j \in 1 .. Len(instr[c].dst), NEW p \in Nat,
           instr' = [instr EXCEPT ![c].dst[j] = p]
    PROVE  /\ instr' \in InstrType
           /\ \A i \in Ids :
                 /\ instr'[i].ready = instr[i].ready
                 /\ instr'[i].scheduled = instr[i].scheduled
                 /\ instr'[i].executed = instr[i].executed
                 /\ instr'[i].completed = instr[i].completed
                 /\ instr'[i].memDone = instr[i].memDone
                 /\ instr'[i].src = instr[i].src
                 /\ Len(instr'[i].dst) = Len(instr[i].dst)
                 /\ DOMAIN instr'[i].dst = DOMAIN instr[i].dst
                 /\ i # c => instr'[i].dst = instr[i].dst
                 /\ \A m \in DOMAIN instr[i].dst :
                        instr'[i].dst[m] = IF i = c /\ m = j THEN p ELSE instr[i].dst[m]
<1> DEFINE v == [instr[c].dst EXCEPT ![j] = p]
           e == [instr[c] EXCEPT !.dst = v]
<1>1. instr[c] \in InstrState /\ instr[c].dst \in Seq(Nat)
  BY InstrFields
<1>2. /\ v \in Seq(Nat) /\ Len(v) = Len(instr[c].dst) /\ DOMAIN v = DOMAIN instr[c].dst
      /\ \A m \in DOMAIN instr[c].dst : v[m] = IF m = j THEN p ELSE instr[c].dst[m]
  BY <1>1, OperandSet
<1>3. instr' = [instr EXCEPT ![c] = e]
  OBVIOUS
<1> HIDE DEF v
<1>4. /\ e \in InstrState /\ e.dst = v /\ e.ready = instr[c].ready
      /\ e.scheduled = instr[c].scheduled /\ e.executed = instr[c].executed
      /\ e.completed = instr[c].completed /\ e.memDone = instr[c].memDone
      /\ e.src = instr[c].src
  BY <1>1, <1>2, SetDst
<1> HIDE DEF e
<1>5. instr' \in InstrType
  BY <1>3, <1>4, InstrUpdate
<1>6. \A i \in Ids : instr'[i] = IF i = c THEN e ELSE instr[i]
  BY <1>3 DEF Types, InstrType
<1> QED BY <1>2, <1>4, <1>5, <1>6

\* A register that is taken from the free list is not free any more.
LEMMA HeadTaken ==
    ASSUME NEW S, NEW q \in Seq(S), Len(q) > 0,
           \A j \in DOMAIN q : \A h \in DOMAIN q : q[j] = q[h] => j = h
    PROVE  /\ Head(q) \in S /\ Tail(q) \in Seq(S) /\ Len(Tail(q)) = Len(q) - 1
           /\ \E j \in DOMAIN q : q[j] = Head(q)
           /\ \A j \in DOMAIN Tail(q) : Tail(q)[j] # Head(q)
           /\ \A j \in DOMAIN Tail(q) : \E h \in DOMAIN q : q[h] = Tail(q)[j]
           /\ \A j \in DOMAIN Tail(q) : \A h \in DOMAIN Tail(q) :
                  Tail(q)[j] = Tail(q)[h] => j = h
           /\ \A j \in DOMAIN q : q[j] = Head(q) \/ \E h \in DOMAIN Tail(q) : Tail(q)[h] = q[j]
<1> DEFINE w == Tail(q)
           n == Len(q)
<1>1. /\ n \in Nat /\ n > 0 /\ DOMAIN q = 1 .. n /\ Head(q) = q[1] /\ q[1] \in S
      /\ w \in Seq(S) /\ Len(w) = n - 1 /\ DOMAIN w = 1 .. n - 1
      /\ \A j \in 1 .. n - 1 : w[j] = q[j + 1]
  OBVIOUS
<1> HIDE DEF w, n
<1>2. 1 \in DOMAIN q
  BY <1>1
<1>3. \A j \in DOMAIN w : j + 1 \in DOMAIN q /\ w[j] = q[j + 1] /\ j + 1 # 1 /\ j \in Nat
  BY <1>1
<1>4. \A j \in DOMAIN w : w[j] # q[1]
  BY <1>2, <1>3
<1>5. \A j \in DOMAIN w : \A h \in DOMAIN w : w[j] = w[h] => j = h
  <2> SUFFICES ASSUME NEW j \in DOMAIN w, NEW h \in DOMAIN w, w[j] = w[h]
               PROVE  j = h
    OBVIOUS
  <2>1. j + 1 = h + 1
    BY <1>3
  <2> QED BY <2>1, <1>3
<1>6. \A j \in DOMAIN q : j = 1 \/ (j - 1 \in DOMAIN w /\ w[j - 1] = q[j])
  <2> SUFFICES ASSUME NEW j \in DOMAIN q, j # 1
               PROVE  j - 1 \in DOMAIN w /\ w[j - 1] = q[j]
    OBVIOUS
  <2>1. j - 1 \in 1 .. n - 1 /\ (j - 1) + 1 = j
    BY <1>1
  <2> QED BY <2>1, <1>1
<1>7. \A j \in DOMAIN q : q[j] = q[1] \/ \E h \in DOMAIN w : w[h] = q[j]
  BY <1>6
<1>8. \A j \in DOMAIN w : \E h \in DOMAIN q : q[h] = w[j]
  BY <1>3
<1> QED BY <1>1, <1>2, <1>4, <1>5, <1>7, <1>8 DEF w, n

\* While an instruction is renamed, all results before it are renamed or
\* committed, and none after it.
LEMMA RenamedInOrder ==
    ASSUME Types, CoreInv, InScan, NEW h \in Ids
    PROVE  /\ h < Gone + pc.k => Renamed(h) = DOMAIN program[h].dst
           /\ h > Gone + pc.k => Renamed(h) = {} /\ RenamedSources(h) = {}
           /\ h = Gone + pc.k =>
                 /\ Committed(h) = {}
                 /\ RenamedResults(h) = IF pc.stage = "sources" THEN {} ELSE 1 .. pc.i - 1
                 /\ RenamedSources(h) = IF pc.stage = "sources" THEN 1 .. pc.i - 1
                                        ELSE 1 .. Len(program[h].src)
           /\ h # Gone + pc.k => Committed(h) = IF h > Gone THEN {} ELSE DOMAIN program[h].dst
<1> DEFINE c == Gone + pc.k
<1>1. Ordered
  BY DEF Ordered, CoreInv
<1>2. /\ c \in Ids /\ Gone \in Nat /\ Newest \in Nat /\ Gone < c /\ c <= Newest
  BY <1>1, RenamingIs DEF InScan
<1>3. instr[c].scheduled /\ \A i \in Ids : i > c => ~instr[i].scheduled
  BY DEF CoreInv, Place
<1>4. RenamedSources(h) = SourcesAt(h) /\ RenamedResults(h) = ResultsAt(h)
  BY <1>1, ViewsHold DEF Views
<1>5. pc.stage # "release" /\ pc.stage \in {"sources", "results"}
  BY DEF InScan
<1>6. Committed(h) = IF h > Gone THEN {} ELSE DOMAIN program[h].dst
  BY <1>5 DEF Committed
<1>7. h \in Nat /\ c \in Nat
  BY <1>2, ProgramType
<1> HIDE DEF c
<1>8. SourcesAt(h) = IF pc.stage = "sources" /\ h = c THEN 1 .. pc.i - 1
                     ELSE IF instr[h].scheduled THEN 1 .. Len(program[h].src) ELSE {}
  BY DEF SourcesAt, c
<1>9. ResultsAt(h) = IF h = c THEN IF pc.stage = "sources" THEN {} ELSE 1 .. pc.i - 1
                     ELSE IF Gone < h /\ h <= Newest /\ instr[h].scheduled
                          THEN 1 .. Len(program[h].dst) ELSE {}
  BY <1>5 DEF ResultsAt, c
<1>10. CASE h < c
  <2>1. instr[h].scheduled
    BY <1>2, <1>3, <1>10 DEF CoreInv, Progress
  <2>2. h # c /\ ~(h > c) /\ h <= Newest
    BY <1>2, <1>7, <1>10
  <2>3. h > Gone => ResultsAt(h) = 1 .. Len(program[h].dst)
    BY <1>2, <1>7, <1>9, <2>1, <2>2
  <2>4. DOMAIN program[h].dst = 1 .. Len(program[h].dst)
    BY <1>1, OperandLengths
  <2>5. ~(h > Gone) => ResultsAt(h) = {}
    BY <1>2, <1>7, <1>9, <2>2
  <2>6. Renamed(h) = DOMAIN program[h].dst
    BY <1>4, <1>6, <2>3, <2>4, <2>5 DEF Renamed
  <2> QED BY <1>6, <2>2, <2>6 DEF c
<1>11. CASE h > c
  <2>1. ~instr[h].scheduled /\ h # c /\ ~(h < c) /\ h > Gone
    BY <1>2, <1>3, <1>7, <1>11
  <2> QED BY <1>4, <1>6, <1>8, <1>9, <2>1 DEF Renamed, c
<1>12. CASE h = c
  <2>1. ~(h < c) /\ ~(h > c) /\ h > Gone
    BY <1>2, <1>7, <1>12
  <2> QED BY <1>3, <1>4, <1>5, <1>6, <1>8, <1>9, <1>12, <2>1 DEF c
<1> QED BY <1>7, <1>10, <1>11, <1>12

\* What changes when a source takes register p for architectural register a.
SourceTaken(a, p) ==
    /\ regs' \in RegsType /\ p \in Phys /\ Len(regs'.free) = Len(regs.free) - 1
    /\ \E j \in DOMAIN regs.free : regs.free[j] = p
    /\ \A j \in DOMAIN regs'.free : regs'.free[j] # p
    /\ \A j \in DOMAIN regs'.free : \E h \in DOMAIN regs.free :
           regs.free[h] = regs'.free[j]
    /\ \A j \in DOMAIN regs'.free : \A h \in DOMAIN regs'.free :
           regs'.free[j] = regs'.free[h] => j = h
    /\ \A j \in DOMAIN regs.free :
           regs.free[j] = p \/ \E h \in DOMAIN regs'.free : regs'.free[h] = regs.free[j]
    /\ \A b \in Arch : regs'.front[b] = IF b = a THEN p ELSE regs.front[b]
    /\ \A b \in Arch : regs'.back[b] = IF b = a THEN p ELSE regs.back[b]
    /\ regs'.file[p] = [arch |-> a, producer |-> 0, valid |-> TRUE]
    /\ \A q \in Phys : q # p => regs'.file[q] = regs.file[q]

\* RenameSrcRegister, of a register never written before: it takes a free
\* register and enters it in both maps.
LEMMA TakeForSource ==
    ASSUME Types, Ownership, Len(regs.free) > 0, NEW c, NEW o, RenameSrcRegister(c, o),
           NEW a \in Arch, a = instr[c].src[o], regs.front[a] = NoReg,
           NEW p, p = Head(regs.free)
    PROVE  SourceTaken(a, p)
<1> DEFINE w == Tail(regs.free)
           front == [regs.front EXCEPT ![a] = p]
           back == [regs.back EXCEPT ![a] = p]
           file == [regs.file EXCEPT ![p] = [arch |-> a, producer |-> 0, valid |-> TRUE]]
           s == [regs EXCEPT !.free = w, !.front = front, !.back = back, !.file = file]
<1>1. /\ regs \in RegsType /\ regs.free \in Seq(Phys)
      /\ regs.front \in [Arch -> Phys \cup {NoReg}]
      /\ regs.back \in [Arch -> Phys \cup {NoReg}] /\ regs.file \in [Phys -> Register]
  BY FieldTypes DEF Types
<1>2. /\ p \in Phys /\ w \in Seq(Phys) /\ Len(w) = Len(regs.free) - 1
      /\ \E j \in DOMAIN regs.free : regs.free[j] = p
      /\ \A j \in DOMAIN w : w[j] # p
      /\ \A j \in DOMAIN w : \E h \in DOMAIN regs.free : regs.free[h] = w[j]
      /\ \A j \in DOMAIN w : \A h \in DOMAIN w : w[j] = w[h] => j = h
      /\ \A j \in DOMAIN regs.free :
             regs.free[j] = p \/ \E h \in DOMAIN w : w[h] = regs.free[j]
  <2>1. \A j \in DOMAIN regs.free : \A h \in DOMAIN regs.free :
            regs.free[j] = regs.free[h] => j = h
    BY DEF Ownership
  <2> QED BY <1>1, <2>1, HeadTaken
<1>3. regs' = s
  <2>1. regs' = [regs EXCEPT !.free = Tail(@), !.front[a] = p, !.back[a] = p,
                   !.file[p] = [arch |-> a, producer |-> 0, valid |-> TRUE]]
    BY Zenon DEF RenameSrcRegister
  <2> QED BY <2>1
<1>4. /\ front \in [Arch -> Phys \cup {NoReg}] /\ back \in [Arch -> Phys \cup {NoReg}]
      /\ \A b \in Arch : front[b] = IF b = a THEN p ELSE regs.front[b]
      /\ \A b \in Arch : back[b] = IF b = a THEN p ELSE regs.back[b]
  BY <1>1, <1>2
<1>5. [arch |-> a, producer |-> 0, valid |-> TRUE] \in Register
  <2>1. a \in 1 .. 255
    BY SizesAssumption
  <2>2. a \in 0 .. 255 /\ 0 \in {0} \cup Ids /\ TRUE \in BOOLEAN
    BY <2>1
  <2> QED BY <2>2 DEF Register
<1>6. /\ file \in [Phys -> Register]
      /\ file[p] = [arch |-> a, producer |-> 0, valid |-> TRUE]
      /\ \A q \in Phys : q # p => file[q] = regs.file[q]
  BY <1>1, <1>2, <1>5
<1> HIDE DEF w, front, back, file
<1>7. s \in RegsType /\ s.free = w /\ s.front = front /\ s.back = back /\ s.file = file
  BY <1>1, <1>2, <1>4, <1>6 DEF RegsType
<1> HIDE DEF s
<1> QED BY <1>2, <1>3, <1>4, <1>6, <1>7 DEF SourceTaken

\* The owners after a source took a free register: it is committed at once,
\* and nothing else moves.
LEMMA AllocSource ==
    ASSUME Types, Ownership, Contents, Latest, SameResults,
           \A i \in Ids : instr'[i].completed = instr[i].completed,
           NEW a \in Arch, regs.front[a] = NoReg, NEW p, SourceTaken(a, p)
    PROVE  /\ regs.back[a] = NoReg
           /\ \A i \in Ids : \A k \in Renamed(i) : program[i].dst[k] # a
           /\ Ownership' /\ Contents' /\ Latest'
<1>1. regs.back \in [Arch -> Phys \cup {NoReg}]
  BY FieldTypes
<1>2. /\ p \in Phys
      /\ \E j \in DOMAIN regs.free : regs.free[j] = p
      /\ \A j \in DOMAIN regs'.free : regs'.free[j] # p
      /\ \A j \in DOMAIN regs'.free : \E h \in DOMAIN regs.free :
             regs.free[h] = regs'.free[j]
      /\ \A j \in DOMAIN regs'.free : \A h \in DOMAIN regs'.free :
             regs'.free[j] = regs'.free[h] => j = h
      /\ \A j \in DOMAIN regs.free :
             regs.free[j] = p \/ \E h \in DOMAIN regs'.free : regs'.free[h] = regs.free[j]
  BY DEF SourceTaken
<1>4. /\ \A b \in Arch : regs'.front[b] = IF b = a THEN p ELSE regs.front[b]
      /\ \A b \in Arch : regs'.back[b] = IF b = a THEN p ELSE regs.back[b]
  BY DEF SourceTaken
<1>6. /\ regs'.file[p] = [arch |-> a, producer |-> 0, valid |-> TRUE]
      /\ \A q \in Phys : q # p => regs'.file[q] = regs.file[q]
  BY DEF SourceTaken
<1>8. \A i \in Ids : \A k \in Renamed(i) : program[i].dst[k] # a
  BY DEF Latest
<1>9. regs.back[a] = NoReg
  BY <1>8 DEF Latest
<1>10. /\ \A b \in Arch : regs.back[b] # p
       /\ \A i \in Ids : \A k \in RenamedResults(i) : instr[i].dst[k] # p
  BY <1>2 DEF Ownership
<1>11. /\ program' = program /\ Ids' = Ids
       /\ \A i \in Ids : /\ RenamedResults(i)' = RenamedResults(i)
                         /\ Committed(i)' = Committed(i) /\ Renamed(i)' = Renamed(i)
                         /\ instr'[i].dst = instr[i].dst
  BY KeepNewest DEF SameResults, Ids
<1>12. p # NoReg
  BY <1>2, PhysType
<1>13. Ownership'
  <2>1. \A b \in Arch : \A d \in Arch :
            regs'.back[b] # NoReg /\ regs'.back[b] = regs'.back[d] => b = d
    BY <1>4, <1>10 DEF Ownership
  <2>2. \A j \in DOMAIN regs'.free : \A b \in Arch : regs'.back[b] # regs'.free[j]
    BY <1>2, <1>4 DEF Ownership
  <2>3. ASSUME NEW i \in Ids, NEW k \in RenamedResults(i)
        PROVE  /\ instr[i].dst[k] \in Phys
               /\ \A j \in DOMAIN regs'.free : instr[i].dst[k] # regs'.free[j]
               /\ \A b \in Arch : instr[i].dst[k] # regs'.back[b]
    <3>1. /\ instr[i].dst[k] \in Phys /\ instr[i].dst[k] # p
          /\ \A j \in DOMAIN regs.free : instr[i].dst[k] # regs.free[j]
          /\ \A b \in Arch : instr[i].dst[k] # regs.back[b]
      BY <1>10 DEF Ownership
    <3> QED BY <1>2, <1>4, <3>1
  <2>4. ASSUME NEW q \in Phys
        PROVE  \/ \E j \in DOMAIN regs'.free : regs'.free[j] = q
               \/ \E b \in Arch : regs'.back[b] = q
               \/ \E i \in Ids : \E k \in RenamedResults(i) : instr[i].dst[k] = q
    <3>1. CASE q = p
      BY <3>1, <1>4
    <3>2. CASE q # p /\ \E j \in DOMAIN regs.free : regs.free[j] = q
      BY <3>2, <1>2
    <3>3. CASE \E b \in Arch : regs.back[b] = q
      <4>1. PICK b \in Arch : regs.back[b] = q
        BY <3>3
      <4>2. b # a
        BY <1>9, <4>1, PhysType
      <4> QED BY <1>4, <4>1, <4>2
    <3> QED BY <3>1, <3>2, <3>3 DEF Ownership
  <2>5. \A i \in Ids : \A k \in RenamedResults(i) : \A h \in Ids : \A l \in RenamedResults(h) :
            instr[i].dst[k] = instr[h].dst[l] => i = h /\ k = l
    BY DEF Ownership
  <2> QED BY <1>2, <1>11, <2>1, <2>2, <2>3, <2>4, <2>5 DEF Ownership
<1>14. \A b \in Arch : b # a /\ regs.back[b] # NoReg =>
           regs'.back[b] = regs.back[b] /\ regs'.file[regs'.back[b]] = regs.file[regs.back[b]]
  BY <1>1, <1>4, <1>6, <1>10
<1>15. Contents'
  <2>1. ASSUME NEW i \in Ids, NEW k \in RenamedResults(i)
        PROVE  regs'.file[instr[i].dst[k]] = [arch |-> program[i].dst[k], producer |-> i,
                                        valid |-> instr'[i].completed]
    <3>1. instr[i].dst[k] \in Phys /\ instr[i].dst[k] # p
      BY <1>10 DEF Ownership
    <3>2. regs.file[instr[i].dst[k]] = [arch |-> program[i].dst[k], producer |-> i,
                                        valid |-> instr[i].completed]
      BY DEF Contents
    <3> QED BY <1>6, <3>1, <3>2
  <2>2. ASSUME NEW b \in Arch, regs'.back[b] # NoReg
        PROVE  regs'.file[regs'.back[b]].arch = b /\ regs'.file[regs'.back[b]].valid
    <3>1. CASE b = a
      BY <1>4, <1>6, <3>1
    <3>2. CASE b # a
      <4>1. regs.back[b] # NoReg
        BY <1>4, <2>2, <3>2
      <4>2. regs.file[regs.back[b]].arch = b /\ regs.file[regs.back[b]].valid
        BY <4>1 DEF Contents
      <4> QED BY <1>14, <3>2, <4>1, <4>2
    <3> QED BY <3>1, <3>2
  <2>3. ASSUME NEW b \in Arch, NEW i \in Ids, NEW k \in Committed(i),
               NewestCommitted(b, i, k)
        PROVE  /\ regs'.back[b] # NoReg /\ regs'.back[b] = instr[i].dst[k]
               /\ regs'.file[regs'.back[b]].producer = i
    <3>1. b # a
      BY <1>8, <2>3 DEF NewestCommitted, Renamed
    <3>2. /\ regs.back[b] # NoReg /\ regs.back[b] = instr[i].dst[k]
          /\ regs.file[regs.back[b]].producer = i
      BY <2>3 DEF Contents
    <3> QED BY <1>14, <3>1, <3>2
  <2>4. ASSUME NEW b \in Arch, regs'.back[b] # NoReg,
               \A i \in Ids : \A k \in Committed(i) : program[i].dst[k] # b
        PROVE  regs'.file[regs'.back[b]].producer = 0
    <3>1. CASE b = a
      BY <1>4, <1>6, <3>1
    <3>2. CASE b # a
      <4>1. regs.back[b] # NoReg
        BY <1>4, <2>4, <3>2
      <4>2. regs.file[regs.back[b]].producer = 0
        BY <2>4, <4>1 DEF Contents
      <4> QED BY <1>14, <3>2, <4>1, <4>2
    <3> QED BY <3>1, <3>2
  <2>5. \A b, i, k : NewestCommitted(b, i, k)' <=> NewestCommitted(b, i, k)
    BY KeepNewest
  <2>6. \A i \in Ids : \A k \in RenamedResults(i)' :
            regs'.file[instr'[i].dst[k]] = [arch |-> program'[i].dst[k], producer |-> i,
                                           valid |-> instr'[i].completed]
    BY <1>11, <2>1
  <2>7. \A b \in Arch : \A i \in Ids : \A k \in Committed(i)' :
            NewestCommitted(b, i, k)' =>
                /\ regs'.back[b] # NoReg /\ regs'.back[b] = instr'[i].dst[k]
                /\ regs'.file[regs'.back[b]].producer = i
    BY <1>11, <2>3, <2>5
  <2>8. \A b \in Arch :
            (\A i \in Ids : \A k \in Committed(i)' : program'[i].dst[k] # b)
            /\ regs'.back[b] # NoReg => regs'.file[regs'.back[b]].producer = 0
    BY <1>11, <2>4
  <2>9. \A b \in Arch : regs'.back[b] # NoReg =>
            regs'.file[regs'.back[b]].arch = b /\ regs'.file[regs'.back[b]].valid
    BY <2>2
  <2> QED BY <1>11, <2>6, <2>7, <2>8, <2>9 DEF Contents
<1>16. Latest'
  <2>1. \A b, i, k : NewestRenamed(b, i, k)' <=> NewestRenamed(b, i, k)
    BY KeepNewest
  <2>2. \A b \in Arch : \A i \in Ids : \A k \in Renamed(i) :
            program[i].dst[k] = b => regs'.front[b] = regs.front[b] /\ regs.front[b] # NoReg
    BY <1>4, <1>8 DEF Latest
  <2>3. \A b \in Arch : \A i \in Ids : \A k \in Renamed(i) :
            NewestRenamed(b, i, k) => regs'.front[b] = instr[i].dst[k]
    <3>1. \A b \in Arch : \A i \in Ids : \A k \in Renamed(i) :
              NewestRenamed(b, i, k) => regs.front[b] = instr[i].dst[k]
      BY DEF Latest
    <3>2. \A b \in Arch : \A i \in Ids : \A k \in Renamed(i) :
              NewestRenamed(b, i, k) => regs'.front[b] = regs.front[b]
      BY <2>2 DEF NewestRenamed
    <3> QED BY <3>1, <3>2
  <2>4. \A b \in Arch :
            (\A i \in Ids : \A k \in Renamed(i) : program[i].dst[k] # b) =>
                 regs'.front[b] = regs'.back[b]
    BY <1>4 DEF Latest
  <2> QED BY <1>11, <2>1, <2>2, <2>3, <2>4 DEF Latest
<1> QED BY <1>2, <1>4, <1>8, <1>9, <1>13, <1>15, <1>16

\* A step of the loops over the operands renames one of them and leaves the
\* pipeline alone.
LEMMA RenameStep ==
    ASSUME Types, Sizes, CoreInv, InScan, NEW c, c = Gone + pc.k,
           pc' = [pc EXCEPT !.i = @ + 1],
           UNCHANGED <<program, now, pipe, lsq, l1, net>>,
           instr' \in InstrType, regs' \in RegsType,
           \A i \in Ids : /\ instr'[i].ready = instr[i].ready
                          /\ instr'[i].scheduled = instr[i].scheduled
                          /\ instr'[i].executed = instr[i].executed
                          /\ instr'[i].completed = instr[i].completed
                          /\ instr'[i].memDone = instr[i].memDone
                          /\ Len(instr'[i].src) = Len(instr[i].src)
                          /\ Len(instr'[i].dst) = Len(instr[i].dst),
           pc.stage = "sources" => pc.i <= Len(program[c].src),
           pc.stage = "results" => pc.i <= Len(program[c].dst)
    PROVE  /\ Types' /\ Sizes' /\ Order' /\ Lengths' /\ Progress' /\ Place'
           /\ Gone' = Gone /\ Newest' = Newest /\ Ids' = Ids /\ Gone' + pc'.k = c
           /\ pc'.stage = pc.stage /\ pc'.i = pc.i + 1
           /\ \A i \in Ids :
                 /\ Committed(i)' = Committed(i)
                 /\ RenamedSources(i)' = IF pc.stage = "sources" /\ i = c
                                         THEN RenamedSources(i) \cup {pc.i}
                                         ELSE RenamedSources(i)
                 /\ RenamedResults(i)' = IF pc.stage = "results" /\ i = c
                                         THEN RenamedResults(i) \cup {pc.i}
                                         ELSE RenamedResults(i)
<1>1. Ordered
  BY DEF Ordered, CoreInv
<1>2. /\ c \in Ids /\ Gone \in Nat /\ Newest \in Nat /\ Gone < c /\ c <= Newest
  BY <1>1, RenamingIs DEF InScan
<1>3. /\ pc.k <= Len(pipe.rob) /\ pc.i >= 1 /\ instr[c].scheduled /\ ~instr[c].executed
      /\ \A i \in Ids : i > c => ~instr[i].scheduled
  BY DEF CoreInv, Place
<1>4. pc.i \in Nat /\ pc.i >= 1 /\ pc.stage \in {"sources", "results"}
  BY <1>3, FieldTypes DEF InScan
<1>5. pc' \in PcType /\ pc'.stage = pc.stage /\ pc'.i = pc.i + 1 /\ pc'.k = pc.k
  <2>1. pc \in PcType /\ pc.i + 1 \in Nat
    BY <1>4 DEF Types
  <2> QED BY <2>1 DEF PcType
<1>6. Gone' = Gone /\ Newest' = Newest /\ Ids' = Ids
  BY SamePipe DEF Ids
<1>7. Gone' + pc'.k = c
  BY <1>5, <1>6
<1>8. program' = program /\ pipe' = pipe /\ now' = now
  OBVIOUS
<1>9. Types' /\ Sizes'
  BY <1>5, TypesFrom DEF Types, Sizes
<1>10. Order' /\ Lengths'
  BY <1>6, <1>8 DEF CoreInv, Order, Lengths
<1>11. Progress'
  BY <1>6, <1>8 DEF CoreInv, Progress
<1>12. Place'
  <2>1. /\ pc'.stage # "release" /\ pc'.stage # "access"
    BY <1>4, <1>5
  <2>2. /\ Len(program[c].src) \in Nat /\ Len(program[c].dst) \in Nat
    BY <1>1, <1>2, OperandLengths
  <2>3. /\ pc.i + 1 >= 1
        /\ pc.stage = "sources" => pc.i + 1 <= Len(program[c].src) + 1
        /\ pc.stage = "results" => pc.i + 1 <= Len(program[c].dst) + 1
    BY <1>4, <2>2
  <2>4. /\ pc'.k <= Len(pipe'.rob) /\ pc'.i >= 1
        /\ instr'[Gone' + pc'.k].scheduled /\ ~instr'[Gone' + pc'.k].executed
        /\ \A i \in Ids' : i > Gone' + pc'.k => ~instr'[i].scheduled
    BY <1>2, <1>3, <1>5, <1>6, <1>7, <1>8, <2>3
  <2>5. /\ pc'.stage = "sources" => pc'.i <= Len(program'[Gone' + pc'.k].src) + 1
        /\ pc'.stage = "results" => pc'.i <= Len(program'[Gone' + pc'.k].dst) + 1
    BY <1>5, <1>7, <1>8, <2>3
  <2> QED BY <2>1, <2>4, <2>5 DEF Place, InScan
<1>13. Ordered'
  BY <1>9, <1>10, <1>12 DEF Ordered
<1>14. ASSUME NEW i \in Ids
       PROVE  /\ Committed(i)' = Committed(i)
              /\ RenamedSources(i)' = IF pc.stage = "sources" /\ i = c
                                      THEN RenamedSources(i) \cup {pc.i}
                                      ELSE RenamedSources(i)
              /\ RenamedResults(i)' = IF pc.stage = "results" /\ i = c
                                      THEN RenamedResults(i) \cup {pc.i}
                                      ELSE RenamedResults(i)
  <2>1. /\ RenamedSources(i)' = SourcesAt(i)' /\ RenamedResults(i)' = ResultsAt(i)'
        /\ RenamedSources(i) = SourcesAt(i) /\ RenamedResults(i) = ResultsAt(i)
    BY <1>1, <1>6, <1>13, ViewsHold, ViewsAfter DEF Views
  <2>2. 1 .. (pc.i + 1) - 1 = (1 .. pc.i - 1) \cup {pc.i}
    BY <1>4
  <2>3. /\ SourcesAt(i) = IF pc.stage = "sources" /\ i = c THEN 1 .. pc.i - 1
                          ELSE IF instr[i].scheduled THEN 1 .. Len(program[i].src) ELSE {}
        /\ SourcesAt(i)' = IF pc.stage = "sources" /\ i = c THEN 1 .. (pc.i + 1) - 1
                           ELSE IF instr[i].scheduled THEN 1 .. Len(program[i].src) ELSE {}
    BY <1>5, <1>7, <1>8 DEF SourcesAt
  <2>4. pc.stage # "release" /\ pc'.stage # "release"
    BY <1>4, <1>5
  <2>5. ResultsAt(i) = IF pc.stage = "sources" /\ i = c THEN {}
                       ELSE IF pc.stage = "results" /\ i = c THEN 1 .. pc.i - 1
                       ELSE IF Gone < i /\ i <= Newest /\ instr[i].scheduled
                            THEN 1 .. Len(program[i].dst) ELSE {}
    BY <2>4 DEF ResultsAt
  <2>6. ResultsAt(i)' = IF pc.stage = "sources" /\ i = c THEN {}
                        ELSE IF pc.stage = "results" /\ i = c THEN 1 .. (pc.i + 1) - 1
                        ELSE IF Gone < i /\ i <= Newest /\ instr[i].scheduled
                             THEN 1 .. Len(program[i].dst) ELSE {}
    BY <1>5, <1>6, <1>7, <1>8, <2>4 DEF ResultsAt
  <2>7. Committed(i)' = Committed(i)
    BY <1>6, <1>8, <2>4 DEF Committed
  <2>8. RenamedSources(i)' = IF pc.stage = "sources" /\ i = c
                             THEN RenamedSources(i) \cup {pc.i} ELSE RenamedSources(i)
    BY <2>1, <2>2, <2>3
  <2>9. RenamedResults(i)' = IF pc.stage = "results" /\ i = c
                             THEN RenamedResults(i) \cup {pc.i} ELSE RenamedResults(i)
    BY <2>1, <2>2, <2>5, <2>6
  <2> QED BY <2>7, <2>8, <2>9
<1> QED BY <1>5, <1>6, <1>7, <1>9, <1>10, <1>11, <1>12, <1>14

\* The front map names the last writer before the instruction that is being
\* renamed, or agrees with the committed map.
LEMMA FrontIsNewest ==
    ASSUME Types, CoreInv, pc.stage = "sources", NEW c, c = Gone + pc.k, NEW a \in Arch
    PROVE  /\ \A h \in Ids : \A l \in DOMAIN program[h].dst :
                  NewestResult(a, c, h, l) =>
                      regs.front[a] # NoReg /\ regs.front[a] = instr[h].dst[l]
           /\ (\A h \in Ids : \A l \in DOMAIN program[h].dst :
                   program[h].dst[l] = a => h >= c) => regs.front[a] = regs.back[a]
<1>1. Ordered /\ InScan
  BY DEF Ordered, CoreInv, InScan
<1>2. c \in Ids /\ Ids \subseteq Nat
  BY <1>1, RenamingIs, ProgramType DEF InScan
<1>3. \A h \in Ids : /\ h < c => Renamed(h) = DOMAIN program[h].dst
                     /\ h > c => Renamed(h) = {}
                     /\ h = c => Renamed(h) = {}
  <2> SUFFICES ASSUME NEW h \in Ids
               PROVE  /\ h < c => Renamed(h) = DOMAIN program[h].dst
                      /\ h > c => Renamed(h) = {}
                      /\ h = c => Renamed(h) = {}
    OBVIOUS
  <2>1. /\ h < c => Renamed(h) = DOMAIN program[h].dst
        /\ h > c => Renamed(h) = {}
        /\ h = c => Committed(h) = {} /\ RenamedResults(h) = {}
    BY <1>1, RenamedInOrder
  <2> QED BY <2>1 DEF Renamed
<1>4. \A h \in Ids : h < c \/ h > c \/ h = c
  BY <1>2
<1>5. ASSUME NEW h \in Ids, NEW l \in DOMAIN program[h].dst, NewestResult(a, c, h, l)
      PROVE  regs.front[a] # NoReg /\ regs.front[a] = instr[h].dst[l]
  <2>1. h < c /\ program[h].dst[l] = a
        /\ \A i \in Ids : \A k \in DOMAIN program[i].dst :
               program[i].dst[k] = a /\ i < c => i < h \/ (i = h /\ k <= l)
    BY <1>5 DEF NewestResult
  <2>2. l \in Renamed(h)
    BY <1>3, <2>1
  <2>3. \A i \in Ids : \A k \in Renamed(i) : i < c /\ k \in DOMAIN program[i].dst
    BY <1>3, <1>4
  <2>4. NewestRenamed(a, h, l)
    BY <2>1, <2>2, <2>3 DEF NewestRenamed
  <2> QED BY <2>1, <2>2, <2>4 DEF CoreInv, Latest
<1>6. ASSUME \A h \in Ids : \A l \in DOMAIN program[h].dst :
                 program[h].dst[l] = a => h >= c
      PROVE  regs.front[a] = regs.back[a]
  <2>1. \A h \in Ids : h < c => ~(h >= c)
    BY <1>2
  <2>2. \A i \in Ids : \A k \in Renamed(i) : program[i].dst[k] # a
    BY <1>3, <1>4, <1>6, <2>1
  <2> QED BY <2>2 DEF CoreInv, Latest
<1> QED BY <1>5, <1>6

\* The test before an instruction is renamed counts its unmapped sources, so
\* that one which is still to come finds a free register.
LEMMA NeededForNext ==
    ASSUME Ordered, NEW c \in Ids, NEW j \in DOMAIN instr[c].src, Unmapped(instr[c].src[j]),
           Len(regs.free) >= Cardinality(NeededFor(c, j)) + Len(program[c].dst)
    PROVE  Len(regs.free) > 0
<1> DEFINE N == NeededFor(c, j)
<1>1. IsFiniteSet(N) /\ Cardinality(N) \in Nat
  BY NeededIsFinite
<1>2. j \in Nat
  <2>1. DOMAIN instr[c].src = 1 .. Len(program[c].src)
    BY OperandLengths
  <2> QED BY <2>1
<1>3. j \in N
  BY <1>2 DEF NeededFor
<1>4. Cardinality(N) # 0
  BY <1>1, <1>3, FS_EmptySet
<1>5. Len(regs.free) \in Nat /\ Len(program[c].dst) \in Nat
  <2>1. Len(regs.free) \in Nat
    BY FieldTypes DEF Ordered
  <2> QED BY <2>1, OperandLengths
<1>6. Len(regs.free) >= Cardinality(N) + Len(program[c].dst)
  OBVIOUS
<1> HIDE DEF N
<1> QED BY <1>1, <1>4, <1>5, <1>6

\* RenameSrcRegister: a source that is mapped moves nothing, another takes a
\* free register, so that the owners stay apart.
LEMMA SourceRegs ==
    ASSUME Types, CoreInv, SameResults, NEW c \in Ids, NEW o \in DOMAIN instr[c].src,
           RenameSrcRegister(c, o), NEW a \in Arch, a = instr[c].src[o],
           \A i \in Ids : instr'[i].completed = instr[i].completed,
           regs.front[a] = NoReg => Len(regs.free) > 0,
           NEW p, p = IF regs.front[a] = NoReg THEN Head(regs.free) ELSE regs.front[a]
    PROVE  /\ p \in Phys /\ regs' \in RegsType
           /\ \A b \in Arch : regs.back[b] # NoReg => regs'.back[b] = regs.back[b]
           /\ \A b \in Arch : regs.front[b] # NoReg => regs'.front[b] # NoReg
           /\ regs.front[a] # NoReg => regs' = regs
           /\ regs.front[a] = NoReg => /\ regs'.back[a] = p
                                       /\ Len(regs'.free) = Len(regs.free) - 1
           /\ Ownership' /\ Contents' /\ Latest'
<1>1. CASE regs.front[a] # NoReg
  <2>1. regs' = regs
    BY <1>1, Zenon DEF RenameSrcRegister
  <2>2. p = regs.front[a] /\ p \in Phys
    BY <1>1, FieldTypes
  <2>3. regs \in RegsType
    BY DEF Types
  <2>4. Ownership' /\ Contents' /\ Latest'
    BY <2>1, KeepOwnership, KeepContents, KeepLatest DEF CoreInv
  <2> QED BY <1>1, <2>1, <2>2, <2>3, <2>4
<1>2. CASE regs.front[a] = NoReg
  <2>0. p = Head(regs.free) /\ Ownership /\ Contents /\ Latest
    BY <1>2 DEF CoreInv
  <2>1. SourceTaken(a, p)
    BY <1>2, <2>0, TakeForSource
  <2>2. /\ regs.back[a] = NoReg
        /\ \A i \in Ids : \A k \in Renamed(i) : program[i].dst[k] # a
        /\ Ownership' /\ Contents' /\ Latest'
    BY <1>2, <2>0, <2>1, AllocSource
  <2>3. p # NoReg /\ p \in Phys
    BY <2>1, PhysType DEF SourceTaken
  <2>4. /\ \A b \in Arch : regs.back[b] # NoReg => regs'.back[b] = regs.back[b]
        /\ \A b \in Arch : regs.front[b] # NoReg => regs'.front[b] # NoReg
        /\ regs'.back[a] = p /\ Len(regs'.free) = Len(regs.free) - 1
        /\ regs' \in RegsType
    BY <2>1, <2>2, <2>3 DEF SourceTaken
  <2> QED BY <1>2, <2>2, <2>3, <2>4
<1> QED BY <1>1, <1>2

\* The sources that still need a register after one of them is renamed.
LEMMA NeededShrinks ==
    ASSUME Types, CoreInv, pc.stage = "sources", NEW c, c = Gone + pc.k,
           pc.i <= Len(program[c].src), Gone' + pc'.k = c, pc'.i = pc.i + 1,
           pc'.stage = "sources", program' = program,
           Len(regs'.free) \in Nat,
           DOMAIN instr'[c].src = DOMAIN instr[c].src,
           \A m \in DOMAIN instr[c].src : m # pc.i => instr'[c].src[m] = instr[c].src[m],
           \A b \in Arch : regs.front[b] # NoReg => regs'.front[b] # NoReg,
           IF Unmapped(instr[c].src[pc.i]) THEN Len(regs'.free) = Len(regs.free) - 1
           ELSE Len(regs'.free) = Len(regs.free)
    PROVE  Enough'
<1> DEFINE N == NeededFor(c, pc.i)
           M == {m \in DOMAIN instr'[c].src :
                    m >= pc.i + 1 /\ (instr'[c].src[m] \notin Arch
                                      \/ regs'.front[instr'[c].src[m]] = NoReg)}
           j == pc.i
<1>1. Ordered /\ InScan
  BY DEF Ordered, CoreInv, InScan
<1>2. c \in Ids
  BY <1>1, RenamingIs DEF InScan
<1>3. /\ DOMAIN instr[c].src = 1 .. Len(program[c].src) /\ Len(program[c].src) \in Nat
      /\ Len(program[c].dst) \in Nat
  BY <1>1, <1>2, OperandLengths
<1>4. pc.i \in Nat /\ pc.i >= 1 /\ Len(regs.free) \in Nat
  BY <1>1, FieldTypes DEF CoreInv, Place
<1>5. IsFiniteSet(N) /\ Cardinality(N) \in Nat
  BY <1>1, <1>2, NeededIsFinite
<1>6. Len(regs.free) >= Cardinality(N) + Len(program[c].dst)
  BY DEF CoreInv, Enough
<1>7. M \subseteq N \ {j}
  <2> SUFFICES ASSUME NEW m \in M
               PROVE  m \in N /\ m # j
    OBVIOUS
  <2>1. /\ m \in DOMAIN instr[c].src /\ m >= pc.i + 1 /\ m \in Nat
        /\ instr'[c].src[m] \notin Arch \/ regs'.front[instr'[c].src[m]] = NoReg
    BY <1>3
  <2>2. m # pc.i /\ m >= pc.i
    BY <1>4, <2>1
  <2>3. instr'[c].src[m] = instr[c].src[m]
    BY <2>1, <2>2
  <2>4. Unmapped(instr[c].src[m])
    BY <2>1, <2>3 DEF Unmapped
  <2> QED BY <2>1, <2>2, <2>4 DEF NeededFor
<1>8. NeededFor(Gone + pc.k, pc.i)' = M
  BY DEF NeededFor, Unmapped
<1>9. pc.i \in DOMAIN instr[c].src
  BY <1>3, <1>4
<1>10. Unmapped(instr[c].src[pc.i]) => j \in N
  BY <1>4, <1>9 DEF NeededFor
<1> HIDE DEF M, N
<1>11. /\ IsFiniteSet(N \ {j})
       /\ Cardinality(N \ {j}) = IF j \in N THEN Cardinality(N) - 1 ELSE Cardinality(N)
  BY <1>5, FS_RemoveElement
<1>12. IsFiniteSet(M) /\ Cardinality(M) <= Cardinality(N \ {j})
  BY <1>7, <1>11, FS_Subset
<1>13. Cardinality(M) \in Nat /\ Cardinality(N \ {j}) \in Nat
  BY <1>11, <1>12, FS_CardinalityType
<1>14. Len(regs'.free) >= Cardinality(M) + Len(program[c].dst)
  <2>1. CASE Unmapped(instr[c].src[pc.i])
    <3>1. Len(regs'.free) = Len(regs.free) - 1 /\ Cardinality(M) <= Cardinality(N) - 1
      BY <2>1, <1>10, <1>11, <1>12
    <3> QED BY <3>1, <1>3, <1>4, <1>5, <1>6, <1>13
  <2>2. CASE ~Unmapped(instr[c].src[pc.i])
    <3>1. Len(regs'.free) = Len(regs.free)
      BY <2>2
    <3>2. Cardinality(M) <= Cardinality(N)
      BY <1>5, <1>11, <1>12, <1>13
    <3> QED BY <3>1, <3>2, <1>3, <1>4, <1>5, <1>6, <1>13
  <2> QED BY <2>1, <2>2
<1>15. Len(regs'.free) >= Cardinality(NeededFor(Gone + pc.k, pc.i)')
                          + Len(program'[Gone' + pc'.k].dst)
  BY <1>8, <1>14
<1> QED BY <1>15 DEF Enough

\* schedule: one source of the instruction is renamed, to the register of its
\* last writer or to a new one.
LEMMA RenameSourceKeeps ==
    ASSUME Types, Sizes, CoreInv, RenameSource
    PROVE  Types' /\ Sizes' /\ CoreInv'
<1>1. PICK c : c = Gone + pc.k
  OBVIOUS
<1>2. PICK o : o = pc.i
  OBVIOUS
<1>3. PICK a : a = instr[c].src[o]
  OBVIOUS
<1>4. PICK p : p = IF regs.front[a] = NoReg THEN Head(regs.free) ELSE regs.front[a]
  OBVIOUS
<1>5. Ordered /\ InScan /\ pc.stage = "sources"
  BY DEF Ordered, CoreInv, RenameSource, InScan
<1>6. /\ Renaming = c /\ c \in Ids /\ Gone \in Nat /\ Newest \in Nat /\ Gone < c
      /\ c <= Newest
  BY <1>1, <1>5, RenamingIs DEF Renaming
<1>7. /\ pc.stage = "sources" /\ pc.i <= Len(instr[c].src) /\ RenameSrcRegister(c, o)
      /\ pc' = [pc EXCEPT !.i = @ + 1]
      /\ UNCHANGED <<program, now, pipe, lsq, l1, net>>
  BY <1>2, <1>6 DEF RenameSource
<1>8. /\ Len(program[c].src) \in Nat /\ Len(instr[c].src) = Len(program[c].src)
      /\ DOMAIN instr[c].src = 1 .. Len(program[c].src)
      /\ DOMAIN program[c].src = 1 .. Len(program[c].src)
      /\ Len(program[c].dst) \in Nat /\ program[c].src \in Seq(Arch)
  BY <1>5, <1>6, OperandLengths, ProgramType
<1>9. o \in Nat /\ o >= 1 /\ o \in 1 .. Len(program[c].src)
  <2>1. pc.i \in Nat /\ pc.i >= 1
    BY <1>5, FieldTypes DEF CoreInv, Place
  <2> QED BY <2>1, <1>2, <1>7, <1>8
<1>10. RenamedSources(c) = 1 .. o - 1 /\ RenamedResults(c) = {} /\ Committed(c) = {}
  BY <1>1, <1>2, <1>5, <1>6, RenamedInOrder
<1>11. a = program[c].src[o] /\ a \in Arch
  <2>1. o \notin RenamedSources(c)
    BY <1>9, <1>10
  <2>2. a = program[c].src[o]
    BY <1>3, <1>6, <1>8, <1>9, <2>1 DEF CoreInv, Operands
  <2> QED BY <2>2, <1>8, <1>9
<1>12. ~instr[c].executed
  BY <1>1, <1>5 DEF CoreInv, Place
<1>13. Len(regs.free) >= Cardinality(NeededFor(c, o)) + Len(program[c].dst)
  BY <1>1, <1>2, <1>5 DEF CoreInv, Enough
<1>14. Unmapped(instr[c].src[o]) <=> regs.front[a] = NoReg
  BY <1>3, <1>11 DEF Unmapped
<1>15. regs.front[a] = NoReg => Len(regs.free) > 0
  BY <1>5, <1>6, <1>8, <1>9, <1>13, <1>14, NeededForNext
<1>16. p \in Phys /\ p \in Nat
  <2>1. regs.front[a] \in Phys \cup {NoReg}
    BY <1>11, FieldTypes
  <2>2. regs.front[a] = NoReg => Head(regs.free) \in Phys
    <3>1. regs.free \in Seq(Phys)
      BY FieldTypes
    <3> QED BY <3>1, <1>15
  <2> QED BY <1>4, <2>1, <2>2, PhysType
<1>17. instr' = [instr EXCEPT ![c].src[o] = p]
  <2>1. instr' = [instr EXCEPT ![c].src[o] =
             IF regs.front[instr[c].src[o]] = NoReg THEN Head(regs.free)
             ELSE regs.front[instr[c].src[o]]]
    BY <1>7, Zenon DEF RenameSrcRegister
  <2> QED BY <2>1, <1>3, <1>4, Zenon
<1>18. /\ instr' \in InstrType
       /\ \A i \in Ids :
             /\ instr'[i].ready = instr[i].ready
             /\ instr'[i].scheduled = instr[i].scheduled
             /\ instr'[i].executed = instr[i].executed
             /\ instr'[i].completed = instr[i].completed
             /\ instr'[i].memDone = instr[i].memDone
             /\ instr'[i].dst = instr[i].dst
             /\ Len(instr'[i].src) = Len(instr[i].src)
             /\ DOMAIN instr'[i].src = DOMAIN instr[i].src
             /\ i # c => instr'[i].src = instr[i].src
             /\ \A m \in DOMAIN instr[i].src :
                    instr'[i].src[m] = IF i = c /\ m = o THEN p ELSE instr[i].src[m]
  <2>1. c \in Ids /\ o \in 1 .. Len(instr[c].src) /\ p \in Nat
    BY <1>6, <1>8, <1>9, <1>16
  <2> QED BY <1>17, <2>1, SourceSet, Zenon
<1>19. regs' \in RegsType
  <2>1. CASE regs.front[a] = NoReg
    <3>1. SourceTaken(a, p)
      BY <1>3, <1>4, <1>7, <1>11, <1>15, <2>1, TakeForSource DEF CoreInv
    <3> QED BY <3>1 DEF SourceTaken
  <2>2. CASE regs.front[a] # NoReg
    <3>1. regs' = regs
      BY <1>3, <1>7, <2>2, Zenon DEF RenameSrcRegister
    <3> QED BY <3>1 DEF Types
  <2> QED BY <2>1, <2>2
<1>20. /\ Types' /\ Sizes' /\ Order' /\ Lengths' /\ Progress' /\ Place'
       /\ Gone' = Gone /\ Newest' = Newest /\ Ids' = Ids /\ Gone' + pc'.k = c
       /\ pc'.stage = pc.stage /\ pc'.i = pc.i + 1
       /\ \A i \in Ids :
             /\ Committed(i)' = Committed(i)
             /\ RenamedSources(i)' = IF i = c THEN RenamedSources(i) \cup {o}
                                     ELSE RenamedSources(i)
             /\ RenamedResults(i)' = RenamedResults(i)
  <2>1. /\ \A i \in Ids : /\ instr'[i].ready = instr[i].ready
                          /\ instr'[i].scheduled = instr[i].scheduled
                          /\ instr'[i].executed = instr[i].executed
                          /\ instr'[i].completed = instr[i].completed
                          /\ instr'[i].memDone = instr[i].memDone
                          /\ Len(instr'[i].src) = Len(instr[i].src)
                          /\ Len(instr'[i].dst) = Len(instr[i].dst)
        /\ pc.stage = "sources" => pc.i <= Len(program[c].src)
        /\ pc.stage = "results" => pc.i <= Len(program[c].dst)
    BY <1>7, <1>8, <1>18
  <2>2. /\ Types' /\ Sizes' /\ Order' /\ Lengths' /\ Progress' /\ Place'
        /\ Gone' = Gone /\ Newest' = Newest /\ Ids' = Ids /\ Gone' + pc'.k = c
        /\ pc'.stage = pc.stage /\ pc'.i = pc.i + 1
        /\ \A i \in Ids :
              /\ Committed(i)' = Committed(i)
              /\ RenamedSources(i)' = IF pc.stage = "sources" /\ i = c
                                      THEN RenamedSources(i) \cup {pc.i}
                                      ELSE RenamedSources(i)
              /\ RenamedResults(i)' = IF pc.stage = "results" /\ i = c
                                      THEN RenamedResults(i) \cup {pc.i}
                                      ELSE RenamedResults(i)
    BY <1>1, <1>5, <1>7, <1>18, <1>19, <2>1, RenameStep
  <2> QED BY <1>2, <1>5, <2>2
<1>21. program' = program
  BY <1>7
<1>22. SameResults
  BY <1>18, <1>20, <1>21 DEF SameResults
<1>23. /\ \A b \in Arch : regs.back[b] # NoReg => regs'.back[b] = regs.back[b]
       /\ \A b \in Arch : regs.front[b] # NoReg => regs'.front[b] # NoReg
       /\ regs.front[a] # NoReg => regs' = regs
       /\ regs.front[a] = NoReg => /\ regs'.back[a] = p
                                   /\ Len(regs'.free) = Len(regs.free) - 1
       /\ Ownership' /\ Contents' /\ Latest'
  <2>1. \A i \in Ids : instr'[i].completed = instr[i].completed
    BY <1>18
  <2>2. o \in DOMAIN instr[c].src
    BY <1>8, <1>9
  <2> QED BY <1>3, <1>4, <1>6, <1>7, <1>11, <1>15, <1>22, <2>1, <2>2, SourceRegs
<1>24. Enough'
  <2>1. Len(regs'.free) \in Nat
    <3>1. regs'.free \in Seq(Phys)
      BY <1>19 DEF RegsType
    <3> QED BY <3>1
  <2>2. DOMAIN instr'[c].src = DOMAIN instr[c].src
        /\ \A m \in DOMAIN instr[c].src : m # pc.i => instr'[c].src[m] = instr[c].src[m]
    BY <1>2, <1>6, <1>18
  <2>3. IF Unmapped(instr[c].src[pc.i]) THEN Len(regs'.free) = Len(regs.free) - 1
        ELSE Len(regs'.free) = Len(regs.free)
    BY <1>2, <1>14, <1>23
  <2>4. /\ pc.i <= Len(program[c].src) /\ Gone' + pc'.k = c /\ pc'.i = pc.i + 1
        /\ pc'.stage = "sources"
    BY <1>7, <1>8, <1>20
  <2> QED BY <1>1, <1>5, <1>21, <1>23, <2>1, <2>2, <2>3, <2>4, NeededShrinks
<1>25. Operands'
  <2>1. \A i \in Ids : \A m \in DOMAIN program[i].src \ RenamedSources(i)' :
            instr'[i].src[m] = program[i].src[m]
    <3> SUFFICES ASSUME NEW i \in Ids, NEW m \in DOMAIN program[i].src \ RenamedSources(i)'
                 PROVE  instr'[i].src[m] = program[i].src[m]
      OBVIOUS
    <3>1. m \notin RenamedSources(i) /\ ~(i = c /\ m = o)
      BY <1>20
    <3>2. instr[i].src[m] = program[i].src[m]
      BY <3>1 DEF CoreInv, Operands
    <3>3. m \in DOMAIN instr[i].src
      BY <1>5, OperandLengths
    <3> QED BY <1>18, <3>1, <3>2, <3>3
  <2>2. \A i \in Ids :
            /\ \A m \in DOMAIN program[i].dst \ (RenamedResults(i)' \cup Committed(i)') :
                   instr'[i].dst[m] = program[i].dst[m]
            /\ instr'[i].scheduled => Len(program[i].dst) <= NPhys
    BY <1>18, <1>20 DEF CoreInv, Operands
  <2> QED BY <1>20, <1>21, <2>1, <2>2 DEF Operands
<1>26. ASSUME NEW i \in Ids, NEW m \in RenamedSources(i)', i > Gone
       PROVE  /\ \A h \in Ids : \A l \in DOMAIN program[h].dst :
                     NewestResult(program[i].src[m], i, h, l) =>
                         /\ instr'[i].src[m] = instr'[h].dst[l]
                         /\ instr'[i].executed => instr'[h].completed
              /\ (\A h \in Ids : \A l \in DOMAIN program[h].dst :
                      program[h].dst[l] = program[i].src[m] => h >= i) =>
                          regs'.back[program[i].src[m]] # NoReg
                          /\ instr'[i].src[m] = regs'.back[program[i].src[m]]
  <2>1. CASE i = c /\ m = o
    <3>1. instr'[c].src[o] = p /\ ~instr'[c].executed
      BY <1>6, <1>8, <1>9, <1>12, <1>18
    <3>2. ASSUME NEW h \in Ids, NEW l \in DOMAIN program[h].dst, NewestResult(a, c, h, l)
          PROVE  p = instr'[h].dst[l]
      <4>1. regs.front[a] # NoReg /\ regs.front[a] = instr[h].dst[l]
        BY <1>1, <1>5, <1>11, <3>2, FrontIsNewest
      <4> QED BY <4>1, <1>4, <1>18
    <3>3. ASSUME \A h \in Ids : \A l \in DOMAIN program[h].dst :
                     program[h].dst[l] = a => h >= c
          PROVE  regs'.back[a] # NoReg /\ p = regs'.back[a]
      <4>1. regs.front[a] = regs.back[a]
        BY <1>1, <1>5, <1>11, <3>3, FrontIsNewest
      <4>2. p # NoReg
        BY <1>16, PhysType
      <4> QED BY <4>1, <4>2, <1>4, <1>23
    <3> QED BY <1>11, <2>1, <3>1, <3>2, <3>3
  <2>2. CASE ~(i = c /\ m = o)
    <3>1. m \in RenamedSources(i)
      BY <1>20, <2>2
    <3>2. m \in DOMAIN program[i].src /\ program[i].src \in Seq(Arch)
      BY <1>5, <3>1, ResultsApart, ProgramType
    <3>3. program[i].src[m] \in Arch
      BY <3>2
    <3>4. instr'[i].src[m] = instr[i].src[m]
      <4>1. m \in DOMAIN instr[i].src
        BY <1>5, <3>2, OperandLengths
      <4> QED BY <4>1, <1>18, <2>2
    <3>5. ASSUME NEW h \in Ids, NEW l \in DOMAIN program[h].dst,
                 NewestResult(program[i].src[m], i, h, l)
          PROVE  /\ instr'[i].src[m] = instr'[h].dst[l]
                 /\ instr'[i].executed => instr'[h].completed
      <4>1. /\ instr[i].src[m] = instr[h].dst[l]
            /\ instr[i].executed => instr[h].completed
        BY <1>26, <3>1, <3>5 DEF CoreInv, Sources
      <4> QED BY <4>1, <3>4, <1>18
    <3>6. ASSUME \A h \in Ids : \A l \in DOMAIN program[h].dst :
                     program[h].dst[l] = program[i].src[m] => h >= i
          PROVE  regs'.back[program[i].src[m]] # NoReg
                 /\ instr'[i].src[m] = regs'.back[program[i].src[m]]
      <4>1. regs.back[program[i].src[m]] # NoReg
            /\ instr[i].src[m] = regs.back[program[i].src[m]]
        BY <1>26, <3>1, <3>6 DEF CoreInv, Sources
      <4> QED BY <4>1, <3>3, <3>4, <1>23
    <3> QED BY <3>5, <3>6
  <2> QED BY <2>1, <2>2
<1>27. Sources'
  <2>1. \A i \in Ids : \A j \in RenamedSources(i)' : i > Gone' =>
            /\ \A h \in Ids : \A l \in DOMAIN program[h].dst :
                   NewestResult(program[i].src[j], i, h, l) =>
                       /\ instr'[i].src[j] = instr'[h].dst[l]
                       /\ instr'[i].executed => instr'[h].completed
            /\ (\A h \in Ids : \A l \in DOMAIN program[h].dst :
                    program[h].dst[l] = program[i].src[j] => h >= i) =>
                        regs'.back[program[i].src[j]] # NoReg
                        /\ instr'[i].src[j] = regs'.back[program[i].src[j]]
    BY <1>20, <1>26
  <2> QED BY <1>21, <2>1, SourcesAfter
<1> QED BY <1>20, <1>23, <1>24, <1>25, <1>27 DEF CoreInv

\* What changes when a result of instruction c takes register p for a.
ResultTaken(c, a, p) ==
    /\ regs' \in RegsType /\ p \in Phys /\ Len(regs'.free) = Len(regs.free) - 1
    /\ \E j \in DOMAIN regs.free : regs.free[j] = p
    /\ \A j \in DOMAIN regs'.free : regs'.free[j] # p
    /\ \A j \in DOMAIN regs'.free : \E h \in DOMAIN regs.free :
           regs.free[h] = regs'.free[j]
    /\ \A j \in DOMAIN regs'.free : \A h \in DOMAIN regs'.free :
           regs'.free[j] = regs'.free[h] => j = h
    /\ \A j \in DOMAIN regs.free :
           regs.free[j] = p \/ \E h \in DOMAIN regs'.free : regs'.free[h] = regs.free[j]
    /\ \A b \in Arch : regs'.front[b] = IF b = a THEN p ELSE regs.front[b]
    /\ regs'.back = regs.back
    /\ regs'.file[p] = [arch |-> a, producer |-> c, valid |-> FALSE]
    /\ \A q \in Phys : q # p => regs'.file[q] = regs.file[q]

\* RenameDestRegister takes a free register and enters it in the front map.
LEMMA TakeForResult ==
    ASSUME Types, Ownership, Len(regs.free) > 0, NEW c \in Ids, NEW o,
           RenameDestRegister(c, o), NEW a \in Arch, a = instr[c].dst[o],
           NEW p, p = Head(regs.free)
    PROVE  ResultTaken(c, a, p)
<1> DEFINE w == Tail(regs.free)
           front == [regs.front EXCEPT ![a] = p]
           file == [regs.file EXCEPT ![p] = [arch |-> a, producer |-> c, valid |-> FALSE]]
           s == [regs EXCEPT !.free = w, !.front = front, !.file = file]
<1>1. /\ regs \in RegsType /\ regs.free \in Seq(Phys)
      /\ regs.front \in [Arch -> Phys \cup {NoReg}]
      /\ regs.back \in [Arch -> Phys \cup {NoReg}] /\ regs.file \in [Phys -> Register]
  BY FieldTypes DEF Types
<1>2. /\ p \in Phys /\ w \in Seq(Phys) /\ Len(w) = Len(regs.free) - 1
      /\ \E j \in DOMAIN regs.free : regs.free[j] = p
      /\ \A j \in DOMAIN w : w[j] # p
      /\ \A j \in DOMAIN w : \E h \in DOMAIN regs.free : regs.free[h] = w[j]
      /\ \A j \in DOMAIN w : \A h \in DOMAIN w : w[j] = w[h] => j = h
      /\ \A j \in DOMAIN regs.free :
             regs.free[j] = p \/ \E h \in DOMAIN w : w[h] = regs.free[j]
  <2>1. \A j \in DOMAIN regs.free : \A h \in DOMAIN regs.free :
            regs.free[j] = regs.free[h] => j = h
    BY DEF Ownership
  <2> QED BY <1>1, <2>1, HeadTaken
<1>3. regs' = s
  <2>1. regs' = [regs EXCEPT !.free = Tail(@), !.front[a] = p,
                   !.file[p] = [arch |-> a, producer |-> c, valid |-> FALSE]]
    BY Zenon DEF RenameDestRegister
  <2> QED BY <2>1
<1>4. /\ front \in [Arch -> Phys \cup {NoReg}]
      /\ \A b \in Arch : front[b] = IF b = a THEN p ELSE regs.front[b]
  BY <1>1, <1>2
<1>5. [arch |-> a, producer |-> c, valid |-> FALSE] \in Register
  <2>1. a \in 1 .. 255
    BY SizesAssumption
  <2>2. a \in 0 .. 255 /\ c \in {0} \cup Ids /\ FALSE \in BOOLEAN
    BY <2>1
  <2> QED BY <2>2 DEF Register
<1>6. /\ file \in [Phys -> Register]
      /\ file[p] = [arch |-> a, producer |-> c, valid |-> FALSE]
      /\ \A q \in Phys : q # p => file[q] = regs.file[q]
  BY <1>1, <1>2, <1>5
<1> HIDE DEF w, front, file
<1>7. s \in RegsType /\ s.free = w /\ s.front = front /\ s.back = regs.back /\ s.file = file
  BY <1>1, <1>2, <1>4, <1>6 DEF RegsType
<1> HIDE DEF s
<1> QED BY <1>2, <1>3, <1>4, <1>6, <1>7 DEF ResultTaken

\* What RenameResult changes in the lists of the instructions: result o of c,
\* the first that was not renamed, is now register p.
ResultRenamed(c, o, p) ==
    /\ program' = program
    /\ \A i \in Ids :
          /\ instr'[i].completed = instr[i].completed
          /\ Committed(i)' = Committed(i)
          /\ RenamedResults(i)' = IF i = c THEN RenamedResults(i) \cup {o}
                                  ELSE RenamedResults(i)
          /\ \A m \in DOMAIN program[i].dst :
                 instr'[i].dst[m] = IF i = c /\ m = o THEN p ELSE instr[i].dst[m]

\* The results renamed before are the same, and the new one belongs to no
\* committed or renamed result.
ResultsKept(c, o, p) ==
    /\ c \in Ids /\ o \in Nat /\ instr'[c].dst[o] = p
    /\ RenamedResults(c) = 1 .. o - 1 /\ Committed(c) = {}
    /\ \A i \in Ids : \A k \in Renamed(i) : /\ ~(i = c /\ k = o)
                                            /\ instr'[i].dst[k] = instr[i].dst[k]
    /\ \A i \in Ids : Renamed(i)' = IF i = c THEN Renamed(i) \cup {o} ELSE Renamed(i)
    /\ \A i \in Ids : i > c => Renamed(i) = {} /\ RenamedSources(i) = {}
    /\ instr[c].completed = FALSE

\* The results are renamed in order, those of one instruction after another.
LEMMA ResultsBefore ==
    ASSUME Types, CoreInv, pc.stage = "results", NEW c, c = Gone + pc.k,
           NEW o, o = pc.i, o \in DOMAIN program[c].dst, NEW p, ResultRenamed(c, o, p)
    PROVE  ResultsKept(c, o, p)
<1>1. Ordered /\ InScan
  BY DEF Ordered, CoreInv, InScan
<1>2. c \in Ids
  BY <1>1, RenamingIs DEF InScan
<1>3. RenamedResults(c) = 1 .. o - 1 /\ Committed(c) = {}
  BY <1>1, <1>2, RenamedInOrder
<1>4. o \in Nat
  BY FieldTypes
<1>5. \A i \in Ids : i > c => Renamed(i) = {} /\ RenamedSources(i) = {}
  BY <1>1, RenamedInOrder
<1>6. ASSUME NEW i \in Ids, NEW k \in Renamed(i)
      PROVE  ~(i = c /\ k = o) /\ instr'[i].dst[k] = instr[i].dst[k]
  <2>1. o \notin 1 .. o - 1
    BY <1>4
  <2>2. ~(i = c /\ k = o)
    BY <1>3, <2>1 DEF Renamed
  <2>3. k \in DOMAIN program[i].dst
    BY <1>1, ResultsApart DEF Renamed
  <2> QED BY <2>2, <2>3 DEF ResultRenamed
<1>7. \A i \in Ids : Renamed(i)' = IF i = c THEN Renamed(i) \cup {o} ELSE Renamed(i)
  BY DEF Renamed, ResultRenamed
<1>8. instr'[c].dst[o] = p
  BY <1>2 DEF ResultRenamed
<1>9. instr[c].completed = FALSE
  <2>1. ~instr[c].completed
    BY <1>1, <1>2 DEF CoreInv, Place, Progress
  <2>2. instr[c].completed \in BOOLEAN
    BY <1>2, InstrFields
  <2> QED BY <2>1, <2>2
<1> QED BY <1>2, <1>3, <1>4, <1>5, <1>6, <1>7, <1>8, <1>9 DEF ResultsKept

\* The owners after a result took a free register.
LEMMA AllocResult ==
    ASSUME Types, CoreInv, pc.stage = "results", NEW c, c = Gone + pc.k,
           NEW o, o = pc.i, o \in DOMAIN program[c].dst,
           NEW a \in Arch, a = program[c].dst[o],
           NEW p, ResultTaken(c, a, p), ResultRenamed(c, o, p)
    PROVE  Ownership' /\ Contents' /\ Latest'
<1>1. regs.back \in [Arch -> Phys \cup {NoReg}]
  BY FieldTypes
<1>2. /\ p \in Phys
      /\ \E j \in DOMAIN regs.free : regs.free[j] = p
      /\ \A j \in DOMAIN regs'.free : regs'.free[j] # p
      /\ \A j \in DOMAIN regs'.free : \E h \in DOMAIN regs.free :
             regs.free[h] = regs'.free[j]
      /\ \A j \in DOMAIN regs'.free : \A h \in DOMAIN regs'.free :
             regs'.free[j] = regs'.free[h] => j = h
      /\ \A j \in DOMAIN regs.free :
             regs.free[j] = p \/ \E h \in DOMAIN regs'.free : regs'.free[h] = regs.free[j]
  BY DEF ResultTaken
<1>3. \A b \in Arch : regs'.front[b] = IF b = a THEN p ELSE regs.front[b]
  BY DEF ResultTaken
<1>4. regs'.back = regs.back
  BY DEF ResultTaken
<1>5. /\ regs'.file[p] = [arch |-> a, producer |-> c, valid |-> FALSE]
      /\ \A q \in Phys : q # p => regs'.file[q] = regs.file[q]
  BY DEF ResultTaken
<1>6. /\ c \in Ids /\ o \in Nat /\ instr'[c].dst[o] = p
      /\ RenamedResults(c) = 1 .. o - 1 /\ Committed(c) = {}
      /\ \A i \in Ids : \A k \in Renamed(i) : /\ ~(i = c /\ k = o)
                                              /\ instr'[i].dst[k] = instr[i].dst[k]
      /\ \A i \in Ids : Renamed(i)' = IF i = c THEN Renamed(i) \cup {o} ELSE Renamed(i)
      /\ \A i \in Ids : i > c => Renamed(i) = {} /\ RenamedSources(i) = {}
      /\ instr[c].completed = FALSE
  <2>1. ResultsKept(c, o, p)
    BY ResultsBefore
  <2> QED BY <2>1 DEF ResultsKept
<1>7. program' = program /\ Ids' = Ids
  BY DEF ResultRenamed, Ids
<1>8. \A i \in Ids : /\ instr'[i].completed = instr[i].completed
                     /\ Committed(i)' = Committed(i)
                     /\ RenamedResults(i)' = IF i = c THEN RenamedResults(i) \cup {o}
                                             ELSE RenamedResults(i)
  BY DEF ResultRenamed
<1>9. /\ \A b \in Arch : regs.back[b] # p
      /\ \A i \in Ids : \A k \in RenamedResults(i) : instr[i].dst[k] # p
  BY <1>2 DEF CoreInv, Ownership
<1>10. p # NoReg
  BY <1>2, PhysType
<1>11. \A i \in Ids : /\ \A k \in RenamedResults(i) : instr'[i].dst[k] = instr[i].dst[k]
                      /\ \A k \in Committed(i) : instr'[i].dst[k] = instr[i].dst[k]
  BY <1>6 DEF Renamed
<1>12. ASSUME NEW i \in Ids, NEW k \in RenamedResults(i)'
       PROVE  \/ i = c /\ k = o /\ instr'[i].dst[k] = p
              \/ /\ k \in RenamedResults(i) /\ instr'[i].dst[k] = instr[i].dst[k]
                 /\ instr'[i].dst[k] # p
  <2>1. (i = c /\ k = o) \/ k \in RenamedResults(i)
    BY <1>8
  <2> QED BY <1>6, <1>9, <1>11, <2>1
<1>13. Ownership'
  <2>1. /\ \A b \in Arch : \A d \in Arch :
               regs'.back[b] # NoReg /\ regs'.back[b] = regs'.back[d] => b = d
        /\ \A j \in DOMAIN regs'.free : \A b \in Arch : regs'.back[b] # regs'.free[j]
    BY <1>2, <1>4 DEF CoreInv, Ownership
  <2>2. ASSUME NEW i \in Ids, NEW k \in RenamedResults(i)'
        PROVE  /\ instr'[i].dst[k] \in Phys
               /\ \A j \in DOMAIN regs'.free : instr'[i].dst[k] # regs'.free[j]
               /\ \A b \in Arch : instr'[i].dst[k] # regs'.back[b]
    <3>1. CASE instr'[i].dst[k] = p
      BY <3>1, <1>2, <1>4, <1>9
    <3>2. CASE k \in RenamedResults(i) /\ instr'[i].dst[k] = instr[i].dst[k]
      <4>1. /\ instr[i].dst[k] \in Phys
            /\ \A j \in DOMAIN regs.free : instr[i].dst[k] # regs.free[j]
            /\ \A b \in Arch : instr[i].dst[k] # regs.back[b]
        BY <3>2 DEF CoreInv, Ownership
      <4> QED BY <3>2, <4>1, <1>2, <1>4
    <3> QED BY <3>1, <3>2, <1>12
  <2>3. ASSUME NEW i \in Ids, NEW k \in RenamedResults(i)',
               NEW h \in Ids, NEW l \in RenamedResults(h)', instr'[i].dst[k] = instr'[h].dst[l]
        PROVE  i = h /\ k = l
    <3>1. CASE instr'[i].dst[k] = p
      <4>1. instr'[h].dst[l] = p
        BY <2>3, <3>1
      <4>2. i = c /\ k = o
        BY <3>1, <1>12
      <4>3. h = c /\ l = o
        BY <4>1, <1>12
      <4> QED BY <4>2, <4>3
    <3>2. CASE instr'[i].dst[k] # p
      <4>1. /\ k \in RenamedResults(i) /\ instr'[i].dst[k] = instr[i].dst[k]
            /\ l \in RenamedResults(h) /\ instr'[h].dst[l] = instr[h].dst[l]
        BY <2>3, <3>2, <1>12
      <4>2. instr[i].dst[k] = instr[h].dst[l]
        BY <2>3, <4>1
      <4> QED BY <4>1, <4>2 DEF CoreInv, Ownership
    <3> QED BY <3>1, <3>2
  <2>4. ASSUME NEW q \in Phys
        PROVE  \/ \E j \in DOMAIN regs'.free : regs'.free[j] = q
               \/ \E b \in Arch : regs'.back[b] = q
               \/ \E i \in Ids : \E k \in RenamedResults(i)' : instr'[i].dst[k] = q
    <3>1. CASE q = p
      <4>1. o \in RenamedResults(c)'
        BY <1>6, <1>8
      <4> QED BY <3>1, <4>1, <1>6
    <3>2. CASE q # p /\ \E j \in DOMAIN regs.free : regs.free[j] = q
      BY <3>2, <1>2
    <3>3. CASE \E b \in Arch : regs.back[b] = q
      BY <3>3, <1>4
    <3>4. CASE \E i \in Ids : \E k \in RenamedResults(i) : instr[i].dst[k] = q
      <4>1. PICK i \in Ids : \E k \in RenamedResults(i) : instr[i].dst[k] = q
        BY <3>4
      <4>0. PICK k \in RenamedResults(i) : instr[i].dst[k] = q
        BY <4>1
      <4>2. k \in RenamedResults(i)' /\ instr'[i].dst[k] = q
        BY <4>0, <1>8, <1>11
      <4> QED BY <4>2
    <3> QED BY <3>1, <3>2, <3>3, <3>4 DEF CoreInv, Ownership
  <2>5. \A j \in DOMAIN regs'.free : \A h \in DOMAIN regs'.free :
             regs'.free[j] = regs'.free[h] => j = h
    BY <1>2
  <2> QED BY <1>7, <2>1, <2>2, <2>3, <2>4, <2>5 DEF Ownership
<1>14. \A b \in Arch : regs.back[b] # NoReg =>
           regs'.file[regs'.back[b]] = regs.file[regs.back[b]]
  BY <1>1, <1>4, <1>5, <1>9
<1>15. Contents'
  <2>1. ASSUME NEW i \in Ids, NEW k \in RenamedResults(i)'
        PROVE  regs'.file[instr'[i].dst[k]] = [arch |-> program'[i].dst[k], producer |-> i,
                                              valid |-> instr'[i].completed]
    <3>1. CASE i = c /\ k = o /\ instr'[i].dst[k] = p
      <4>1. instr'[c].completed = FALSE
        BY <1>6, <1>8
      <4> QED BY <3>1, <4>1, <1>5, <1>7
    <3>2. CASE k \in RenamedResults(i) /\ instr'[i].dst[k] = instr[i].dst[k]
               /\ instr'[i].dst[k] # p
      <4>1. regs.file[instr[i].dst[k]] = [arch |-> program[i].dst[k], producer |-> i,
                                          valid |-> instr[i].completed]
        BY <3>2 DEF CoreInv, Contents
      <4>2. instr[i].dst[k] \in Phys
        BY <3>2 DEF CoreInv, Ownership
      <4>3. regs'.file[instr'[i].dst[k]] = regs.file[instr[i].dst[k]]
        BY <3>2, <4>2, <1>5
      <4>4. instr'[i].completed = instr[i].completed /\ program'[i].dst[k] = program[i].dst[k]
        BY <1>7, <1>8
      <4> QED BY <4>1, <4>3, <4>4
    <3> QED BY <3>1, <3>2, <1>12
  <2>2. \A b \in Arch : regs'.back[b] # NoReg =>
            regs'.file[regs'.back[b]].arch = b /\ regs'.file[regs'.back[b]].valid
    BY <1>4, <1>14 DEF CoreInv, Contents
  <2>3. \A b, i, k : NewestCommitted(b, i, k)' <=> NewestCommitted(b, i, k)
    BY <1>7, <1>8 DEF NewestCommitted
  <2>4. ASSUME NEW b \in Arch, NEW i \in Ids, NEW k \in Committed(i)',
               NewestCommitted(b, i, k)'
        PROVE  /\ regs'.back[b] # NoReg /\ regs'.back[b] = instr'[i].dst[k]
               /\ regs'.file[regs'.back[b]].producer = i
    <3>1. k \in Committed(i) /\ NewestCommitted(b, i, k)
      BY <1>8, <2>3, <2>4
    <3>2. /\ regs.back[b] # NoReg /\ regs.back[b] = instr[i].dst[k]
          /\ regs.file[regs.back[b]].producer = i
      BY <3>1 DEF CoreInv, Contents
    <3>3. instr'[i].dst[k] = instr[i].dst[k]
      BY <3>1, <1>11
    <3> QED BY <3>2, <3>3, <1>4, <1>14
  <2>5. ASSUME NEW b \in Arch, regs'.back[b] # NoReg,
               \A i \in Ids : \A k \in Committed(i)' : program'[i].dst[k] # b
        PROVE  regs'.file[regs'.back[b]].producer = 0
    <3>1. \A i \in Ids : \A k \in Committed(i) : program[i].dst[k] # b
      BY <1>7, <1>8, <2>5
    <3>2. regs.back[b] # NoReg
      BY <1>4, <2>5
    <3>3. regs.file[regs.back[b]].producer = 0
      BY <3>1, <3>2 DEF CoreInv, Contents
    <3> QED BY <3>2, <3>3, <1>14
  <2> QED BY <1>7, <2>1, <2>2, <2>4, <2>5 DEF Contents
<1>16. Latest'
  <2>1. ASSUME NEW i \in Ids, NEW k \in Renamed(i)'
        PROVE  \/ i = c /\ k = o
               \/ k \in Renamed(i) /\ instr'[i].dst[k] = instr[i].dst[k]
    BY <1>6
  <2>2. ASSUME NEW b \in Arch, NEW i \in Ids, NEW k \in Renamed(i)', program'[i].dst[k] = b
        PROVE  regs'.front[b] # NoReg
    <3>1. CASE b = a
      BY <3>1, <1>3, <1>10
    <3>2. CASE b # a
      <4>1. k \in Renamed(i) /\ program[i].dst[k] = b
        BY <1>7, <2>1, <2>2, <3>2
      <4>2. regs.front[b] # NoReg
        BY <4>1 DEF CoreInv, Latest
      <4> QED BY <3>2, <4>2, <1>3
    <3> QED BY <3>1, <3>2
  <2>3. ASSUME NEW b \in Arch, NEW i \in Ids, NEW k \in Renamed(i)', NewestRenamed(b, i, k)'
        PROVE  regs'.front[b] = instr'[i].dst[k]
    <3>1. /\ program[i].dst[k] = b
          /\ \A h \in Ids : \A l \in Renamed(h)' :
                 program[h].dst[l] = b => h < i \/ (h = i /\ l <= k)
      BY <1>7, <2>3 DEF NewestRenamed
    <3>2. CASE b = a
      <4>1. o \in Renamed(c)' /\ program[c].dst[o] = b
        BY <1>6, <3>2
      <4>2. c < i \/ (c = i /\ o <= k)
        BY <1>6, <3>1, <4>1
      <4>3. i \in Nat /\ c \in Nat
        BY <1>6, ProgramType
      <4>4. ~(c < i)
        <5>1. c < i => i > c /\ i # c
          BY <4>3
        <5> QED BY <1>6, <5>1
      <4>5. i = c /\ o <= k
        BY <4>2, <4>4
      <4>6. k = o
        <5>1. k \in (1 .. o - 1) \cup {o}
          BY <1>6, <4>5 DEF Renamed
        <5> QED BY <5>1, <4>5, <1>6
      <4> QED BY <1>3, <1>6, <3>2, <4>5, <4>6
    <3>3. CASE b # a
      <4>1. k \in Renamed(i) /\ instr'[i].dst[k] = instr[i].dst[k]
        BY <2>1, <3>1, <3>3
      <4>2. \A h \in Ids : \A l \in Renamed(h) : l \in Renamed(h)'
        BY <1>6
      <4>3. NewestRenamed(b, i, k)
        BY <3>1, <4>1, <4>2 DEF NewestRenamed
      <4>4. regs.front[b] = instr[i].dst[k]
        BY <4>1, <4>3 DEF CoreInv, Latest
      <4> QED BY <1>3, <3>3, <4>1, <4>4
    <3> QED BY <3>2, <3>3
  <2>4. ASSUME NEW b \in Arch,
               \A i \in Ids : \A k \in Renamed(i)' : program'[i].dst[k] # b
        PROVE  regs'.front[b] = regs'.back[b]
    <3>1. b # a
      BY <1>6, <1>7, <2>4
    <3>2. \A i \in Ids : \A k \in Renamed(i) : program[i].dst[k] # b
      BY <1>6, <1>7, <2>4
    <3>3. regs.front[b] = regs.back[b]
      BY <3>2 DEF CoreInv, Latest
    <3> QED BY <1>3, <1>4, <3>1, <3>3
  <2> QED BY <1>7, <2>2, <2>3, <2>4 DEF Latest
<1> QED BY <1>13, <1>15, <1>16

\* schedule: one result of the instruction is renamed, to a free register.
LEMMA RenameResultKeeps ==
    ASSUME Types, Sizes, CoreInv, RenameResult
    PROVE  Types' /\ Sizes' /\ CoreInv'
<1>1. PICK c : c = Gone + pc.k
  OBVIOUS
<1>2. PICK o : o = pc.i
  OBVIOUS
<1>3. PICK a : a = instr[c].dst[o]
  OBVIOUS
<1>4. PICK p : p = Head(regs.free)
  OBVIOUS
<1>5. Ordered /\ InScan /\ pc.stage = "results"
  BY DEF Ordered, CoreInv, RenameResult, InScan
<1>6. /\ Renaming = c /\ c \in Ids /\ Gone \in Nat /\ Newest \in Nat /\ Gone < c
      /\ c <= Newest
  BY <1>1, <1>5, RenamingIs DEF Renaming
<1>7. /\ pc.i <= Len(instr[c].dst) /\ RenameDestRegister(c, o)
      /\ pc' = [pc EXCEPT !.i = @ + 1]
      /\ UNCHANGED <<program, now, pipe, lsq, l1, net>>
  BY <1>2, <1>6 DEF RenameResult
<1>8. /\ Len(program[c].dst) \in Nat /\ Len(instr[c].dst) = Len(program[c].dst)
      /\ DOMAIN instr[c].dst = 1 .. Len(program[c].dst)
      /\ DOMAIN program[c].dst = 1 .. Len(program[c].dst)
      /\ program[c].dst \in Seq(Arch)
  BY <1>5, <1>6, OperandLengths, ProgramType
<1>9. o \in Nat /\ o >= 1 /\ o \in 1 .. Len(program[c].dst)
  <2>1. pc.i \in Nat /\ pc.i >= 1
    BY <1>5, FieldTypes DEF CoreInv, Place
  <2> QED BY <2>1, <1>2, <1>7, <1>8
<1>10. RenamedResults(c) = 1 .. o - 1 /\ Committed(c) = {}
  BY <1>1, <1>2, <1>5, <1>6, RenamedInOrder
<1>11. a = program[c].dst[o] /\ a \in Arch
  <2>1. o \notin RenamedResults(c) \cup Committed(c)
    BY <1>9, <1>10
  <2>2. a = program[c].dst[o]
    BY <1>3, <1>6, <1>8, <1>9, <2>1 DEF CoreInv, Operands
  <2> QED BY <2>2, <1>8, <1>9
<1>12. Len(regs.free) \in Nat /\ Len(regs.free) >= Len(program[c].dst) + 1 - o
  <2>1. regs.free \in Seq(Phys)
    BY FieldTypes
  <2> QED BY <1>1, <1>2, <1>5, <2>1 DEF CoreInv, Enough
<1>13. Len(regs.free) > 0
  BY <1>8, <1>9, <1>12
<1>14. p \in Phys /\ p \in Nat
  <2>1. regs.free \in Seq(Phys)
    BY FieldTypes
  <2>2. p \in Phys
    BY <1>4, <1>13, <2>1
  <2> QED BY <2>2, PhysType
<1>15. instr' = [instr EXCEPT ![c].dst[o] = p]
  <2>1. instr' = [instr EXCEPT ![c].dst[o] = Head(regs.free)]
    BY <1>7, Zenon DEF RenameDestRegister
  <2> QED BY <2>1, <1>4, Zenon
<1>16. /\ instr' \in InstrType
       /\ \A i \in Ids :
             /\ instr'[i].ready = instr[i].ready
             /\ instr'[i].scheduled = instr[i].scheduled
             /\ instr'[i].executed = instr[i].executed
             /\ instr'[i].completed = instr[i].completed
             /\ instr'[i].memDone = instr[i].memDone
             /\ instr'[i].src = instr[i].src
             /\ Len(instr'[i].dst) = Len(instr[i].dst)
             /\ DOMAIN instr'[i].dst = DOMAIN instr[i].dst
             /\ i # c => instr'[i].dst = instr[i].dst
             /\ \A m \in DOMAIN instr[i].dst :
                    instr'[i].dst[m] = IF i = c /\ m = o THEN p ELSE instr[i].dst[m]
  <2>1. c \in Ids /\ o \in 1 .. Len(instr[c].dst) /\ p \in Nat
    BY <1>6, <1>8, <1>9, <1>14
  <2> QED BY <1>15, <2>1, ResultSet, Zenon
<1>17. ResultTaken(c, a, p)
  BY <1>3, <1>4, <1>6, <1>7, <1>11, <1>13, TakeForResult DEF CoreInv
<1>18. /\ regs' \in RegsType /\ Len(regs'.free) = Len(regs.free) - 1
       /\ regs'.back = regs.back
  BY <1>17 DEF ResultTaken
<1>19. /\ Types' /\ Sizes' /\ Order' /\ Lengths' /\ Progress' /\ Place'
       /\ Gone' = Gone /\ Newest' = Newest /\ Ids' = Ids /\ Gone' + pc'.k = c
       /\ pc'.stage = pc.stage /\ pc'.i = pc.i + 1
       /\ \A i \in Ids :
             /\ Committed(i)' = Committed(i)
             /\ RenamedSources(i)' = RenamedSources(i)
             /\ RenamedResults(i)' = IF i = c THEN RenamedResults(i) \cup {o}
                                     ELSE RenamedResults(i)
  <2>1. /\ \A i \in Ids : /\ instr'[i].ready = instr[i].ready
                          /\ instr'[i].scheduled = instr[i].scheduled
                          /\ instr'[i].executed = instr[i].executed
                          /\ instr'[i].completed = instr[i].completed
                          /\ instr'[i].memDone = instr[i].memDone
                          /\ Len(instr'[i].src) = Len(instr[i].src)
                          /\ Len(instr'[i].dst) = Len(instr[i].dst)
        /\ pc.stage = "sources" => pc.i <= Len(program[c].src)
        /\ pc.stage = "results" => pc.i <= Len(program[c].dst)
    BY <1>5, <1>7, <1>8, <1>16
  <2>2. /\ Types' /\ Sizes' /\ Order' /\ Lengths' /\ Progress' /\ Place'
        /\ Gone' = Gone /\ Newest' = Newest /\ Ids' = Ids /\ Gone' + pc'.k = c
        /\ pc'.stage = pc.stage /\ pc'.i = pc.i + 1
        /\ \A i \in Ids :
              /\ Committed(i)' = Committed(i)
              /\ RenamedSources(i)' = IF pc.stage = "sources" /\ i = c
                                      THEN RenamedSources(i) \cup {pc.i}
                                      ELSE RenamedSources(i)
              /\ RenamedResults(i)' = IF pc.stage = "results" /\ i = c
                                      THEN RenamedResults(i) \cup {pc.i}
                                      ELSE RenamedResults(i)
    BY <1>1, <1>5, <1>7, <1>16, <1>18, <2>1, RenameStep
  <2> QED BY <1>2, <1>5, <2>2
<1>20. program' = program
  BY <1>7
<1>21. \A i \in Ids : DOMAIN instr[i].dst = DOMAIN program[i].dst
  BY <1>5, OperandLengths
<1>22. ResultRenamed(c, o, p)
  BY <1>16, <1>19, <1>20, <1>21 DEF ResultRenamed
<1>23. o \in DOMAIN program[c].dst
  BY <1>8, <1>9
<1>24. Ownership' /\ Contents' /\ Latest'
  BY <1>1, <1>2, <1>5, <1>11, <1>17, <1>22, <1>23, AllocResult
<1>25. ResultsKept(c, o, p)
  BY <1>1, <1>2, <1>5, <1>22, <1>23, ResultsBefore
<1>26. Enough'
  <2>1. Len(regs.free) - 1 >= Len(program[c].dst) + 1 - (o + 1)
    <3>1. /\ Len(program[c].dst) \in Int /\ o \in Int /\ Len(regs.free) \in Int
          /\ Len(regs.free) >= Len(program[c].dst) + 1 - o
      BY <1>8, <1>9, <1>12
    <3>2. \A x, y, z \in Int : x >= y + 1 - z => x - 1 >= y + 1 - (z + 1)
      OBVIOUS
    <3> QED BY <3>1, <3>2
  <2>2. Len(regs'.free) >= Len(program'[Gone' + pc'.k].dst) + 1 - pc'.i
    BY <1>2, <1>18, <1>19, <1>20, <2>1
  <2>3. pc'.stage = "results"
    BY <1>5, <1>19
  <2> QED BY <2>2, <2>3 DEF Enough
<1>27. Operands'
  <2>1. \A i \in Ids :
            \A m \in DOMAIN program[i].dst \ (RenamedResults(i)' \cup Committed(i)') :
                instr'[i].dst[m] = program[i].dst[m]
    <3> SUFFICES ASSUME NEW i \in Ids,
                        NEW m \in DOMAIN program[i].dst
                                  \ (RenamedResults(i)' \cup Committed(i)')
                 PROVE  instr'[i].dst[m] = program[i].dst[m]
      OBVIOUS
    <3>1. m \notin RenamedResults(i) \cup Committed(i) /\ ~(i = c /\ m = o)
      BY <1>19
    <3>2. instr[i].dst[m] = program[i].dst[m]
      BY <3>1 DEF CoreInv, Operands
    <3> QED BY <1>16, <1>21, <3>1, <3>2
  <2>2. \A i \in Ids :
            /\ \A m \in DOMAIN program[i].src \ RenamedSources(i)' :
                   instr'[i].src[m] = program[i].src[m]
            /\ instr'[i].scheduled => Len(program[i].dst) <= NPhys
    BY <1>16, <1>19 DEF CoreInv, Operands
  <2> QED BY <1>19, <1>20, <2>1, <2>2 DEF Operands
<1>28. ASSUME NEW i \in Ids, NEW m \in RenamedSources(i)', i > Gone
       PROVE  /\ \A h \in Ids : \A l \in DOMAIN program[h].dst :
                     NewestResult(program[i].src[m], i, h, l) =>
                         /\ instr'[i].src[m] = instr'[h].dst[l]
                         /\ instr'[i].executed => instr'[h].completed
              /\ (\A h \in Ids : \A l \in DOMAIN program[h].dst :
                      program[h].dst[l] = program[i].src[m] => h >= i) =>
                          regs'.back[program[i].src[m]] # NoReg
                          /\ instr'[i].src[m] = regs'.back[program[i].src[m]]
  <2>1. m \in RenamedSources(i)
    BY <1>19
  <2>2. ~(i > c)
    BY <1>25, <2>1 DEF ResultsKept
  <2>3. ASSUME NEW h \in Ids, NEW l \in DOMAIN program[h].dst,
               NewestResult(program[i].src[m], i, h, l)
        PROVE  /\ instr'[i].src[m] = instr'[h].dst[l]
               /\ instr'[i].executed => instr'[h].completed
    <3>1. /\ instr[i].src[m] = instr[h].dst[l]
          /\ instr[i].executed => instr[h].completed
      BY <1>28, <2>1, <2>3 DEF CoreInv, Sources
    <3>2. h # c
      <4>1. h < i
        BY <2>3 DEF NewestResult
      <4>2. h \in Nat /\ i \in Nat /\ c \in Nat
        BY <1>6, ProgramType
      <4> QED BY <2>2, <4>1, <4>2
    <3> QED BY <1>16, <3>1, <3>2
  <2>4. ASSUME \A h \in Ids : \A l \in DOMAIN program[h].dst :
                   program[h].dst[l] = program[i].src[m] => h >= i
        PROVE  regs'.back[program[i].src[m]] # NoReg
               /\ instr'[i].src[m] = regs'.back[program[i].src[m]]
    <3>1. regs.back[program[i].src[m]] # NoReg
          /\ instr[i].src[m] = regs.back[program[i].src[m]]
      BY <1>28, <2>1, <2>4 DEF CoreInv, Sources
    <3> QED BY <3>1, <1>16, <1>18
  <2> QED BY <2>3, <2>4
<1>29. Sources'
  <2>1. \A i \in Ids : \A j \in RenamedSources(i)' : i > Gone' =>
            /\ \A h \in Ids : \A l \in DOMAIN program[h].dst :
                   NewestResult(program[i].src[j], i, h, l) =>
                       /\ instr'[i].src[j] = instr'[h].dst[l]
                       /\ instr'[i].executed => instr'[h].completed
            /\ (\A h \in Ids : \A l \in DOMAIN program[h].dst :
                    program[h].dst[l] = program[i].src[j] => h >= i) =>
                        regs'.back[program[i].src[j]] # NoReg
                        /\ instr'[i].src[j] = regs'.back[program[i].src[j]]
    BY <1>19, <1>28
  <2> QED BY <1>20, <2>1, SourcesAfter
<1> QED BY <1>19, <1>24, <1>26, <1>27, <1>29 DEF CoreInv

-----------------------------------------------------------------------------
(* The scan of the ROB, and the invariant as a whole.                      *)

ScanStages == {"schedule", "sources", "results"}

\* Outside the scan of the ROB nothing has to be said about it.
LEMMA ScanElsewhere ==
    ASSUME pc'.stage \notin ScanStages
    PROVE  Scan'
  BY DEF Scan, InScan, ScanStages

\* The stages before and after schedule do not enter the scan, except at the
\* end of execute.
LEMMA OtherStages ==
    ASSUME Types,
           \/ HandleMemoryResponse \/ NoResponse
           \/ Retire \/ Release \/ Released \/ Retired
           \/ CompleteLoad \/ LoadsDone \/ CompleteStore \/ StoresDone
           \/ Complete \/ Completed
           \/ Execute \/ AccessLoad \/ AccessStore \/ Accessed \/ Scheduled
           \/ Dispatch \/ Dispatched \/ Decode \/ Decoded \/ Fetch \/ Fetched
    PROVE  pc'.stage \notin ScanStages
<1>1. pc \in PcType
  BY DEF Types
<1>2. CASE HandleMemoryResponse \/ NoResponse
  BY <1>2 DEF HandleMemoryResponse, NoResponse, Tick, Goto, ScanStages
<1>3. CASE Retire
  <2>1. pc'.stage = "release"
    BY <1>3 DEF Retire
  <2> QED BY <2>1 DEF ScanStages
<1>4. CASE Release
  <2>1. pc' = [pc EXCEPT !.k = @ + 1] /\ pc.stage = "release"
    BY <1>4 DEF Release
  <2> QED BY <1>1, <2>1 DEF PcType, ScanStages
<1>5. CASE Released
  BY <1>5 DEF Released, ScanStages
<1>6. CASE Retired \/ LoadsDone \/ StoresDone \/ Completed \/ Scheduled \/ Dispatched \/ Decoded
           \/ Fetched
  BY <1>6 DEF Retired, LoadsDone, StoresDone, Completed, Scheduled, Dispatched, Decoded,
              Fetched, Goto, ScanStages
<1>7. CASE CompleteLoad
  <2>1. pc' = pc /\ pc.stage = "loads"
    BY <1>7 DEF CompleteLoad
  <2> QED BY <2>1 DEF ScanStages
<1>8. CASE CompleteStore
  <2>1. pc' = pc /\ pc.stage = "stores"
    BY <1>8 DEF CompleteStore
  <2> QED BY <2>1 DEF ScanStages
<1>9. CASE Complete
  <2>1. pc' = [pc EXCEPT !.n = @ + 1] /\ pc.stage = "complete"
    BY <1>9 DEF Complete
  <2> QED BY <1>1, <2>1 DEF PcType, ScanStages
<1>10. CASE Execute
  <2>1. pc'.stage = "access"
    BY <1>10 DEF Execute
  <2> QED BY <2>1 DEF ScanStages
<1>11. CASE AccessLoad \/ AccessStore
  <2>1. pc' = [pc EXCEPT !.k = @ + 1] /\ pc.stage = "access"
    BY <1>11 DEF AccessLoad, AccessStore
  <2> QED BY <1>1, <2>1 DEF PcType, ScanStages
<1>12. CASE Accessed
  BY <1>12 DEF Accessed, ScanStages
<1>13. CASE Dispatch
  <2>1. pc' = [pc EXCEPT !.n = @ + 1] /\ pc.stage = "dispatch"
    BY <1>13 DEF Dispatch
  <2> QED BY <1>1, <2>1 DEF PcType, ScanStages
<1>14. CASE Decode
  <2>1. pc' = [pc EXCEPT !.n = @ + 1] /\ pc.stage = "decode"
    BY <1>14 DEF Decode
  <2> QED BY <1>1, <2>1 DEF PcType, ScanStages
<1>15. CASE Fetch
  <2>1. pc' = [pc EXCEPT !.n = IF program[pipe.next].branch THEN FetchWidth ELSE @ + 1]
        /\ pc.stage = "fetch"
    BY <1>15 DEF Fetch
  <2> QED BY <1>1, <2>1 DEF PcType, ScanStages
<1> QED BY <1>2, <1>3, <1>4, <1>5, <1>6, <1>7, <1>8, <1>9, <1>10, <1>11, <1>12,
           <1>13, <1>14, <1>15

\* schedule starts with nothing passed.
LEMMA ScanStarts ==
    ASSUME Types, Order, Executed
    PROVE  Scan'
<1>1. pc'.k = 1 /\ pipe' = pipe /\ program' = program
  BY DEF Executed, Goto
<1>2. Gone' = Gone /\ Ids' = Ids
  BY <1>1, SamePipe DEF Ids
<1>3. Gone \in Nat /\ Ids \subseteq Nat
  BY OrderTypes, ProgramType
<1>4. \A i \in Ids : ~(Gone < i /\ i < Gone + 1)
  BY <1>3
<1> QED BY <1>1, <1>2, <1>4 DEF Scan

\* The scan passes an instruction that is renamed, or whose time has not come.
LEMMA ScanPasses ==
    ASSUME Types, CoreInv, Scan, ScheduleSkip \/ ResultsDone
    PROVE  Scan'
<1>1. PICK c : c = Gone + pc.k
  OBVIOUS
<1>2. Ordered
  BY DEF Ordered, CoreInv
<1>3. /\ pc'.k = pc.k + 1 /\ UNCHANGED <<program, now, pipe, instr>>
      /\ pc.stage = "schedule" \/ InScan
      /\ pc.stage \in {"sources", "results"} \/ pc.k <= Len(pipe.rob)
  BY DEF ScheduleSkip, ResultsDone, Scanned, InScan, ScanGoesOn
<1>4. pipe.rob[pc.k] = c /\ c \in Ids /\ Gone \in Nat /\ pc.k \in Nat
  BY <1>1, <1>2, <1>3, RenamingIs
<1>5. instr[c].scheduled \/ now < instr[c].ready
  <2>1. CASE ScheduleSkip
    <3>1. ~Schedules(c)
      BY <1>4, <2>1 DEF ScheduleSkip
    <3>2. instr[c].scheduled \/ ~(now >= instr[c].ready)
      BY <3>1 DEF Schedules
    <3>3. now \in Nat /\ instr[c].ready \in Nat
      BY <1>4, FieldTypes, InstrFields
    <3> QED BY <3>2, <3>3
  <2>2. CASE ResultsDone
    BY <1>1, <2>2 DEF ResultsDone, CoreInv, Place, InScan
  <2> QED BY <2>1, <2>2
<1>6. Gone' = Gone /\ Ids' = Ids /\ instr' = instr /\ now' = now
  BY <1>3, SamePipe DEF Ids
<1>7. \A i \in Ids : Gone < i /\ i < c => instr[i].scheduled \/ now < instr[i].ready
  BY <1>1, <1>3 DEF Scan
<1>8. \A i \in Ids : i < Gone + (pc.k + 1) => i < c \/ i = c
  BY <1>1, <1>4, ProgramType
<1>9. \A i \in Ids : Gone < i /\ i < Gone + (pc.k + 1) =>
          instr[i].scheduled \/ now < instr[i].ready
  BY <1>5, <1>7, <1>8
<1> QED BY <1>3, <1>6, <1>9 DEF Scan

\* Renaming an instruction keeps what the scan has passed.
LEMMA ScanWaits ==
    ASSUME Types, CoreInv, Scan, Schedule \/ RenameSource \/ SourcesDone \/ RenameResult
    PROVE  Scan'
<1>1. pc \in PcType /\ instr \in [Ids -> InstrState]
  BY DEF Types, InstrType
<1>2. /\ pc'.k = pc.k /\ UNCHANGED <<program, now, pipe>>
      /\ pc.stage = "schedule" \/ InScan
  <2>1. CASE Schedule \/ SourcesDone
    BY <1>1, <2>1 DEF Schedule, SourcesDone, InScan, PcType
  <2>2. CASE RenameSource \/ RenameResult
    BY <1>1, <2>2 DEF RenameSource, RenameResult, InScan, PcType
  <2> QED BY <2>1, <2>2
<1>3. \A i \in Ids : /\ instr[i].scheduled => instr'[i].scheduled
                     /\ instr'[i].ready = instr[i].ready
  <2>1. CASE Schedule
    <3>1. PICK c : instr' = [instr EXCEPT ![c].scheduled = TRUE]
      BY <2>1 DEF Schedule
    <3> QED BY <1>1, <3>1 DEF InstrState
  <2>2. CASE SourcesDone
    BY <2>2 DEF SourcesDone
  <2>3. CASE RenameSource
    <3>1. PICK c, v : instr' = [instr EXCEPT ![c].src = v]
      BY <2>3, Zenon DEF RenameSource, RenameSrcRegister
    <3> QED BY <1>1, <3>1 DEF InstrState
  <2>4. CASE RenameResult
    <3>1. PICK c, v : instr' = [instr EXCEPT ![c].dst = v]
      BY <2>4, Zenon DEF RenameResult, RenameDestRegister
    <3> QED BY <1>1, <3>1 DEF InstrState
  <2> QED BY <2>1, <2>2, <2>3, <2>4
<1>4. Gone' = Gone /\ Ids' = Ids
  BY <1>2, SamePipe DEF Ids
<1>5. \A i \in Ids : Gone < i /\ i < Gone + pc.k =>
          instr[i].scheduled \/ now < instr[i].ready
  BY <1>2 DEF Scan
<1> QED BY <1>2, <1>3, <1>4, <1>5 DEF Scan

\* A step that is quiet keeps the invariant of the pipeline.
LEMMA QuietInv ==
    ASSUME Types, CoreInv, Types' /\ Sizes' /\ Quiet
    PROVE  Types' /\ Sizes' /\ CoreInv'
  BY QuietKeeps

\* Every step of the node keeps the invariant.
LEMMA StepKeeps ==
    ASSUME IInv, Step
    PROVE  IInv'
<1>1. Types /\ Sizes /\ CoreInv /\ Scan /\ Order /\ Place
  BY DEF IInv, CoreInv
<1>2. Types' /\ Sizes' /\ CoreInv'
  <2>1. CASE HandleMemoryResponse \/ NoResponse
    BY <1>1, <2>1, ResponseQuiet, NoResponseQuiet, QuietInv
  <2>2. CASE Retire
    BY <1>1, <2>2, RetireKeeps
  <2>3. CASE Release
    BY <1>1, <2>3, ReleaseKeeps
  <2>4. CASE Released
    BY <1>1, <2>4, ReleasedKeeps
  <2>5. CASE Retired \/ LoadsDone \/ StoresDone \/ Completed \/ Executed
               \/ Scheduled \/ Dispatched \/ Decoded
    BY <1>1, <2>5, StageEndQuiet, QuietInv
  <2>6. CASE CompleteLoad \/ CompleteStore
    BY <1>1, <2>6, CompleteLoadQuiet, CompleteStoreQuiet, QuietInv
  <2>7. CASE Complete
    BY <1>1, <2>7, CompleteKeeps
  <2>8. CASE Execute
    BY <1>1, <2>8, ExecuteKeeps
  <2>9. CASE AccessLoad \/ AccessStore \/ Accessed
    BY <1>1, <2>9, AccessLoadQuiet, AccessStoreQuiet, AccessedQuiet, QuietInv
  <2>10. CASE ScheduleSkip
    BY <1>1, <2>10, SkipQuiet, QuietInv
  <2>11. CASE Schedule
    BY <1>1, <2>11, ScheduleKeeps
  <2>12. CASE RenameSource
    BY <1>1, <2>12, RenameSourceKeeps
  <2>13. CASE SourcesDone
    BY <1>1, <2>13, SourcesDoneKeeps
  <2>14. CASE RenameResult
    BY <1>1, <2>14, RenameResultKeeps
  <2>15. CASE ResultsDone
    BY <1>1, <2>15, ResultsDoneKeeps
  <2>16. CASE Dispatch
    BY <1>1, <2>16, DispatchKeeps
  <2>17. CASE Decode
    BY <1>1, <2>17, DecodeKeeps
  <2>18. CASE Fetch
    BY <1>1, <2>18, FetchKeeps
  <2>19. CASE Fetched
    BY <1>1, <2>19, FetchedQuiet, QuietInv
  <2> QED BY <2>1, <2>2, <2>3, <2>4, <2>5, <2>6, <2>7, <2>8, <2>9, <2>10, <2>11, <2>12,
             <2>13, <2>14, <2>15, <2>16, <2>17, <2>18, <2>19 DEF Step
<1>3. Scan'
  <2>1. CASE Executed
    BY <1>1, <2>1, ScanStarts
  <2>2. CASE ScheduleSkip \/ ResultsDone
    BY <1>1, <2>2, ScanPasses
  <2>3. CASE Schedule \/ RenameSource \/ SourcesDone \/ RenameResult
    BY <1>1, <2>3, ScanWaits
  <2>4. CASE ~(Executed \/ ScheduleSkip \/ ResultsDone \/ Schedule \/ RenameSource
               \/ SourcesDone \/ RenameResult)
    BY <1>1, <2>4, OtherStages, ScanElsewhere DEF Step
  <2> QED BY <2>1, <2>2, <2>3, <2>4
<1> QED BY <1>2, <1>3 DEF IInv, CoreInv

\* A state that stands still keeps everything.
LEMMA StutterKeeps ==
    ASSUME IInv, UNCHANGED vars
    PROVE  IInv'
<1>1. UNCHANGED <<program, now, pc, pipe, instr, regs, lsq, l1, net>>
  BY DEF vars
<1>2. Gone' = Gone /\ Newest' = Newest /\ Ids' = Ids /\ InRob' = InRob
  BY <1>1, SamePipe DEF Ids
<1>3. Types' /\ Sizes' /\ CoreInv'
  <2>1. Types /\ Sizes /\ CoreInv /\ pc' \in PcType
    BY <1>1 DEF IInv, CoreInv, Types
  <2>2. Place' /\ Enough'
    BY <1>1, <1>2, <2>1 DEF CoreInv, Place, Enough, InScan, NeededFor, Unmapped
  <2>3. \A i \in Ids : /\ SourcesAt(i)' = SourcesAt(i)
                       /\ ResultsAt(i)' = ResultsAt(i)
                       /\ Committed(i)' = Committed(i)
    BY <1>1, <1>2 DEF SourcesAt, ResultsAt, Committed
  <2> QED BY <1>1, <2>1, <2>2, <2>3, LoopEndKeeps
<1>4. Scan'
  BY <1>1, <1>2 DEF IInv, Scan, InScan
<1> QED BY <1>3, <1>4 DEF IInv, CoreInv

\* The core starts empty: every register is free, nothing is renamed.
LEMMA InitInv ==
    ASSUME Init
    PROVE  IInv
<1>1. /\ program \in Programs /\ now = 0
      /\ pc = [stage |-> "respond", n |-> 0, k |-> 1, i |-> 0]
      /\ pipe = [fetch |-> <<>>, decode |-> <<>>, rob |-> <<>>, next |-> 1]
      /\ instr = [i \in Ids |->
                    [ready |-> 0, scheduled |-> FALSE, executed |-> FALSE,
                     completed |-> FALSE, memDone |-> 0,
                     src |-> program[i].src, dst |-> program[i].dst]]
      /\ regs = [free |-> [j \in 1 .. NPhys |-> j - 1],
                 front |-> [a \in Arch |-> NoReg],
                 back |-> [a \in Arch |-> NoReg],
                 file |-> [p \in Phys |-> NoRegister]]
      /\ lsq = [loads |-> <<>>, stores |-> <<>>,
                pendingLoads |-> <<>>, pendingStores |-> <<>>]
      /\ l1 = [lines |-> <<>>, mshr |-> <<>>, requests |-> <<>>]
      /\ net = {}
  BY DEF Init
<1>2. /\ Len(program) \in Nat /\ Ids = 1 .. Len(program) /\ Ids \subseteq Nat
      /\ \A i \in Ids : program[i].src \in Seq(Arch) /\ program[i].dst \in Seq(Arch)
  <2>1. program \in Seq(Instruction)
    BY <1>1, ProgramsAssumption
  <2>2. Len(program) \in Nat /\ Ids = 1 .. Len(program) /\ Ids \subseteq Nat
    BY <2>1 DEF Ids
  <2>3. ASSUME NEW i \in Ids
        PROVE  program[i].src \in Seq(Arch) /\ program[i].dst \in Seq(Arch)
    <3>1. PICK r : r = program[i]
      OBVIOUS
    <3>2. r \in Instruction
      BY <2>1, <2>2, <3>1
    <3>3. r.src \in Seq(Arch) /\ r.dst \in Seq(Arch)
      BY <3>2 DEF Instruction
    <3> QED BY <3>1, <3>3
  <2> QED BY <2>2, <2>3
<1>3. \A i \in Ids : program[i].src \in Seq(Nat) /\ program[i].dst \in Seq(Nat)
  <2>1. Arch \subseteq Nat
    BY SizesAssumption
  <2>2. ASSUME NEW s \in Seq(Arch)
        PROVE  s \in Seq(Nat)
    <3>1. /\ Len(s) \in Nat /\ s = [j \in 1 .. Len(s) |-> s[j]]
          /\ \A j \in 1 .. Len(s) : s[j] \in Nat
      BY <2>1
    <3> QED BY <3>1
  <2> QED BY <1>2, <2>2
<1>4. \A i \in Ids : /\ instr[i] \in InstrState /\ instr[i].ready = 0 /\ instr[i].scheduled = FALSE
                     /\ instr[i].executed = FALSE /\ instr[i].completed = FALSE
                     /\ instr[i].memDone = 0
                     /\ instr[i].src = program[i].src /\ instr[i].dst = program[i].dst
  <2> SUFFICES ASSUME NEW i \in Ids
               PROVE  /\ instr[i] \in InstrState /\ instr[i].ready = 0
                      /\ instr[i].scheduled = FALSE
                      /\ instr[i].executed = FALSE /\ instr[i].completed = FALSE
                      /\ instr[i].memDone = 0
                      /\ instr[i].src = program[i].src /\ instr[i].dst = program[i].dst
    OBVIOUS
  <2>1. instr[i] = [ready |-> 0, scheduled |-> FALSE, executed |-> FALSE,
                    completed |-> FALSE, memDone |-> 0,
                    src |-> program[i].src, dst |-> program[i].dst]
    BY <1>1
  <2>2. program[i].src \in Seq(Nat) /\ program[i].dst \in Seq(Nat)
    BY <1>3
  <2> QED BY <2>1, <2>2 DEF InstrState
<1>5. instr \in InstrType
  <2>1. \E f : instr = [i \in Ids |-> f[i]]
    <3>1. instr = [i \in Ids |-> instr[i]]
      BY <1>1
    <3> QED BY <3>1
  <2> QED BY <1>4, <2>1 DEF InstrType
<1>6. /\ regs.free \in Seq(Phys) /\ Len(regs.free) = NPhys /\ DOMAIN regs.free = 1 .. NPhys
      /\ \A j \in 1 .. NPhys : regs.free[j] = j - 1
      /\ regs.front \in [Arch -> Phys \cup {NoReg}] /\ regs.back \in [Arch -> Phys \cup {NoReg}]
      /\ \A a \in Arch : regs.front[a] = NoReg /\ regs.back[a] = NoReg
      /\ regs.file \in [Phys -> Register]
  <2>1. NPhys \in Nat
    BY SizeTypes
  <2>2. NoRegister \in Register
    BY DEF NoRegister, Register
  <2>3. regs.free = [j \in 1 .. NPhys |-> j - 1]
    BY <1>1
  <2>4. \A j \in 1 .. NPhys : j - 1 \in Phys
    BY <2>1 DEF Phys
  <2> QED BY <1>1, <2>1, <2>2, <2>3, <2>4
<1>7. regs \in RegsType
  <2>1. regs = [free |-> regs.free, front |-> regs.front, back |-> regs.back,
                file |-> regs.file]
    BY <1>1
  <2> QED BY <1>6, <2>1 DEF RegsType
<1>8. Types
  <2>1. now \in 0 .. MaxCycle
    BY <1>1, SizeTypes
  <2>2. pc \in PcType
    BY <1>1 DEF PcType, Stages
  <2>3. pipe \in PipeType
    BY <1>1 DEF PipeType
  <2>4. lsq \in LsqType
    BY <1>1 DEF LsqType
  <2>5. l1 \in L1Type
    BY <1>1 DEF L1Type
  <2> QED BY <1>1, <1>5, <1>7, <2>1, <2>2, <2>3, <2>4, <2>5 DEF Types
<1>9. Sizes
  <2>1. /\ Len(pipe.fetch) = 0 /\ Len(pipe.decode) = 0 /\ Len(pipe.rob) = 0
        /\ Len(lsq.loads) = 0 /\ Len(lsq.stores) = 0
        /\ Len(l1.lines) = 0 /\ Len(l1.mshr) = 0
    BY <1>1
  <2> QED BY <2>1, SizeTypes DEF Sizes
<1>10. Gone = 0 /\ Newest = 0 /\ Len(pipe.rob) = 0 /\ pipe.next = 1
       /\ Len(pipe.decode) = 0 /\ Len(pipe.fetch) = 0
  BY <1>1 DEF Gone, Newest
<1>11. Order
  BY <1>2, <1>10 DEF Order
<1>12. Lengths
  BY <1>4 DEF Lengths
<1>13. pc.stage = "respond"
  BY <1>1
<1>14. Place /\ Scan /\ Enough
  BY <1>13 DEF Place, Scan, Enough, InScan
<1>15. Progress
  <2>1. \A i \in Ids : ~(i <= Gone)
    BY <1>2, <1>10
  <2>2. \A i \in Ids : i <= Newest => FALSE
    BY <1>2, <1>10
  <2> QED BY <1>4, <2>1, <2>2 DEF Progress
<1>16. Ordered
  BY <1>8, <1>11, <1>12, <1>14 DEF Ordered
<1>17. \A i \in Ids : RenamedSources(i) = {} /\ RenamedResults(i) = {} /\ Committed(i) = {}
  <2> SUFFICES ASSUME NEW i \in Ids
               PROVE  RenamedSources(i) = {} /\ RenamedResults(i) = {} /\ Committed(i) = {}
    OBVIOUS
  <2>1. i > Gone /\ ~instr[i].scheduled
    BY <1>2, <1>4, <1>10
  <2>2. pc.stage \notin Renames
    BY <1>13 DEF Renames
  <2> QED BY <1>16, <2>1, <2>2, ViewsOutside
<1>18. \A i \in Ids : Renamed(i) = {}
  BY <1>17 DEF Renamed
<1>19. Operands
  BY <1>4, <1>17 DEF Operands
<1>20. Ownership
  <2>1. \A j \in DOMAIN regs.free : \A h \in DOMAIN regs.free :
            regs.free[j] = regs.free[h] => j = h
    BY <1>6
  <2>2. \A j \in DOMAIN regs.free : \A a \in Arch : regs.back[a] # regs.free[j]
    BY <1>6, PhysType DEF NoReg
  <2>3. \A p \in Phys : \E j \in DOMAIN regs.free : regs.free[j] = p
    <3> SUFFICES ASSUME NEW p \in Phys
                 PROVE  \E j \in DOMAIN regs.free : regs.free[j] = p
      OBVIOUS
    <3>1. p + 1 \in 1 .. NPhys /\ (p + 1) - 1 = p
      BY SizeTypes DEF Phys
    <3> QED BY <1>6, <3>1
  <2> QED BY <1>6, <1>17, <2>1, <2>2, <2>3 DEF Ownership
<1>21. Contents
  BY <1>6, <1>17 DEF Contents
<1>22. Latest
  BY <1>6, <1>18 DEF Latest
<1>23. Sources
  BY <1>17 DEF Sources
<1> QED BY <1>8, <1>9, <1>11, <1>12, <1>14, <1>15, <1>19, <1>20, <1>21, <1>22, <1>23 DEF IInv

\* The invariant holds at every step of every run.
LEMMA Inductive == Spec => []IInv
<1>1. Init => IInv
  BY InitInv
<1>2. IInv /\ [Next]_vars => IInv'
  <2>1. IInv /\ Step => IInv'
    BY StepKeeps
  <2>2. IInv /\ UNCHANGED vars => IInv'
    BY StutterKeeps
  <2> QED BY <2>1, <2>2 DEF Next, Stop
<1> QED BY <1>1, <1>2, PTL DEF Spec

-----------------------------------------------------------------------------
(* What the invariant gives.                                               *)

\* A bounded set of numbers has a greatest one.
LEMMA GreatestNumber ==
    ASSUME NEW n \in Nat, NEW T, T \subseteq 0 .. n, T # {}
    PROVE  \E x \in T : \A y \in T : y <= x
<1> DEFINE D == {d \in Nat : n - d \in T}
<1>1. \A y \in T : n - y \in D
  <2> SUFFICES ASSUME NEW y \in T
               PROVE  n - y \in D
    OBVIOUS
  <2>1. y \in Nat /\ n - y \in Nat /\ n - (n - y) = y
    BY y \in 0 .. n
  <2> QED BY <2>1
<1>2. D \subseteq Nat /\ D # {}
  BY <1>1
<1>3. PICK d \in D : \A e \in D : d <= e
  BY <1>2, LeastNumber
<1>4. n - d \in T /\ d \in Nat
  OBVIOUS
<1>5. ASSUME NEW y \in T
      PROVE  y <= n - d
  <2>1. d <= n - y
    BY <1>1, <1>3
  <2>2. y \in Nat
    BY y \in 0 .. n
  <2> QED BY <1>4, <2>1, <2>2
<1> QED BY <1>4, <1>5

\* The last writer of a register before some instruction is the one with the
\* newest result for it, if there is one.
LEMMA LastWriterIs ==
    ASSUME Types, NEW a, NEW b
    PROVE  \/ /\ LastWriter(a, b) = 0
              /\ \A h \in Ids : \A l \in DOMAIN program[h].dst :
                     program[h].dst[l] = a => ~(h < b)
           \/ /\ LastWriter(a, b) \in Ids /\ LastWriter(a, b) # 0
              /\ \E l \in DOMAIN program[LastWriter(a, b)].dst :
                     NewestResult(a, b, LastWriter(a, b), l)
<1> DEFINE W == {w \in Ids : w < b /\ a \in ToSet(program[w].dst)}
<1>1. \A h \in Ids : a \in ToSet(program[h].dst) <=>
          \E l \in DOMAIN program[h].dst : program[h].dst[l] = a
  <2>1. \A h \in Ids : program[h].dst \in Seq(Arch)
    BY ProgramType
  <2> QED BY <2>1 DEF ToSet
<1>2. LastWriter(a, b) = IF W = {} THEN 0 ELSE CHOOSE w \in W : \A v \in W : v <= w
  BY DEF LastWriter
<1>3. CASE W = {}
  <2>1. LastWriter(a, b) = 0
    BY <1>2, <1>3
  <2>2. ASSUME NEW h \in Ids, NEW l \in DOMAIN program[h].dst, program[h].dst[l] = a
        PROVE  ~(h < b)
    <3>1. a \in ToSet(program[h].dst)
      BY <1>1, <2>2
    <3> QED BY <1>3, <3>1
  <2> QED BY <2>1, <2>2
<1>4. CASE W # {}
  <2>1. Len(program) \in Nat /\ Ids = 1 .. Len(program)
    BY ProgramType
  <2>2. W \subseteq 0 .. Len(program)
    BY <2>1
  <2>3. \E x \in W : \A y \in W : y <= x
    BY <1>4, <2>1, <2>2, GreatestNumber
  <2>4. PICK u : u = LastWriter(a, b)
    OBVIOUS
  <2>5. u \in W /\ \A v \in W : v <= u
    <3>1. u = CHOOSE w \in W : \A v \in W : v <= w
      BY <1>2, <1>4, <2>4
    <3> HIDE DEF W
    <3> QED BY <2>3, <3>1
  <2>6. u \in Ids /\ u \in Nat /\ u # 0 /\ u < b
    BY <2>1, <2>5
  <2> DEFINE L == {l \in DOMAIN program[u].dst : program[u].dst[l] = a}
  <2>7. L # {}
    BY <1>1, <2>5
  <2>8. Len(program[u].dst) \in Nat /\ DOMAIN program[u].dst = 1 .. Len(program[u].dst)
    <3>1. program[u].dst \in Seq(Arch)
      BY <2>6, ProgramType
    <3> QED BY <3>1
  <2>9. L \subseteq 0 .. Len(program[u].dst)
    BY <2>8
  <2>10. PICK l \in L : \A y \in L : y <= l
    <3> HIDE DEF L
    <3> QED BY <2>7, <2>8, <2>9, GreatestNumber
  <2>11. ASSUME NEW h \in Ids, NEW m \in DOMAIN program[h].dst,
                program[h].dst[m] = a, h < b
         PROVE  h < u \/ (h = u /\ m <= l)
    <3>1. h \in W
      BY <1>1, <2>11
    <3>2. h <= u /\ h \in Nat
      BY <2>1, <2>5, <3>1
    <3>3. h = u => m <= l
      BY <2>10, <2>11
    <3> QED BY <2>6, <3>2, <3>3
  <2>12. NewestResult(a, b, u, l)
    BY <2>6, <2>11 DEF NewestResult
  <2> QED BY <2>4, <2>6, <2>12
<1> QED BY <1>3, <1>4

\* A set without two members is empty or has one.
LEMMA AtMostOne ==
    ASSUME NEW S, \A x \in S : \A y \in S : x = y
    PROVE  /\ Cardinality(S) \in Nat
           /\ S = {} => Cardinality(S) = 0
           /\ S # {} => Cardinality(S) = 1
<1>1. CASE S = {}
  BY <1>1, FS_EmptySet
<1>2. CASE S # {}
  <2>1. PICK x : x \in S
    BY <1>2
  <2>2. S = {x}
    BY <2>1
  <2> QED BY <1>2, <2>2, FS_Singleton
<1> QED BY <1>1, <1>2

\* A register that is renamed belongs to an instruction that the test before
\* renaming has let pass, so that no result list is longer than the file.
LEMMA ResultsFit ==
    ASSUME IInv, NEW i \in Ids
    PROVE  RenamedResults(i) \subseteq 1 .. NPhys
<1>1. Ordered
  BY DEF Ordered, IInv
<1>2. RenamedResults(i) = ResultsAt(i) /\ RenamedResults(i) \subseteq DOMAIN program[i].dst
  BY <1>1, ViewsHold, ResultsApart DEF Views
<1>3. DOMAIN program[i].dst = 1 .. Len(program[i].dst) /\ Len(program[i].dst) \in Nat
      /\ NPhys \in Nat /\ i \in Nat
  BY <1>1, OperandLengths, SizeTypes
<1>4. CASE instr[i].scheduled
  <2>1. Len(program[i].dst) <= NPhys
    BY <1>4 DEF IInv, Operands
  <2>2. DOMAIN program[i].dst \subseteq 1 .. NPhys
    BY <1>3, <2>1
  <2> QED BY <1>2, <2>2
<1>5. CASE ~instr[i].scheduled
  <2>1. ~(i <= Gone)
    BY <1>5 DEF IInv, Progress
  <2>2. pc.stage = "results" => i # Gone + pc.k
    BY <1>5 DEF IInv, Place, InScan
  <2>3. Gone \in Nat
    BY <1>1, OrderTypes DEF Ordered
  <2>4. i # Gone
    BY <1>3, <2>1, <2>3
  <2>5. ResultsAt(i) = {}
    BY <1>5, <2>2, <2>4 DEF ResultsAt
  <2> QED BY <1>2, <2>5
<1> QED BY <1>4, <1>5

\* Every register has one owner, and one only.
LEMMA OneOwner ==
    ASSUME IInv, NEW p \in Phys
    PROVE  Cardinality({j \in DOMAIN regs.free : regs.free[j] = p})
           + Cardinality({a \in Arch : regs.back[a] = p})
           + Cardinality({r \in Ids \X (1 .. NPhys) :
                             r[2] \in RenamedResults(r[1]) /\ instr[r[1]].dst[r[2]] = p}) = 1
<1> DEFINE F == {j \in DOMAIN regs.free : regs.free[j] = p}
           B == {a \in Arch : regs.back[a] = p}
           R == {r \in Ids \X (1 .. NPhys) :
                    r[2] \in RenamedResults(r[1]) /\ instr[r[1]].dst[r[2]] = p}
<1>1. Ownership
  BY DEF IInv
<1>2. p # NoReg
  BY PhysType
<1>3. \A x \in F : \A y \in F : x = y
  BY <1>1 DEF Ownership
<1>4. \A x \in B : \A y \in B : x = y
  BY <1>1, <1>2 DEF Ownership
<1>5. ASSUME NEW x \in R, NEW y \in R
      PROVE  x = y
  <2>1. /\ x[1] \in Ids /\ y[1] \in Ids
        /\ x[2] \in RenamedResults(x[1]) /\ y[2] \in RenamedResults(y[1])
        /\ instr[x[1]].dst[x[2]] = instr[y[1]].dst[y[2]]
        /\ x = <<x[1], x[2]>> /\ y = <<y[1], y[2]>>
    OBVIOUS
  <2>2. x[1] = y[1] /\ x[2] = y[2]
    BY <1>1, <2>1 DEF Ownership
  <2> QED BY <2>1, <2>2
<1>6. F # {} \/ B # {} \/ R # {}
  <2>1. CASE \E i \in Ids : \E k \in RenamedResults(i) : instr[i].dst[k] = p
    <3>1. PICK i \in Ids : \E k \in RenamedResults(i) : instr[i].dst[k] = p
      BY <2>1
    <3>2. PICK k \in RenamedResults(i) : instr[i].dst[k] = p
      BY <3>1
    <3>3. k \in 1 .. NPhys
      BY ResultsFit
    <3>4. <<i, k>> \in R
      BY <3>2, <3>3
    <3> QED BY <3>4
  <2> QED BY <1>1, <2>1 DEF Ownership
<1>7. F = {} \/ B = {}
  BY <1>1 DEF Ownership
<1>8. F = {} \/ R = {}
  <2>1. ASSUME NEW x \in R, NEW j \in F
        PROVE  FALSE
    BY <1>1 DEF Ownership
  <2> QED BY <2>1
<1>9. B = {} \/ R = {}
  <2>1. ASSUME NEW x \in R, NEW a \in B
        PROVE  FALSE
    BY <1>1 DEF Ownership
  <2> QED BY <2>1
<1> HIDE DEF F, B, R
<1>10. /\ Cardinality(F) = IF F = {} THEN 0 ELSE 1
       /\ Cardinality(B) = IF B = {} THEN 0 ELSE 1
       /\ Cardinality(R) = IF R = {} THEN 0 ELSE 1
  BY <1>3, <1>4, <1>5, AtMostOne
<1>11. Cardinality(F) + Cardinality(B) + Cardinality(R) = 1
  BY <1>6, <1>7, <1>8, <1>9, <1>10
<1> QED BY <1>11 DEF F, B, R

\* The results of all instructions before a renamed one are renamed too, or
\* committed.
LEMMA WritersRenamed ==
    ASSUME IInv, NEW i \in Ids, NEW w \in Ids, w < i, i <= Newest, RenamedSources(i) # {}
    PROVE  DOMAIN program[w].dst \subseteq Renamed(w)
<1>1. Ordered
  BY DEF Ordered, IInv
<1>2. RenamedSources(i) = SourcesAt(i) /\ RenamedResults(w) = ResultsAt(w)
  BY <1>1, ViewsHold DEF Views
<1>3. DOMAIN program[w].dst = 1 .. Len(program[w].dst) /\ Len(program[w].dst) \in Nat
      /\ w \in Nat /\ i \in Nat
  BY <1>1, OperandLengths
<1>4. Gone \in Nat /\ Newest \in Nat /\ pc.k \in Nat /\ pc.k > 0
  BY <1>1, OrderTypes, FieldTypes DEF Ordered
<1>5. instr[i].scheduled
  <2>1. pc.stage = "sources" /\ i = Gone + pc.k => instr[i].scheduled
    BY DEF IInv, Place, InScan
  <2> QED BY <1>2, <2>1 DEF SourcesAt
<1>6. instr[w].scheduled
  BY <1>5 DEF IInv, Progress
<1>7. InScan => w # Gone + pc.k
  <2>1. InScan => \A h \in Ids : h > Gone + pc.k => ~instr[h].scheduled
    BY DEF IInv, Place
  <2>2. w = Gone + pc.k => i > Gone + pc.k
    BY <1>3, <1>4
  <2> QED BY <1>5, <2>1, <2>2
<1>8. CASE w > Gone
  <2>1. Gone < w /\ w <= Newest /\ w # Gone
    BY <1>3, <1>4, <1>8
  <2>2. ResultsAt(w) = 1 .. Len(program[w].dst)
    BY <1>6, <1>7, <2>1 DEF ResultsAt, InScan
  <2> QED BY <1>2, <1>3, <2>2 DEF Renamed
<1>9. CASE ~(w > Gone)
  <2>1. CASE pc.stage = "release" /\ pc.i = w
    <3>1. w = Gone
      BY <2>1 DEF IInv, Place
    <3>2. ResultsAt(w) = pc.k .. Len(program[w].dst)
      BY <2>1, <3>1 DEF ResultsAt
    <3>3. Committed(w) = 1 .. pc.k - 1
      BY <1>9, <2>1 DEF Committed
    <3>4. 1 .. Len(program[w].dst) \subseteq (1 .. pc.k - 1) \cup (pc.k .. Len(program[w].dst))
      BY <1>3, <1>4
    <3> QED BY <1>2, <1>3, <3>2, <3>3, <3>4 DEF Renamed
  <2>2. CASE ~(pc.stage = "release" /\ pc.i = w)
    BY <1>9, <2>2 DEF Committed, Renamed
  <2> QED BY <2>1, <2>2
<1> QED BY <1>8, <1>9

\* A committed result that is the newest for its register describes it.
LEMMA CommittedRegister ==
    ASSUME IInv, NEW a \in Arch, NEW i \in Ids, NEW k \in Committed(i),
           NewestCommitted(a, i, k)
    PROVE  /\ regs.back[a] # NoReg /\ regs.back[a] = instr[i].dst[k]
           /\ regs.file[regs.back[a]].arch = a /\ regs.file[regs.back[a]].valid
           /\ regs.file[regs.back[a]].producer = i
<1>1. Contents
  BY DEF IInv
<1>2. /\ regs.back[a] # NoReg /\ regs.back[a] = instr[i].dst[k]
      /\ regs.file[regs.back[a]].producer = i
  BY <1>1 DEF Contents
<1>3. regs.file[regs.back[a]].arch = a /\ regs.file[regs.back[a]].valid
  BY <1>1, <1>2 DEF Contents
<1> QED BY <1>2, <1>3

\* What is committed lies before the ROB.
LEMMA CommittedBefore ==
    ASSUME IInv, NEW i \in Ids, i > Gone
    PROVE  \A h \in Ids : \A l \in Committed(h) : h < i /\ l \in DOMAIN program[h].dst
<1>1. Ordered
  BY DEF Ordered, IInv
<1>2. Gone \in Nat /\ Ids \subseteq Nat
  BY <1>1, OrderTypes, ProgramType DEF Ordered
<1>3. \A h \in Ids : h > Gone => Committed(h) = {}
  BY DEF Committed
<1>4. \A h \in Ids : Committed(h) \subseteq DOMAIN program[h].dst
  BY <1>1, ResultsApart
<1>5. \A h \in Ids : h > Gone \/ h < i
  BY <1>2
<1> QED BY <1>3, <1>4, <1>5

\* The types and the bounds of the queues follow from the invariant.
LEMMA TypesGiven ==
    ASSUME IInv
    PROVE  TypeOK
<1>1. Types /\ Sizes /\ Progress
  BY DEF IInv
<1>2. \A i \in Ids : /\ instr[i].scheduled \in BOOLEAN
                     /\ instr[i].executed => instr[i].scheduled
                     /\ instr[i].completed => instr[i].executed
  BY <1>1, InstrFields DEF Progress
<1>3. /\ pc.stage \in Stages /\ pipe.fetch \in Seq(Ids) /\ pipe.decode \in Seq(Ids)
      /\ pipe.rob \in Seq(Ids)
      /\ regs.free \in Seq(Phys) /\ regs.front \in [Arch -> Phys \cup {NoReg}]
      /\ regs.back \in [Arch -> Phys \cup {NoReg}] /\ regs.file \in [Phys -> Register]
      /\ lsq.loads \in Seq(Entry) /\ lsq.stores \in Seq(Entry)
      /\ lsq.pendingLoads \in Seq(PendingOp) /\ lsq.pendingStores \in Seq(PendingOp)
      /\ l1.lines \in Seq(Blocks)
  BY <1>1, FieldTypes
<1>4. /\ program \in Programs /\ now \in 0 .. MaxCycle
      /\ net \subseteq [block : Blocks, instr : Ids, sent : 0 .. MaxCycle]
  BY <1>1 DEF Types, Sent
<1>5. /\ pc.stage \in {"respond", "retire", "release", "loads", "stores",
                       "complete", "execute", "access", "schedule", "sources",
                       "results", "dispatch", "decode", "fetch"}
      /\ regs.file \in [Phys -> [arch : 0 .. 255, producer : {0} \cup Ids, valid : BOOLEAN]]
  BY <1>3 DEF Stages, Register
<1> QED BY <1>1, <1>2, <1>3, <1>4, <1>5 DEF Sizes, TypeOK

\* The registers are conserved, and the allocator finds a free one whenever it
\* is asked.
LEMMA RegistersGiven ==
    ASSUME IInv
    PROVE  RegistersConserved
<1>1. Ordered
  BY DEF Ordered, IInv
<1>2. regs.free \in Seq(Phys)
  BY <1>1, FieldTypes DEF Ordered
<1>3. Len(regs.free) > 0 => regs.free # <<>>
  BY <1>2
<1>4. ASSUME pc.stage = "sources", pc.i <= Len(instr[Renaming].src),
             regs.front[instr[Renaming].src[pc.i]] = NoReg
      PROVE  regs.free # <<>>
  <2>1. PICK c : c = Gone + pc.k
    OBVIOUS
  <2>2. Renaming = c /\ c \in Ids
    BY <1>1, <1>4, <2>1, RenamingIs DEF Renaming
  <2>3. pc.i \in Nat /\ pc.i >= 1
    <3>1. pc.i \in Nat
      BY <1>1, FieldTypes DEF Ordered
    <3>2. pc.i >= 1
      BY <1>4 DEF IInv, Place, InScan
    <3> QED BY <3>1, <3>2
  <2>4. pc.i \in DOMAIN instr[c].src
    <3>1. /\ DOMAIN instr[c].src = 1 .. Len(program[c].src) /\ Len(program[c].src) \in Nat
          /\ Len(instr[c].src) = Len(program[c].src)
      BY <1>1, <2>2, OperandLengths
    <3> QED BY <3>1, <1>4, <2>2, <2>3
  <2>5. Unmapped(instr[c].src[pc.i])
    BY <1>4, <2>2 DEF Unmapped
  <2>6. Len(regs.free) >= Cardinality(NeededFor(c, pc.i)) + Len(program[c].dst)
    BY <1>4, <2>1 DEF IInv, Enough
  <2>7. Len(regs.free) > 0
    BY <1>1, <2>2, <2>4, <2>5, <2>6, NeededForNext
  <2> QED BY <1>3, <2>7
<1>5. ASSUME pc.stage = "results", pc.i <= Len(instr[Renaming].dst)
      PROVE  regs.free # <<>>
  <2>1. PICK c : c = Gone + pc.k
    OBVIOUS
  <2>2. Renaming = c /\ c \in Ids
    BY <1>1, <1>5, <2>1, RenamingIs DEF Renaming
  <2>3. Len(program[c].dst) \in Nat /\ Len(instr[c].dst) = Len(program[c].dst)
    BY <1>1, <2>2, OperandLengths
  <2>4. Len(regs.free) >= Len(program[c].dst) + 1 - pc.i
    BY <1>5, <2>1 DEF IInv, Enough
  <2>5. pc.i \in Nat /\ pc.i <= Len(program[c].dst)
    BY <1>1, <1>5, <2>2, <2>3, FieldTypes DEF Ordered
  <2>6. Len(regs.free) \in Nat
    BY <1>2
  <2>7. Len(regs.free) > 0
    BY <2>3, <2>4, <2>5, <2>6
  <2> QED BY <1>3, <2>7
<1>6. \A p \in Phys :
          Cardinality({j \in DOMAIN regs.free : regs.free[j] = p})
          + Cardinality({a \in Arch : regs.back[a] = p})
          + Cardinality({r \in Ids \X (1 .. NPhys) :
                            r[2] \in RenamedResults(r[1]) /\ instr[r[1]].dst[r[2]] = p}) = 1
  BY OneOwner
<1> QED BY <1>4, <1>5, <1>6 DEF RegistersConserved

\* A source in flight names the register of its last writer.
LEMMA SourceGiven ==
    ASSUME IInv, NEW i \in InRob, NEW j \in RenamedSources(i), NEW a, a = program[i].src[j],
           NEW p, p = instr[i].src[j], NEW w, w = LastWriter(a, i)
    PROVE  /\ regs.file[p].arch = a /\ regs.file[p].producer = w
           /\ instr[i].executed => w = 0 \/ instr[w].completed
<1>1. Ordered /\ Types /\ Sources /\ Contents
  BY DEF Ordered, IInv
<1>2. i \in Ids /\ Gone < i /\ i <= Newest
  BY <1>1, RobInterval DEF Ordered
<1>3. Gone \in Nat /\ i \in Nat /\ Ids \subseteq Nat
  BY <1>1, <1>2, OrderTypes, ProgramType DEF Ordered
<1>4. i > Gone
  BY <1>2, <1>3
<1>5. a \in Arch
  <2>1. j \in DOMAIN program[i].src /\ program[i].src \in Seq(Arch)
    BY <1>1, <1>2, ResultsApart, ProgramType
  <2> QED BY <2>1
<1>6. \A h \in Ids : \A l \in Committed(h) : h < i /\ l \in DOMAIN program[h].dst
  BY <1>2, <1>4, CommittedBefore
<1>7. CASE /\ w = 0
           /\ \A h \in Ids : \A l \in DOMAIN program[h].dst :
                  program[h].dst[l] = a => ~(h < i)
  <2>1. \A h \in Ids : ~(h < i) => h >= i
    BY <1>3
  <2>2. \A h \in Ids : \A l \in DOMAIN program[h].dst : program[h].dst[l] = a => h >= i
    BY <1>7, <2>1
  <2>3. regs.back[a] # NoReg /\ p = regs.back[a]
    BY <1>1, <1>2, <1>4, <2>2 DEF Sources
  <2>4. \A h \in Ids : \A l \in Committed(h) : program[h].dst[l] # a
    BY <1>6, <1>7
  <2>5. regs.file[p].arch = a
    BY <1>1, <1>5, <2>3 DEF Contents
  <2>6. regs.file[p].producer = 0
    BY <1>1, <1>5, <2>3, <2>4 DEF Contents
  <2> QED BY <1>7, <2>5, <2>6
<1>8. CASE w \in Ids /\ \E l \in DOMAIN program[w].dst : NewestResult(a, i, w, l)
  <2>1. PICK l \in DOMAIN program[w].dst : NewestResult(a, i, w, l)
    BY <1>8
  <2>2. p = instr[w].dst[l] /\ (instr[i].executed => instr[w].completed)
    BY <1>1, <1>2, <1>4, <1>8, <2>1 DEF Sources
  <2>3. /\ w < i /\ program[w].dst[l] = a
        /\ \A h \in Ids : \A m \in DOMAIN program[h].dst :
               program[h].dst[m] = a /\ h < i => h < w \/ (h = w /\ m <= l)
    BY <2>1 DEF NewestResult
  <2>4. l \in Renamed(w)
    BY <1>2, <1>8, <2>3, WritersRenamed
  <2>5. CASE l \in RenamedResults(w)
    <3>1. regs.file[p] = [arch |-> a, producer |-> w, valid |-> instr[w].completed]
      BY <1>1, <1>8, <2>2, <2>3, <2>5 DEF Contents
    <3> QED BY <2>2, <3>1
  <2>6. CASE l \in Committed(w)
    <3>1. NewestCommitted(a, w, l)
      BY <1>6, <1>8, <2>3, <2>6 DEF NewestCommitted
    <3>2. regs.back[a] = instr[w].dst[l] /\ regs.file[regs.back[a]].arch = a
          /\ regs.file[regs.back[a]].producer = w
      BY <1>5, <1>8, <2>6, <3>1, CommittedRegister
    <3> QED BY <2>2, <3>2
  <2> QED BY <2>4, <2>5, <2>6 DEF Renamed
<1>9. \/ /\ w = 0
         /\ \A h \in Ids : \A l \in DOMAIN program[h].dst :
                program[h].dst[l] = a => ~(h < i)
      \/ w \in Ids /\ \E l \in DOMAIN program[w].dst : NewestResult(a, i, w, l)
  BY <1>1, LastWriterIs
<1> QED BY <1>7, <1>8, <1>9

\* What a stretch of consecutive numbers holds.
LEMMA Stretch ==
    ASSUME NEW s, NEW b \in Nat, NEW n \in Nat, NEW i \in Nat,
           \A j \in 1 .. n : s[j] = b + j
    PROVE  i \in {s[j] : j \in 1 .. n} <=> b < i /\ i <= b + n
<1>1. ASSUME NEW j \in 1 .. n, i = s[j]
      PROVE  b < i /\ i <= b + n
  BY <1>1
<1>2. ASSUME b < i, i <= b + n
      PROVE  \E j \in 1 .. n : i = s[j]
  <2>1. i - b \in 1 .. n /\ b + (i - b) = i
    BY <1>2
  <2> QED BY <2>1
<1> QED BY <1>1, <1>2

\* The instructions that are retired are those that left the ROB.
LEMMA RetiredCount ==
    ASSUME IInv
    PROVE  Cardinality({i \in Ids : IsRetired(i)}) = Gone
<1>1. Ordered /\ Types /\ Order
  BY DEF Ordered, IInv
<1>2. /\ Gone \in Nat /\ Newest \in Nat /\ Newest = Gone + Len(pipe.rob)
      /\ Newest + Len(pipe.decode) + Len(pipe.fetch) + 1 = pipe.next
      /\ Len(pipe.rob) \in Nat /\ Len(pipe.decode) \in Nat /\ Len(pipe.fetch) \in Nat
      /\ pipe.next <= Len(program) + 1
  BY <1>1, OrderTypes
<1>3. Ids = 1 .. Len(program) /\ Len(program) \in Nat
  BY <1>1, ProgramType
<1>4. /\ InRob = {pipe.rob[j] : j \in 1 .. Len(pipe.rob)}
      /\ ToSet(pipe.decode) = {pipe.decode[j] : j \in 1 .. Len(pipe.decode)}
      /\ ToSet(pipe.fetch) = {pipe.fetch[j] : j \in 1 .. Len(pipe.fetch)}
  <2>1. pipe.rob \in Seq(Ids) /\ pipe.decode \in Seq(Ids) /\ pipe.fetch \in Seq(Ids)
    BY <1>1, FieldTypes
  <2> QED BY <2>1 DEF InRob, ToSet
<1>5. /\ \A j \in 1 .. Len(pipe.rob) : pipe.rob[j] = Gone + j
      /\ \A j \in 1 .. Len(pipe.decode) : pipe.decode[j] = Newest + j
      /\ \A j \in 1 .. Len(pipe.fetch) : pipe.fetch[j] = Newest + Len(pipe.decode) + j
  BY <1>1 DEF Order
<1>6. PICK g, w, r, e, f, n, l :
          /\ g = Gone /\ w = Newest /\ n = pipe.next /\ l = Len(program)
          /\ r = Len(pipe.rob) /\ e = Len(pipe.decode) /\ f = Len(pipe.fetch)
  OBVIOUS
<1>7. /\ g \in Nat /\ w \in Nat /\ r \in Nat /\ e \in Nat /\ f \in Nat /\ l \in Nat
      /\ w = g + r /\ w + e + f + 1 = n /\ n <= l + 1 /\ Ids = 1 .. l
  BY <1>2, <1>3, <1>6, Zenon
<1>8. PICK d \in Nat : d = w + e
  BY <1>7
<1>9. g <= w /\ w <= d /\ n = d + f + 1 /\ n \in Nat /\ g <= l
  BY <1>7, <1>8
<1>10. /\ \A j \in 1 .. r : pipe.rob[j] = g + j
       /\ \A j \in 1 .. e : pipe.decode[j] = w + j
       /\ \A j \in 1 .. f : pipe.fetch[j] = d + j
  BY <1>5, <1>6, <1>8, Zenon
<1>11. ASSUME NEW i \in Ids
       PROVE  IsRetired(i) <=> i <= g
  <2>1. i \in Nat
    BY <1>7
  <2>2. i \in InRob <=> g < i /\ i <= g + r
    <3>1. i \in {pipe.rob[j] : j \in 1 .. r} <=> g < i /\ i <= g + r
      BY <1>7, <1>10, <2>1, Stretch
    <3> QED BY <1>4, <1>6, <3>1, Zenon
  <2>3. i \in ToSet(pipe.decode) <=> w < i /\ i <= w + e
    <3>1. w \in Nat /\ e \in Nat /\ \A j \in 1 .. e : pipe.decode[j] = w + j
      BY <1>7, <1>10, Zenon
    <3>2. i \in {pipe.decode[j] : j \in 1 .. e} <=> w < i /\ i <= w + e
      BY <2>1, <3>1, Stretch
    <3> QED BY <1>4, <1>6, <3>2, Zenon
  <2>4. i \in ToSet(pipe.fetch) <=> d < i /\ i <= d + f
    <3>1. i \in {pipe.fetch[j] : j \in 1 .. f} <=> d < i /\ i <= d + f
      BY <1>7, <1>10, <2>1, Stretch
    <3> QED BY <1>4, <1>6, <3>1, Zenon
  <2>5. /\ i < n
        /\ ~(\/ d < i /\ i <= d + f
             \/ w < i /\ i <= w + e
             \/ g < i /\ i <= g + r)
        <=> i <= g
    BY <1>7, <1>8, <1>9, <2>1
  <2>6. IsRetired(i) <=> i < n /\ i \notin InFlight
    BY <1>6 DEF IsRetired
  <2>7. i \in InFlight <=>
            \/ i \in ToSet(pipe.fetch) \/ i \in ToSet(pipe.decode) \/ i \in InRob
    BY DEF InFlight
  <2> QED BY <2>2, <2>3, <2>4, <2>5, <2>6, <2>7
<1>12. {i \in Ids : IsRetired(i)} = 1 .. g
  <2>1. \A i \in 1 .. g : i \in Ids /\ i <= g
    BY <1>7, <1>9
  <2>2. \A i \in Ids : i <= g => i \in 1 .. g
    BY <1>7
  <2> QED BY <1>11, <2>1, <2>2
<1>13. Cardinality(1 .. g) = IF 1 > g THEN 0 ELSE g - 1 + 1
  BY <1>7, FS_Interval
<1>14. Cardinality(1 .. g) = g
  BY <1>7, <1>13
<1> QED BY <1>6, <1>12, <1>14

\* The committed map is the state of the retired instructions.
LEMMA PreciseGiven ==
    ASSUME IInv, pc.stage # "release", NEW a \in Arch,
           NEW last, last = LastWriter(a, 1 + Cardinality({i \in Ids : IsRetired(i)}))
    PROVE  /\ last # 0 => regs.back[a] # NoReg
           /\ regs.back[a] # NoReg =>
                  regs.file[regs.back[a]] = [arch |-> a, producer |-> last, valid |-> TRUE]
<1>1. Ordered /\ Types /\ Contents
  BY DEF Ordered, IInv
<1>2. Gone \in Nat /\ Ids \subseteq Nat
  BY <1>1, OrderTypes, ProgramType DEF Ordered
<1>3. last = LastWriter(a, 1 + Gone)
  BY RetiredCount
<1>4. \A h \in Ids : Committed(h) = IF h > Gone THEN {} ELSE DOMAIN program[h].dst
  BY DEF Committed
<1>5. \A h \in Ids : h < 1 + Gone <=> ~(h > Gone)
  BY <1>2
<1>6. ASSUME regs.back[a] # NoReg
      PROVE  regs.file[regs.back[a]] = [arch |-> a, producer |-> regs.file[regs.back[a]].producer,
                                        valid |-> TRUE]
  <2>1. regs.file[regs.back[a]].arch = a /\ regs.file[regs.back[a]].valid
    BY <1>1, <1>6 DEF Contents
  <2>2. regs.file[regs.back[a]] \in Register
    BY <1>1, <1>6, FieldTypes
  <2>3. PICK r : r = regs.file[regs.back[a]]
    OBVIOUS
  <2>4. r \in Register /\ r.arch = a /\ r.valid
    BY <2>1, <2>2, <2>3
  <2>5. r = [arch |-> a, producer |-> r.producer, valid |-> TRUE]
    BY <2>4 DEF Register
  <2> QED BY <2>3, <2>5
<1>7. CASE /\ last = 0
           /\ \A h \in Ids : \A l \in DOMAIN program[h].dst :
                  program[h].dst[l] = a => ~(h < 1 + Gone)
  <2>1. \A h \in Ids : \A l \in Committed(h) : program[h].dst[l] # a
    BY <1>4, <1>5, <1>7
  <2>2. regs.back[a] # NoReg => regs.file[regs.back[a]].producer = 0
    BY <1>1, <2>1 DEF Contents
  <2> QED BY <1>6, <1>7, <2>2
<1>8. CASE last \in Ids /\ \E l \in DOMAIN program[last].dst : NewestResult(a, 1 + Gone, last, l)
  <2>1. PICK l \in DOMAIN program[last].dst : NewestResult(a, 1 + Gone, last, l)
    BY <1>8
  <2>2. /\ last < 1 + Gone /\ program[last].dst[l] = a
        /\ \A h \in Ids : \A m \in DOMAIN program[h].dst :
               program[h].dst[m] = a /\ h < 1 + Gone => h < last \/ (h = last /\ m <= l)
    BY <2>1 DEF NewestResult
  <2>3. l \in Committed(last)
    BY <1>4, <1>5, <1>8, <2>2
  <2>4. \A h \in Ids : \A m \in Committed(h) : h < 1 + Gone /\ m \in DOMAIN program[h].dst
    BY <1>4, <1>5
  <2>5. NewestCommitted(a, last, l)
    BY <1>8, <2>2, <2>3, <2>4 DEF NewestCommitted
  <2>6. regs.back[a] # NoReg /\ regs.file[regs.back[a]].producer = last
    BY <1>8, <2>3, <2>5, CommittedRegister
  <2> QED BY <1>6, <2>6
<1>9. \/ /\ last = 0
         /\ \A h \in Ids : \A l \in DOMAIN program[h].dst :
                program[h].dst[l] = a => ~(h < 1 + Gone)
      \/ last \in Ids /\ \E l \in DOMAIN program[last].dst : NewestResult(a, 1 + Gone, last, l)
  BY <1>1, <1>3, LastWriterIs
<1> QED BY <1>7, <1>8, <1>9

-----------------------------------------------------------------------------
(* The theorems                                                            *)

\* O3CPU.Tick, the queues and the cache keep their types in every program:
\* no queue, ROB, cache set or MSHR file grows past its configured size.
THEOREM CoreTypes == Spec => []TypeOK
<1>1. IInv => TypeOK
  BY TypesGiven
<1> QED BY <1>1, Inductive, PTL

\* RegisterAllocator never loses a physical register, never frees one in use
\* and never panics for want of one, for every program and register file.
THEOREM CoreConservesRegisters == Spec => []RegistersConserved
<1>1. IInv => RegistersConserved
  BY RegistersGiven
<1> QED BY <1>1, Inductive, PTL

\* RenameSrcRegister gives every source the register of its last writer in
\* program order, and no instruction executes before that writer completed.
THEOREM CoreDataFlow == Spec => []DataFlow
<1>1. IInv => DataFlow
  BY SourceGiven DEF DataFlow
<1> QED BY <1>1, Inductive, PTL

\* RetireDestRegister leaves, between instructions, a committed map that names
\* the valid result of the last retired writer of every register.
THEOREM CorePreciseState == Spec => []PreciseState
<1>1. IInv => PreciseState
  BY PreciseGiven DEF PreciseState
<1> QED BY <1>1, Inductive, PTL

-----------------------------------------------------------------------------
(* The MSHRs and the requests.                                             *)

\* The blocks of the MSHRs m, of the requests q that wait for the end of the
\* cycle and of the requests n in the network: each once, and the same.
Tracks(m, q, n) ==
    /\ \A j \in 1 .. Len(m) : \A k \in 1 .. Len(m) : m[j].block = m[k].block => j = k
    /\ \A j \in 1 .. Len(q) : \A k \in 1 .. Len(q) : q[j].block = q[k].block => j = k
    /\ \A r \in n : \A s \in n : r.block = s.block => r = s
    /\ \A j \in 1 .. Len(q) : \A r \in n : q[j].block # r.block
    /\ \A j \in 1 .. Len(m) : \/ \E k \in 1 .. Len(q) : q[k].block = m[j].block
                              \/ \E r \in n : r.block = m[j].block
    /\ \A k \in 1 .. Len(q) : \E j \in 1 .. Len(m) : q[k].block = m[j].block
    /\ \A r \in n : \E j \in 1 .. Len(m) : r.block = m[j].block

MSHRInv == Tracks(l1.mshr, l1.requests, net)

\* MSHR.Allocate and the request it sends: a block that has none gets one.
LEMMA TracksMiss ==
    ASSUME NEW S, NEW R, NEW m \in Seq(S), NEW q \in Seq(R), NEW n, Tracks(m, q, n),
           NEW e \in S, NEW r \in R, e.block = r.block,
           \A j \in 1 .. Len(m) : m[j].block # e.block
    PROVE  Tracks(Append(m, e), Append(q, r), n)
<1> DEFINE u == Append(m, e)
           v == Append(q, r)
<1>1. PICK a, c \in Nat : a = Len(m) /\ c = Len(q)
  OBVIOUS
<1>2. /\ Len(u) = a + 1 /\ \A j \in 1 .. a : u[j] = m[j]
      /\ u[a + 1] = e
  BY <1>1
<1>3. /\ Len(v) = c + 1 /\ \A j \in 1 .. c : v[j] = q[j]
      /\ v[c + 1] = r
  BY <1>1
<1> HIDE DEF u, v
<1>4. PICK A, C, x, y : /\ A = 1 .. a /\ C = 1 .. c /\ x = a + 1 /\ y = c + 1
  OBVIOUS
<1>5. /\ 1 .. a + 1 = A \cup {x} /\ x \notin A
      /\ 1 .. c + 1 = C \cup {y} /\ y \notin C
  BY <1>4
<1>6. /\ 1 .. Len(u) = A \cup {x} /\ 1 .. Len(v) = C \cup {y}
      /\ \A j \in A : u[j] = m[j]
      /\ \A k \in C : v[k] = q[k]
      /\ u[x] = e /\ v[y] = r
  BY <1>2, <1>3, <1>4, <1>5
<1>7. /\ \A j \in A : \A k \in A : m[j].block = m[k].block => j = k
      /\ \A j \in C : \A k \in C : q[j].block = q[k].block => j = k
      /\ \A s \in n : \A w \in n : s.block = w.block => s = w
      /\ \A j \in C : \A s \in n : q[j].block # s.block
      /\ \A j \in A : (\E k \in C : q[k].block = m[j].block)
                      \/ \E s \in n : s.block = m[j].block
      /\ \A k \in C : \E j \in A : q[k].block = m[j].block
      /\ \A s \in n : \E j \in A : s.block = m[j].block
  BY <1>1, <1>4 DEF Tracks
<1>8. \A j \in A : m[j].block # e.block
  BY <1>1, <1>4
<1>9. \A j \in 1 .. Len(u) : \A k \in 1 .. Len(u) : u[j].block = u[k].block => j = k
  BY <1>6, <1>7, <1>8
<1>10. \A j \in 1 .. Len(v) : \A k \in 1 .. Len(v) : v[j].block = v[k].block => j = k
  BY <1>6, <1>7, <1>8
<1>11. \A j \in 1 .. Len(v) : \A s \in n : v[j].block # s.block
  <2>1. \A s \in n : v[y].block # s.block
    BY <1>6, <1>7, <1>8
  <2>2. \A j \in C : \A s \in n : v[j].block # s.block
    BY <1>6, <1>7
  <2> QED BY <1>6, <2>1, <2>2
<1>12. \A j \in 1 .. Len(u) : \/ \E k \in 1 .. Len(v) : v[k].block = u[j].block
                              \/ \E s \in n : s.block = u[j].block
  <2>1. x \in 1 .. Len(u) /\ y \in 1 .. Len(v) /\ v[y].block = u[x].block
    BY <1>6
  <2>2. ASSUME NEW j \in A
        PROVE  \/ \E k \in 1 .. Len(v) : v[k].block = u[j].block
               \/ \E s \in n : s.block = u[j].block
    <3>1. CASE \E k \in C : q[k].block = m[j].block
      BY <1>6, <3>1
    <3>2. CASE \E s \in n : s.block = m[j].block
      BY <1>6, <3>2
    <3> QED BY <1>7, <3>1, <3>2
  <2> QED BY <1>6, <2>1, <2>2
<1>13. \A k \in 1 .. Len(v) : \E j \in 1 .. Len(u) : v[k].block = u[j].block
  <2>1. x \in 1 .. Len(u) /\ v[y].block = u[x].block
    BY <1>6
  <2>2. ASSUME NEW k \in C
        PROVE  \E j \in 1 .. Len(u) : v[k].block = u[j].block
    <3>1. PICK j \in A : q[k].block = m[j].block
      BY <1>7
    <3> QED BY <1>6, <3>1
  <2> QED BY <1>6, <2>1, <2>2
<1>14. \A s \in n : \E j \in 1 .. Len(u) : s.block = u[j].block
  BY <1>6, <1>7
<1>15. Tracks(u, v, n)
  BY <1>7, <1>9, <1>10, <1>11, <1>12, <1>13, <1>14 DEF Tracks
<1> QED BY <1>15 DEF u, v

\* HandleFill: the answer of the one request of a block releases its one MSHR.
LEMMA TracksFill ==
    ASSUME NEW S, NEW m \in Seq(S), NEW q, NEW n, Tracks(m, q, n), NEW r \in n
    PROVE  Tracks(RemoveMSHR(m, r.block), q, n \ {r})
<1>1. PICK i \in 1 .. Len(m) : r.block = m[i].block
  BY DEF Tracks
<1>2. PICK h \in 1 .. Len(m) : m[h].block = r.block /\ RemoveMSHR(m, r.block) = RemoveAt(m, h)
  BY <1>1, ReleaseProps
<1> DEFINE u == RemoveAt(m, h)
<1>3. PICK a \in Nat : a = Len(m)
  OBVIOUS
<1>4. u \in Seq(S) /\ Len(u) = a - 1
      /\ \A j \in 1 .. a - 1 : u[j] = IF j < h THEN m[j] ELSE m[j + 1]
  BY <1>3, RemoveAtProps
<1> HIDE DEF u
<1> DEFINE old(j) == IF j < h THEN j ELSE j + 1
<1>5. h \in 1 .. a
  BY <1>3
<1>6. /\ \A j \in 1 .. a - 1 : old(j) \in 1 .. a /\ old(j) # h
      /\ \A j \in 1 .. a - 1 : \A k \in 1 .. a - 1 : old(j) = old(k) => j = k
  BY <1>5
<1>7. \A i2 \in 1 .. a : i2 # h => \E j \in 1 .. a - 1 : i2 = old(j)
  <2> SUFFICES ASSUME NEW x \in 1 .. a, x # h
               PROVE  \E j \in 1 .. a - 1 : x = old(j)
    OBVIOUS
  <2>1. CASE x < h
    BY <1>5, <2>1
  <2>2. CASE ~(x < h)
    <3>1. x - 1 \in 1 .. a - 1 /\ old(x - 1) = x
      BY <1>5, <2>2
    <3> QED BY <3>1
  <2> QED BY <2>1, <2>2
<1>8. \A j \in 1 .. a - 1 : u[j] = m[old(j)]
  BY <1>4
<1> HIDE DEF old
<1>9. Tracks(m, q, n)
  OBVIOUS
<1>10. \A j \in 1 .. a : j # h => m[j].block # r.block
  BY <1>2, <1>3, <1>9 DEF Tracks
<1>11. \A s \in n : s # r => s.block # r.block
  BY <1>9 DEF Tracks
<1>12. \A k \in 1 .. Len(q) : q[k].block # r.block
  BY <1>9 DEF Tracks
<1>13. \A j \in 1 .. Len(u) : \A k \in 1 .. Len(u) : u[j].block = u[k].block => j = k
  BY <1>3, <1>4, <1>6, <1>8, <1>9 DEF Tracks
<1>14. \A j \in 1 .. Len(u) : \/ \E k \in 1 .. Len(q) : q[k].block = u[j].block
                              \/ \E s \in n \ {r} : s.block = u[j].block
  <2> SUFFICES ASSUME NEW j \in 1 .. Len(u)
               PROVE  \/ \E k \in 1 .. Len(q) : q[k].block = u[j].block
                      \/ \E s \in n \ {r} : s.block = u[j].block
    OBVIOUS
  <2>1. PICK x \in 1 .. a : x = old(j) /\ x # h /\ u[j] = m[x]
    BY <1>4, <1>6, <1>8
  <2>2. \/ \E k \in 1 .. Len(q) : q[k].block = m[x].block
        \/ \E s \in n : s.block = m[x].block
    BY <1>3, <1>9 DEF Tracks
  <2> QED BY <1>10, <2>1, <2>2
<1>15. \A k \in 1 .. Len(q) : \E j \in 1 .. Len(u) : q[k].block = u[j].block
  <2> SUFFICES ASSUME NEW k \in 1 .. Len(q)
               PROVE  \E j \in 1 .. Len(u) : q[k].block = u[j].block
    OBVIOUS
  <2>1. PICK x \in 1 .. a : q[k].block = m[x].block
    BY <1>3, <1>9 DEF Tracks
  <2>2. x # h
    BY <1>2, <1>12, <2>1
  <2>3. PICK j \in 1 .. a - 1 : x = old(j)
    BY <1>7, <2>2
  <2> QED BY <1>4, <1>8, <2>1, <2>3
<1>16. \A s \in n \ {r} : \E j \in 1 .. Len(u) : s.block = u[j].block
  <2> SUFFICES ASSUME NEW s \in n \ {r}
               PROVE  \E j \in 1 .. Len(u) : s.block = u[j].block
    OBVIOUS
  <2>1. PICK x \in 1 .. a : s.block = m[x].block
    BY <1>3, <1>9 DEF Tracks
  <2>2. x # h
    BY <1>2, <1>11, <2>1
  <2>3. PICK j \in 1 .. a - 1 : x = old(j)
    BY <1>7, <2>2
  <2> QED BY <1>4, <1>8, <2>1, <2>3
<1>17. /\ \A j \in 1 .. Len(q) : \A k \in 1 .. Len(q) : q[j].block = q[k].block => j = k
       /\ \A v \in n \ {r} : \A s \in n \ {r} : v.block = s.block => v = s
       /\ \A j \in 1 .. Len(q) : \A v \in n \ {r} : q[j].block # v.block
  BY <1>9 DEF Tracks
<1>18. Tracks(u, q, n \ {r})
  BY <1>13, <1>14, <1>15, <1>16, <1>17, Zenon DEF Tracks
<1> QED BY <1>2, <1>18 DEF u

Sending(q, t) == {[block |-> r.block, instr |-> r.instr, sent |-> t] : r \in ToSet(q)}

\* sendPendingRequests: what waited is in the network.
LEMMA TracksSend ==
    ASSUME NEW R, NEW m, NEW q \in Seq(R), NEW n, NEW t, Tracks(m, q, n)
    PROVE  Tracks(m, <<>>, n \cup Sending(q, t))
<1>0. PICK sent : sent = Sending(q, t)
  OBVIOUS
<1> DEFINE msg(k) == [block |-> q[k].block, instr |-> q[k].instr, sent |-> t]
<1>1. \A s : s \in sent <=> \E k \in 1 .. Len(q) : s = msg(k)
  BY <1>0 DEF ToSet, Sending
<1>2. \A k \in 1 .. Len(q) : msg(k).block = q[k].block
  OBVIOUS
<1> HIDE DEF msg
<1>3. Tracks(m, q, n)
  OBVIOUS
<1>4. \A s \in sent : \E k \in 1 .. Len(q) : s = msg(k) /\ s.block = q[k].block
  BY <1>1, <1>2
<1>5. \A r \in n \cup sent : \A s \in n \cup sent : r.block = s.block => r = s
  <2>1. \A r \in n : \A s \in sent : r.block # s.block
    BY <1>3, <1>4 DEF Tracks
  <2>2. \A r \in sent : \A s \in sent : r.block = s.block => r = s
    BY <1>3, <1>4 DEF Tracks
  <2> QED BY <1>3, <2>1, <2>2 DEF Tracks
<1>6. \A j \in 1 .. Len(m) : \E r \in n \cup sent : r.block = m[j].block
  BY <1>1, <1>2, <1>3 DEF Tracks
<1>7. \A r \in n \cup sent : \E j \in 1 .. Len(m) : r.block = m[j].block
  BY <1>3, <1>4 DEF Tracks
<1>8. Len(<<>>) = 0
  OBVIOUS
<1>9. 1 .. 0 = {}
  OBVIOUS
<1>10. Tracks(m, <<>>, n \cup sent)
  BY <1>3, <1>5, <1>6, <1>7, <1>8, <1>9 DEF Tracks
<1> QED BY <1>0, <1>10

\* An access leaves the MSHRs and the requests alone, or adds one to each.
LEMMA AccessTracks ==
    ASSUME Types, NEW i \in Ids, NEW b \in Blocks, Access(i, b), MSHRInv, net' = net
    PROVE  MSHRInv'
<1>1. l1.lines \in Seq(Blocks) /\ l1.mshr \in Seq(Miss) /\ l1.requests \in Seq(Request)
      /\ l1 \in L1Type
  BY FieldTypes DEF Types
<1>2. CASE b \in ToSet(l1.lines)
  <2> DEFINE w == Append(RemoveFirst(l1.lines, b), b)
  <2>1. l1' = [l1 EXCEPT !.lines = w]
    BY <1>2 DEF Access
  <2> HIDE DEF w
  <2>2. l1'.mshr = l1.mshr /\ l1'.requests = l1.requests
    BY <1>1, <2>1 DEF L1Type
  <2> QED BY <2>2 DEF MSHRInv
<1>3. CASE b \notin ToSet(l1.lines) /\ (MissOn(b) # {} \/ Len(l1.mshr) = MSHRSize)
  <2>1. l1' = l1
    BY <1>3 DEF Access
  <2> QED BY <2>1 DEF MSHRInv
<1>4. CASE b \notin ToSet(l1.lines) /\ MissOn(b) = {} /\ Len(l1.mshr) # MSHRSize
  <2>1. PICK e : e = [block |-> b, instr |-> i, ready |-> now + FillLatency]
    OBVIOUS
  <2>2. PICK r : r = [block |-> b, instr |-> i]
    OBVIOUS
  <2>3. l1' = [l1 EXCEPT !.mshr = Append(l1.mshr, e), !.requests = Append(l1.requests, r)]
    BY <1>4, <2>1, <2>2 DEF Access
  <2>4. now + FillLatency \in Nat
    <3>1. now \in Nat /\ FillLatency \in Nat
      BY FieldTypes, SizeTypes
    <3> QED BY <3>1
  <2>5. e \in Miss /\ r \in Request /\ e.block = b /\ r.block = b
    BY <2>1, <2>2, <2>4 DEF Miss, Request
  <2>6. l1'.mshr = Append(l1.mshr, e) /\ l1'.requests = Append(l1.requests, r)
    BY <1>1, <2>3 DEF L1Type
  <2>7. \A j \in 1 .. Len(l1.mshr) : l1.mshr[j].block # b
    BY <1>1, <1>4 DEF MissOn
  <2>8. Tracks(l1.mshr, l1.requests, net)
    BY DEF MSHRInv
  <2>9. Tracks(Append(l1.mshr, e), Append(l1.requests, r), net)
    BY <1>1, <2>5, <2>7, <2>8, TracksMiss
  <2> QED BY <2>6, <2>9 DEF MSHRInv
<1> QED BY <1>2, <1>3, <1>4

\* Every step keeps the MSHRs and the requests together.
LEMMA StepTracks ==
    ASSUME Types, Sizes, Place, MSHRInv, Step
    PROVE  MSHRInv'
<1>1. l1.mshr \in Seq(Miss) /\ l1.requests \in Seq(Request) /\ l1 \in L1Type
  BY FieldTypes DEF Types
<1>2. CASE HandleMemoryResponse
  <2>1. PICK r \in net : net' = net \ {r} /\ HandleFill(r.block)
    BY <1>2 DEF HandleMemoryResponse
  <2>2. r.block \in Blocks
    BY DEF Types, Sent
  <2>3. l1'.mshr = RemoveMSHR(l1.mshr, r.block) /\ l1'.requests = l1.requests
    BY <2>1, <2>2, FillType
  <2>4. Tracks(l1.mshr, l1.requests, net)
    BY DEF MSHRInv
  <2>5. Tracks(RemoveMSHR(l1.mshr, r.block), l1.requests, net \ {r})
    BY <1>1, <2>4, TracksFill
  <2> QED BY <2>1, <2>3, <2>5 DEF MSHRInv
<1>3. CASE AccessLoad
  <2>1. /\ pc.stage = "access" /\ pc.k <= Len(program[pc.i].loads)
        /\ Access(pc.i, program[pc.i].loads[pc.k]) /\ net' = net
    BY <1>3 DEF AccessLoad
  <2>2. pc.i \in Ids /\ pc.k \in Nat /\ pc.k > 0
    BY <2>1, FieldTypes DEF Place
  <2>3. program[pc.i].loads \in Seq(Blocks)
    BY <2>2, ProgramType
  <2>4. program[pc.i].loads[pc.k] \in Blocks
    BY <2>1, <2>2, <2>3
  <2> QED BY <2>1, <2>2, <2>4, AccessTracks
<1>4. CASE AccessStore
  <2>1. PICK s : s = pc.k - Len(program[pc.i].loads)
    OBVIOUS
  <2>2. /\ pc.stage = "access" /\ s \in DOMAIN program[pc.i].stores
        /\ Access(pc.i, program[pc.i].stores[s]) /\ net' = net
    BY <1>4, <2>1 DEF AccessStore
  <2>3. pc.i \in Ids
    BY <2>2 DEF Place
  <2>4. program[pc.i].stores \in Seq(Blocks)
    BY <2>3, ProgramType
  <2>5. program[pc.i].stores[s] \in Blocks
    BY <2>2, <2>4
  <2> QED BY <2>2, <2>3, <2>5, AccessTracks
<1>5. CASE Fetched
  <2>2. net' = net \cup Sending(l1.requests, now)
    BY <1>5 DEF Fetched, Sending
  <2>3. l1'.mshr = l1.mshr /\ l1'.requests = <<>>
    <3> DEFINE none == <<>>
    <3>1. l1' = [l1 EXCEPT !.requests = none]
      BY <1>5 DEF Fetched
    <3> HIDE DEF none
    <3>2. l1'.mshr = l1.mshr /\ l1'.requests = none
      BY <1>1, <3>1 DEF L1Type
    <3> QED BY <3>2 DEF none
  <2>4. Tracks(l1.mshr, l1.requests, net)
    BY DEF MSHRInv
  <2>5. Tracks(l1.mshr, <<>>, net \cup Sending(l1.requests, now))
    BY <1>1, <2>4, TracksSend
  <2> QED BY <2>2, <2>3, <2>5 DEF MSHRInv
<1>6. CASE ~(HandleMemoryResponse \/ AccessLoad \/ AccessStore \/ Fetched)
  <2>1. UNCHANGED <<l1, net>>
    BY <1>6 DEF Step, NoResponse, Retire, Release, Released, Retired, CompleteLoad,
                LoadsDone, CompleteStore, StoresDone, Complete, Completed, Execute,
                Accessed, Executed, ScheduleSkip, Schedule, RenameSource, SourcesDone,
                RenameResult, ResultsDone, Scheduled, Dispatch, Dispatched, Decode,
                Decoded, Fetch
  <2> QED BY <2>1 DEF MSHRInv
<1> QED BY <1>2, <1>3, <1>4, <1>5, <1>6

\* Blocks that occur once, counted: what MSHRInv says is what the run checks.
LEMMA TracksGiven ==
    ASSUME Types, MSHRInv
    PROVE  MSHRTracksRequests
<1> SUFFICES ASSUME NEW b \in Blocks
             PROVE  /\ CountBlock(l1.mshr, b) =
                          CountBlock(l1.requests, b) + Cardinality({r \in net : r.block = b})
                    /\ CountBlock(l1.mshr, b) <= 1
  BY DEF MSHRTracksRequests
<1>1. l1.mshr \in Seq(Miss) /\ l1.requests \in Seq(Request)
  BY FieldTypes
<1>2. DOMAIN l1.mshr = 1 .. Len(l1.mshr) /\ DOMAIN l1.requests = 1 .. Len(l1.requests)
  BY <1>1
<1>3. PICK M : M = {j \in DOMAIN l1.mshr : l1.mshr[j].block = b}
  OBVIOUS
<1>4. PICK Q : Q = {j \in DOMAIN l1.requests : l1.requests[j].block = b}
  OBVIOUS
<1>5. PICK N : N = {r \in net : r.block = b}
  OBVIOUS
<1>6. Tracks(l1.mshr, l1.requests, net)
  BY DEF MSHRInv
<1>7. /\ \A x \in M : \A y \in M : x = y
      /\ \A x \in Q : \A y \in Q : x = y
      /\ \A x \in N : \A y \in N : x = y
  BY <1>2, <1>3, <1>4, <1>5, <1>6 DEF Tracks
<1>8. Q = {} \/ N = {}
  BY <1>2, <1>4, <1>5, <1>6 DEF Tracks
<1>9. M = {} <=> Q = {} /\ N = {}
  <2>1. \A x \in M : Q # {} \/ N # {}
    BY <1>2, <1>3, <1>4, <1>5, <1>6 DEF Tracks
  <2>2. \A k \in 1 .. Len(l1.requests) : \E j \in 1 .. Len(l1.mshr) :
            l1.requests[k].block = l1.mshr[j].block
    BY <1>6, Zenon DEF Tracks
  <2>3. \A x \in Q : M # {}
    BY <1>2, <1>3, <1>4, <2>2
  <2>4. \A x \in N : M # {}
    BY <1>2, <1>3, <1>5, <1>6 DEF Tracks
  <2> QED BY <2>1, <2>3, <2>4
<1>10. /\ Cardinality(M) = IF M = {} THEN 0 ELSE 1
       /\ Cardinality(Q) = IF Q = {} THEN 0 ELSE 1
       /\ Cardinality(N) = IF N = {} THEN 0 ELSE 1
  BY <1>7, AtMostOne
<1>11. Cardinality(M) = Cardinality(Q) + Cardinality(N) /\ Cardinality(M) <= 1
  BY <1>8, <1>9, <1>10
<1> QED BY <1>3, <1>4, <1>5, <1>11 DEF CountBlock

\* The cache starts with nothing under way.
LEMMA InitTracks ==
    ASSUME Init
    PROVE  MSHRInv
<1>1. l1.mshr = <<>> /\ l1.requests = <<>> /\ net = {}
  BY DEF Init
<1>2. Len(<<>>) = 0 /\ 1 .. 0 = {}
  OBVIOUS
<1> QED BY <1>1, <1>2 DEF MSHRInv, Tracks

\* CacheLevel.Access and HandleFill keep one MSHR for every block that is
\* under way and none for any other, whatever the memory's delays.
THEOREM CoreTracksRequests == Spec => []MSHRTracksRequests
<1>1. Init => IInv /\ MSHRInv
  BY InitInv, InitTracks
<1>2. (IInv /\ MSHRInv) /\ [Next]_vars => (IInv /\ MSHRInv)'
  <2> SUFFICES ASSUME IInv, MSHRInv, [Next]_vars
               PROVE  IInv' /\ MSHRInv'
    OBVIOUS
  <2>1. CASE Step
    BY <2>1, StepKeeps, StepTracks DEF IInv
  <2>2. CASE UNCHANGED vars
    BY <2>2, StutterKeeps DEF vars, MSHRInv
  <2> QED BY <2>1, <2>2 DEF Next, Stop
<1>3. IInv /\ MSHRInv => MSHRTracksRequests
  BY TracksGiven DEF IInv
<1> QED BY <1>1, <1>2, <1>3, PTL DEF Spec

-----------------------------------------------------------------------------
(* The memory operations of an instruction, counted.                       *)

Done(queue, i) == Cardinality(EntriesIn(queue, i, TRUE))
Waiting(queue, i) == Cardinality(EntriesIn(queue, i, FALSE))

\* An instruction has at most as many entries as operations, its counter is
\* the number of answered ones, and none waits once it is completed.
OpsFit(count, completed, doneLoads, waitLoads, doneStores, waitStores, loads, stores) ==
    /\ count = doneLoads + doneStores
    /\ doneLoads + waitLoads <= loads
    /\ doneStores + waitStores <= stores
    /\ completed => waitLoads = 0 /\ waitStores = 0

OpsOf(i) ==
    OpsFit(instr[i].memDone, instr[i].completed,
           Done(lsq.loads, i), Waiting(lsq.loads, i),
           Done(lsq.stores, i), Waiting(lsq.stores, i),
           Len(program[i].loads), Len(program[i].stores))

NoEntries(queue, i) == Done(queue, i) = 0 /\ Waiting(queue, i) = 0

OpsInv ==
    /\ \A i \in Ids : Gone < i /\ i <= Newest => OpsOf(i)
    /\ \A i \in Ids : i > Newest => NoEntries(lsq.loads, i) /\ NoEntries(lsq.stores, i)

\* The entries of an instruction are finitely many.
LEMMA EntriesCounted ==
    ASSUME NEW S, NEW q \in Seq(S), NEW i, NEW d
    PROVE  /\ IsFiniteSet(EntriesIn(q, i, d)) /\ Cardinality(EntriesIn(q, i, d)) \in Nat
           /\ Cardinality(EntriesIn(q, i, d)) = 0 <=> EntriesIn(q, i, d) = {}
<1>1. Len(q) \in Nat /\ DOMAIN q = 1 .. Len(q)
  OBVIOUS
<1>2. IsFiniteSet(1 .. Len(q))
  BY <1>1, FS_Interval
<1>3. EntriesIn(q, i, d) \in SUBSET (1 .. Len(q))
  BY <1>1 DEF EntriesIn
<1>4. IsFiniteSet(EntriesIn(q, i, d))
  BY <1>2, <1>3, FS_Subset
<1> QED BY <1>4, FS_CardinalityType, FS_EmptySet

\* The counts are natural numbers.
LEMMA CountTypes ==
    ASSUME NEW S, NEW q \in Seq(S), NEW i
    PROVE  Done(q, i) \in Nat /\ Waiting(q, i) \in Nat
  BY EntriesCounted DEF Done, Waiting

\* completeLoad and completeStore move one entry from waiting to answered.
LEMMA AnswerCounts ==
    ASSUME NEW S, NEW q \in Seq([instr : S, done : BOOLEAN]), NEW i
    PROVE  /\ \A h : h # i => /\ Done(Answer(q, i), h) = Done(q, h)
                              /\ Waiting(Answer(q, i), h) = Waiting(q, h)
           /\ WaitsIn(q, i) => /\ Done(Answer(q, i), i) = Done(q, i) + 1
                               /\ Waiting(Answer(q, i), i) = Waiting(q, i) - 1
           /\ ~WaitsIn(q, i) => Answer(q, i) = q
<1>1. CASE ~WaitsIn(q, i) /\ Answer(q, i) = q
  BY <1>1
<1>2. CASE WaitsIn(q, i) /\ \E j \in 1 .. Len(q) :
               /\ q[j] = [instr |-> i, done |-> FALSE]
               /\ Answer(q, i) = [q EXCEPT ![j] = [instr |-> i, done |-> TRUE]]
  <2>1. PICK j \in 1 .. Len(q) :
            /\ q[j] = [instr |-> i, done |-> FALSE]
            /\ Answer(q, i) = [q EXCEPT ![j] = [instr |-> i, done |-> TRUE]]
    BY <1>2
  <2>2. PICK u : u = Answer(q, i)
    OBVIOUS
  <2>3. /\ DOMAIN u = DOMAIN q /\ j \in DOMAIN q /\ u[j] = [instr |-> i, done |-> TRUE]
        /\ \A k \in DOMAIN q : k # j => u[k] = q[k]
    BY <2>1, <2>2
  <2>4. [instr |-> i, done |-> TRUE] # [instr |-> i, done |-> FALSE]
    <3>1. [instr |-> i, done |-> TRUE].done # [instr |-> i, done |-> FALSE].done
      OBVIOUS
    <3> QED BY <3>1
  <2>5. /\ EntriesIn(u, i, TRUE) = EntriesIn(q, i, TRUE) \cup {j}
        /\ j \notin EntriesIn(q, i, TRUE)
        /\ EntriesIn(u, i, FALSE) = EntriesIn(q, i, FALSE) \ {j}
        /\ j \in EntriesIn(q, i, FALSE)
    BY <2>1, <2>3, <2>4 DEF EntriesIn
  <2>6. ASSUME NEW h, h # i, NEW d
        PROVE  EntriesIn(u, h, d) = EntriesIn(q, h, d)
    <3>1. \A c : [instr |-> h, done |-> d] # [instr |-> i, done |-> c]
      <4>1. \A c : [instr |-> h, done |-> d].instr # [instr |-> i, done |-> c].instr
        BY <2>6
      <4> QED BY <4>1
    <3>2. q[j] # [instr |-> h, done |-> d] /\ u[j] # [instr |-> h, done |-> d]
      BY <2>1, <2>3, <3>1
    <3> QED BY <2>3, <3>2 DEF EntriesIn
  <2>7. IsFiniteSet(EntriesIn(q, i, TRUE)) /\ IsFiniteSet(EntriesIn(q, i, FALSE))
    BY EntriesCounted
  <2>8. /\ Cardinality(EntriesIn(u, i, TRUE)) = Cardinality(EntriesIn(q, i, TRUE)) + 1
        /\ Cardinality(EntriesIn(u, i, FALSE)) = Cardinality(EntriesIn(q, i, FALSE)) - 1
    <3>1. Cardinality(EntriesIn(q, i, TRUE) \cup {j}) = Cardinality(EntriesIn(q, i, TRUE)) + 1
      BY <2>5, <2>7, FS_AddElement
    <3>2. Cardinality(EntriesIn(q, i, FALSE) \ {j}) = Cardinality(EntriesIn(q, i, FALSE)) - 1
      BY <2>5, <2>7, FS_RemoveElement
    <3> QED BY <2>5, <3>1, <3>2, Zenon
  <2> QED BY <1>2, <2>2, <2>6, <2>8 DEF Done, Waiting
<1> QED BY <1>1, <1>2, AnswerProps

\* removeLoad and removeStore leave the entries of the other instructions.
LEMMA RemoveCounts ==
    ASSUME NEW S, NEW q \in Seq(S), NEW i, NEW h, h # i
    PROVE  Done(RemoveEntry(q, i), h) = Done(q, h)
           /\ Waiting(RemoveEntry(q, i), h) = Waiting(q, h)
<1>1. CASE RemoveEntry(q, i) = q
  BY <1>1
<1>2. CASE \E j \in 1 .. Len(q) : q[j].instr = i /\ RemoveEntry(q, i) = RemoveAt(q, j)
  <2>1. PICK g \in 1 .. Len(q) : q[g].instr = i /\ RemoveEntry(q, i) = RemoveAt(q, g)
    BY <1>2
  <2>2. PICK a \in Nat : a = Len(q) /\ DOMAIN q = 1 .. a /\ g \in 1 .. a
    OBVIOUS
  <2>3. PICK u : u = RemoveAt(q, g)
    OBVIOUS
  <2>4. /\ DOMAIN u = 1 .. a - 1
        /\ \A k \in 1 .. a - 1 : u[k] = IF k < g THEN q[k] ELSE q[k + 1]
    <3>1. u \in Seq(S) /\ Len(u) = a - 1
      BY <2>2, <2>3, RemoveAtProps
    <3>2. DOMAIN u = 1 .. Len(u)
      BY <3>1
    <3> QED BY <2>2, <2>3, <3>1, <3>2, RemoveAtProps
  <2> DEFINE old(k) == IF k < g THEN k ELSE k + 1
  <2>5. /\ \A k \in 1 .. a - 1 : old(k) \in 1 .. a
        /\ \A k \in 1 .. a - 1 : \A l \in 1 .. a - 1 : old(k) = old(l) => k = l
    BY <2>2
  <2>6. \A x \in 1 .. a : x # g => \E k \in 1 .. a - 1 : x = old(k)
    <3> SUFFICES ASSUME NEW x \in 1 .. a, x # g
                 PROVE  \E k \in 1 .. a - 1 : x = old(k)
      OBVIOUS
    <3>1. CASE x < g
      BY <2>2, <3>1
    <3>2. CASE ~(x < g)
      <4>1. x - 1 \in 1 .. a - 1 /\ old(x - 1) = x
        BY <2>2, <3>2
      <4> QED BY <4>1
    <3> QED BY <3>1, <3>2
  <2>7. \A k \in 1 .. a - 1 : u[k] = q[old(k)]
    BY <2>4
  <2> HIDE DEF old
  <2>8. ASSUME NEW d
        PROVE  Cardinality(EntriesIn(u, h, d)) = Cardinality(EntriesIn(q, h, d))
    <3>1. PICK U, T : U = EntriesIn(u, h, d) /\ T = EntriesIn(q, h, d)
      OBVIOUS
    <3>2. q[g] # [instr |-> h, done |-> d]
      <4>1. [instr |-> h, done |-> d].instr # i
        OBVIOUS
      <4> QED BY <2>1, <4>1
    <3>3. /\ \A k : k \in U <=> k \in 1 .. a - 1 /\ u[k] = [instr |-> h, done |-> d]
          /\ \A k : k \in T <=> k \in 1 .. a /\ q[k] = [instr |-> h, done |-> d]
      BY <2>2, <2>4, <3>1 DEF EntriesIn
    <3>4. /\ \A k \in U : old(k) \in T
          /\ \A k \in U : \A l \in U : old(k) = old(l) => k = l
      BY <2>5, <2>7, <3>3
    <3>5. \A x \in T : \E k \in U : old(k) = x
      BY <2>6, <2>7, <3>2, <3>3
    <3> DEFINE f == [k \in U |-> old(k)]
    <3>6. f \in [U -> T]
      BY <3>4
    <3>7. f \in Injection(U, T) /\ f \in Surjection(U, T)
      BY <3>4, <3>5, <3>6 DEF Injection, Surjection, IsInjective
    <3>8. IsFiniteSet(T)
      BY <3>1, EntriesCounted
    <3> HIDE DEF f
    <3>9. Cardinality(U) = Cardinality(T)
      BY <3>7, <3>8, FS_Injection
    <3> QED BY <3>1, <3>9
  <2> QED BY <2>1, <2>3, <2>8 DEF Done, Waiting
<1> QED BY <1>1, <1>2, RemoveEntryProps

\* AddLoad and AddStore add waiting entries of one instruction, at most one for
\* each of its operations.
LEMMA EnterCounts ==
    ASSUME NEW S, NEW q \in Seq(S), NEW size \in Nat, Len(q) <= size, NEW i,
           NEW B, NEW ops \in Seq(B)
    PROVE  /\ \A h : h # i => /\ Done(Enter(q, size, i, ops), h) = Done(q, h)
                              /\ Waiting(Enter(q, size, i, ops), h) = Waiting(q, h)
           /\ NoEntries(q, i) =>
                  /\ Done(Enter(q, size, i, ops), i) = 0
                  /\ Waiting(Enter(q, size, i, ops), i) <= Len(ops)
<1>0. PICK new : new = [instr |-> i, done |-> FALSE]
  OBVIOUS
<1> DEFINE room == size - Len(q)
           n == IF Len(ops) < room THEN Len(ops) ELSE room
           added == [j \in 1 .. n |-> new]
<1>1. Enter(q, size, i, ops) = q \o added
  BY <1>0 DEF Enter
<1>2. n \in Nat /\ Len(q) \in Nat /\ Len(ops) \in Nat /\ n <= Len(ops)
  OBVIOUS
<1>3. PICK c, a \in Nat : c = n /\ a = Len(q)
  BY <1>2
<1> HIDE DEF room, n
<1>4. added \in Seq({new}) /\ Len(added) = c /\ \A j \in 1 .. c : added[j] = new
  BY <1>2, <1>3
<1> HIDE DEF added
<1>5. PICK u : u = q \o added
  OBVIOUS
<1>6. /\ DOMAIN q = 1 .. a /\ DOMAIN u = 1 .. a + c
      /\ \A j \in 1 .. a + c : u[j] = IF j <= a THEN q[j] ELSE added[j - a]
  <2>1. PICK V : V = S \cup {new}
    OBVIOUS
  <2>2. q \in Seq(V) /\ added \in Seq(V)
    BY <1>4, <2>1
  <2>3. /\ u \in Seq(V) /\ Len(u) = Len(q) + Len(added)
        /\ \A j \in 1 .. Len(q) + Len(added) :
               u[j] = IF j <= Len(q) THEN q[j] ELSE added[j - Len(q)]
    BY <1>5, <2>2, ConcatProperties
  <2>4. DOMAIN u = 1 .. Len(u) /\ DOMAIN q = 1 .. Len(q)
    BY <2>3
  <2> QED BY <1>3, <1>4, <2>3, <2>4
<1>7. \A j \in 1 .. a + c : u[j] = IF j <= a THEN q[j] ELSE new
  <2> SUFFICES ASSUME NEW j \in 1 .. a + c, ~(j <= a)
               PROVE  added[j - a] = new
    BY <1>6
  <2>1. j - a \in 1 .. c
    OBVIOUS
  <2> QED BY <1>4, <2>1
<1>8. ASSUME NEW h, NEW d, [instr |-> h, done |-> d] # new
      PROVE  EntriesIn(u, h, d) = EntriesIn(q, h, d)
  <2>1. PICK e : e = [instr |-> h, done |-> d]
    OBVIOUS
  <2>2. \A j : j \in 1 .. a + c /\ u[j] = e <=> j \in 1 .. a /\ q[j] = e
    BY <1>7, <1>8, <2>1
  <2>3. EntriesIn(u, h, d) = {j \in 1 .. a + c : u[j] = e}
    BY <1>6, <2>1 DEF EntriesIn
  <2>4. EntriesIn(q, h, d) = {j \in 1 .. a : q[j] = e}
    BY <1>6, <2>1 DEF EntriesIn
  <2> QED BY <2>2, <2>3, <2>4
<1>9. ASSUME NEW h, h # i, NEW d
      PROVE  [instr |-> h, done |-> d] # new
  <2>1. [instr |-> h, done |-> d].instr # new.instr
    BY <1>0, <1>9
  <2> QED BY <2>1
<1>10. [instr |-> i, done |-> TRUE] # new
  <2>1. [instr |-> i, done |-> TRUE].done # new.done
    BY <1>0
  <2> QED BY <2>1
<1>11. ASSUME NoEntries(q, i)
       PROVE  Done(u, i) = 0 /\ Waiting(u, i) <= Len(ops)
  <2>1. Done(u, i) = 0
    BY <1>8, <1>10, <1>11 DEF Done, NoEntries
  <2>2. EntriesIn(q, i, FALSE) = {}
    BY <1>11, EntriesCounted DEF NoEntries, Waiting
  <2>3. \A j \in 1 .. a : q[j] # new
    BY <1>0, <1>6, <2>2 DEF EntriesIn
  <2>4. EntriesIn(u, i, FALSE) = {j \in 1 .. a + c : u[j] = new}
    BY <1>0, <1>6 DEF EntriesIn
  <2>5. \A j \in 1 .. a + c : u[j] = new => j \in a + 1 .. a + c
    BY <1>7, <2>3
  <2>6. EntriesIn(u, i, FALSE) \in SUBSET (a + 1 .. a + c)
    BY <2>4, <2>5
  <2>7. a + 1 \in Int /\ a + c \in Int
    OBVIOUS
  <2>8. /\ IsFiniteSet(a + 1 .. a + c)
        /\ Cardinality(a + 1 .. a + c) =
              IF a + 1 > a + c THEN 0 ELSE (a + c) - (a + 1) + 1
    BY <2>7, FS_Interval
  <2>9. Cardinality(a + 1 .. a + c) = c
    BY <2>8
  <2>10. Cardinality(EntriesIn(u, i, FALSE)) <= c /\ IsFiniteSet(EntriesIn(u, i, FALSE))
    BY <2>6, <2>8, <2>9, FS_Subset
  <2>11. Cardinality(EntriesIn(u, i, FALSE)) \in Nat /\ c <= Len(ops)
    BY <1>2, <1>3, <2>10, FS_CardinalityType
  <2>12. PICK l, w \in Nat : l = Len(ops) /\ w = Cardinality(EntriesIn(u, i, FALSE))
    BY <1>2, <2>11
  <2>13. w <= c /\ c <= l
    BY <2>10, <2>11, <2>12
  <2>14. w <= l
    BY <2>13
  <2> QED BY <2>1, <2>12, <2>14 DEF Waiting
<1>12. \A h : h # i => Done(u, h) = Done(q, h) /\ Waiting(u, h) = Waiting(q, h)
  BY <1>8, <1>9 DEF Done, Waiting
<1> QED BY <1>1, <1>5, <1>11, <1>12

\* An answer moves one operation from waiting to done.
LEMMA FitAnswered ==
    ASSUME NEW c \in Nat, NEW b, NEW x \in Nat, NEW y \in Nat, NEW u \in Nat, NEW v \in Nat,
           NEW n \in Nat, NEW m \in Nat, OpsFit(c, b, x, y, u, v, n, m)
    PROVE  /\ y # 0 => OpsFit(c + 1, b, x + 1, y - 1, u, v, n, m)
           /\ v # 0 => OpsFit(c + 1, b, x, y, u + 1, v - 1, n, m)
  BY DEF OpsFit

\* When every operation is counted, none waits.
LEMMA FitCompleted ==
    ASSUME NEW c \in Nat, NEW b, NEW x \in Nat, NEW y \in Nat, NEW u \in Nat, NEW v \in Nat,
           NEW n \in Nat, NEW m \in Nat, OpsFit(c, b, x, y, u, v, n, m), c >= n + m
    PROVE  OpsFit(c, TRUE, x, y, u, v, n, m)
  BY DEF OpsFit

\* An entry that waits is counted.
LEMMA WaitsCounted ==
    ASSUME NEW S, NEW q \in Seq(S), NEW i
    PROVE  WaitsIn(q, i) <=> Waiting(q, i) # 0
<1>1. WaitsIn(q, i) <=> EntriesIn(q, i, FALSE) # {}
  BY DEF WaitsIn, EntriesIn
<1> QED BY <1>1, EntriesCounted DEF Waiting

\* The numbers that the counting is about.
LEMMA OpsTypes ==
    ASSUME Types, NEW i \in Ids
    PROVE  /\ instr[i].memDone \in Nat
           /\ Done(lsq.loads, i) \in Nat /\ Waiting(lsq.loads, i) \in Nat
           /\ Done(lsq.stores, i) \in Nat /\ Waiting(lsq.stores, i) \in Nat
           /\ Len(program[i].loads) \in Nat /\ Len(program[i].stores) \in Nat
<1>1. lsq.loads \in Seq(Entry) /\ lsq.stores \in Seq(Entry)
  BY FieldTypes
<1>2. program[i].loads \in Seq(Blocks) /\ program[i].stores \in Seq(Blocks)
  BY ProgramType
<1>3. Len(program[i].loads) \in Nat /\ Len(program[i].stores) \in Nat
  BY <1>2
<1> QED BY <1>1, <1>3, CountTypes, InstrFields

\* A step that touches no counter, no queue and not the ROB keeps the counting.
LEMMA OpsKept ==
    ASSUME OpsInv, program' = program, Gone' = Gone, Newest' = Newest,
           lsq'.loads = lsq.loads, lsq'.stores = lsq.stores,
           \A i \in Ids : /\ instr'[i].memDone = instr[i].memDone
                          /\ instr'[i].completed = instr[i].completed
    PROVE  OpsInv'
<1>1. Ids' = Ids
  BY DEF Ids
<1>2. \A i \in Ids : OpsOf(i)' = OpsOf(i)
  BY DEF OpsOf
<1> QED BY <1>1, <1>2 DEF OpsInv

\* Marking an instruction or renaming an operand touches no counter.
LEMMA CountersKept ==
    ASSUME Types, NEW i, NEW v,
           \/ instr' = [instr EXCEPT ![i].ready = v]
           \/ instr' = [instr EXCEPT ![i].scheduled = v]
           \/ instr' = [instr EXCEPT ![i].executed = v]
           \/ instr' = [instr EXCEPT ![i].src = v]
           \/ instr' = [instr EXCEPT ![i].dst = v]
           \/ instr' = instr
    PROVE  \A h \in Ids : /\ instr'[h].memDone = instr[h].memDone
                          /\ instr'[h].completed = instr[h].completed
<1>1. instr \in [Ids -> InstrState]
  BY DEF Types, InstrType
<1> SUFFICES ASSUME NEW h \in Ids
             PROVE  /\ instr'[h].memDone = instr[h].memDone
                    /\ instr'[h].completed = instr[h].completed
  OBVIOUS
<1>2. instr[h] \in InstrState
  BY <1>1
<1>3. CASE instr' = [instr EXCEPT ![i].ready = v]
  <2>1. instr'[h] = IF h = i THEN [instr[h] EXCEPT !.ready = v] ELSE instr[h]
    BY <1>1, <1>3
  <2> QED BY <1>2, <2>1 DEF InstrState
<1>4. CASE instr' = [instr EXCEPT ![i].scheduled = v]
  <2>1. instr'[h] = IF h = i THEN [instr[h] EXCEPT !.scheduled = v] ELSE instr[h]
    BY <1>1, <1>4
  <2> QED BY <1>2, <2>1 DEF InstrState
<1>5. CASE instr' = [instr EXCEPT ![i].executed = v]
  <2>1. instr'[h] = IF h = i THEN [instr[h] EXCEPT !.executed = v] ELSE instr[h]
    BY <1>1, <1>5
  <2> QED BY <1>2, <2>1 DEF InstrState
<1>6. CASE instr' = [instr EXCEPT ![i].src = v]
  <2>1. instr'[h] = IF h = i THEN [instr[h] EXCEPT !.src = v] ELSE instr[h]
    BY <1>1, <1>6
  <2> QED BY <1>2, <2>1 DEF InstrState
<1>7. CASE instr' = [instr EXCEPT ![i].dst = v]
  <2>1. instr'[h] = IF h = i THEN [instr[h] EXCEPT !.dst = v] ELSE instr[h]
    BY <1>1, <1>7
  <2> QED BY <1>2, <2>1 DEF InstrState
<1> QED BY <1>3, <1>4, <1>5, <1>6, <1>7

\* OnMemoryResponse and processPendingMemOps: a load counts once, for the entry
\* it completes.
LEMMA LoadCounted ==
    ASSUME Types, Order, OpsInv, NEW i \in Ids, CountOp(lsq.loads, i),
           lsq'.loads = Answer(lsq.loads, i), lsq'.stores = lsq.stores,
           program' = program, pipe' = pipe
    PROVE  OpsInv'
<1>1. Gone' = Gone /\ Newest' = Newest /\ Ids' = Ids
  BY SamePipe DEF Ids
<1>2. lsq.loads \in Seq([instr : Ids, done : BOOLEAN]) /\ lsq.loads \in Seq(Entry)
  BY FieldTypes DEF Entry
<1>3. ASSUME NEW h \in Ids
      PROVE  /\ instr'[h].completed = instr[h].completed
             /\ instr'[h].memDone = IF h = i /\ i \in InRob /\ WaitsIn(lsq.loads, i)
                                    THEN instr[h].memDone + 1 ELSE instr[h].memDone
  BY CountOpProps
<1>4. /\ \A h : h # i => /\ Done(lsq'.loads, h) = Done(lsq.loads, h)
                         /\ Waiting(lsq'.loads, h) = Waiting(lsq.loads, h)
      /\ WaitsIn(lsq.loads, i) => /\ Done(lsq'.loads, i) = Done(lsq.loads, i) + 1
                                  /\ Waiting(lsq'.loads, i) = Waiting(lsq.loads, i) - 1
      /\ ~WaitsIn(lsq.loads, i) => lsq'.loads = lsq.loads
  <2>1. PICK u : u = Answer(lsq.loads, i)
    OBVIOUS
  <2>2. /\ \A h : h # i => /\ Done(u, h) = Done(lsq.loads, h)
                           /\ Waiting(u, h) = Waiting(lsq.loads, h)
        /\ WaitsIn(lsq.loads, i) => /\ Done(u, i) = Done(lsq.loads, i) + 1
                                    /\ Waiting(u, i) = Waiting(lsq.loads, i) - 1
        /\ ~WaitsIn(lsq.loads, i) => u = lsq.loads
    BY <1>2, <2>1, AnswerCounts, Zenon
  <2> QED BY <2>1, <2>2, Zenon
<1>5. WaitsIn(lsq.loads, i) <=> Waiting(lsq.loads, i) # 0
  BY <1>2, WaitsCounted
<1>6. i \in InRob <=> Gone < i /\ i <= Newest
  BY RobInterval
<1>7. ASSUME NEW h \in Ids, Gone < h, h <= Newest
      PROVE  OpsOf(h)'
  <2>1. OpsOf(h)
    BY <1>7 DEF OpsInv
  <2>2. CASE h = i /\ WaitsIn(lsq.loads, i)
    <3>1. instr'[i].memDone = instr[i].memDone + 1 /\ instr'[i].completed = instr[i].completed
      BY <1>3, <1>6, <1>7, <2>2
    <3>2. OpsFit(instr[i].memDone + 1, instr[i].completed,
                 Done(lsq.loads, i) + 1, Waiting(lsq.loads, i) - 1,
                 Done(lsq.stores, i), Waiting(lsq.stores, i),
                 Len(program[i].loads), Len(program[i].stores))
      BY <1>5, <2>1, <2>2, OpsTypes, FitAnswered DEF OpsOf
    <3> QED BY <1>4, <2>2, <3>1, <3>2, Zenon DEF OpsOf
  <2>3. CASE h = i /\ ~WaitsIn(lsq.loads, i)
    <3>1. instr'[h].memDone = instr[h].memDone /\ instr'[h].completed = instr[h].completed
      BY <1>3, <2>3
    <3> QED BY <1>4, <2>1, <2>3, <3>1 DEF OpsOf
  <2>4. CASE h # i
    <3>1. instr'[h].memDone = instr[h].memDone /\ instr'[h].completed = instr[h].completed
      BY <1>3, <2>4
    <3> QED BY <1>4, <2>1, <2>4, <3>1 DEF OpsOf
  <2> QED BY <2>2, <2>3, <2>4
<1>8. ASSUME NEW h \in Ids, h > Newest
      PROVE  NoEntries(lsq'.loads, h) /\ NoEntries(lsq'.stores, h)
  <2>1. NoEntries(lsq.loads, h) /\ NoEntries(lsq.stores, h)
    BY <1>8 DEF OpsInv
  <2>2. CASE h = i
    <3>1. ~WaitsIn(lsq.loads, i)
      BY <1>5, <2>1, <2>2 DEF NoEntries
    <3> QED BY <1>4, <2>1, <3>1
  <2>3. CASE h # i
    BY <1>4, <2>1, <2>3 DEF NoEntries
  <2> QED BY <2>2, <2>3
<1>9. \A h \in Ids' : Gone' < h /\ h <= Newest' => OpsOf(h)'
  BY <1>1, <1>7
<1>10. \A h \in Ids' : h > Newest' => NoEntries(lsq'.loads, h) /\ NoEntries(lsq'.stores, h)
  BY <1>1, <1>8
<1> QED BY <1>9, <1>10 DEF OpsInv

\* processPendingMemOps: the same for a store.
LEMMA StoreCounted ==
    ASSUME Types, Order, OpsInv, NEW i \in Ids, CountOp(lsq.stores, i),
           lsq'.stores = Answer(lsq.stores, i), lsq'.loads = lsq.loads,
           program' = program, pipe' = pipe
    PROVE  OpsInv'
<1>1. Gone' = Gone /\ Newest' = Newest /\ Ids' = Ids
  BY SamePipe DEF Ids
<1>2. lsq.stores \in Seq([instr : Ids, done : BOOLEAN]) /\ lsq.stores \in Seq(Entry)
  BY FieldTypes DEF Entry
<1>3. ASSUME NEW h \in Ids
      PROVE  /\ instr'[h].completed = instr[h].completed
             /\ instr'[h].memDone = IF h = i /\ i \in InRob /\ WaitsIn(lsq.stores, i)
                                    THEN instr[h].memDone + 1 ELSE instr[h].memDone
  BY CountOpProps
<1>4. /\ \A h : h # i => /\ Done(lsq'.stores, h) = Done(lsq.stores, h)
                         /\ Waiting(lsq'.stores, h) = Waiting(lsq.stores, h)
      /\ WaitsIn(lsq.stores, i) => /\ Done(lsq'.stores, i) = Done(lsq.stores, i) + 1
                                   /\ Waiting(lsq'.stores, i) = Waiting(lsq.stores, i) - 1
      /\ ~WaitsIn(lsq.stores, i) => lsq'.stores = lsq.stores
  <2>1. PICK u : u = Answer(lsq.stores, i)
    OBVIOUS
  <2>2. /\ \A h : h # i => /\ Done(u, h) = Done(lsq.stores, h)
                           /\ Waiting(u, h) = Waiting(lsq.stores, h)
        /\ WaitsIn(lsq.stores, i) => /\ Done(u, i) = Done(lsq.stores, i) + 1
                                     /\ Waiting(u, i) = Waiting(lsq.stores, i) - 1
        /\ ~WaitsIn(lsq.stores, i) => u = lsq.stores
    BY <1>2, <2>1, AnswerCounts, Zenon
  <2> QED BY <2>1, <2>2, Zenon
<1>5. WaitsIn(lsq.stores, i) <=> Waiting(lsq.stores, i) # 0
  BY <1>2, WaitsCounted
<1>6. i \in InRob <=> Gone < i /\ i <= Newest
  BY RobInterval
<1>7. ASSUME NEW h \in Ids, Gone < h, h <= Newest
      PROVE  OpsOf(h)'
  <2>1. OpsOf(h)
    BY <1>7 DEF OpsInv
  <2>2. CASE h = i /\ WaitsIn(lsq.stores, i)
    <3>1. instr'[i].memDone = instr[i].memDone + 1 /\ instr'[i].completed = instr[i].completed
      BY <1>3, <1>6, <1>7, <2>2
    <3>2. OpsFit(instr[i].memDone + 1, instr[i].completed,
                 Done(lsq.loads, i), Waiting(lsq.loads, i),
                 Done(lsq.stores, i) + 1, Waiting(lsq.stores, i) - 1,
                 Len(program[i].loads), Len(program[i].stores))
      BY <1>5, <2>1, <2>2, OpsTypes, FitAnswered DEF OpsOf
    <3> QED BY <1>4, <2>2, <3>1, <3>2, Zenon DEF OpsOf
  <2>3. CASE h = i /\ ~WaitsIn(lsq.stores, i)
    <3>1. instr'[h].memDone = instr[h].memDone /\ instr'[h].completed = instr[h].completed
      BY <1>3, <2>3
    <3> QED BY <1>4, <2>1, <2>3, <3>1 DEF OpsOf
  <2>4. CASE h # i
    <3>1. instr'[h].memDone = instr[h].memDone /\ instr'[h].completed = instr[h].completed
      BY <1>3, <2>4
    <3> QED BY <1>4, <2>1, <2>4, <3>1 DEF OpsOf
  <2> QED BY <2>2, <2>3, <2>4
<1>8. ASSUME NEW h \in Ids, h > Newest
      PROVE  NoEntries(lsq'.loads, h) /\ NoEntries(lsq'.stores, h)
  <2>1. NoEntries(lsq.loads, h) /\ NoEntries(lsq.stores, h)
    BY <1>8 DEF OpsInv
  <2>2. CASE h = i
    <3>1. ~WaitsIn(lsq.stores, i)
      BY <1>5, <2>1, <2>2 DEF NoEntries
    <3> QED BY <1>4, <2>1, <3>1
  <2>3. CASE h # i
    BY <1>4, <2>1, <2>3 DEF NoEntries
  <2> QED BY <2>2, <2>3
<1>9. \A h \in Ids' : Gone' < h /\ h <= Newest' => OpsOf(h)'
  BY <1>1, <1>7
<1>10. \A h \in Ids' : h > Newest' => NoEntries(lsq'.loads, h) /\ NoEntries(lsq'.stores, h)
  BY <1>1, <1>8
<1> QED BY <1>9, <1>10 DEF OpsInv

\* retire: the oldest instruction leaves, with one entry of each queue.
LEMMA RetireCounts ==
    ASSUME Types, Order, OpsInv, Retire
    PROVE  OpsInv'
<1> DEFINE i == Head(pipe.rob)
           ls == IF program[i].loads # <<>> THEN RemoveEntry(lsq.loads, i) ELSE lsq.loads
           ss == IF program[i].stores # <<>> THEN RemoveEntry(lsq.stores, i) ELSE lsq.stores
           r == Tail(pipe.rob)
<1>1. /\ pipe.rob # <<>> /\ pipe' = [pipe EXCEPT !.rob = r]
      /\ lsq' = [lsq EXCEPT !.loads = ls, !.stores = ss]
      /\ program' = program /\ instr' = instr
  BY DEF Retire, CanRetire
<1>2. pipe.rob \in Seq(Ids) /\ lsq.loads \in Seq(Entry) /\ lsq.stores \in Seq(Entry)
      /\ pipe.next \in Nat
  BY FieldTypes
<1>3. /\ Gone \in Nat /\ Newest \in Nat /\ Newest = Gone + Len(pipe.rob)
      /\ Len(pipe.rob) \in Nat /\ Len(pipe.decode) \in Nat /\ Len(pipe.fetch) \in Nat
  BY OrderTypes
<1>4. Len(pipe.rob) > 0 /\ i = pipe.rob[1] /\ Len(r) = Len(pipe.rob) - 1
  BY <1>1, <1>2
<1>5. i = Gone + 1
  <2>1. 1 \in 1 .. Len(pipe.rob)
    BY <1>3, <1>4
  <2> QED BY <2>1, <1>4, RobInterval
<1>6. \A h : h # i => /\ Done(ls, h) = Done(lsq.loads, h)
                      /\ Waiting(ls, h) = Waiting(lsq.loads, h)
                      /\ Done(ss, h) = Done(lsq.stores, h)
                      /\ Waiting(ss, h) = Waiting(lsq.stores, h)
  BY <1>2, RemoveCounts
<1> HIDE DEF i, ls, ss, r
<1>7. /\ pipe'.rob = r /\ pipe'.decode = pipe.decode
      /\ pipe'.fetch = pipe.fetch /\ pipe'.next = pipe.next
  BY <1>1 DEF Types, PipeType
<1>8. lsq'.loads = ls /\ lsq'.stores = ss
  BY <1>1 DEF Types, LsqType
<1>9. Gone' = Gone + 1 /\ Newest' = Newest /\ Ids' = Ids
  BY <1>1, <1>2, <1>3, <1>4, <1>7, RobShrinks DEF Ids
<1>10. ASSUME NEW h \in Ids, Gone + 1 < h
       PROVE  h # i /\ Gone < h
  <2>1. h \in Nat
    BY ProgramType
  <2> QED BY <1>3, <1>5, <1>10, <2>1
<1>11. ASSUME NEW h \in Ids, Gone + 1 < h, h <= Newest
       PROVE  OpsOf(h)'
  <2>1. OpsOf(h) /\ h # i
    BY <1>10, <1>11 DEF OpsInv
  <2> QED BY <1>1, <1>6, <1>8, <2>1 DEF OpsOf
<1>12. ASSUME NEW h \in Ids, h > Newest
       PROVE  NoEntries(lsq'.loads, h) /\ NoEntries(lsq'.stores, h)
  <2>1. h # i
    <3>1. h \in Nat
      BY ProgramType
    <3> QED BY <1>3, <1>4, <1>5, <1>12, <3>1
  <2> QED BY <1>6, <1>8, <1>12, <2>1 DEF OpsInv, NoEntries
<1>13. \A h \in Ids' : Gone' < h /\ h <= Newest' => OpsOf(h)'
  BY <1>9, <1>11
<1>14. \A h \in Ids' : h > Newest' => NoEntries(lsq'.loads, h) /\ NoEntries(lsq'.stores, h)
  BY <1>9, <1>12
<1> QED BY <1>13, <1>14 DEF OpsInv

\* dispatch: the instruction that enters the ROB has no entry yet.
LEMMA DispatchCounts ==
    ASSUME Types, Sizes, Order, Progress, OpsInv, Dispatch
    PROVE  OpsInv'
<1> DEFINE f == Head(pipe.decode)
           ls == Enter(lsq.loads, LQSize, f, program[f].loads)
           ss == Enter(lsq.stores, SQSize, f, program[f].stores)
           d == Tail(pipe.decode)
           r == Append(pipe.rob, f)
<1>1. /\ pipe.decode # <<>>
      /\ pipe' = [pipe EXCEPT !.decode = d, !.rob = r]
      /\ lsq' = [lsq EXCEPT !.loads = ls, !.stores = ss]
      /\ instr' = [instr EXCEPT ![f].ready = now + DispatchLatency]
      /\ program' = program
  BY DEF Dispatch, CanDispatch
<1>2. /\ pipe.decode \in Seq(Ids) /\ pipe.rob \in Seq(Ids)
      /\ lsq.loads \in Seq(Entry) /\ lsq.stores \in Seq(Entry)
      /\ pipe.next \in Nat /\ pipe.fetch \in Seq(Ids)
  BY FieldTypes
<1>3. /\ f = pipe.decode[1] /\ f \in Ids /\ Len(pipe.decode) \in Nat
      /\ Len(pipe.decode) > 0 /\ Len(d) = Len(pipe.decode) - 1
      /\ Len(r) = Len(pipe.rob) + 1 /\ d \in Seq(Ids) /\ r \in Seq(Ids)
  BY <1>1, <1>2, MoveHead
<1>4. /\ Gone \in Nat /\ Newest \in Nat /\ Newest = Gone + Len(pipe.rob)
      /\ Len(pipe.rob) \in Nat /\ Len(pipe.decode) \in Nat /\ Len(pipe.fetch) \in Nat
  BY OrderTypes
<1>5. program[f].loads \in Seq(Blocks) /\ program[f].stores \in Seq(Blocks)
  BY <1>3, ProgramType
<1>6. f = Newest + 1 /\ f \in Nat
  <2>1. 1 \in 1 .. Len(pipe.decode)
    BY <1>3
  <2> QED BY <2>1, <1>3, <1>4 DEF Order
<1>7. /\ LQSize \in Nat /\ SQSize \in Nat
      /\ Len(lsq.loads) <= LQSize /\ Len(lsq.stores) <= SQSize
  BY SizeTypes DEF Sizes
<1>8. /\ \A h : h # f => /\ Done(ls, h) = Done(lsq.loads, h)
                         /\ Waiting(ls, h) = Waiting(lsq.loads, h)
      /\ NoEntries(lsq.loads, f) => /\ Done(ls, f) = 0
                                    /\ Waiting(ls, f) <= Len(program[f].loads)
  BY <1>2, <1>5, <1>7, EnterCounts
<1>9. /\ \A h : h # f => /\ Done(ss, h) = Done(lsq.stores, h)
                         /\ Waiting(ss, h) = Waiting(lsq.stores, h)
      /\ NoEntries(lsq.stores, f) => /\ Done(ss, f) = 0
                                     /\ Waiting(ss, f) <= Len(program[f].stores)
  BY <1>2, <1>5, <1>7, EnterCounts
<1>10. ls \in Seq(Entry) /\ ss \in Seq(Entry)
  BY <1>2, <1>3, <1>5, <1>7, EnterType
<1> HIDE DEF f, ls, ss, d, r
<1>11. /\ pipe'.rob = r /\ pipe'.decode = d
       /\ pipe'.fetch = pipe.fetch /\ pipe'.next = pipe.next
  BY <1>1, <1>3 DEF Types, PipeType
<1>12. lsq'.loads = ls /\ lsq'.stores = ss
  BY <1>1, <1>10 DEF Types, LsqType
<1>13. Gone' = Gone /\ Newest' = Newest + 1 /\ Ids' = Ids
  <2>1. /\ Len(pipe'.decode) = Len(pipe.decode) + (-1) /\ Len(pipe'.rob) = Len(pipe.rob) + 1
        /\ Len(pipe'.fetch) = Len(pipe.fetch) + 0 /\ pipe'.next = pipe.next + 0
    BY <1>2, <1>3, <1>4, <1>11
  <2>2. 0 + (-1) + 1 = 0 /\ -1 \in Int /\ 1 \in Int /\ 0 \in Int
    OBVIOUS
  <2>3. Gone' = Gone /\ Newest' = Newest + 1
    BY <1>2, <1>4, <2>1, <2>2, QueueMoves
  <2> QED BY <1>1, <2>3 DEF Ids
<1>14. \A h \in Ids : /\ instr'[h].memDone = instr[h].memDone
                      /\ instr'[h].completed = instr[h].completed
  BY <1>1, CountersKept
<1>15. ASSUME NEW x \in Ids, x = f
       PROVE  OpsOf(x)'
  <2>1. x > Newest
    BY <1>4, <1>6, <1>15
  <2>2. NoEntries(lsq.loads, x) /\ NoEntries(lsq.stores, x)
    BY <1>3, <2>1 DEF OpsInv
  <2>3. /\ Done(ls, x) = 0 /\ Waiting(ls, x) <= Len(program[x].loads)
        /\ Done(ss, x) = 0 /\ Waiting(ss, x) <= Len(program[x].stores)
    BY <1>8, <1>9, <1>15, <2>2
  <2>4. instr[x].memDone = 0 /\ ~instr[x].completed
    BY <1>3, <2>1 DEF Progress
  <2>5. Waiting(ls, x) \in Nat /\ Waiting(ss, x) \in Nat
    BY <1>10, CountTypes
  <2>6. OpsFit(instr[x].memDone, instr[x].completed, Done(ls, x), Waiting(ls, x),
               Done(ss, x), Waiting(ss, x), Len(program[x].loads), Len(program[x].stores))
    <3>1. \A y, v \in Nat : \A n, m : y <= n /\ v <= m => OpsFit(0, FALSE, 0, y, 0, v, n, m)
      BY DEF OpsFit
    <3>2. OpsFit(0, FALSE, 0, Waiting(ls, x), 0, Waiting(ss, x),
                 Len(program[x].loads), Len(program[x].stores))
      BY <2>3, <2>5, <3>1
    <3>3. instr[x].completed = FALSE
      BY <1>3, <2>4, InstrFields
    <3> QED BY <2>3, <2>4, <3>2, <3>3, Zenon
  <2> QED BY <1>1, <1>12, <1>14, <2>6 DEF OpsOf
<1>16. ASSUME NEW h \in Ids, Gone < h, h <= Newest + 1
       PROVE  OpsOf(h)'
  <2>1. CASE h = f
    BY <1>15, <2>1
  <2>2. CASE h # f
    <3>1. h <= Newest
      <4>1. h \in Nat
        BY ProgramType
      <4> QED BY <1>4, <1>6, <1>16, <2>2, <4>1
    <3>2. OpsOf(h)
      BY <1>16, <3>1 DEF OpsInv
    <3> QED BY <1>1, <1>8, <1>9, <1>12, <1>14, <2>2, <3>2 DEF OpsOf
  <2> QED BY <2>1, <2>2
<1>17. ASSUME NEW h \in Ids, h > Newest + 1
       PROVE  NoEntries(lsq'.loads, h) /\ NoEntries(lsq'.stores, h)
  <2>1. h # f /\ h > Newest
    <3>1. h \in Nat
      BY ProgramType
    <3> QED BY <1>4, <1>6, <1>17, <3>1
  <2> QED BY <1>8, <1>9, <1>12, <2>1 DEF OpsInv, NoEntries
<1>18. \A h \in Ids' : Gone' < h /\ h <= Newest' => OpsOf(h)'
  BY <1>13, <1>16
<1>19. \A h \in Ids' : h > Newest' => NoEntries(lsq'.loads, h) /\ NoEntries(lsq'.stores, h)
  BY <1>13, <1>17
<1> QED BY <1>18, <1>19 DEF OpsInv

\* completeInflightInstruction: every operation is counted, so none waits.
LEMMA CompleteCounts ==
    ASSUME Types, Order, OpsInv, Complete
    PROVE  OpsInv'
<1> DEFINE s == SelectInSeq(pipe.rob, Completes)
           c == pipe.rob[s]
           e == [instr[c] EXCEPT !.completed = TRUE]
<1>1. /\ s # 0 /\ instr' = [instr EXCEPT ![c].completed = TRUE]
      /\ UNCHANGED <<program, pipe, lsq>>
  BY DEF Complete
<1>2. s \in 1 .. Len(pipe.rob) /\ Completes(c)
  <2>1. pipe.rob \in Seq(Ids)
    BY FieldTypes
  <2> QED BY <1>1, <2>1, CompletesProps
<1>3. c \in Ids /\ Gone < c /\ c <= Newest
  BY <1>2, RobInterval
<1>4. instr[c].memDone >= Len(program[c].loads) + Len(program[c].stores)
  BY <1>2 DEF Completes, NumMemOps
<1> HIDE DEF s, c
<1>5. e \in InstrState /\ e.completed = TRUE /\ e.memDone = instr[c].memDone
  BY <1>3, InstrFields, SetCompleted
<1>6. instr' = [instr EXCEPT ![c] = e]
  BY <1>1
<1> HIDE DEF e
<1>7. \A h \in Ids : instr'[h] = IF h = c THEN e ELSE instr[h]
  BY <1>6 DEF Types, InstrType
<1>8. Gone' = Gone /\ Newest' = Newest /\ Ids' = Ids
  BY <1>1, SamePipe DEF Ids
<1>9. ASSUME NEW x \in Ids, x = c
      PROVE  OpsOf(x)'
  <2>1. OpsOf(x)
    BY <1>3, <1>9 DEF OpsInv
  <2>2. OpsFit(instr[x].memDone, TRUE, Done(lsq.loads, x), Waiting(lsq.loads, x),
               Done(lsq.stores, x), Waiting(lsq.stores, x),
               Len(program[x].loads), Len(program[x].stores))
    BY <1>4, <1>9, <2>1, OpsTypes, FitCompleted DEF OpsOf
  <2>3. instr'[x].memDone = instr[x].memDone /\ instr'[x].completed = TRUE
    BY <1>5, <1>7, <1>9
  <2> QED BY <1>1, <2>2, <2>3 DEF OpsOf
<1>10. ASSUME NEW h \in Ids, h # c
       PROVE  OpsOf(h)' = OpsOf(h)
  BY <1>1, <1>7, <1>10 DEF OpsOf
<1>11. \A h \in Ids' : Gone' < h /\ h <= Newest' => OpsOf(h)'
  <2> SUFFICES ASSUME NEW h \in Ids, Gone < h, h <= Newest
               PROVE  OpsOf(h)'
    BY <1>8
  <2>1. CASE h = c
    BY <1>9, <2>1
  <2>2. CASE h # c
    BY <1>10, <2>2 DEF OpsInv
  <2> QED BY <2>1, <2>2
<1>12. \A h \in Ids' : h > Newest' => NoEntries(lsq'.loads, h) /\ NoEntries(lsq'.stores, h)
  BY <1>1, <1>8 DEF OpsInv
<1> QED BY <1>11, <1>12 DEF OpsInv

\* decode and fetch move instructions that are not in the ROB.
LEMMA FrontCounts ==
    ASSUME Types, Order, OpsInv, Decode \/ Fetch
    PROVE  OpsInv'
<1>1. /\ pipe.decode \in Seq(Ids) /\ pipe.fetch \in Seq(Ids) /\ pipe.next \in Nat
      /\ pipe.rob \in Seq(Ids)
  BY FieldTypes
<1>2. Len(pipe.rob) \in Nat /\ Len(pipe.decode) \in Nat /\ Len(pipe.fetch) \in Nat
      /\ Newest \in Nat
  BY OrderTypes
<1>3. /\ program' = program /\ lsq' = lsq
      /\ \E i, v : instr' = [instr EXCEPT ![i].ready = v]
  BY DEF Decode, Fetch
<1>4. \A h \in Ids : /\ instr'[h].memDone = instr[h].memDone
                     /\ instr'[h].completed = instr[h].completed
  BY <1>3, CountersKept
<1>5. 0 \in Int /\ 1 \in Int /\ -1 \in Int /\ (-1) + 1 + 0 = 0 /\ 1 + 0 + 0 = 1
  OBVIOUS
<1>6. CASE Decode
  <2> DEFINE q == Tail(pipe.fetch)
             d == Append(pipe.decode, Head(pipe.fetch))
  <2>1. pipe.fetch # <<>> /\ pipe' = [pipe EXCEPT !.fetch = q, !.decode = d]
    BY <1>6 DEF Decode, CanDecode
  <2>2. Len(q) = Len(pipe.fetch) + (-1) /\ Len(d) = Len(pipe.decode) + 1
    BY <1>1, <2>1, MoveHead
  <2> HIDE DEF q, d
  <2>3. /\ pipe'.fetch = q /\ pipe'.decode = d
        /\ pipe'.rob = pipe.rob /\ pipe'.next = pipe.next
    BY <2>1 DEF Types, PipeType
  <2>4. /\ Len(pipe'.fetch) = Len(pipe.fetch) + (-1) /\ Len(pipe'.decode) = Len(pipe.decode) + 1
        /\ Len(pipe'.rob) = Len(pipe.rob) + 0 /\ pipe'.next = pipe.next + 0
    BY <1>1, <1>2, <2>2, <2>3
  <2>5. Gone' = Gone /\ Newest' = Newest + 0
    BY <1>1, <1>2, <1>5, <2>4, QueueMoves
  <2>6. Newest' = Newest
    BY <1>2, <2>5
  <2> QED BY <1>3, <1>4, <2>5, <2>6, OpsKept
<1>7. CASE Fetch
  <2> DEFINE q == Append(pipe.fetch, pipe.next)
             n == pipe.next + 1
  <2>1. pipe' = [pipe EXCEPT !.fetch = q, !.next = n]
    BY <1>7 DEF Fetch
  <2>2. Len(q) = Len(pipe.fetch) + 1
    BY <1>1
  <2> HIDE DEF q, n
  <2>3. /\ pipe'.fetch = q /\ pipe'.decode = pipe.decode
        /\ pipe'.rob = pipe.rob /\ pipe'.next = n
    BY <2>1 DEF Types, PipeType
  <2>4. /\ Len(pipe'.fetch) = Len(pipe.fetch) + 1 /\ Len(pipe'.decode) = Len(pipe.decode) + 0
        /\ Len(pipe'.rob) = Len(pipe.rob) + 0 /\ pipe'.next = pipe.next + 1
    BY <1>1, <1>2, <2>2, <2>3 DEF n
  <2>5. Gone' = Gone /\ Newest' = Newest + 0
    BY <1>1, <1>2, <1>5, <2>4, QueueMoves
  <2>6. Newest' = Newest
    BY <1>2, <2>5
  <2> QED BY <1>3, <1>4, <2>5, <2>6, OpsKept
<1> QED BY <1>6, <1>7

\* Every step keeps the counting.
LEMMA StepCounts ==
    ASSUME IInv, OpsInv, Step
    PROVE  OpsInv'
<1>1. Types /\ Sizes /\ Order /\ Progress
  BY DEF IInv
<1>2. lsq \in LsqType
  BY <1>1 DEF Types
<1>3. CASE HandleMemoryResponse
  <2>1. PICK r \in net : /\ CountOp(lsq.loads, r.instr)
                         /\ lsq' = [lsq EXCEPT !.loads = Answer(@, r.instr)]
    BY <1>3 DEF HandleMemoryResponse
  <2>2. r.instr \in Ids
    BY <1>1 DEF Types, Sent
  <2>3. PICK q : q = Answer(lsq.loads, r.instr)
    OBVIOUS
  <2>4. lsq' = [lsq EXCEPT !.loads = q]
    BY <2>1, <2>3
  <2>5. lsq'.loads = q /\ lsq'.stores = lsq.stores
    BY <1>2, <2>4 DEF LsqType
  <2>6. program' = program /\ pipe' = pipe
    BY <1>3 DEF HandleMemoryResponse
  <2> QED BY <1>1, <2>1, <2>2, <2>3, <2>5, <2>6, LoadCounted
<1>4. CASE CompleteLoad
  <2> DEFINE j == DueIn(lsq.pendingLoads)
  <2>1. PICK i, q, p : /\ j # 0 /\ i = lsq.pendingLoads[j].instr
                       /\ q = Answer(lsq.loads, i) /\ p = RemoveAt(lsq.pendingLoads, j)
    BY <1>4 DEF CompleteLoad
  <2>2. /\ lsq' = [lsq EXCEPT !.pendingLoads = p, !.loads = q] /\ CountOp(lsq.loads, i)
        /\ program' = program /\ pipe' = pipe
    BY <1>4, <2>1 DEF CompleteLoad
  <2>3. lsq.pendingLoads \in Seq(PendingOp)
    BY <1>1, FieldTypes
  <2>4. j \in 1 .. Len(lsq.pendingLoads)
    BY <2>1, <2>3, DueProps
  <2> HIDE DEF j
  <2>5. i \in Ids
    <3>1. lsq.pendingLoads[j] \in PendingOp
      BY <2>3, <2>4
    <3> QED BY <2>1, <3>1 DEF PendingOp
  <2>6. lsq'.loads = q /\ lsq'.stores = lsq.stores
    BY <1>2, <2>2 DEF LsqType
  <2> QED BY <1>1, <2>1, <2>2, <2>5, <2>6, LoadCounted
<1>5. CASE CompleteStore
  <2> DEFINE j == DueIn(lsq.pendingStores)
  <2>1. PICK i, q, p : /\ j # 0 /\ i = lsq.pendingStores[j].instr
                       /\ q = Answer(lsq.stores, i) /\ p = RemoveAt(lsq.pendingStores, j)
    BY <1>5 DEF CompleteStore
  <2>2. /\ lsq' = [lsq EXCEPT !.pendingStores = p, !.stores = q] /\ CountOp(lsq.stores, i)
        /\ program' = program /\ pipe' = pipe
    BY <1>5, <2>1 DEF CompleteStore
  <2>3. lsq.pendingStores \in Seq(PendingOp)
    BY <1>1, FieldTypes
  <2>4. j \in 1 .. Len(lsq.pendingStores)
    BY <2>1, <2>3, DueProps
  <2> HIDE DEF j
  <2>5. i \in Ids
    <3>1. lsq.pendingStores[j] \in PendingOp
      BY <2>3, <2>4
    <3> QED BY <2>1, <3>1 DEF PendingOp
  <2>6. lsq'.stores = q /\ lsq'.loads = lsq.loads
    BY <1>2, <2>2 DEF LsqType
  <2> QED BY <1>1, <2>1, <2>2, <2>5, <2>6, StoreCounted
<1>6. CASE Retire
  BY <1>1, <1>6, RetireCounts
<1>7. CASE Complete
  BY <1>1, <1>7, CompleteCounts
<1>8. CASE Dispatch
  BY <1>1, <1>8, DispatchCounts
<1>9. CASE Decode \/ Fetch
  BY <1>1, <1>9, FrontCounts
<1>10. CASE AccessLoad \/ AccessStore
  <2>1. /\ program' = program /\ pipe' = pipe /\ instr' = instr
        /\ \E q : lsq' = [lsq EXCEPT !.pendingLoads = q] \/ lsq' = [lsq EXCEPT !.pendingStores = q]
    BY <1>10 DEF AccessLoad, AccessStore
  <2>2. lsq'.loads = lsq.loads /\ lsq'.stores = lsq.stores
    BY <1>2, <2>1 DEF LsqType
  <2> QED BY <2>1, <2>2, SamePipe, OpsKept
<1>11. CASE Execute
  <2>1. /\ UNCHANGED <<program, pipe, lsq>>
        /\ \E c, t : instr' = [instr EXCEPT ![c].executed = TRUE, ![c].ready = t]
    BY <1>11 DEF Execute
  <2>2. PICK c, t : instr' = [instr EXCEPT ![c].executed = TRUE, ![c].ready = t]
    BY <2>1
  <2>3. \A h \in Ids : instr'[h] = IF h = c THEN [instr[h] EXCEPT !.executed = TRUE, !.ready = t]
                                   ELSE instr[h]
    BY <1>1, <2>2 DEF Types, InstrType
  <2>4. \A h \in Ids : /\ instr'[h].memDone = instr[h].memDone
                       /\ instr'[h].completed = instr[h].completed
    <3> SUFFICES ASSUME NEW h \in Ids
                 PROVE  /\ instr'[h].memDone = instr[h].memDone
                        /\ instr'[h].completed = instr[h].completed
      OBVIOUS
    <3>1. instr[h] \in InstrState
      BY <1>1 DEF Types, InstrType
    <3> QED BY <2>3, <3>1 DEF InstrState
  <2> QED BY <2>1, <2>4, SamePipe, OpsKept
<1>12. CASE Schedule \/ RenameSource \/ RenameResult
  <2>1. UNCHANGED <<program, pipe, lsq>>
    BY <1>12 DEF Schedule, RenameSource, RenameResult
  <2>2. \E i, v : \/ instr' = [instr EXCEPT ![i].scheduled = v]
                  \/ instr' = [instr EXCEPT ![i].src = v]
                  \/ instr' = [instr EXCEPT ![i].dst = v]
    <3>1. CASE Schedule
      BY <3>1 DEF Schedule
    <3>2. CASE RenameSource
      <4>1. PICK i, j, p : instr' = [instr EXCEPT ![i].src[j] = p]
        BY <3>2 DEF RenameSource, RenameSrcRegister
      <4>2. PICK v : v = [instr[i].src EXCEPT ![j] = p]
        OBVIOUS
      <4>3. instr' = [instr EXCEPT ![i].src = v]
        BY <4>1, <4>2
      <4> QED BY <4>3
    <3>3. CASE RenameResult
      <4>1. PICK i, j, p : instr' = [instr EXCEPT ![i].dst[j] = p]
        BY <3>3 DEF RenameResult, RenameDestRegister
      <4>2. PICK v : v = [instr[i].dst EXCEPT ![j] = p]
        OBVIOUS
      <4>3. instr' = [instr EXCEPT ![i].dst = v]
        BY <4>1, <4>2
      <4> QED BY <4>3
    <3> QED BY <1>12, <3>1, <3>2, <3>3
  <2>3. \A h \in Ids : /\ instr'[h].memDone = instr[h].memDone
                       /\ instr'[h].completed = instr[h].completed
    BY <1>1, <2>2, CountersKept
  <2> QED BY <2>1, <2>3, SamePipe, OpsKept
<1>13. CASE \/ NoResponse \/ Release \/ Released \/ Retired \/ LoadsDone \/ StoresDone
            \/ Completed \/ Accessed \/ Executed \/ ScheduleSkip \/ SourcesDone
            \/ ResultsDone \/ Scheduled \/ Dispatched \/ Decoded \/ Fetched
  <2>1. UNCHANGED <<program, pipe, lsq, instr>>
    BY <1>13 DEF NoResponse, Release, Released, Retired, LoadsDone, StoresDone, Completed,
                 Accessed, Executed, ScheduleSkip, SourcesDone, ResultsDone, Scheduled,
                 Dispatched, Decoded, Fetched
  <2> QED BY <2>1, SamePipe, OpsKept
<1> QED BY <1>3, <1>4, <1>5, <1>6, <1>7, <1>8, <1>9, <1>10, <1>11, <1>12, <1>13 DEF Step

\* What OpsInv says is what the run checks.
LEMMA OpsGiven ==
    ASSUME IInv, OpsInv
    PROVE  OpsCounted
<1>1. Types /\ Order
  BY DEF IInv
<1> SUFFICES ASSUME NEW i \in InRob
             PROVE  /\ instr[i].memDone = Cardinality(EntriesIn(lsq.loads, i, TRUE))
                                          + Cardinality(EntriesIn(lsq.stores, i, TRUE))
                    /\ instr[i].completed => /\ EntriesIn(lsq.loads, i, FALSE) = {}
                                             /\ EntriesIn(lsq.stores, i, FALSE) = {}
  BY DEF OpsCounted
<1>2. i \in Ids /\ Gone < i /\ i <= Newest
  BY <1>1, RobInterval
<1>3. OpsOf(i)
  BY <1>2 DEF OpsInv
<1>4. lsq.loads \in Seq(Entry) /\ lsq.stores \in Seq(Entry)
  BY <1>1, FieldTypes
<1>5. instr[i].memDone = Done(lsq.loads, i) + Done(lsq.stores, i)
      /\ (instr[i].completed => Waiting(lsq.loads, i) = 0 /\ Waiting(lsq.stores, i) = 0)
  BY <1>3, Zenon DEF OpsOf, OpsFit
<1> QED BY <1>4, <1>5, EntriesCounted DEF Done, Waiting

\* The queues start empty.
LEMMA InitCounts ==
    ASSUME Init, IInv
    PROVE  OpsInv
<1>1. lsq.loads = <<>> /\ lsq.stores = <<>> /\ pipe.rob = <<>>
  BY DEF Init
<1>2. Types /\ Order
  BY DEF IInv
<1>3. InRob = {}
  BY <1>1 DEF InRob, ToSet
<1>4. \A i \in Ids : ~(Gone < i /\ i <= Newest)
  BY <1>2, <1>3, RobInterval
<1>5. \A i, d : EntriesIn(<<>>, i, d) = {}
  BY DEF EntriesIn
<1>6. \A i : NoEntries(<<>>, i)
  BY <1>5, FS_EmptySet DEF NoEntries, Done, Waiting
<1> QED BY <1>1, <1>4, <1>6 DEF OpsInv

\* LoadStoreQueue and OnMemoryResponse count every memory operation of an
\* instruction in the ROB once, however often the cache and the memory report
\* it, and no instruction completes while one of its entries waits.
THEOREM CoreCountsOps == Spec => []OpsCounted
<1>1. Init => IInv /\ OpsInv
  BY InitInv, InitCounts
<1>2. (IInv /\ OpsInv) /\ [Next]_vars => (IInv /\ OpsInv)'
  <2> SUFFICES ASSUME IInv, OpsInv, [Next]_vars
               PROVE  IInv' /\ OpsInv'
    OBVIOUS
  <2>1. CASE Step
    BY <2>1, StepKeeps, StepCounts
  <2>2. CASE UNCHANGED vars
    <3>1. UNCHANGED <<program, pipe, instr, lsq>>
      BY <2>2 DEF vars
    <3>2. OpsInv'
      BY <3>1, SamePipe, OpsKept
    <3> QED BY <2>2, <3>2, StutterKeeps
  <2> QED BY <2>1, <2>2 DEF Next, Stop
<1>3. IInv /\ OpsInv => OpsCounted
  BY OpsGiven
<1> QED BY <1>1, <1>2, <1>3, PTL DEF Spec

=============================================================================
