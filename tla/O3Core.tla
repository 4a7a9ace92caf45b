------------------------------- MODULE O3Core -------------------------------
(***************************************************************************)
(* The out-of-order core of a CPU node and its L1 data cache, in the       *)
(* integrated mode the builders select (SetStandaloneMode(false)):         *)
(* O3CPU.Tick, the reorder buffer, the load and store queues, the          *)
(* register allocator, the cache with its MSHRs and                        *)
(* CPUNodeHandler.Process, which runs them once a cycle.                   *)
(*                                                                         *)
(* The node is one sequential worker.  A cycle is the sequence of stages   *)
(* of Tick, framed by the response of the memory and the sending of the    *)
(* requests; a step of the model is one turn of the loop of a stage, and   *)
(* pc holds the stage and its loop variables, so that no turn is optional. *)
(* Instruction i of the program has the InstrID i - 1 of the code, and 0   *)
(* stands for no instruction.  One address per block, one set in the       *)
(* cache.  The memory below answers any outstanding request, at most one   *)
(* a cycle, and none later than MaxDelay cycles.                           *)
(***************************************************************************)
EXTENDS Integers, Sequences, FiniteSets, SequencesExt

CONSTANTS
    Programs,         \* sequences of instructions the trace may hold
    Arch, NPhys,      \* architectural registers; number of physical ones
    Blocks,           \* memory blocks
    FetchWidth, DecodeWidth, DispatchWidth, ScheduleWidth, ExecuteWidth,
    RetireWidth,
    FetchQueueSize, DecodeQueueSize, ROBSize, LQSize, SQSize,
    FetchLatency, DecodeLatency, DispatchLatency, ExecuteLatency,
    Ways, MSHRSize, HitLatency, FillLatency,
    MaxDelay,         \* bound: cycles a request waits for its response
    MaxCycle          \* bound: cycles that are explored

ASSUME SizesAssumption ==
    /\ \A size \in {NPhys, FetchWidth, DecodeWidth, DispatchWidth,
                    ScheduleWidth, ExecuteWidth, RetireWidth, FetchQueueSize,
                    DecodeQueueSize, ROBSize, Ways, MSHRSize,
                    MaxDelay, MaxCycle} : size \in Nat \ {0}
    /\ \A size \in {LQSize, SQSize, FetchLatency, DecodeLatency,
                    DispatchLatency, ExecuteLatency, HitLatency, FillLatency} :
            size \in Nat
    /\ Arch \subseteq 1 .. 255

\* The trace reader drops zero registers and addresses; the two lists of
\* registers and the two of addresses hold what remains.
Instruction == [src : Seq(Arch), dst : Seq(Arch), loads : Seq(Blocks),
                stores : Seq(Blocks), branch : BOOLEAN]

ASSUME ProgramsAssumption == Programs \subseteq Seq(Instruction)

VARIABLES
    program,  \* the trace of this run
    now,      \* O3CPU.currentCycle
    pc,       \* stage, count n, index k and instruction i of its loop
    pipe,     \* fetchQueue, decodeQueue, rob, and the instruction counter
    instr,    \* the mutable state of every instruction
    regs,     \* RegisterAllocator: free list, two RATs, register file
    lsq,      \* LoadStoreQueue, and the pending memory operations
    l1,       \* cache lines in LRU order, MSHRs, requests to be sent
    net       \* requests sent and not answered

vars == <<program, now, pc, pipe, instr, regs, lsq, l1, net>>

Phys == 0 .. NPhys - 1
NoReg == -1
Ids == 1 .. Len(program)
InRob == ToSet(pipe.rob)
NumMemOps(i) == Len(program[i].loads) + Len(program[i].stores)

NoRegister == [arch |-> 255, producer |-> 0, valid |-> FALSE]

Goto(stage) == pc' = [stage |-> stage, n |-> 0, k |-> 1, i |-> 0]

Init ==
    /\ program \in Programs
    /\ now = 0
    /\ pc = [stage |-> "respond", n |-> 0, k |-> 1, i |-> 0]
    /\ pipe = [fetch |-> <<>>, decode |-> <<>>, rob |-> <<>>, next |-> 1]
    /\ instr = [i \in Ids |->
                  [ready |-> 0, scheduled |-> FALSE, executed |-> FALSE,
                   completed |-> FALSE, memDone |-> 0,
                   src |-> program[i].src, dst |-> program[i].dst]]
    /\ regs = [free |-> [j \in 1 .. NPhys |-> j - 1],
               front |-> [a \in Arch |-> NoReg],
               back |-> [a \in Arch |-> NoReg],
               file |-> [p \in Phys |-> NoRegister]]
    /\ lsq = [loads |-> <<>>, stores |-> <<>>,
              pendingLoads |-> <<>>, pendingStores |-> <<>>]
    /\ l1 = [lines |-> <<>>, mshr |-> <<>>, requests |-> <<>>]
    /\ net = {}

-----------------------------------------------------------------------------
(* LoadStoreQueue: a response completes the first waiting entry of its     *)
(* instruction and, only then, counts for the instruction in the ROB.      *)

WaitsIn(queue, i) == \E j \in DOMAIN queue : queue[j] = [instr |-> i, done |-> FALSE]

Answer(queue, i) ==
    LET j == SelectInSeq(queue, LAMBDA e : e = [instr |-> i, done |-> FALSE])
    IN  IF j = 0 THEN queue ELSE [queue EXCEPT ![j].done = TRUE]

\* Fault: the operation counts even when no entry waits for it.
CountAlways(queue, i) ==
    instr' = IF i \in InRob THEN [instr EXCEPT ![i].memDone = @ + 1] ELSE instr

CountOp(queue, i) ==
    instr' = IF i \in InRob /\ WaitsIn(queue, i)
             THEN [instr EXCEPT ![i].memDone = @ + 1] ELSE instr

RemoveEntry(queue, i) == RemoveFirstMatch(queue, LAMBDA e : e.instr = i)

-----------------------------------------------------------------------------
(* The L1 data cache.                                                      *)

MissOn(b) == {j \in DOMAIN l1.mshr : l1.mshr[j].block = b}

RemoveMSHR(mshr, b) == RemoveFirstMatch(mshr, LAMBDA e : e.block = b)

\* HandleFill: the MSHR of the block is released, the block becomes the most
\* recently used line, and the least recently used one makes room for it.
HandleFill(b) ==
    LET others == RemoveFirst(l1.lines, b)
    IN  l1' = [l1 EXCEPT !.mshr = RemoveMSHR(@, b),
                         !.lines = Append(IF Len(others) = Ways THEN Tail(others)
                                          ELSE others, b)]

\* The cycle in which an access completes.
AccessReady(b) ==
    IF b \in ToSet(l1.lines) THEN now + HitLatency
    ELSE IF MissOn(b) # {} THEN l1.mshr[CHOOSE j \in MissOn(b) : TRUE].ready
    ELSE IF Len(l1.mshr) = MSHRSize THEN now + HitLatency + FillLatency
    ELSE now + FillLatency

\* Fault: a second miss on a block allocates and sends again.
AccessNeverMerges(i, b) ==
    l1' = IF b \in ToSet(l1.lines) \/ Len(l1.mshr) = MSHRSize THEN l1
          ELSE [l1 EXCEPT
                 !.mshr = Append(@, [block |-> b, instr |-> i,
                                     ready |-> now + FillLatency]),
                 !.requests = Append(@, [block |-> b, instr |-> i])]

\* Access: a hit touches the line; a miss on a block that is under way or
\* with every MSHR taken leaves no trace; another miss takes an MSHR and
\* sends a request.
Access(i, b) ==
    l1' = IF b \in ToSet(l1.lines)
          THEN [l1 EXCEPT !.lines = Append(RemoveFirst(@, b), b)]
          ELSE IF MissOn(b) # {} \/ Len(l1.mshr) = MSHRSize THEN l1
          ELSE [l1 EXCEPT
                 !.mshr = Append(@, [block |-> b, instr |-> i,
                                     ready |-> now + FillLatency]),
                 !.requests = Append(@, [block |-> b, instr |-> i])]

-----------------------------------------------------------------------------
InFlight == ToSet(pipe.fetch) \cup ToSet(pipe.decode) \cup InRob
IsRetired(i) == i < pipe.next /\ i \notin InFlight

AllDone == pipe.next > Len(program) /\ InFlight = {} /\ net = {}
           /\ pc.stage = "respond"

-----------------------------------------------------------------------------
(* CPUNodeHandler.Process: the response of this cycle, if any.             *)

Tick == now' = now + 1 /\ Goto("retire")

HandleMemoryResponse ==
    /\ pc.stage = "respond" /\ now < MaxCycle
    /\ \E r \in net :
        /\ net' = net \ {r}
        /\ HandleFill(r.block)
        /\ CountOp(lsq.loads, r.instr)
        /\ lsq' = [lsq EXCEPT !.loads = Answer(@, r.instr)]
    /\ Tick
    /\ UNCHANGED <<program, pipe, regs>>

NoResponse ==
    /\ pc.stage = "respond" /\ now < MaxCycle /\ ~AllDone
    /\ \A r \in net : now < r.sent + MaxDelay
    /\ Tick
    /\ UNCHANGED <<program, pipe, instr, regs, lsq, l1, net>>

-----------------------------------------------------------------------------
(* retire: completed instructions leave the head of the ROB, their         *)
(* registers become the committed ones and the former ones are freed.      *)

CanRetire == /\ pc.n < RetireWidth
             /\ pipe.rob # <<>> /\ instr[Head(pipe.rob)].completed

Retire ==
    /\ pc.stage = "retire" /\ CanRetire
    /\ LET i == Head(pipe.rob)
       IN  /\ pipe' = [pipe EXCEPT !.rob = Tail(@)]
           /\ lsq' = [lsq EXCEPT
                !.loads = IF program[i].loads # <<>> THEN RemoveEntry(@, i) ELSE @,
                !.stores = IF program[i].stores # <<>> THEN RemoveEntry(@, i) ELSE @]
           /\ pc' = [stage |-> "release", n |-> pc.n + 1, k |-> 1, i |-> i]
    /\ UNCHANGED <<program, now, instr, regs, l1, net>>

\* Fault: the new register is freed in place of the one it replaces.
RetireFreesNew(p) ==
    LET a == regs.file[p].arch
    IN  regs' = [regs EXCEPT !.back[a] = p, !.free = Append(@, p),
                             !.file[p] = NoRegister]

\* Fault: the first committed register is kept and the new one given back.
RetireKeepsMap(p) ==
    LET a == regs.file[p].arch
        old == regs.back[a]
    IN  regs' = IF old = NoReg THEN [regs EXCEPT !.back[a] = p]
                ELSE [regs EXCEPT !.free = Append(@, p), !.file[p] = NoRegister]

RetireDestRegister(p) ==
    LET a == regs.file[p].arch
        old == regs.back[a]
    IN  regs' = IF old = NoReg THEN [regs EXCEPT !.back[a] = p]
                ELSE [regs EXCEPT !.back[a] = p, !.free = Append(@, old),
                                  !.file[old] = NoRegister]

Release ==
    /\ pc.stage = "release" /\ pc.k <= Len(instr[pc.i].dst)
    /\ RetireDestRegister(instr[pc.i].dst[pc.k])
    /\ pc' = [pc EXCEPT !.k = @ + 1]
    /\ UNCHANGED <<program, now, pipe, instr, lsq, l1, net>>

Released ==
    /\ pc.stage = "release" /\ pc.k > Len(instr[pc.i].dst)
    /\ pc' = [stage |-> "retire", n |-> pc.n, k |-> 1, i |-> 0]
    /\ UNCHANGED <<program, now, pipe, instr, regs, lsq, l1, net>>

Retired ==
    /\ pc.stage = "retire" /\ ~CanRetire
    /\ Goto("loads")
    /\ UNCHANGED <<program, now, pipe, instr, regs, lsq, l1, net>>

-----------------------------------------------------------------------------
(* processPendingMemOps: operations whose time has come, loads first.      *)

DueIn(pending) == SelectInSeq(pending, LAMBDA op : op.ready <= now)

CompleteLoad ==
    /\ pc.stage = "loads"
    /\ LET j == DueIn(lsq.pendingLoads)
       IN  /\ j # 0
           /\ LET i == lsq.pendingLoads[j].instr
              IN  /\ lsq' = [lsq EXCEPT !.pendingLoads = RemoveAt(@, j),
                                        !.loads = Answer(@, i)]
                  /\ CountOp(lsq.loads, i)
    /\ UNCHANGED <<program, now, pc, pipe, regs, l1, net>>

LoadsDone ==
    /\ pc.stage = "loads" /\ DueIn(lsq.pendingLoads) = 0
    /\ Goto("stores")
    /\ UNCHANGED <<program, now, pipe, instr, regs, lsq, l1, net>>

CompleteStore ==
    /\ pc.stage = "stores"
    /\ LET j == DueIn(lsq.pendingStores)
       IN  /\ j # 0
           /\ LET i == lsq.pendingStores[j].instr
              IN  /\ lsq' = [lsq EXCEPT !.pendingStores = RemoveAt(@, j),
                                        !.stores = Answer(@, i)]
                  /\ CountOp(lsq.stores, i)
    /\ UNCHANGED <<program, now, pc, pipe, regs, l1, net>>

StoresDone ==
    /\ pc.stage = "stores" /\ DueIn(lsq.pendingStores) = 0
    /\ Goto("complete")
    /\ UNCHANGED <<program, now, pipe, instr, regs, lsq, l1, net>>

-----------------------------------------------------------------------------
(* completeInflightInstruction: executed instructions whose memory         *)
(* operations are done make their results valid.                           *)

Completes(i) ==
    /\ instr[i].executed /\ ~instr[i].completed
    /\ now >= instr[i].ready
    /\ instr[i].memDone >= NumMemOps(i)

Complete ==
    /\ pc.stage = "complete" /\ pc.n < ExecuteWidth
    /\ LET j == SelectInSeq(pipe.rob, Completes)
       IN  /\ j # 0
           /\ LET i == pipe.rob[j]
              IN  /\ instr' = [instr EXCEPT ![i].completed = TRUE]
                  /\ regs' = [regs EXCEPT !.file =
                       [p \in Phys |-> IF p \in ToSet(instr[i].dst)
                                       THEN [@[p] EXCEPT !.valid = TRUE] ELSE @[p]]]
    /\ pc' = [pc EXCEPT !.n = @ + 1]
    /\ UNCHANGED <<program, now, pipe, lsq, l1, net>>

Completed ==
    /\ pc.stage = "complete"
    /\ pc.n < ExecuteWidth => SelectInSeq(pipe.rob, Completes) = 0
    /\ Goto("execute")
    /\ UNCHANGED <<program, now, pipe, instr, regs, lsq, l1, net>>

-----------------------------------------------------------------------------
(* execute: scheduled instructions whose sources are valid, in ROB order;  *)
(* each accesses the cache for its loads, then for its stores.             *)

\* Fault: an instruction executes before its sources are valid.
SourcesIgnored(i) == TRUE

SourcesValid(i) == \A p \in ToSet(instr[i].src) : regs.file[p].valid

Executes(i) ==
    /\ instr[i].scheduled /\ ~instr[i].executed
    /\ now >= instr[i].ready
    /\ SourcesValid(i)

Execute ==
    /\ pc.stage = "execute" /\ pc.n < ExecuteWidth
    /\ LET j == SelectInSeq(pipe.rob, Executes)
       IN  /\ j # 0
           /\ instr' = [instr EXCEPT ![pipe.rob[j]].executed = TRUE,
                                     ![pipe.rob[j]].ready = now + ExecuteLatency]
           /\ pc' = [stage |-> "access", n |-> pc.n + 1, k |-> 1,
                     i |-> pipe.rob[j]]
    /\ UNCHANGED <<program, now, pipe, regs, lsq, l1, net>>

AccessLoad ==
    /\ pc.stage = "access" /\ pc.k <= Len(program[pc.i].loads)
    /\ LET b == program[pc.i].loads[pc.k]
       IN  /\ lsq' = [lsq EXCEPT !.pendingLoads =
                        Append(@, [instr |-> pc.i, ready |-> AccessReady(b)])]
           /\ Access(pc.i, b)
    /\ pc' = [pc EXCEPT !.k = @ + 1]
    /\ UNCHANGED <<program, now, pipe, instr, regs, net>>

AccessStore ==
    LET s == pc.k - Len(program[pc.i].loads)
    IN  /\ pc.stage = "access" /\ s \in DOMAIN program[pc.i].stores
        /\ LET b == program[pc.i].stores[s]
           IN  /\ lsq' = [lsq EXCEPT !.pendingStores =
                            Append(@, [instr |-> pc.i, ready |-> AccessReady(b)])]
               /\ Access(pc.i, b)
        /\ pc' = [pc EXCEPT !.k = @ + 1]
        /\ UNCHANGED <<program, now, pipe, instr, regs, net>>

Accessed ==
    /\ pc.stage = "access" /\ pc.k > NumMemOps(pc.i)
    /\ pc' = [stage |-> "execute", n |-> pc.n, k |-> 1, i |-> 0]
    /\ UNCHANGED <<program, now, pipe, instr, regs, lsq, l1, net>>

Executed ==
    /\ pc.stage = "execute"
    /\ pc.n < ExecuteWidth => SelectInSeq(pipe.rob, Executes) = 0
    /\ Goto("schedule")
    /\ UNCHANGED <<program, now, pipe, instr, regs, lsq, l1, net>>

-----------------------------------------------------------------------------
(* schedule: the scan of the ROB renames every ready instruction, until    *)
(* ScheduleWidth unexecuted ones have been seen or registers run short.    *)
(* The test for registers also reads the renamed instructions, whose       *)
(* source lists hold physical numbers by then.                             *)

Unmapped(r) == r \notin Arch \/ regs.front[r] = NoReg

EnoughRegisters(i) ==
    Len(regs.free) >= Cardinality({j \in DOMAIN instr[i].src : Unmapped(instr[i].src[j])})
                      + Len(instr[i].dst)

ScanGoesOn == pc.k <= Len(pipe.rob) /\ pc.n < ScheduleWidth

Scanned(i) == pc' = [stage |-> "schedule", k |-> pc.k + 1, i |-> 0,
                     n |-> IF instr[i].executed THEN pc.n ELSE pc.n + 1]

Schedules(i) == ~instr[i].scheduled /\ now >= instr[i].ready

ScheduleSkip ==
    /\ pc.stage = "schedule" /\ ScanGoesOn
    /\ EnoughRegisters(pipe.rob[pc.k])
    /\ ~Schedules(pipe.rob[pc.k])
    /\ Scanned(pipe.rob[pc.k])
    /\ UNCHANGED <<program, now, pipe, instr, regs, lsq, l1, net>>

Schedule ==
    /\ pc.stage = "schedule" /\ ScanGoesOn
    /\ EnoughRegisters(pipe.rob[pc.k])
    /\ Schedules(pipe.rob[pc.k])
    /\ instr' = [instr EXCEPT ![pipe.rob[pc.k]].scheduled = TRUE]
    /\ pc' = [pc EXCEPT !.stage = "sources", !.i = 1]
    /\ UNCHANGED <<program, now, pipe, regs, lsq, l1, net>>

\* While an instruction is renamed, pc.i counts its operands.
Renaming == pipe.rob[pc.k]

\* A source that was never written gets a register that holds its value and
\* counts as committed.
RenameSrcRegister(i, j) ==
    LET a == instr[i].src[j]
        p == IF regs.front[a] = NoReg THEN Head(regs.free) ELSE regs.front[a]
    IN  /\ instr' = [instr EXCEPT ![i].src[j] = p]
        /\ regs' = IF regs.front[a] # NoReg THEN regs
                   ELSE [regs EXCEPT !.free = Tail(@),
                           !.front[a] = p, !.back[a] = p,
                           !.file[p] = [arch |-> a, producer |-> 0, valid |-> TRUE]]

RenameSource ==
    /\ pc.stage = "sources" /\ pc.i <= Len(instr[Renaming].src)
    /\ RenameSrcRegister(Renaming, pc.i)
    /\ pc' = [pc EXCEPT !.i = @ + 1]
    /\ UNCHANGED <<program, now, pipe, lsq, l1, net>>

SourcesDone ==
    /\ pc.stage = "sources" /\ pc.i > Len(instr[Renaming].src)
    /\ pc' = [pc EXCEPT !.stage = "results", !.i = 1]
    /\ UNCHANGED <<program, now, pipe, instr, regs, lsq, l1, net>>

RenameDestRegister(i, j) ==
    LET a == instr[i].dst[j]
        p == Head(regs.free)
    IN  /\ instr' = [instr EXCEPT ![i].dst[j] = p]
        /\ regs' = [regs EXCEPT !.free = Tail(@), !.front[a] = p,
                      !.file[p] = [arch |-> a, producer |-> i, valid |-> FALSE]]

RenameResult ==
    /\ pc.stage = "results" /\ pc.i <= Len(instr[Renaming].dst)
    /\ RenameDestRegister(Renaming, pc.i)
    /\ pc' = [pc EXCEPT !.i = @ + 1]
    /\ UNCHANGED <<program, now, pipe, lsq, l1, net>>

ResultsDone ==
    /\ pc.stage = "results" /\ pc.i > Len(instr[Renaming].dst)
    /\ Scanned(Renaming)
    /\ UNCHANGED <<program, now, pipe, instr, regs, lsq, l1, net>>

Scheduled ==
    /\ pc.stage = "schedule"
    /\ ScanGoesOn => ~EnoughRegisters(pipe.rob[pc.k])
    /\ Goto("dispatch")
    /\ UNCHANGED <<program, now, pipe, instr, regs, lsq, l1, net>>

-----------------------------------------------------------------------------
(* dispatch, decode, fetch: the front end, in order.                       *)

\* Fault: the queues of the memory operations are not looked at.
RoomInRob(i) == Len(pipe.rob) < ROBSize

\* Fault: only they are looked at.
RoomInQueues(i) ==
    /\ program[i].loads # <<>> => Len(lsq.loads) < LQSize
    /\ program[i].stores # <<>> => Len(lsq.stores) < SQSize

Dispatchable(i) ==
    /\ Len(pipe.rob) < ROBSize
    /\ program[i].loads # <<>> => Len(lsq.loads) < LQSize
    /\ program[i].stores # <<>> => Len(lsq.stores) < SQSize

\* AddLoad and AddStore, once per address; what finds no room is dropped.
Enter(queue, size, i, ops) ==
    LET room == size - Len(queue)
        n == IF Len(ops) < room THEN Len(ops) ELSE room
    IN  queue \o [j \in 1 .. n |-> [instr |-> i, done |-> FALSE]]

CanDispatch ==
    /\ pc.n < DispatchWidth /\ pipe.decode # <<>>
    /\ now >= instr[Head(pipe.decode)].ready
    /\ Dispatchable(Head(pipe.decode))

Dispatch ==
    /\ pc.stage = "dispatch" /\ CanDispatch
    /\ LET i == Head(pipe.decode)
       IN  /\ pipe' = [pipe EXCEPT !.decode = Tail(@), !.rob = Append(@, i)]
           /\ lsq' = [lsq EXCEPT !.loads = Enter(@, LQSize, i, program[i].loads),
                                 !.stores = Enter(@, SQSize, i, program[i].stores)]
           /\ instr' = [instr EXCEPT ![i].ready = now + DispatchLatency]
    /\ pc' = [pc EXCEPT !.n = @ + 1]
    /\ UNCHANGED <<program, now, regs, l1, net>>

Dispatched ==
    /\ pc.stage = "dispatch" /\ ~CanDispatch
    /\ Goto("decode")
    /\ UNCHANGED <<program, now, pipe, instr, regs, lsq, l1, net>>

CanDecode ==
    /\ pc.n < DecodeWidth /\ pipe.fetch # <<>>
    /\ Len(pipe.decode) < DecodeQueueSize
    /\ now >= instr[Head(pipe.fetch)].ready

Decode ==
    /\ pc.stage = "decode" /\ CanDecode
    /\ pipe' = [pipe EXCEPT !.fetch = Tail(@),
                            !.decode = Append(@, Head(pipe.fetch))]
    /\ instr' = [instr EXCEPT ![Head(pipe.fetch)].ready = now + DecodeLatency]
    /\ pc' = [pc EXCEPT !.n = @ + 1]
    /\ UNCHANGED <<program, now, regs, lsq, l1, net>>

Decoded ==
    /\ pc.stage = "decode" /\ ~CanDecode
    /\ Goto("fetch")
    /\ UNCHANGED <<program, now, pipe, instr, regs, lsq, l1, net>>

\* A branch ends the fetch of its cycle: n jumps to the width.
CanFetch ==
    /\ pc.n < FetchWidth
    /\ Len(pipe.fetch) < FetchQueueSize /\ Len(pipe.rob) < ROBSize
    /\ pipe.next <= Len(program)

Fetch ==
    /\ pc.stage = "fetch" /\ CanFetch
    /\ pipe' = [pipe EXCEPT !.fetch = Append(@, pipe.next), !.next = @ + 1]
    /\ instr' = [instr EXCEPT ![pipe.next].ready = now + FetchLatency]
    /\ pc' = [pc EXCEPT !.n = IF program[pipe.next].branch THEN FetchWidth
                              ELSE @ + 1]
    /\ UNCHANGED <<program, now, regs, lsq, l1, net>>

\* The end of Tick; sendPendingRequests then hands the requests to the
\* network, and the cycle is over.
Fetched ==
    /\ pc.stage = "fetch" /\ ~CanFetch
    /\ net' = net \cup {[block |-> r.block, instr |-> r.instr, sent |-> now] :
                            r \in ToSet(l1.requests)}
    /\ l1' = [l1 EXCEPT !.requests = <<>>]
    /\ Goto("respond")
    /\ UNCHANGED <<program, now, pipe, instr, regs, lsq>>

-----------------------------------------------------------------------------
\* With nothing left, or at the bound, time may as well stand still.
Stop == pc.stage = "respond" /\ (AllDone \/ now = MaxCycle) /\ UNCHANGED vars

Step ==
    \/ HandleMemoryResponse \/ NoResponse
    \/ Retire \/ Release \/ Released \/ Retired
    \/ CompleteLoad \/ LoadsDone \/ CompleteStore \/ StoresDone
    \/ Complete \/ Completed
    \/ Execute \/ AccessLoad \/ AccessStore \/ Accessed \/ Executed
    \/ ScheduleSkip \/ Schedule \/ RenameSource \/ SourcesDone
    \/ RenameResult \/ ResultsDone \/ Scheduled
    \/ Dispatch \/ Dispatched \/ Decode \/ Decoded \/ Fetch \/ Fetched

Next == Step \/ Stop

\* The worker of the node runs until the network stops it.
Spec == Init /\ [][Next]_vars /\ WF_vars(Step)

-----------------------------------------------------------------------------
(* Properties                                                              *)

Entry == [instr : Ids, done : BOOLEAN]
PendingOp == [instr : Ids, ready : Nat]

\* The variables keep their types, and no queue grows past its size.
TypeOK ==
    /\ program \in Programs /\ now \in 0 .. MaxCycle
    /\ pc.stage \in {"respond", "retire", "release", "loads", "stores",
                     "complete", "execute", "access", "schedule", "sources",
                     "results", "dispatch", "decode", "fetch"}
    /\ pipe.fetch \in Seq(Ids) /\ Len(pipe.fetch) <= FetchQueueSize
    /\ pipe.decode \in Seq(Ids) /\ Len(pipe.decode) <= DecodeQueueSize
    /\ pipe.rob \in Seq(Ids) /\ Len(pipe.rob) <= ROBSize
    /\ \A i \in Ids : /\ instr[i].scheduled \in BOOLEAN
                      /\ instr[i].executed => instr[i].scheduled
                      /\ instr[i].completed => instr[i].executed
    /\ regs.free \in Seq(Phys)
    /\ regs.front \in [Arch -> Phys \cup {NoReg}]
    /\ regs.back \in [Arch -> Phys \cup {NoReg}]
    /\ regs.file \in [Phys -> [arch : 0 .. 255, producer : {0} \cup Ids, valid : BOOLEAN]]
    /\ lsq.loads \in Seq(Entry) /\ Len(lsq.loads) <= LQSize
    /\ lsq.stores \in Seq(Entry) /\ Len(lsq.stores) <= SQSize
    /\ lsq.pendingLoads \in Seq(PendingOp) /\ lsq.pendingStores \in Seq(PendingOp)
    /\ l1.lines \in Seq(Blocks) /\ Len(l1.lines) <= Ways
    /\ Len(l1.mshr) <= MSHRSize
    /\ net \subseteq [block : Blocks, instr : Ids, sent : 0 .. MaxCycle]

\* Which operands of instruction i hold physical registers by now.
RenamedSources(i) ==
    IF pc.stage = "sources" /\ pipe.rob[pc.k] = i THEN 1 .. pc.i - 1
    ELSE IF instr[i].scheduled THEN DOMAIN instr[i].src ELSE {}

RenamedResults(i) ==
    IF pc.stage = "sources" /\ pipe.rob[pc.k] = i THEN {}
    ELSE IF pc.stage = "results" /\ pipe.rob[pc.k] = i THEN 1 .. pc.i - 1
    ELSE IF pc.stage = "release" /\ pc.i = i THEN pc.k .. Len(instr[i].dst)
    ELSE IF i \in InRob /\ instr[i].scheduled THEN DOMAIN instr[i].dst ELSE {}

\* Every physical register is free, committed to one architectural register,
\* or the result of one instruction in flight: exactly one of them, once.
\* Renaming, retirement and the overwritten operand lists never lose a
\* register and never free one that is in use, and the test for free registers
\* before an instruction is renamed is enough for all of its operands (the
\* allocator panics otherwise).
RegistersConserved ==
    /\ \A p \in Phys :
           Cardinality({j \in DOMAIN regs.free : regs.free[j] = p})
           + Cardinality({a \in Arch : regs.back[a] = p})
           + Cardinality({r \in Ids \X (1 .. NPhys) :
                             r[2] \in RenamedResults(r[1]) /\ instr[r[1]].dst[r[2]] = p}) = 1
    /\ pc.stage = "sources" /\ pc.i <= Len(instr[Renaming].src)
       /\ regs.front[instr[Renaming].src[pc.i]] = NoReg => regs.free # <<>>
    /\ pc.stage = "results" /\ pc.i <= Len(instr[Renaming].dst) => regs.free # <<>>

\* The last instruction before i that writes register a, 0 if none does.
LastWriter(a, i) ==
    LET writers == {w \in Ids : w < i /\ a \in ToSet(program[w].dst)}
    IN  IF writers = {} THEN 0
        ELSE CHOOSE w \in writers : \A v \in writers : v <= w

\* A renamed source is the register of the last writer before it in program
\* order, for as long as the instruction is in flight, and the instruction
\* executes only when that writer has completed.
DataFlow ==
    \A i \in InRob : \A j \in RenamedSources(i) :
        LET a == program[i].src[j]
            p == instr[i].src[j]
            w == LastWriter(a, i)
        IN  /\ regs.file[p].arch = a /\ regs.file[p].producer = w
            /\ instr[i].executed => w = 0 \/ instr[w].completed

\* Between instructions, the committed map names for every register the
\* result of the last retired instruction that writes it, and that result is
\* valid: the state a flush would restore is precise.
PreciseState ==
    pc.stage # "release" =>
        \A a \in Arch :
            LET last == LastWriter(a, 1 + Cardinality({i \in Ids : IsRetired(i)}))
            IN  /\ last # 0 => regs.back[a] # NoReg
                /\ regs.back[a] # NoReg =>
                       regs.file[regs.back[a]] =
                           [arch |-> a, producer |-> last, valid |-> TRUE]

\* The entries of instruction i, answered or waiting.
EntriesIn(queue, i, done) == {j \in DOMAIN queue : queue[j] = [instr |-> i, done |-> done]}

\* The counter of an instruction in the ROB is the number of its answered
\* entries, however often the cache and the memory report one operation, and
\* a completed instruction has no unanswered one.
OpsCounted ==
    \A i \in InRob :
        /\ instr[i].memDone = Cardinality(EntriesIn(lsq.loads, i, TRUE))
                               + Cardinality(EntriesIn(lsq.stores, i, TRUE))
        /\ instr[i].completed => /\ EntriesIn(lsq.loads, i, FALSE) = {}
                                 /\ EntriesIn(lsq.stores, i, FALSE) = {}

CountBlock(entries, b) == Cardinality({j \in DOMAIN entries : entries[j].block = b})

\* A block has an MSHR exactly while one request for it is under way, even
\* when the line is evicted and missed again.
MSHRTracksRequests ==
    \A b \in Blocks :
        /\ CountBlock(l1.mshr, b) =
              CountBlock(l1.requests, b) + Cardinality({r \in net : r.block = b})
        /\ CountBlock(l1.mshr, b) <= 1

\* Every instruction of the trace retires: full queues, short registers and
\* late responses delay the pipeline but never stop it.
AllRetire == <>(pipe.next > Len(program) /\ InFlight = {})
=============================================================================
