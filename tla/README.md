# TLA+ models of the flow simulator

This directory holds the specifications of `flow_control_sim`, a cycle-accurate
simulator of on-chip networks written in Go, the TLC configurations that check
them and the TLAPS proofs about them.  Line references are to the repository.

The simulator's own promise is determinism: every node and every link runs in a
goroutine, each at its own speed, and yet the packets that arrive in a cycle are
the same on every run.  Everything that carries this promise is lock-free
synchronisation between two goroutines, arithmetic on cycles, and bounded
queues.  That is where the models start.

## Inventory

| Component | State | Operations | What is hard | What makes it correct |
|---|---|---|---|---|
| `core/ahead_port/sync.go` ComponentSync | done, readyUntil, readyStates, waiting flags, target cycles, two one-token channels | SetDone, WaitDone, Ready, UpdateReady | two goroutines on atomics and channels, no common lock | no lost wakeup, no panic, the answer is the declared decision |
| `core/ahead_port/port.go` Port | channel, pendingPackets per cycle | TrySend, MarkDone, Receive, IsReady, UpdateReady | the sender is ahead of the receiver by several cycles; bounded channel | Receive(c) returns exactly the packets of c |
| `core/link` Link, BufferedLinkType, BufferlessLinkType | slots, totalBackpressure, pending lists | Tick, Process, CheckSpace | backpressure shifts slots; a refusal in the middle of a burst | bounded, in order, nothing lost, pure delay without backpressure |
| `core/queue` InputQueue, OutputQueue | slot array and occupancy; ring buffer | Tick, Free, PeekPickTo, InjectPackets | readiness is promised several cycles ahead | no overflow, no promise taken back, FIFO |
| `core/node` BaseNode, worker | outputQueueAhead, cycle | AdvanceTo, Tick, tickOutputQueues | a node sends in future cycles before it has processed the present one | same result as the lock-step execution |
| `core/node` bufferless ring router | queues, injection buffer | Process: eject, forward, inject | a batch is injected as a whole or not at all, after its packets have left their queues | every packet is in one place and leaves at its target |
| `core/network` Network | workers, target cycle | Connect, AdvanceTo, stop | one goroutine per component, errors of one of them | everybody reaches the target |
| `dataflow/transaction` TxnManager | active and migrated transactions, channels | Start, Tick, Yield, MigrateTo | coroutines that wait for messages by type, timeouts in real time | no message lost or handed to the wrong transaction |
| `dataflow/chi` CHI flows | directory and cache state, held across yields | ReadShared, ReadUnique, snoop handlers | directory state read before a yield and written after it | at most one writer |
| `components/directory`, `components/cache`, `capabilities/cache` | sharers, owner, lines, MSHRs | AddSharer, HandleMESIRequest, Access, Fill, evict | silent partial updates, miss merging | single writer, no lost fill |
| `capabilities/memory/dram` DRAMChannel | read and write queues, banks, data bus, mode | AddRequest, Operate | head-of-line blocking, mode switches that cancel work | every request completes once |
| `nodes/cpu/champsim` O3 CPU, LSQ, ROB, registers, DIB, trace readers | pipeline queues, block cache, prefetch goroutine | one stage per method | resources leaked along long legal runs | every instruction retires, in order |
| `nodes/cpu/champsim/flowsim` CPU, cache and memory nodes | request tables | handlers | requests and responses over the network | every request gets one response |
| builder, config, controller, server, monitors, tracing, export, visualization | - | construction, I/O, observation | - | not modelled: no behaviour of their own over time |

Components interact in three ways.  Nodes and links meet only at **ports**: the
upstream side calls `TrySend` and `MarkDone`, the downstream side `Receive` and
`UpdateReady`, and both block until the other has come far enough.  Within a
node the **handler** is called back between the ticks of its input and output
queues.  **Network.AdvanceTo** hands a target cycle to every worker and waits
until all have reached it.

`PROJECT.json` lists the hazards line by line.

## Modules

| Module | Models | Built on |
|---|---|---|
| `ComponentSync` | `sync.go`: every atomic access, lock section and channel operation is a step | - |
| `Handshake` | what a component may rely on: decisions never change, a wait returns when its condition holds | - |
| `ComponentSyncProofs` | theorems about `ComponentSync` | `ComponentSync` |
| `AheadPort` | `port.go`: channel, drain-wait-drain, per-cycle cache | `Handshake` (instance) |
| `AheadPortProofs` | theorems about `AheadPort` | `AheadPort` |
| `Mailbox` | what a port is: one compartment per cycle, emptied once closed | - |
| `Queues` | input and output queue as functions | - |
| `LinkTypes` | the two link handlers as functions | - |
| `FlowPath`, `MCFlowPath` | `Connect`: source node, port, link, port, sink node, under any schedule | `Queues`, `LinkTypes` |
| `FlowProofs` | theorems about `FlowPath` | `FlowPath` |
| `RingRouter`, `MCRingRouter` | a ring of bufferless routers and their workers | - |
| `RingProofs` | theorems about `RingRouter` | `RingRouter` |
| `TxnManager`, `MCTxnManager` | `dataflow/transaction`: transaction goroutines, managers, migration; the yields of the CHI flows as programs | - |
| `TxnProofs` | theorems about `TxnManager` | `TxnManager` |
| `Coherence`, `MCCoherence` | one line under the CHI transactions: directory, caches, snoops | - |
| `CoherenceProofs` | theorems about `Coherence` | `Coherence` |
| `DRAMChannel`, `MCDRAMChannel` | the DRAM channel and the node that drives it | - |
| `MemoryService` | what a memory node promises | - |
| `DRAMProofs` | theorems about `DRAMChannel`: what it holds, that it is a `MemoryService`, and when it answers | `DRAMChannel` |
| `O3Core`, `MCO3Core` | the out-of-order core with its load and store queues, registers and L1 | - |
| `O3Proofs` | theorems about `O3Core` | `O3Core` |

The chain of abstraction of the network is `ComponentSync` => `Handshake`,
`AheadPort` (over `Handshake`) => `Mailbox`, `FlowPath` (over mailboxes) =
lock-step reference.  `RingRouter` in turn takes for a link the pipe that
`FlowPath` shows one to be.  On the side of the components, `DRAMChannel` =>
`MemoryService`, and the memory that answers `O3Core` in any order and within a
bounded time is such a service.  `Coherence` takes from `TxnManager` how a
response finds the transactions that wait for it.  The arrows are checked as
refinements (`ImplementsHandshake`, `ImplementsMailbox`,
`ImplementsMemoryService`) or, for `FlowPath`, as the invariant `Deterministic`;
the safety half of each of the three refinements is also proved, and so is
`Deterministic`, for all constants.

Faults, named `\* Fault:` in the modules, are the wrong versions of an operator
against which the properties are tried; no specification uses them.

### ComponentSync

`done`, `readyUntil`, `waitingFor` and so on are the atomics of the struct;
`doneToken` and `readyToken` count what is in the notification channels of
capacity one; `mu` is `waiterMu`.  The two program counters `pcS` (upstream
goroutine) and `pcR` (downstream goroutine) walk through the functions in
program order.  The slice `readyStates`, which the code re-slices as
`readyUntil` moves, is kept as a function on cycles; a slot that was sliced off
is "unset".  `decision` is a history variable: what `UpdateReady` declared.
The callers are the ones in the repository: the upstream side asks some times
in its cycle and then calls `SetDone`; the downstream side waits for its cycle,
decides some cycles in increasing order, its next one at the latest, and
goes on (`InputQueue.Tick`, `Link.Tick`).

`SetReadyUntil` and the construction calls are the constant `Initial`.

### AheadPort

Packets are numbered in the order of the channel, which is therefore the
interval between what was drained and what was sent.  `Receive` is four steps:
drain, `WaitDone`, drain again, collect.  Its callers are the ones of
`ComponentSync`; after a refusal a sender sends nothing more in the cycle, as
`OutputQueue.Tick` does (`BufferlessLinkType` does not: see the limits).

### FlowPath

A step is a cycle of one component, taken as soon as none of the calls in it
would block; `AdvanceTo` chooses any next target, so a run of `LastCycle` cycles
is divided into calls in every way.  The source ticks its output queue ahead of
its own cycle (`tickOutputQueues`).  A sink frees its oldest packets
(`drain[c]` of them); when they are freed and how many are produced is the
workload, fixed at the start.  The channel of a port is unbounded here: the
bound is the subject of `AheadPort`.  A sink whose `Tick` failed stops: what the
rest of the network does then is not modelled yet.

`Sync` is the reference: a recursive function that executes the cycles one after
the other, source, link, sink, without ticking ahead.

### TxnManager

A transaction is a goroutine and its program: the commands it gives its
`TxnContext` in order (`send`, `sendAndWait`, `wait`, `migrate`, `complete`).
`next` is its position, `state` says whether it runs, blocks in `Yield`, or has
returned; `yieldCh` and `resumeCh` are the two channels, `active`, `migrated`
and `waiting` the tables of the managers, `net` the messages on their way.  A
`Tick` routes its incoming messages one by one (`Route`) and then takes one
command of every registered transaction (`Collect`).  Goroutines run in
parallel with it, so these are separate steps; a `Tick` with several messages
is several `Route` steps and a `Collect`.

Messages between nodes may overtake one another and none is lost: the network
has one path per channel and message type.  `Replies` stands for the handler of
a node that answers a request, which is outside the package.  Left out:
`pendingByAddr`, which is written and never read; the `Operations` of a command,
which no caller sets; the source and target filters of a wait, which no caller
sets; cancelled contexts, which end a transaction exactly as a timeout does.

`TxnAssumption` is what the programs have in common with the flows of
`dataflow/chi`: every transaction starts on a node, `complete` is a program's
last command if it is there, what is sent has a handler (`Reply`), which
answers with something that has one too or not at all, and no handler answers
with a migration request, which only `MigrateTo` makes.  The channels have room
for one command at least.

### RingRouter

A step is a tick of one router (`BaseNode.Tick`): packets arrive from the ring
and from the worker, `Process` divides them, the output queues send a burst.
The queues and the injection buffer of the code are sequences.  `Process` is one
expression with the code's order: the packets leave the input queues and the
buffer first, then the whole batch is injected or none of it, and the error is
ignored; `dropped` records what was in the batch.  How far a router is behind
its neighbour, and the latency of links, are open: of what a link holds, a tick
takes any prefix that the bandwidth allows.  A worker offers its packets in
order and takes what it gets.

### Coherence

A transaction is a goroutine that calls cache and directory directly, and each
of these locked calls is a step.  `pc` is the call that comes next: `home` reads
the directory, `snoop` and `home` send the snoops, `wait` is the `Yield`,
`waiting` is being registered in the manager, `share`, `clear`, `add`, `own` are
`SetState`, `ClearSharers`, `AddSharer` and the final `SetState`, and `fill`,
`filled` are `SetData` and `SetState` of the requester's cache.  `seen` is the
list of sharers the transaction has read and still uses after its waits, `todo`
the responses it waits for.

`net` holds snoops and their responses.  A snoop handler is one step, the
response is delivered to every transaction that waits for its type and lost if
none waits (`TxnManager.Route`).  A wait times out when the messages of the
transaction are gone: a tenth of a second against microseconds.

Nothing restricts when transactions start or how their calls interleave: the
home node does not either.  `coherence_race` shows what can come of it.  The
other properties say that nothing else can: `raced` is a history variable, read
by no action, that becomes true when accesses conflict (`Conflicts`).  A
transaction *holds* what it has read from its first call at the home node until
its line is filled.  There is a conflict when

* a transaction reads the directory while another one holds, and one of the two
  is exclusive (ReadUnique, WriteUnique);
* an exclusive one reads the directory while snoops or responses of a read are
  still on their way (a response resumes every wait of its type);
* a WriteUnique that has found its line in the cache writes after a snoop has
  taken the line away.

Each of the three is needed, and so is every point at which a transaction
holds: without any of them TLC finds a copy the directory does not know.
No conflicts are, and so covered by the properties: any number of requests that
wait side by side to be served, of one requester too; fast paths at any time;
reads that overlap reads at every point; snoops that meet a line between its two
calls of filling; responses nobody waits for; timeouts and what follows them.

### DRAMChannel

A step is one cycle of `DRAMNodeHandler.Process`.  `operate` is the composition
of `FinishDBusRequest`, `SwapWriteMode`, `PopulateDBus` and `SchedulePacket`
with `ServicePacket`, functions on the state of the channel.  Requests are
numbered in the order they arrive, so the two queues, which append and delete,
are sets, and "the first of the queue" is the smallest number.  The address of a
request is its bank and row.  The channel's clock is set by the node after the
tick, as in the code, so it operates twice at time 1.

### O3Core

One step is one turn of the loop of a stage; `pc` carries the stage and the loop
variables, so no turn is optional and a stage ends where the code breaks out of
the loop.  `pipe` holds the queues and the reorder buffer, `instr` the mutable
fields of each instruction (renamed operands overwrite the architectural ones,
as in the code), `regs` the free list, both alias tables and the register file,
`lsq` the load and store queue with the pending operations, `l1` the lines in
LRU order, the MSHRs and the requests that leave at the end of the cycle.  The
memory answers any outstanding request, at most one in a cycle.

## Runs

| Run | Shows | Bounds |
|---|---|---|
| `component_sync` | no lost wakeup on either side, no panic, answers are decisions, both goroutines finish, refines `Handshake` | 4 cycles, decisions up to 2 cycles ahead, 2 questions per cycle, 1 cycle ready at the start: a token may outlive the cycle it was sent for, a burst of decisions may pass a sleeping `Ready`, and the compaction crosses decided and refused cycles |
| `ahead_port` | `Receive` is complete, refines `Mailbox`, terminates | 3 cycles, channel of 2, at most 2 packets per cycle: the channel fills up and holds packets of two cycles |
| `flow_path` | determinism, conservation, no overflow, bounded pending list, termination, with both kinds of link | 8 cycles, latency 2, bandwidth 2, input queue of 4, bursts of 3 into a bandwidth of 2; buffered with twenty workloads from an idle sink to one that is stalled almost always, and an uneven one that fills a slot from two cycles, with which the bound on the pending list is tight; bufferless with five |
| `flow_path_stranded` | **finding**: packets shifted by backpressure are lost in the port | 6 cycles, latency 1 |
| `ring` | a packet is in one place, in order until it is injected, leaves at its target, and leaves in the end | 3 routers, queues of 2, injection buffer of 1, bandwidth 1, links that may refuse: outputs and buffer fill up, packets go round again |
| `ring_drops` | **finding**: a batch that does not fit is lost | same, links that never refuse |
| `txn_flows` | one manager wherever a transaction migrates, commands taken where they were yielded, all end and are forgotten | a ReadUnique that moves to the home node and back, a snoop handler that moves to the requester, one that answers; channels of 1, so every send and every resume may find its channel full |
| `txn_lost_send` | **finding**: the response of a handler that returns after `Send` is lost | 1 transaction |
| `coherence` | until accesses conflict, one writer and a directory that knows every copy | 4 transactions, each any operation of any of 3 requesters, started at any time: a third sharer, upgrades, reads in parallel, requests that wait for one another, snoops for copies that have gone; after a conflict two transactions go on |
| `coherence_race` | **finding**: two transactions at once on the home node break the single writer | 2 transactions |
| `dram_channel` | every request answered once, banks and requests in step across mode switches, bus never shared, turn-around kept, overtaking only after a reschedule, refines `MemoryService` | 5 requests that arrive in any cycle up to 12, 2 banks, 2 rows, queues of 3: the water marks (2 and 2 of 3) are crossed in both directions, a queue may be full; 90 cycles, enough to answer everything |
| `o3_core` | registers conserved, data flow as in program order, precise committed state, operations counted once, MSHRs match requests, everything retires | every program of 4 instructions of 5 kinds, 4 physical for 2 architectural registers, ROB of 3, two MSHRs, a cache of one line, responses within 3 cycles in any order: renaming waits for registers, misses merge and evict one another |

The bounds of `flow_path`: decisions reach at most `InCapacity` cycles ahead and
slots are reused after `Latency` cycles, so eight cycles cover every slot several
times and let a stall build up, last, and drain.  In `coherence` requesters and
transactions are alike, and the run uses the symmetry of both.  Its state
constraint `RacesOfTwo` prunes only states after a conflict, of which
`OnlyRacesBreakWriter` and `OnlyRacesBreakDirectory` say nothing; `TypeOK` is
checked there for two transactions and proved for any.  Four transactions are
what the second kind of conflict needs to show.  The proofs below do without
bounds.

Deadlock is checked in every run.  In `TxnManager` nodes tick for ever (`Idle`),
so a transaction that is never resumed shows as a violation of `Terminates`; in
the other modules an action at the end of a run (`Stop`, `Stopped`) has the
guard that everything is over.

**Fairness.**  Each goroutine is weakly fair: the Go scheduler runs a runnable
goroutine eventually, and a goroutine blocked on a channel is woken by a token.
No single step has fairness of its own.  In `FlowPath` the caller of the
simulation (`AdvanceTo`) is fair too: liveness is about a simulation that is
continued.  In `TxnManager` each goroutine and each node is weakly fair: nodes
are ticked in every cycle, and a wait that is never answered runs into its
timeout, which every wait in `dataflow/chi` has.  In `DRAMChannel` and `O3Core`
the node's worker ticks in every cycle, and the environment of the core answers
within `MaxDelay` cycles.  In `RingRouter` every router is weakly fair for a tick
in which its links do not refuse (`Arrives`): a worker that frees its packets
declares ready again, and what is on a link arrives.

## Proofs

`ComponentSyncProofs` proves for all values of the constants that satisfy
`ConstantsAssumption`:

* `TypeCorrect`: `TypeOK` is invariant;
* `DoneWakeup`: `NoLostDoneWakeup`, by the invariant `DoneInv`: while `WaitDone`
  may sleep its target and its flag are published, and `SetDone` between its
  store and its notification has `done` at its own cycle.  The argument is the
  one of the code's comments: flag, then re-read, against store, then flag;
* `ReadyWakeup` and `NeverPanics`: `NoLostReadyWakeup` and `NoPanic`, by
  `ReadyInv`: the same publication argument, that `readyUntil` and `readyStates`
  together are exactly the decisions made, and that decisions come in order.
  Neither property is inductive without the link between the pruned slice and
  the history of decisions;
* `AnswersAreDecisions`: if an upstream side does not ask again after a refusal
  (`RetryRefused = FALSE`), every answer is the decision.  `AnswerInv` adds that
  a refused cycle below `readyUntil` was answered to the upstream side.  The
  assumption is needed, see the limits.

`AheadPortProofs` proves for all values that satisfy `PortAssumption`:

* `ReceivesAll`: `ReceiveComplete`, by the invariant `PortInv`: of a collected
  cycle, which is closed, no packet is left in the channel, and of any other
  cycle the cache holds exactly what has left the channel.  The step that matters
  is `Collect`: the cycle was closed before the final drain found the channel
  empty.  `PortInv` also says where the two goroutines are (`Places`), because
  `ReceiveComplete` alone does not exclude a push into a collected cycle.
* `TypeCorrect`: `TypeOK`, and with it the capacity of the channel.

`DRAMProofs` proves for every size, timing and workload (`DRAMAssumption`) that
the conjunction of `TypeOK`, `AnsweredOnce`, `ScheduledInBank` and
`OneModeAtATime` is inductive (`ChannelInvariant`).  Each part of `operate` has a lemma
that it keeps what holds of the channel alone (`ChannelInv`), `TickPreserves`
composes them in the order of the code, and `CycleInv` adds what relates the
channel to the requests accepted and answered.  The properties are not inductive
one by one: that a finished request is in no queue any more (`AnsweredOnce`)
needs that the bank on the bus holds a scheduled request (`ScheduledInBank`).

`CoherenceProofs` proves of the specification as it is, for any nodes and
transactions and every interleaving, that `TypeOK` is invariant (`TypeCorrect`,
after a conflict too), and `OnlyRacesBreakWriter` and `OnlyRacesBreakDirectory`
(`WritersAlone`, `DirectoryComplete`).  The latter two follow from `raced \/ Inv`,
which is inductive together with `TypeOK` and `Waits` (a transaction that waits
has a response to wait for).  `SingleWriter` and `DirectoryKnows` say nothing of a
transaction in the middle of its calls; `Inv` adds

* `Alone` and `Messages`: while an exclusive transaction holds what it has read, no
  other does, although any number may have asked; its messages are under way
  only while it waits for them, and then no others are;
* `NoneElsewhere`: while it waits, every copy elsewhere has its snoop still
  before it, and it waits at least as often as there are messages, so after
  its last wait there are no copies and no messages.  A response that comes
  before its wait only leaves it waiting too long, never too short;
* `NoneWhileShared`: from the moment an owner has answered, or the home node has
  found no modified copy, until the reader has its copy, nobody writes;
* `Control`: what a transaction has seen is still true when it uses it: a sharer
  it has seen is still one, because reads only add sharers.

The three refinements are proved as far as they are safety: every step is a step
of the abstract specification or leaves its variables alone.

* `DRAMProofs`, `ImplementsService`: what `operate` completes in a cycle was
  accepted and not answered before, so a tick is a step of `MemoryService`.  It
  rests on `ChannelInvariant`.
* `AheadPortProofs`, `ImplementsMailboxSafely`: under the mapping, a compartment
  is the cache of the cycle and what the channel still holds for it, so a drain
  is a stutter and only `Collect` takes the packets.  It rests on `PortInv`.
* `ComponentSyncProofs`, `ImplementsHandshakeSafely`: every atomic step of
  `SetDone` and `UpdateReady` that is not the publication itself is a stutter, and
  a question is answered with the decision.  It rests on `ReadyInv` and, for the
  answers, on `AnswerInv`, and therefore on `RetryRefused = FALSE`.

`DRAMProofs` also proves, for all timing constants:

* `BusTurnsAround`: `BusTurnaround`, by `BusInv`: a burst ends at a tick and not
  between two, and a mode switch that comes during a burst of the other kind has
  reserved the bus for the turn-around (`BusReserved`); so the bus rests also
  when it is idle between the two (`BusRestsAfter`);
* `LikeRequestsInOrder`: `OvertakenWhenRescheduled`, by `OrderInv`: requests are as
  old as their numbers say unless a switch has reset their age
  (`StampedInOrder`), so of two for one row the later is not scheduled while
  the earlier waits (`OldestFirst`).

`TxnProofs` proves for all programs that satisfy `TxnAssumption`:

* `TypeCorrect`: `TypeOK`, and that no channel holds more than its size;
* `OneManager`: `ManagedOnce`, by `PlaceInv`.  `Placed` says where a transaction is
  at each point of a migration: registered on the node of its context, or
  departed with one request in the network, or arrived with one result in
  `resumeCh`; and what is still in `yieldCh` was yielded where it is managed.
  That is inductive only with `InOrder`: a migration or a completion is the last
  command in the channel, because the goroutine waits for the one and ends
  with the other.

`FlowProofs` proves about `FlowPath`, for both kinds of link, all sizes,
latencies, workloads and schedules unless a hypothesis is named:

* `TypeCorrect`: `TypeOK`, and with it the capacities of both queues and of a slot;
* `StrandedRefused`: `StrandedOnlyWhenRefused`, by `StrandInv`: a packet that stays in
  a slot has the stamp of a cycle in which the sink refused (`SlotsStale`), and
  beyond the link's cycle the second port is empty;
* `BufferedNeverFails`: with a buffered link, `NoFault`, if `BandwidthsFit`: a slot
  fits in what the input queue takes in a cycle, and that in the queue.  The
  code enforces neither (see the limits), and without them `RemainReadyCycle`
  does not count what the link sends.  By `PromiseInv`: decisions are made
  without gaps up to a frontier (`SinkDecides`), only the next cycle is refused
  (`RefusesNext`), each granted cycle has room for a burst of its own
  (`GrantsFit`), and what waits in the port is no more than that (`MailFits`);
* `PendingIsBounded`: `PendingBounded`, if the source is not wider than the link
  (`OutBandwidth <= Bandwidth`), by `PendingSafe`: only the slot of the cycle holds
  packets (`OneSlot`), and what waits, what is in that slot, and a burst for each
  cycle that the link has granted and not yet received stay below one sum
  (`Reckoning`).  A bound on the pending list alone is not inductive: at a full
  slot it grows by what was granted a latency ago;
* `PacketsConserved`: `Conserved`, by `ConserveInv`: the lists of all places
  (`Lists`) hold each accepted packet in one place of one list (`Apart`).  A tick
  of the link moves packets between four of them at once, and a packet of a slot
  leaves by its stamp, so the proof needs `StrandInv`: a stale stamp puts the
  packet under its old cycle and nowhere else.

`FlowProofs` also proves `RunsDeterministic`: for both kinds of link, all sizes,
latencies, workloads and schedules, `Deterministic`, if `RoomForAll`: in the
lock-step execution no burst finds the output queue full.  Without that the
claim is false (see the limits); every workload of the run `flow_path`
satisfies it.  The invariant `LockInv` says of each component, at its own cycle,
how it stands to the execution `Sync`:

* the source accepts packets in the order of their numbers, so each queue is a
  run of them (`Run`, `Numbered`), and a queue ticked ahead holds an end of the run it
  holds in lock step (`SourceInLine`): it accepts what the execution accepts,
  and a tick for a later cycle sends a full burst in either (`SendsInLine`);
* what waits in the ports is what the execution sends (`FirstMail`, `SecondMail`), and
  a decision that has been made is the execution's (`FirstDecisions`, `SinkInLine`);
* an answer that the link gets may be older than its cycle.  A grant stays one,
  and a refusal is only of the sink's next cycle (`Decides`, `RefusesNext`), so
  there is none that the execution has lifted by then (`AnswerInLine`);
* a packet that a slot held back goes under its old stamp to a cycle the sink has
  passed, so it changes nothing the sink receives (`StampsInLine`, by `StrandInv`).

After a fault the invariant keeps only what has arrived (`ArrivedInLine`).

`StampedFor`, `Sync` and the like are recursive functions; what is needed of them
is proved with the least number for which it fails (`LeastNumber`), which needs
no induction theorem.

`O3Proofs` proves the six invariants of `O3Core` for every program, every size and
latency (`SizesAssumption`, `ProgramsAssumption`: any number of loads and stores
in an instruction too) and every order in which the memory answers:
`CoreTypes`, `CoreConservesRegisters`, `CoreDataFlow`, `CorePreciseState`,
`CoreTracksRequests`, `CoreCountsOps`.  The first four rest on one inductive
invariant, `IInv`:

* `Types`, `Sizes`, `Lengths`: the types, the bounds of the queues, and that an
  operand list keeps its length while it is overwritten;
* `Order`: the fetch queue, the decode queue and the ROB are one run of the
  program, so an instruction is in the ROB exactly if its number is between
  `Gone` and `Newest`; everything below is stated with these two numbers;
* `Progress`, `Scan`: instructions are renamed in program order although the
  scheduler skips those that are not ready yet.  That needs that dispatch
  stamps `ready` in order, and that of what the scan has passed in this cycle
  nothing may still be renamed;
* `Place`: where the loops over operands and ROB stand, `Operands`: which operands
  are still architectural numbers.  The code overwrites them in place, so that
  an operand is read as what it is rests on the loop index;
* `Enough`: the test before an instruction is renamed leaves, at every turn of the
  two loops, a free register for each operand still to come.  Of the sources
  only those that are unmapped now count, and a turn of the loop may map a later one;
* `Ownership`: a physical register is in the free list, in the committed map or
  the result of an instruction in flight, once and in one of them.  Between
  two turns of the retirement loop an instruction owns the rest of its results;
* `Contents`: the register file says of an owned register whose it is, and it is
  valid when its instruction has completed;
* `Latest`, `Sources`: the front map names the newest renamed result, the committed
  map the newest committed one, and a renamed source the newest result before
  its instruction.  The interesting step is the retirement of the
  last writer while a reader is in flight: the source then is the committed
  register, and that one is freed only by a later writer, which retires after
  the reader.

`CoreTracksRequests` needs `MSHRInv`: the MSHRs, the requests to be sent and those in
the network are in one-to-one correspondence by block.  `CoreCountsOps` needs `OpsInv`:
of an instruction in the ROB the answered entries are counted, those that wait are
what is left of its operations, and an instruction not yet dispatched has no entry.
A retired instruction may leave one behind (see the limits), so nothing is said of it.

`DataFlow` and the others speak of `CHOOSE`, `Min` and removal from sequences; lemmas at the
start of the module say once what the operators of the model return.

`RingProofs` (`RingRouter`, for any number of routers, capacities, bandwidth and
workload, and links that refuse or not) proves `RingTypes` and
`PacketsInOnePlace`.  `RingInv` splits what `Conserved` counts into parts that a
tick keeps one by one: `Types` and `Sizes`; `InLine`, what waits at a router is the
last packets its worker sent, in order; `Apart`, the sets of packets that wait, that
are on the ring, that were ejected and that were dropped are disjoint, and no
list repeats one; `Whole`, together they are the packets accepted; `AtTarget`.  A
tick touches seven lists, but as lists of places (`Waiting`, `Ring`, `Ejections`)
it does little (`TickMoves`): it cuts what it receives from the previous router's
part of the ring, sorts it, and appends; the sends of the outputs do not change a
place.  Then the lists are replaced by their sets (`TickSets`), and the rest is
about sets (`SetsKept`).  `InLine` is needed for more than the order: it says that
what waits and what is new are all different, so that the batch repeats nothing.

Only model-checked are all liveness properties and the liveness halves of the
refinements, which are out of the prover's reach, and `NoFault` for bufferless
links.

## Findings

1. `handler_buffered.go:104`: packets delayed by backpressure keep their old
   cycle and are lost (`flow_path_stranded`).
2. `manager.go:104`: a transaction that returns takes its unsent messages with it
   (`txn_lost_send`).
3. `transactions_continuous.go:145`: two transactions of one line interleave
   between their calls to the directory, although the documentation promises that
   access to it is serialised (`coherence_race`).  `coherence` shows that it takes such
   a conflict.
4. `bufferless_ring_router.go:165`: a batch that does not fit is lost, although
   the router says it drops nothing (`ring_drops`).

### Limits of what the passing runs show

The passing runs hold within bounds that the code does not enforce, and leave
out cases that are known to behave differently.

The network:

* `ComponentSync` with `RetryRefused = TRUE`: `checkStatesAndPrune` deletes the
  refusal it returns (`sync.go:171`), so a second question about a refused cycle
  is answered yes.  Nodes ask once; the bufferless link does not stop at a
  refusal (`handler_bufferless.go:57`), so of a refused cycle it keeps only the
  first packet and sends the others.  In `FlowPath` bufferless links therefore
  lead to a sink that always has room.
* `AheadPort` with `MaxPerCycle` above `Capacity`: the sender blocks in the
  channel send (`port.go:130`) before it can mark its cycle done, the receiver
  waits for the mark, and `Terminates` fails.  The code's capacity is 64.
* `FlowPath` with `OutCapacity` smaller than the bursts need: the tick-ahead
  (`node.go:545`) frees room early, so whether an injection succeeds depends on
  how `AdvanceTo` divides the run, and `Deterministic` fails.  With a link wider
  than `InBandwidth` the readiness rule (`input_queue.go:160`), which is about the
  queue's bandwidth, lets the queue overflow.
* `FlowPath` with a source wider than the link: if the downstream is always
  ready, the slot that `CheckSpace` looks at (`handler_buffered.go:127`) is always
  empty, so the link is always ready and the pending list grows without bound.
* `RingRouter` with the links of `NewBufferlessRing`, which never refuse: an
  output is then never full when `Process` looks, so buffer and loop-around
  belong to rings of other links.  The code rounds the buffer's capacity up to a
  power of two.
* `RingRouter` does not tick outputs ahead of the router's cycle, as
  `tickOutputQueues` may (`node.go:520`).  When an output sends is open in any case;
  what is left out is that it frees room for a batch before its time.

Transactions and coherence:

* `TxnManager` with several waits for one type (two sharers of a `ReadUnique`):
  an answer that arrives before its wait was taken is dropped (`manager.go:164`),
  and the wait can only time out.  Answers resume by type and not by transaction
  (`manager.go:239`), so one response ends the wait of every transaction of its
  kind.
* Only the origin deregisters a transaction that fails (`manager.go:104`); one
  that fails after it has migrated stays in `migratedTxns`.
* A ReadUnique or WriteUnique waits for `SnpResp` only
  (`transactions_continuous.go:315`, whose comment says "or OpcodeSnpRespData"), so
  if the owner has the line Exclusive or Modified it times out, after the owner
  has dropped its copy and its data.  ReadShared does not snoop an Exclusive
  holder, so an Exclusive and a Shared copy coexist.  Data are not modelled:
  memory is not written by any of these flows.
* `Coherence` sends the snoops of a transaction in one step and has room for all of
  them.  In the code each is a command in `yieldCh`, which holds ten, and a
  transaction may fail after it has sent some (`manager.go:68`).

Components:

* `DRAMChannel` takes one request in a cycle.  `DRAMNodeHandler.Process` takes all
  its input queue offers; both builders give it a queue and a link of bandwidth 1
  (`system_builder.go:276`, `:417` and `:542`, `:565`).
* `DRAMChannel` with `WQSize` of 1 or 0: the high water mark is 0, the mode
  toggles in every cycle and reads are never served (`operate.go:139`).  A full
  queue makes `Process` fail and ends the node's worker (`dram_node.go:120`), which
  answers nothing any more; `MemoryService` allows that.  The
  error of `InjectPackets` is ignored (as in `cpu_node.go:144`), and the models
  give the outputs enough room.
* `O3Core`: an instruction with two loads leaves an entry of the load queue
  behind (`RemoveLoad` removes one; `o3_cpu.go:762`), so the instance has one at
  most.  Dispatch tests for one free entry of a queue and enters every operand
  (`o3_cpu.go:421`): an entry for which there is no room is dropped, and its
  instruction then never completes; with one operand of a kind none is.  Renamed operands are counted again as architectural ones
  (`o3_cpu.go:498`), which needs more free registers than the instruction and
  stalls if there are few.  A load completes at the time the cache promised, even
  if its response is not there yet, and responses never match stores.  Nothing
  calls `CheckMemoryOrdering` and forwarding, so a load may overtake an older
  store of its address, against the comment at `lsq.go:12`.  The flush is
  unreachable and the decoded-instruction buffer is never consulted.  The numbers of
  physical registers pass through `uint8` (`o3_cpu.go:498`, `:535`, `:542`), which
  would cut them with more than 256 registers; the model has no width, and no
  property depends on it.

## Not modelled

* Nodes with inputs and outputs on a cycle of the network, worker start and
  stop, errors of a worker.
* `HandleMESIRequest`, `RemoveSharer` and `SetOwner` of the directory, which the
  CHI flows do not call; evictions of coherent lines; DMT; the older handlers in
  `transactions.go`.
* Trace readers; the coherence tree, analyzer and router.
* Builders, configuration, conversion, controller and server, statistics,
  monitors, tracing, export and visualization, bench harnesses: no state that
  behaves over time.

## Plan

1. `Network`: several nodes with inputs and outputs, tick-ahead deadlock,
   worker errors.
2. `HandleMESIRequest` of the directory and the trace readers, as modules of
   their own.
