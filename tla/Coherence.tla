----------------------------- MODULE Coherence -----------------------------
(***************************************************************************)
(* One cache line under the CHI transactions of internal/dataflow/chi:     *)
(* the directory of its home node, the caches of the requesters, and the   *)
(* ReadShared, ReadUnique and WriteUnique transactions that migrate to the *)
(* home node and back (transactions_continuous.go), with the snoop         *)
(* handlers (snoop_handlers_continuous.go, without DMT).                   *)
(*                                                                         *)
(* A transaction is a goroutine: it reads and writes cache and directory   *)
(* directly, one locked call at a time, and each call is a step here.  The *)
(* manager of the home node (TxnManager) hands a snoop response to every   *)
(* transaction that waits for its type, and to none if none waits.         *)
(***************************************************************************)
EXTENDS Integers, FiniteSets, SequencesExt

CONSTANTS
    Nodes,        \* the requesters
    Txns,
    Workloads     \* what each transaction is: [Txns -> [op, node]]

States == {"Invalid", "Shared", "Exclusive", "Modified"}
Ops == {"ReadShared", "ReadUnique", "WriteUnique"}

ASSUME CoherenceAssumption ==
    /\ IsFiniteSet(Nodes)
    /\ Workloads \subseteq [Txns -> [op : Ops, node : Nodes]]

VARIABLES
    request,    \* the workload
    cache,      \* state of the line in each cache
    dir,        \* its directory entry: state and sharers, in the order added
    txn,        \* of each transaction: the next call (pc), the sharers it
                \* has read and the responses it still waits for
    net,        \* snoops and their responses on their way
    raced       \* history, read by nothing: did accesses to the line conflict?

vars == <<request, cache, dir, txn, net, raced>>

op(t)   == request[t].op
node(t) == request[t].node
At(t, pc) == txn[t].pc = pc

Goto(t, pc) == txn' = [txn EXCEPT ![t].pc = pc]

Init ==
    /\ request \in Workloads
    /\ cache = [n \in Nodes |-> "Invalid"]
    /\ dir = [state |-> "NotPresent", sharers |-> <<>>]
    /\ txn = [t \in Txns |-> [pc |-> "start", seen |-> <<>>, todo |-> 0]]
    /\ net = {}
    /\ raced = FALSE

-----------------------------------------------------------------------------
(* FullyAssociativeDirectory.                                              *)

SetState(d, s) == [d EXCEPT !.state = s]

\* Fault: a node is added again although it is a sharer.
AddSharerTwice(d, n) ==
    [sharers |-> Append(d.sharers, n),
     state   |-> IF d.sharers = <<>> THEN "Exclusive" ELSE "Shared"]

\* Fault: the list keeps one sharer.
AddSharerAlone(d, n) ==
    IF Contains(d.sharers, n) THEN d
    ELSE [sharers |-> <<n>>, state |-> "Exclusive"]

\* The number of sharers decides the state, except for a node that is one.
AddSharer(d, n) ==
    IF Contains(d.sharers, n) THEN d
    ELSE [sharers |-> Append(d.sharers, n),
          state   |-> IF d.sharers = <<>> THEN "Exclusive" ELSE "Shared"]

ClearSharers(d) == [state |-> "NotPresent", sharers |-> <<>>]

-----------------------------------------------------------------------------
(* On the requester: the fast path, or the request and the migration.      *)

Hits(t) ==
    CASE op(t) = "ReadShared"  -> cache[node(t)] # "Invalid"
      [] op(t) = "ReadUnique"  -> cache[node(t)] \in {"Exclusive", "Modified"}
      [] op(t) = "WriteUnique" -> cache[node(t)] = "Modified"

Start(t) ==
    /\ At(t, "start")
    /\ Goto(t, IF ~Hits(t) THEN "home"
               ELSE IF op(t) = "WriteUnique" THEN "writeHit" ELSE "done")
    /\ UNCHANGED <<request, cache, dir, net>>

\* Cache.SetData makes a line that is not valid Modified.
SetData(n) == IF cache[n] = "Invalid" THEN "Modified" ELSE cache[n]

WriteHit(t) ==
    /\ At(t, "writeHit")
    /\ cache' = [cache EXCEPT ![node(t)] = SetData(node(t))]
    /\ Goto(t, "done")
    /\ UNCHANGED <<request, dir, net>>

-----------------------------------------------------------------------------
(* On the home node.                                                       *)

Snoop(t, type, n) == [type |-> type, txn |-> t, node |-> n]

\* ReadShared asks the directory, and snoops if the line is dirty.
ReadState(t) ==
    /\ At(t, "home") /\ op(t) = "ReadShared"
    /\ Goto(t, IF dir.state = "Modified" THEN "snoop" ELSE "share")
    /\ UNCHANGED <<request, cache, dir, net>>

\* The first sharer is the owner.
SnoopOwner(t) ==
    /\ At(t, "snoop")
    /\ IF dir.sharers = <<>>
       THEN Goto(t, "failed") /\ net' = net
       ELSE /\ txn' = [txn EXCEPT ![t] =
                  [pc |-> "wait", seen |-> dir.sharers, todo |-> 1]]
            /\ net' = net \cup {Snoop(t, "SnpSharedFwd", dir.sharers[1])}
    /\ UNCHANGED <<request, cache, dir>>

\* ReadUnique and WriteUnique snoop every sharer but the requester, and wait
\* as often; no node is listed twice.
SnoopSharers(t) ==
    LET others == ToSet(dir.sharers) \ {node(t)}
    IN  /\ At(t, "home") /\ op(t) # "ReadShared"
        /\ txn' = [txn EXCEPT ![t] =
               [pc   |-> IF others = {} THEN "clear" ELSE "wait",
                seen |-> dir.sharers,
                todo |-> Cardinality(others)]]
        /\ net' = net \cup {Snoop(t, "SnpUniqueFwd", n) : n \in others}
        /\ UNCHANGED <<request, cache, dir>>

\* The Yield, registered by the manager; what arrives before is not seen.
Wait(t) ==
    /\ At(t, "wait")
    /\ Goto(t, "waiting")
    /\ UNCHANGED <<request, cache, dir, net>>

Awaits(t) == IF op(t) = "ReadShared" THEN "SnpRespData" ELSE "SnpResp"

\* A response ends one wait, of every transaction that waits for its type.
Response(m) ==
    /\ m.type \in {"SnpResp", "SnpRespData"}
    /\ net' = net \ {m}
    /\ txn' = [t \in Txns |->
           IF At(t, "waiting") /\ Awaits(t) = m.type
           THEN [txn[t] EXCEPT !.todo = @ - 1,
                    !.pc = IF txn[t].todo > 1 THEN "wait"
                           ELSE IF op(t) = "ReadShared" THEN "share" ELSE "clear"]
           ELSE txn[t]]
    /\ UNCHANGED <<request, cache, dir>>

\* A tenth of a second, long after the last message of the transaction.
Timeout(t) ==
    /\ At(t, "waiting")
    /\ \A m \in net : m.txn # t
    /\ Goto(t, "failed")
    /\ UNCHANGED <<request, cache, dir, net>>

Share(t) ==
    /\ At(t, "share")
    /\ dir' = SetState(dir, "Shared")
    /\ Goto(t, IF Contains(txn[t].seen, node(t)) THEN "fill" ELSE "add")
    /\ UNCHANGED <<request, cache, net>>

Clear(t) ==
    /\ At(t, "clear")
    /\ dir' = ClearSharers(dir)
    /\ Goto(t, "add")
    /\ UNCHANGED <<request, cache, net>>

Add(t) ==
    /\ At(t, "add")
    /\ dir' = AddSharer(dir, node(t))
    /\ Goto(t, IF op(t) = "ReadShared" THEN "fill" ELSE "own")
    /\ UNCHANGED <<request, cache, net>>

\* What the requester gets, in its cache and in the directory.
Granted(t) == CASE op(t) = "ReadShared"  -> "Shared"
                [] op(t) = "ReadUnique"  -> "Exclusive"
                [] op(t) = "WriteUnique" -> "Modified"

Own(t) ==
    /\ At(t, "own")
    /\ dir' = SetState(dir, Granted(t))
    /\ Goto(t, "fill")
    /\ UNCHANGED <<request, cache, net>>

-----------------------------------------------------------------------------
(* Back on the requester: Cache.SetData, then Cache.SetState.              *)

Fill(t) ==
    /\ At(t, "fill")
    /\ cache' = [cache EXCEPT ![node(t)] = SetData(node(t))]
    /\ Goto(t, "filled")
    /\ UNCHANGED <<request, dir, net>>

Filled(t) ==
    /\ At(t, "filled")
    /\ cache' = [cache EXCEPT ![node(t)] = Granted(t)]
    /\ Goto(t, "done")
    /\ UNCHANGED <<request, dir, net>>

-----------------------------------------------------------------------------
(* The snoop handlers, on the snooped node.                                *)

\* Fault: a shared copy survives the invalidating snoop.
SnoopedKeepsShared(type, s) ==
    IF type = "SnpSharedFwd" /\ s # "Invalid" THEN "Shared"
    ELSE IF s = "Shared" THEN "Shared" ELSE "Invalid"

\* The state a snoop leaves behind.
Snooped(type, s) ==
    IF type = "SnpSharedFwd" /\ s # "Invalid" THEN "Shared" ELSE "Invalid"

\* A dirty or exclusive copy is sent to the home node.
HandleSnoop(m) ==
    /\ m.type \in {"SnpSharedFwd", "SnpUniqueFwd"}
    /\ cache' = [cache EXCEPT ![m.node] = Snooped(m.type, @)]
    /\ net' = (net \ {m}) \cup
           {[m EXCEPT !.type = IF cache[m.node] \in {"Exclusive", "Modified"}
                               THEN "SnpRespData" ELSE "SnpResp"]}
    /\ UNCHANGED <<request, dir, txn>>

-----------------------------------------------------------------------------
Transaction(t) ==
    \/ Start(t) \/ WriteHit(t)
    \/ ReadState(t) \/ SnoopOwner(t) \/ SnoopSharers(t) \/ Wait(t) \/ Timeout(t)
    \/ Share(t) \/ Clear(t) \/ Add(t) \/ Own(t)
    \/ Fill(t) \/ Filled(t)

Deliver == \E m \in net : HandleSnoop(m) \/ Response(m)

\* What a transaction has read at the home node it uses until its line is filled.
Holding(t) ==
    txn[t].pc \in {"snoop", "wait", "waiting", "share", "clear", "add", "own", "fill", "filled"}

\* The next call of t conflicts with another transaction: it reads the
\* directory while one holds what it has read, and one of the two is exclusive;
\* or it is exclusive and snoops of a read are still on their way, whose
\* responses look like those of its own.  Or it writes to a line that was taken
\* away since its fast path has found it.
Conflicts(t) ==
    \/ /\ At(t, "home")
       /\ \/ \E u \in Txns \ {t} :
               Holding(u) /\ ~(op(t) = "ReadShared" /\ op(u) = "ReadShared")
          \/ op(t) # "ReadShared" /\ net # {}
    \/ At(t, "writeHit") /\ cache[node(t)] = "Invalid"

Stop ==
    /\ \A t \in Txns : txn[t].pc \in {"done", "failed"}
    /\ net = {}
    /\ UNCHANGED vars

Next ==
    \/ \E t \in Txns : Transaction(t) /\ raced' = (raced \/ Conflicts(t))
    \/ Deliver /\ UNCHANGED raced
    \/ Stop

Spec == Init /\ [][Next]_vars

-----------------------------------------------------------------------------
(* Properties.                                                             *)

PCs == {"start", "writeHit", "home", "snoop", "wait", "waiting", "share", "clear",
        "add", "own", "fill", "filled", "done", "failed"}

MessageTypes == {"SnpSharedFwd", "SnpUniqueFwd", "SnpResp", "SnpRespData"}

\* Every variable keeps its type, and the directory lists no node twice.
TypeOK ==
    /\ request \in Workloads
    /\ cache \in [Nodes -> States]
    /\ dir \in [state : States \cup {"NotPresent"}, sharers : Seq(Nodes)]
    /\ IsInjective(dir.sharers)
    /\ txn \in [Txns -> [pc : PCs, seen : Seq(Nodes), todo : Nat]]
    /\ net \subseteq [type : MessageTypes, txn : Txns, node : Nodes]
    /\ raced \in BOOLEAN

\* Between SetData and SetState a line may look Modified for a moment.
Filling(n) == \E t \in Txns : node(t) = n /\ At(t, "filled")

\* The line is modified, and not just being filled.
Writer(n) == cache[n] = "Modified" /\ ~Filling(n)

\* A modified copy is the only one.
SingleWriter ==
    \A n \in Nodes : Writer(n) => \A o \in Nodes \ {n} : cache[o] = "Invalid"

\* An exclusive transaction of n makes its entry anew.
Upgrading(n) ==
    \E t \in Txns : node(t) = n /\ op(t) # "ReadShared" /\ txn[t].pc \in {"add", "own", "fill"}

\* The home node knows every copy: its holder is a sharer, or about to be added;
\* and of a modified copy the directory says so, unless its holder is upgraded.
DirectoryKnows ==
    \A n \in Nodes :
        /\ cache[n] # "Invalid" =>
             Contains(dir.sharers, n) \/ \E t \in Txns : node(t) = n /\ At(t, "add")
        /\ Writer(n) => dir.state = "Modified" \/ Upgrading(n)

\* Nothing but a conflict of accesses brings two writers about.  Requests that
\* wait side by side for the home node, requests of one node, overlapping reads,
\* hits, snoops that cross fills, unseen responses and timeouts do not.
OnlyRacesBreakWriter == raced \/ SingleWriter

\* Nor does anything else leave a copy behind that the directory does not list,
\* or a modified one that the next request would not snoop.
OnlyRacesBreakDirectory == raced \/ DirectoryKnows
=============================================================================
