--------------------------- MODULE CoherenceProofs ---------------------------
(***************************************************************************)
(* Whatever the transactions do, the directory lists no node twice; and    *)
(* for any number of nodes and transactions only a conflict of accesses    *)
(* breaks SingleWriter and DirectoryKnows.                                 *)
(***************************************************************************)
EXTENDS Coherence, FiniteSetTheorems, TLAPS

Excl(t) == op(t) # "ReadShared"

In(t, pcs) == txn[t].pc \in pcs

Reading(t, pcs)   == ~Excl(t) /\ In(t, pcs)
Exclusive(t, pcs) == Excl(t) /\ In(t, pcs)

Sharer(n) == n \in ToSet(dir.sharers)

\* Nobody holds a modified copy.
NoWriter == \A n \in Nodes : ~Writer(n)

\* A transaction that waits has a response to wait for.
Waits == \A t \in Txns : In(t, {"wait", "waiting"}) => txn[t].todo >= 1

\* While an exclusive transaction is at work on what it has read, no other is.
Alone ==
    \A t, u \in Txns : Excl(t) /\ Holding(t) /\ Holding(u) => t = u

\* Messages of an exclusive transaction are under way while it waits for them,
\* and then only these are.
Messages ==
    /\ IsFiniteSet(net)
    /\ \A m \in net :
         /\ m.type = "SnpSharedFwd" => ~Excl(m.txn)
         /\ m.type = "SnpUniqueFwd" => Excl(m.txn)
         /\ Excl(m.txn) => In(m.txn, {"wait", "waiting"})
         /\ \A t \in Txns : Excl(t) /\ Holding(t) => m.txn = t

\* Where a transaction is says what it has seen and asked for.
Control(t) ==
    /\ In(t, {"start", "home"}) => txn[t].seen = <<>>
    /\ In(t, {"snoop", "share"}) => ~Excl(t)
    /\ In(t, {"clear", "own", "writeHit"}) => Excl(t)
    /\ Reading(t, {"snoop", "wait", "waiting", "share"}) =>
         \A n \in ToSet(txn[t].seen) : Sharer(n)
    /\ In(t, {"own", "fill", "filled"}) => Sharer(node(t))
    /\ op(t) = "WriteUnique" /\ In(t, {"fill", "filled"}) => dir.state = "Modified"

\* Once the home node answers a read, or an owner has sent its data, nobody
\* holds a modified copy.
NoneWhileShared ==
    /\ \A t \in Txns : Reading(t, {"share", "add", "fill", "filled"}) => NoWriter
    /\ \A m \in net : m.type = "SnpRespData" /\ ~Excl(m.txn) => NoWriter

\* While an exclusive transaction waits, a copy elsewhere still has its snoop
\* before it, and the waits left are as many as the messages; then there is
\* none of either.
NoneElsewhere(t) ==
    /\ Exclusive(t, {"wait", "waiting"}) =>
         /\ txn[t].todo >= Cardinality(net)
         /\ \A n \in Nodes \ {node(t)} :
              cache[n] # "Invalid" => Snoop(t, "SnpUniqueFwd", n) \in net
    /\ Exclusive(t, {"clear", "add", "own", "fill", "filled"}) =>
         net = {} /\ \A n \in Nodes \ {node(t)} : cache[n] = "Invalid"

Inv ==
    /\ Alone /\ Messages /\ NoneWhileShared
    /\ \A t \in Txns : Control(t) /\ NoneElsewhere(t)
    /\ SingleWriter /\ DirectoryKnows

-----------------------------------------------------------------------------
(* The parts of the state that a step of a transaction leaves alone.       *)

\* A transaction that goes on to another call.
LEMMA GotoType ==
    ASSUME TypeOK, NEW t \in Txns, NEW pc \in PCs, Goto(t, pc)
    PROVE  /\ txn' \in [Txns -> [pc : PCs, seen : Seq(Nodes), todo : Nat]]
           /\ txn'[t].pc = pc /\ txn'[t].seen = txn[t].seen /\ txn'[t].todo = txn[t].todo
           /\ \A u \in Txns \ {t} : txn'[u] = txn[u]
BY DEF TypeOK, Goto

\* A workload names the nodes and operations of its transactions.
LEMMA RequestType ==
    ASSUME TypeOK
    PROVE  \A t \in Txns : op(t) \in Ops /\ node(t) \in Nodes
BY CoherenceAssumption DEF TypeOK, op, node

-----------------------------------------------------------------------------
(* The types.                                                              *)

\* What the directory's operations do to the list of sharers.
LEMMA ContainsIsMember ==
    ASSUME NEW s, NEW n, s \in Seq(Nodes)
    PROVE  Contains(s, n) <=> n \in ToSet(s)
BY DEF Contains, ToSet

LEMMA AddSharerType ==
    ASSUME NEW d \in [state : States \cup {"NotPresent"}, sharers : Seq(Nodes)],
           IsInjective(d.sharers), NEW n \in Nodes
    PROVE  LET e == AddSharer(d, n)
           IN  /\ e \in [state : States \cup {"NotPresent"}, sharers : Seq(Nodes)]
               /\ IsInjective(e.sharers)
               /\ n \in ToSet(e.sharers)
               /\ \A o \in ToSet(d.sharers) : o \in ToSet(e.sharers)
<1>1. CASE Contains(d.sharers, n)
  BY <1>1, ContainsIsMember DEF AddSharer
<1>2. CASE ~Contains(d.sharers, n)
  <2>1. AddSharer(d, n).sharers = Append(d.sharers, n)
    BY <1>2 DEF AddSharer
  <2>2. AddSharer(d, n) \in [state : States \cup {"NotPresent"}, sharers : Seq(Nodes)]
    BY <1>2 DEF AddSharer, States
  <2>3. \A i \in 1..Len(d.sharers) : d.sharers[i] # n
    BY <1>2 DEF Contains
  <2>4. IsInjective(Append(d.sharers, n))
    BY <2>3 DEF IsInjective
  <2>5. n \in ToSet(Append(d.sharers, n))
    <3>1. /\ Len(d.sharers) + 1 \in DOMAIN Append(d.sharers, n)
          /\ Append(d.sharers, n)[Len(d.sharers) + 1] = n
      OBVIOUS
    <3> QED
      BY <3>1 DEF ToSet
  <2>6. \A o \in ToSet(d.sharers) : o \in ToSet(Append(d.sharers, n))
    BY DEF ToSet
  <2> QED
    BY <2>1, <2>2, <2>4, <2>5, <2>6
<1> QED
  BY <1>1, <1>2

\* A call that writes no message keeps the types, if what it writes has its type.
LEMMA TypeGoto ==
    ASSUME TypeOK, Waits, NEW t \in Txns, NEW pc \in PCs, Goto(t, pc),
           pc \in {"wait", "waiting"} => In(t, {"wait"}),
           UNCHANGED <<request, net>>, raced' \in BOOLEAN,
           cache' \in [Nodes -> States],
           dir' \in [state : States \cup {"NotPresent"}, sharers : Seq(Nodes)],
           IsInjective(dir'.sharers)
    PROVE  TypeOK' /\ Waits'
<1>1. /\ txn' \in [Txns -> [pc : PCs, seen : Seq(Nodes), todo : Nat]]
      /\ txn'[t].pc = pc /\ txn'[t].todo = txn[t].todo
      /\ \A u \in Txns \ {t} : txn'[u] = txn[u]
  BY GotoType
<1>2. TypeOK'
  BY <1>1 DEF TypeOK
<1>3. Waits'
  BY <1>1 DEF Waits, In
<1> QED
  BY <1>2, <1>3

\* A transaction that snoops, and waits for that many responses.
LEMMA TypeSnoop ==
    ASSUME TypeOK, Waits, NEW t \in Txns, NEW pc \in PCs, NEW todo \in Nat,
           txn' = [txn EXCEPT ![t] = [pc |-> pc, seen |-> dir.sharers, todo |-> todo]],
           pc \in {"wait", "waiting"} => todo >= 1,
           NEW snoops, snoops \subseteq [type : MessageTypes, txn : Txns, node : Nodes],
           net' = net \cup snoops,
           UNCHANGED <<request, cache, dir>>, raced' \in BOOLEAN
    PROVE  TypeOK' /\ Waits'
<1>1. /\ txn' \in [Txns -> [pc : PCs, seen : Seq(Nodes), todo : Nat]]
      /\ txn'[t].pc = pc /\ txn'[t].todo = todo
      /\ \A u \in Txns \ {t} : txn'[u] = txn[u]
  BY DEF TypeOK
<1>2. TypeOK'
  BY <1>1 DEF TypeOK
<1>3. Waits'
  BY <1>1 DEF Waits, In
<1> QED
  BY <1>2, <1>3

\* The types hold at the start.
LEMMA TypeInit == Init => TypeOK /\ Waits
<1> SUFFICES ASSUME Init PROVE TypeOK /\ Waits
  OBVIOUS
<1> USE DEF Init
<1>1. TypeOK
  <2>1. /\ cache \in [Nodes -> States] /\ IsInjective(dir.sharers)
        /\ dir \in [state : States \cup {"NotPresent"}, sharers : Seq(Nodes)]
        /\ txn \in [Txns -> [pc : PCs, seen : Seq(Nodes), todo : Nat]]
    BY DEF States, PCs, IsInjective
  <2>2. raced \in BOOLEAN
    OBVIOUS
  <2> QED
    BY <2>1, <2>2 DEF TypeOK
<1>2. Waits
  BY DEF Waits, In
<1> QED
  BY <1>1, <1>2

\* The calls of a transaction keep the types, whoever else runs.
LEMMA TypeTransaction ==
    ASSUME TypeOK, Waits, NEW t \in Txns, Transaction(t), raced' \in BOOLEAN
    PROVE  TypeOK' /\ Waits'
<1>1. /\ cache \in [Nodes -> States]
      /\ dir \in [state : States \cup {"NotPresent"}, sharers : Seq(Nodes)]
      /\ IsInjective(dir.sharers)
      /\ op(t) \in Ops /\ node(t) \in Nodes
  BY RequestType DEF TypeOK
<1>2. Granted(t) \in States /\ SetData(node(t)) \in States
  BY <1>1 DEF Granted, SetData, States, Ops
<1>3. CASE Start(t)
  <2> DEFINE pc == IF ~Hits(t) THEN "home"
                   ELSE IF op(t) = "WriteUnique" THEN "writeHit" ELSE "done"
  <2>1. Goto(t, pc) /\ UNCHANGED <<request, cache, dir, net>>
    BY <1>3 DEF Start
  <2>2. pc \in PCs /\ pc \notin {"wait", "waiting"}
    BY DEF PCs
  <2> HIDE DEF pc
  <2> QED
    BY <1>1, <2>1, <2>2, TypeGoto
<1>4. CASE ReadState(t)
  <2> DEFINE pc == IF dir.state = "Modified" THEN "snoop" ELSE "share"
  <2>1. Goto(t, pc) /\ UNCHANGED <<request, cache, dir, net>>
    BY <1>4 DEF ReadState
  <2>2. pc \in PCs /\ pc \notin {"wait", "waiting"}
    BY DEF PCs
  <2> HIDE DEF pc
  <2> QED
    BY <1>1, <2>1, <2>2, TypeGoto
<1>5. CASE Wait(t) \/ Timeout(t)
  <2>1. /\ \/ Goto(t, "waiting") /\ In(t, {"wait"})
           \/ Goto(t, "failed")
        /\ UNCHANGED <<request, cache, dir, net>>
    BY <1>5 DEF Wait, Timeout, At, In
  <2>2. {"waiting", "failed"} \subseteq PCs
    BY DEF PCs
  <2> QED
    BY <1>1, <2>1, <2>2, TypeGoto
<1>6. CASE WriteHit(t) \/ Fill(t) \/ Filled(t)
  <2>1. PICK pc \in {"done", "filled"} : Goto(t, pc)
    BY <1>6 DEF WriteHit, Fill, Filled
  <2>2. /\ cache' \in [Nodes -> States] /\ UNCHANGED <<request, dir, net>>
    BY <1>1, <1>2, <1>6 DEF WriteHit, Fill, Filled
  <2>3. pc \in PCs /\ pc \notin {"wait", "waiting"}
    BY DEF PCs
  <2> QED
    BY <1>1, <2>1, <2>2, <2>3, TypeGoto
<1>7. CASE Share(t) \/ Clear(t) \/ Add(t) \/ Own(t)
  <2>1. PICK pc \in {"fill", "add", "own"} : Goto(t, pc)
    BY <1>7 DEF Share, Clear, Add, Own
  <2>2. UNCHANGED <<request, cache, net>>
    BY <1>7 DEF Share, Clear, Add, Own
  <2>3. /\ dir' \in [state : States \cup {"NotPresent"}, sharers : Seq(Nodes)]
        /\ IsInjective(dir'.sharers)
    <3>1. CASE Share(t) \/ Own(t)
      BY <1>1, <1>2, <3>1 DEF Share, Own, SetState, States
    <3>2. CASE Clear(t)
      <4>1. dir' = [state |-> "NotPresent", sharers |-> <<>>]
        BY <3>2 DEF Clear, ClearSharers
      <4>2. IsInjective(dir'.sharers)
        BY <4>1 DEF IsInjective
      <4> QED
        BY <4>1, <4>2
    <3>3. CASE Add(t)
      BY <1>1, <3>3, AddSharerType DEF Add
    <3> QED
      BY <1>7, <3>1, <3>2, <3>3
  <2>4. pc \in PCs /\ pc \notin {"wait", "waiting"}
    BY DEF PCs
  <2> QED
    BY <1>1, <2>1, <2>2, <2>3, <2>4, TypeGoto
<1>8. CASE SnoopOwner(t)
  <2>1. CASE dir.sharers = <<>>
    <3>1. Goto(t, "failed") /\ UNCHANGED <<request, cache, dir, net>> /\ "failed" \in PCs
      BY <1>8, <2>1 DEF SnoopOwner, PCs
    <3> QED
      BY <1>1, <3>1, TypeGoto
  <2>2. CASE dir.sharers # <<>>
    <3> DEFINE snoops == {Snoop(t, "SnpSharedFwd", dir.sharers[1])}
    <3>1. /\ txn' = [txn EXCEPT ![t] = [pc |-> "wait", seen |-> dir.sharers, todo |-> 1]]
          /\ net' = net \cup snoops /\ UNCHANGED <<request, cache, dir>>
      BY <1>8, <2>2 DEF SnoopOwner
    <3>2. snoops \subseteq [type : MessageTypes, txn : Txns, node : Nodes]
      BY <1>1, <2>2 DEF Snoop, MessageTypes
    <3>3. "wait" \in PCs /\ 1 \in Nat /\ 1 >= 1
      BY DEF PCs
    <3> HIDE DEF snoops
    <3> QED
      BY <3>1, <3>2, <3>3, TypeSnoop
  <2> QED
    BY <2>1, <2>2
<1>9. CASE SnoopSharers(t)
  <2> DEFINE others == ToSet(dir.sharers) \ {node(t)}
             pc == IF others = {} THEN "clear" ELSE "wait"
             snoops == {Snoop(t, "SnpUniqueFwd", n) : n \in others}
  <2>1. /\ txn' = [txn EXCEPT ![t] =
               [pc |-> pc, seen |-> dir.sharers, todo |-> Cardinality(others)]]
        /\ net' = net \cup snoops /\ UNCHANGED <<request, cache, dir>>
    BY <1>9 DEF SnoopSharers
  <2>2. others \subseteq Nodes
    BY <1>1 DEF ToSet
  <2>3. IsFiniteSet(others) /\ Cardinality(others) \in Nat
    BY <2>2, CoherenceAssumption, FS_Subset, FS_CardinalityType
  <2>4. pc \in PCs /\ (pc \in {"wait", "waiting"} => Cardinality(others) >= 1)
    BY <2>3, FS_EmptySet DEF PCs
  <2>5. snoops \subseteq [type : MessageTypes, txn : Txns, node : Nodes]
    BY <2>2 DEF Snoop, MessageTypes
  <2> HIDE DEF others, pc, snoops
  <2> QED
    BY <2>1, <2>3, <2>4, <2>5, TypeSnoop
<1> QED
  BY <1>3, <1>4, <1>5, <1>6, <1>7, <1>8, <1>9 DEF Transaction

\* A response that ends the wait of a transaction leaves its list of sharers, and
\* one wait less.
LEMMA ResponseType ==
    ASSUME TypeOK, Waits, NEW m \in net, Response(m)
    PROVE  /\ txn' \in [Txns -> [pc : PCs, seen : Seq(Nodes), todo : Nat]]
           /\ \A t \in Txns :
                IF In(t, {"waiting"}) /\ Awaits(t) = m.type
                THEN /\ txn'[t].pc = IF txn[t].todo > 1 THEN "wait"
                                     ELSE IF op(t) = "ReadShared" THEN "share" ELSE "clear"
                     /\ txn'[t].seen = txn[t].seen /\ txn'[t].todo = txn[t].todo - 1
                ELSE txn'[t] = txn[t]
<1> DEFINE Ends(t) == In(t, {"waiting"}) /\ Awaits(t) = m.type
           after(t) == IF txn[t].todo > 1 THEN "wait"
                       ELSE IF op(t) = "ReadShared" THEN "share" ELSE "clear"
           next(t) == IF Ends(t) THEN [txn[t] EXCEPT !.todo = txn[t].todo - 1, !.pc = after(t)]
                                 ELSE txn[t]
<1>1. \A t \in Txns : Ends(t) => txn[t].todo - 1 \in Nat
  BY DEF TypeOK, Waits, In
<1>2. txn' = [t \in Txns |-> next(t)]
  BY DEF Response, At, In
<1>3. \A t \in Txns : txn[t] \in [pc : PCs, seen : Seq(Nodes), todo : Nat]
  BY DEF TypeOK
<1>4. \A t \in Txns : after(t) \in PCs
  BY DEF PCs
<1>5. \A t \in Txns :
        IF Ends(t) THEN /\ txn'[t].pc = after(t) /\ txn'[t].seen = txn[t].seen
                        /\ txn'[t].todo = txn[t].todo - 1
                   ELSE txn'[t] = txn[t]
  <2> HIDE DEF after, Ends
  <2> QED
    BY <1>2, <1>3
<1>6. txn' \in [Txns -> [pc : PCs, seen : Seq(Nodes), todo : Nat]]
  <2> SUFFICES ASSUME NEW t \in Txns
               PROVE  next(t) \in [pc : PCs, seen : Seq(Nodes), todo : Nat]
    BY <1>2
  <2> HIDE DEF after, Ends
  <2> QED
    BY <1>1, <1>3, <1>4
<1> QED
  BY <1>5, <1>6

\* Deliveries keep the types.
LEMMA TypeDeliver ==
    ASSUME TypeOK, Waits, NEW m \in net, HandleSnoop(m) \/ Response(m), raced' = raced
    PROVE  TypeOK' /\ Waits'
<1>1. m \in [type : MessageTypes, txn : Txns, node : Nodes] /\ cache \in [Nodes -> States]
  BY DEF TypeOK
<1>2. CASE HandleSnoop(m)
  <2> DEFINE r == [m EXCEPT !.type = IF cache[m.node] \in {"Exclusive", "Modified"}
                                     THEN "SnpRespData" ELSE "SnpResp"]
             s == Snooped(m.type, cache[m.node])
  <2>1. /\ cache' = [cache EXCEPT ![m.node] = s]
        /\ net' = (net \ {m}) \cup {r} /\ UNCHANGED <<request, dir, txn>>
    BY <1>1, <1>2 DEF HandleSnoop
  <2>2. s \in States
    BY DEF Snooped, States
  <2>3. r \in [type : MessageTypes, txn : Txns, node : Nodes]
    BY <1>1 DEF MessageTypes
  <2> HIDE DEF r, s
  <2>4. TypeOK'
    BY <1>1, <2>1, <2>2, <2>3 DEF TypeOK
  <2>5. Waits'
    BY <2>1 DEF Waits, In
  <2> QED
    BY <2>4, <2>5
<1>3. CASE Response(m)
  <2>1. net' = net \ {m} /\ UNCHANGED <<request, cache, dir>>
    BY <1>3 DEF Response
  <2>2. TypeOK'
    BY <1>3, <2>1, ResponseType DEF TypeOK
  <2>3. ASSUME NEW t \in Txns, In(t, {"wait", "waiting"})'
        PROVE  txn'[t].todo >= 1
    <3>1. CASE In(t, {"waiting"}) /\ Awaits(t) = m.type
      <4>1. /\ txn'[t].pc = IF txn[t].todo > 1 THEN "wait"
                            ELSE IF op(t) = "ReadShared" THEN "share" ELSE "clear"
            /\ txn'[t].todo = txn[t].todo - 1
        BY <1>3, <3>1, ResponseType
      <4>2. txn[t].todo > 1
        BY <2>3, <4>1 DEF In
      <4>3. txn[t].todo \in Nat
        BY DEF TypeOK
      <4> QED
        BY <4>1, <4>2, <4>3
    <3>2. CASE ~(In(t, {"waiting"}) /\ Awaits(t) = m.type)
      <4>1. txn'[t] = txn[t]
        BY <1>3, <3>2, ResponseType
      <4> QED
        BY <2>3, <4>1 DEF Waits, In
    <3> QED
      BY <3>1, <3>2
  <2> QED
    BY <2>2, <2>3 DEF Waits
<1> QED
  BY <1>2, <1>3

\* Every step keeps the types.
LEMMA TypeNext ==
    ASSUME TypeOK, Waits, [Next]_vars
    PROVE  TypeOK' /\ Waits'
<1>1. ASSUME NEW t \in Txns, Transaction(t), raced' = (raced \/ Conflicts(t))
      PROVE  TypeOK' /\ Waits'
  <2>1. raced' \in BOOLEAN
    BY <1>1
  <2> QED
    BY <1>1, <2>1, TypeTransaction
<1>2. ASSUME NEW m \in net, HandleSnoop(m) \/ Response(m), UNCHANGED raced
      PROVE  TypeOK' /\ Waits'
  BY <1>2, TypeDeliver
<1>3. CASE UNCHANGED vars
  BY <1>3 DEF vars, TypeOK, Waits, In
<1> QED
  BY <1>1, <1>2, <1>3 DEF Next, Deliver, Stop

-----------------------------------------------------------------------------
(* The steps of a transaction that only write the directory, or nothing.   *)

\* No copy, no sharer, no message and no transaction under way.
LEMMA InvInit == Init => Inv
<1> SUFFICES ASSUME Init PROVE Inv
  OBVIOUS
<1> USE DEF Init
<1>1. Alone
  BY DEF Alone, Holding
<1>2. Messages
  BY FS_EmptySet DEF Messages
<1>3. \A t \in Txns : Control(t)
  BY DEF Control, In, Reading
<1>4. NoneWhileShared
  BY DEF NoneWhileShared, Reading, In
<1>5. \A t \in Txns : NoneElsewhere(t)
  BY DEF NoneElsewhere, Exclusive, In
<1>6. SingleWriter /\ DirectoryKnows
  BY DEF SingleWriter, DirectoryKnows, Writer
<1> QED
  BY <1>1, <1>2, <1>3, <1>4, <1>5, <1>6 DEF Inv

\* A call that leaves caches and messages alone keeps the invariant if it leaves
\* its own transaction, and what the directory says of the others, in order.
LEMMA InvMove ==
    ASSUME TypeOK, Inv, NEW t \in Txns, ~In(t, {"filled"}),
           NEW pc \in PCs \ {"filled"}, Goto(t, pc),
           UNCHANGED <<request, cache, net>>,
           Alone', Messages', \A u \in Txns : Control(u)',
           NoneElsewhere(t)', DirectoryKnows',
           Reading(t, {"share", "add", "fill"})' => NoWriter
    PROVE  Inv'
<1>1. /\ txn'[t].pc = pc
      /\ \A u \in Txns \ {t} : txn'[u] = txn[u]
  BY GotoType
<1>2. \A n : Filling(n)' <=> Filling(n)
  BY <1>1 DEF Filling, At, node, In
<1>3. NoneWhileShared'
  <2>1. NoWriter' <=> NoWriter
    BY <1>2 DEF NoWriter, Writer
  <2>2. ASSUME NEW u \in Txns, Reading(u, {"share", "add", "fill", "filled"})'
        PROVE  NoWriter
    <3>1. CASE u = t
      BY <1>1, <2>2, <3>1 DEF Reading, In
    <3>2. CASE u # t
      BY <1>1, <2>2, <3>2 DEF Inv, NoneWhileShared, Reading, In, Excl, op
    <3> QED
      BY <3>1, <3>2
  <2> QED
    BY <2>1, <2>2 DEF Inv, NoneWhileShared, Excl, op
<1>4. ASSUME NEW u \in Txns PROVE NoneElsewhere(u)'
  <2>1. CASE u # t
    BY <1>1, <2>1 DEF Inv, NoneElsewhere, In, Exclusive, Excl, op, node, Snoop
  <2> QED
    BY <2>1
<1>5. SingleWriter'
  BY <1>2 DEF Inv, SingleWriter, Writer
<1> QED
  BY <1>3, <1>4, <1>5 DEF Inv

\* A call keeps the transactions apart, if it does not begin with a reading of
\* the directory and does not give up on messages.
LEMMA StillAlone ==
    ASSUME TypeOK, Inv, NEW t \in Txns, NEW pc \in PCs, Goto(t, pc),
           UNCHANGED <<request, net>>, Holding(t)' => Holding(t),
           In(t, {"wait", "waiting"}) => pc = "waiting" \/ \A m \in net : m.txn # t
    PROVE  Alone' /\ Messages'
<1>1. /\ txn'[t].pc = pc
      /\ \A u \in Txns \ {t} : txn'[u] = txn[u]
  BY GotoType
<1>2. \A u \in Txns : Holding(u)' => Holding(u)
  BY <1>1 DEF Holding
<1>3. Alone'
  BY <1>2 DEF Inv, Alone, Excl, op
<1>4. ASSUME NEW m \in net, Excl(m.txn) PROVE In(m.txn, {"wait", "waiting"})'
  <2>1. In(m.txn, {"wait", "waiting"}) /\ m.txn \in Txns
    BY <1>4 DEF Inv, Messages, TypeOK
  <2> QED
    BY <1>1, <2>1 DEF In
<1>5. Messages'
  BY <1>2, <1>4 DEF Inv, Messages, Excl, op
<1> QED
  BY <1>3, <1>5

\* A transaction starts: its fast path looks into the cache of its requester.
LEMMA InvStart ==
    ASSUME TypeOK, Inv, NEW t \in Txns, Start(t)
    PROVE  Inv'
<1> DEFINE pc == IF ~Hits(t) THEN "home"
                 ELSE IF op(t) = "WriteUnique" THEN "writeHit" ELSE "done"
<1>1. In(t, {"start"}) /\ Goto(t, pc) /\ UNCHANGED <<request, cache, dir, net>>
  BY DEF Start, At, In
<1>2. /\ pc \in PCs \ {"filled"} /\ pc \in {"home", "writeHit", "done"}
      /\ pc = "writeHit" => Excl(t)
  BY DEF PCs, Excl
<1> HIDE DEF pc
<1>3. /\ txn'[t].pc = pc /\ txn'[t].seen = txn[t].seen
      /\ \A u \in Txns \ {t} : txn'[u] = txn[u]
  BY <1>1, <1>2, GotoType
<1>4. \A n : Filling(n)' <=> Filling(n)
  BY <1>1, <1>2, <1>3 DEF Filling, At, node, In
<1>5. Alone' /\ Messages'
  <2>1. ~Holding(t)' /\ ~In(t, {"wait", "waiting"})
    BY <1>1, <1>2, <1>3 DEF Holding, In
  <2> QED
    BY <1>1, <1>2, <2>1, StillAlone
<1>6. ASSUME NEW u \in Txns PROVE Control(u)'
  <2>1. CASE u = t
    BY <1>1, <1>2, <1>3, <2>1 DEF Inv, Control, In, Reading, Excl, op
  <2>2. CASE u # t
    BY <1>1, <1>3, <2>2 DEF Inv, Control, In, Reading, Excl, op, node, Sharer
  <2> QED
    BY <2>1, <2>2
<1>7. NoneElsewhere(t)' /\ ~Reading(t, {"share", "add", "fill"})'
  BY <1>2, <1>3 DEF NoneElsewhere, In, Exclusive, Reading
<1>8. DirectoryKnows'
  BY <1>1, <1>2, <1>3, <1>4 DEF Inv, DirectoryKnows, At, node, op, In, Writer, Upgrading
<1>9. ~In(t, {"filled"}) /\ UNCHANGED <<request, cache, net>>
  BY <1>1 DEF In
<1> QED
  BY <1>1, <1>2, <1>5, <1>6, <1>7, <1>8, <1>9, InvMove

\* The home node of a read asks for the state: no sharer writes unless it is Modified.
LEMMA InvReadState ==
    ASSUME TypeOK, Inv, NEW t \in Txns, ReadState(t), ~Conflicts(t)
    PROVE  Inv'
<1> DEFINE pc == IF dir.state = "Modified" THEN "snoop" ELSE "share"
<1>1. /\ txn[t].pc = "home" /\ ~Excl(t) /\ Goto(t, pc)
      /\ UNCHANGED <<request, cache, dir, net>>
  BY DEF ReadState, At, Excl
<1>2. pc \in PCs \ {"filled"} /\ pc \in {"snoop", "share"}
  BY DEF PCs
<1>3. \A u \in Txns : Excl(u) => ~Holding(u)
  BY <1>1 DEF Conflicts, Excl, At
<1>4. pc = "share" => NoWriter
  BY <1>3 DEF Inv, DirectoryKnows, NoWriter, Upgrading, Holding, Excl
<1> HIDE DEF pc
<1>5. /\ txn'[t].pc = pc /\ txn'[t].seen = txn[t].seen
      /\ \A u \in Txns \ {t} : txn'[u] = txn[u]
  BY <1>1, <1>2, GotoType
<1>6. \A n : Filling(n)' <=> Filling(n)
  BY <1>1, <1>2, <1>5 DEF Filling, At, node
<1>7. \A u \in Txns : (Excl(u) => ~Holding(u))'
  BY <1>1, <1>3, <1>5 DEF Holding, Excl, op
<1>8. Alone' /\ Messages'
  <2>1. \A m \in net : ~Excl(m.txn)
    BY <1>3 DEF Inv, Messages, In, Holding, TypeOK
  <2> QED
    BY <1>1, <1>7, <2>1 DEF Inv, Alone, Messages, Excl, op
<1>9. ASSUME NEW u \in Txns PROVE Control(u)'
  <2>1. CASE u = t
    BY <1>1, <1>2, <1>5, <2>1 DEF Inv, Control, In, Reading, Excl, op, ToSet
  <2>2. CASE u # t
    BY <1>1, <1>5, <2>2 DEF Inv, Control, In, Reading, Excl, op, node, Sharer
  <2> QED
    BY <2>1, <2>2
<1>10. NoneElsewhere(t)'
  BY <1>1, <1>2, <1>5 DEF NoneElsewhere, In, Exclusive, Excl, op
<1>11. DirectoryKnows'
  BY <1>1, <1>2, <1>5, <1>6 DEF Inv, DirectoryKnows, At, node, op, Writer, Upgrading
<1>12. ~In(t, {"filled"}) /\ UNCHANGED <<request, cache, net>>
  BY <1>1 DEF In
<1>13. Reading(t, {"share", "add", "fill"})' => NoWriter
  BY <1>2, <1>4, <1>5 DEF Reading, In
<1> QED
  BY <1>1, <1>2, <1>8, <1>9, <1>10, <1>11, <1>12, <1>13, InvMove

\* Registering a wait, a timeout and a failure change nothing but the transaction.
LEMMA InvWait ==
    ASSUME TypeOK, Inv, NEW t \in Txns, NEW pc \in {"waiting", "failed", "done"},
           In(t, {"snoop", "wait", "waiting", "writeHit"}), Goto(t, pc),
           pc = "waiting" => In(t, {"wait"}),
           In(t, {"wait", "waiting"}) => pc = "waiting" \/ \A m \in net : m.txn # t,
           UNCHANGED <<request, cache, dir, net>>
    PROVE  Inv'
<1>1. pc \in PCs \ {"filled"}
  BY DEF PCs
<1>2. /\ txn'[t].pc = pc /\ txn'[t].seen = txn[t].seen /\ txn'[t].todo = txn[t].todo
      /\ \A u \in Txns \ {t} : txn'[u] = txn[u]
  BY <1>1, GotoType
<1>3. \A n : Filling(n)' <=> Filling(n)
  BY <1>2 DEF Filling, At, node, In
<1>4. Alone' /\ Messages'
  <2>1. Holding(t)' => Holding(t)
    BY <1>2 DEF Holding, In
  <2> QED
    BY <1>1, <2>1, StillAlone
<1>5. ASSUME NEW u \in Txns PROVE Control(u)'
  <2>1. CASE u = t
    BY <1>2, <2>1 DEF Inv, Control, In, Reading, Excl, op, Sharer
  <2>2. CASE u # t
    BY <1>2, <2>2 DEF Inv, Control, In, Reading, Excl, op, node, Sharer
  <2> QED
    BY <2>1, <2>2
<1>6. NoneElsewhere(t)'
  BY <1>2 DEF Inv, NoneElsewhere, In, Exclusive, Excl, op, node, Snoop
<1>7. DirectoryKnows'
  BY <1>2, <1>3 DEF Inv, DirectoryKnows, At, node, op, In, Writer, Upgrading
<1>8. ~In(t, {"filled"})
  BY DEF In
<1>9. Reading(t, {"share", "add", "fill"})' => NoWriter
  BY <1>2 DEF Reading, In
<1> QED
  BY <1>1, <1>4, <1>5, <1>6, <1>7, <1>8, <1>9, InvMove

\* An exclusive transaction on its way leaves only transactions that wait
\* for their turn or have ended.
LEMMA OthersIdle ==
    ASSUME TypeOK, Inv, NEW t \in Txns, Excl(t), Holding(t), NEW u \in Txns, u # t
    PROVE  ~Holding(u)
BY DEF Inv, Alone

\* SetState, ClearSharers and AddSharer of the home node keep every copy listed:
\* when the list is cleared, nobody but the requester has one.
LEMMA InvDirectory ==
    ASSUME TypeOK, Inv, NEW t \in Txns, Share(t) \/ Clear(t) \/ Add(t) \/ Own(t)
    PROVE  Inv'
<1> DEFINE pc == IF At(t, "share")
                 THEN IF Contains(txn[t].seen, node(t)) THEN "fill" ELSE "add"
                 ELSE IF At(t, "clear") THEN "add"
                 ELSE IF At(t, "add") /\ op(t) # "ReadShared" THEN "own" ELSE "fill"
           d == IF At(t, "share") THEN SetState(dir, "Shared")
                ELSE IF At(t, "clear") THEN ClearSharers(dir)
                ELSE IF At(t, "add") THEN AddSharer(dir, node(t))
                ELSE SetState(dir, Granted(t))
<1>1. /\ In(t, {"share", "clear", "add", "own"}) /\ Goto(t, pc) /\ dir' = d
      /\ UNCHANGED <<request, cache, net>>
  BY DEF Share, Clear, Add, Own, At, In
<1>2. pc \in PCs \ {"filled"} /\ pc \in {"fill", "add", "own"}
  BY DEF PCs
<1>3. /\ pc = "own" => Excl(t) /\ In(t, {"add"})
      /\ pc = "fill" => In(t, {"share", "own"}) \/ (In(t, {"add"}) /\ ~Excl(t))
      /\ pc = "add" => In(t, {"share", "clear"})
      /\ pc = "fill" /\ In(t, {"share"}) => Contains(txn[t].seen, node(t))
  BY <1>1 DEF At, In, Excl
<1>4. /\ In(t, {"share"}) => d = SetState(dir, "Shared")
      /\ In(t, {"clear"}) => d = ClearSharers(dir)
      /\ In(t, {"add"})   => d = AddSharer(dir, node(t))
      /\ In(t, {"own"})   => d = SetState(dir, Granted(t))
  BY DEF At, In
<1> HIDE DEF pc, d
<1>5. /\ txn'[t].pc = pc /\ txn'[t].seen = txn[t].seen
      /\ \A u \in Txns \ {t} : txn'[u] = txn[u]
  BY <1>1, <1>2, GotoType
<1>6. \A n : Filling(n)' <=> Filling(n)
  BY <1>1, <1>2, <1>5 DEF Filling, At, node, In
<1>7. Holding(t) /\ ~In(t, {"filled"})
  BY <1>1 DEF Holding, In
<1>8. /\ In(t, {"clear", "own"}) => Excl(t)
      /\ In(t, {"share"}) => ~Excl(t)
  BY DEF Inv, Control, In
<1>9. dir \in [state : States \cup {"NotPresent"}, sharers : Seq(Nodes)]
      /\ IsInjective(dir.sharers)
  BY DEF TypeOK
<1>10. /\ d \in [state : States \cup {"NotPresent"}, sharers : Seq(Nodes)]
       /\ IsInjective(d.sharers)
  <2>1. Granted(t) \in States
    BY RequestType DEF Granted, States, Ops
  <2>2. CASE In(t, {"share", "own"})
    BY <1>4, <1>9, <2>1, <2>2 DEF In, SetState, States
  <2>3. CASE In(t, {"clear"})
    <3>1. d = [state |-> "NotPresent", sharers |-> <<>>]
      BY <1>4, <2>3 DEF ClearSharers
    <3>2. IsInjective(d.sharers)
      BY <3>1 DEF IsInjective
    <3> QED
      BY <3>1, <3>2
  <2>4. CASE In(t, {"add"})
    BY <1>4, <1>9, <2>4, AddSharerType, RequestType
  <2> QED
    BY <1>1, <2>2, <2>3, <2>4 DEF In
<1>11. /\ ~In(t, {"clear"}) => \A n \in ToSet(dir.sharers) : n \in ToSet(d.sharers)
       /\ In(t, {"add"}) => node(t) \in ToSet(d.sharers)
  <2>1. CASE In(t, {"share", "own"})
    BY <1>4, <1>9, <2>1 DEF In, SetState
  <2>2. CASE In(t, {"add"})
    BY <1>4, <1>9, <2>2, AddSharerType, RequestType DEF In
  <2> QED
    BY <1>1, <2>1, <2>2 DEF In
<1>12. ASSUME NEW u \in Txns PROVE Control(u)'
  <2>1. CASE u = t
    <3>1. In(t, {"share"}) /\ pc = "fill" => Sharer(node(t))
      BY <1>3, <1>8, ContainsIsMember DEF Inv, Control, In, Reading, TypeOK
    <3>2. In(t, {"own"}) => Sharer(node(t))
      BY DEF Inv, Control, In
    <3>3. pc \in {"own", "fill"} => node(t) \in ToSet(d.sharers)
      BY <1>1, <1>3, <1>11, <3>1, <3>2 DEF In, Sharer
    <3>4. op(t) = "WriteUnique" /\ pc = "fill" => d.state = "Modified"
      <4>1. op(t) = "WriteUnique" => Excl(t) /\ Granted(t) = "Modified"
        BY DEF Excl, Granted
      <4>2. Excl(t) /\ pc = "fill" => In(t, {"own"})
        BY <1>3, <1>8 DEF In
      <4>3. In(t, {"own"}) => d.state = Granted(t)
        BY <1>4, <1>9 DEF SetState
      <4> QED
        BY <4>1, <4>2, <4>3
    <3> QED
      BY <1>1, <1>2, <1>3, <1>5, <2>1, <3>3, <3>4
      DEF Control, In, Reading, Excl, op, node, Sharer
  <2>2. CASE u # t /\ Excl(t)
    BY <1>1, <1>5, <1>7, <2>2, OthersIdle
    DEF Inv, Control, In, Reading, Excl, op, Holding
  <2>3. CASE u # t /\ ~Excl(t)
    <3>1. Excl(u) => ~Holding(u)
      BY <1>7, <2>3, OthersIdle
    <3>2. op(u) = "WriteUnique" => Excl(u)
      BY DEF Excl
    <3>3. \A n : Sharer(n) => Sharer(n)'
      <4>1. \A n \in ToSet(dir.sharers) : n \in ToSet(d.sharers)
        BY <1>1, <1>8, <1>11, <2>3 DEF In
      <4> QED
        BY <1>1, <4>1 DEF Sharer
    <3>4. op(u) = "WriteUnique" => ~In(u, {"fill", "filled"})'
      BY <1>5, <2>3, <3>1, <3>2 DEF Holding, In
    <3> HIDE DEF Sharer
    <3> QED
      BY <1>1, <1>5, <2>3, <3>3, <3>4 DEF Inv, Control, In, Reading, Excl, op, node
  <2> QED
    BY <2>1, <2>2, <2>3
<1>13. NoneElsewhere(t)'
  <2>1. Excl(t) => In(t, {"clear", "add", "own"})
    BY <1>1, <1>8 DEF In
  <2>2. Excl(t) => net = {} /\ \A n \in Nodes \ {node(t)} : cache[n] = "Invalid"
    BY <2>1 DEF Inv, NoneElsewhere, Exclusive, In
  <2> QED
    BY <1>1, <1>2, <1>5, <2>2 DEF NoneElsewhere, In, Exclusive, Excl, op, node
<1>14. IF Excl(t) THEN \A n \in Nodes \ {node(t)} : cache[n] = "Invalid" ELSE NoWriter
  <2>1. CASE Excl(t)
    BY <1>1, <1>8, <2>1 DEF Inv, NoneElsewhere, Exclusive, In
  <2>2. CASE ~Excl(t)
    BY <1>1, <1>8, <2>2 DEF Inv, NoneWhileShared, Reading, In
  <2> QED
    BY <2>1, <2>2
<1>15. DirectoryKnows'
  <2>1. ASSUME NEW n \in Nodes, cache[n] # "Invalid"
        PROVE  n \in ToSet(d.sharers) \/ \E u \in Txns : (node(u) = n /\ At(u, "add"))'
    <3>1. CASE In(t, {"clear"})
      <4>1. n = node(t)
        BY <1>8, <1>14, <2>1, <3>1 DEF In
      <4>2. pc = "add"
        BY <1>3, <1>2, <3>1 DEF In
      <4> QED
        BY <1>1, <1>5, <4>1, <4>2 DEF At, node
    <3>2. CASE ~In(t, {"clear"})
      <4>1. n \in ToSet(dir.sharers) \/ \E u \in Txns : node(u) = n /\ At(u, "add")
        BY <1>9, <2>1, ContainsIsMember DEF Inv, DirectoryKnows
      <4>2. n \in ToSet(dir.sharers) => n \in ToSet(d.sharers)
        BY <1>11, <3>2
      <4>3. ASSUME NEW u \in Txns, node(u) = n, At(u, "add")
            PROVE  n \in ToSet(d.sharers) \/ (node(u) = n /\ At(u, "add"))'
        <5>1. CASE u = t
          BY <1>11, <4>3, <5>1 DEF At, In
        <5>2. CASE u # t
          BY <1>1, <1>5, <4>3, <5>2 DEF At, node
        <5> QED
          BY <5>1, <5>2
      <4> QED
        BY <4>1, <4>2, <4>3
    <3> QED
      BY <3>1, <3>2
  <2>2. ASSUME NEW n \in Nodes, Writer(n)
        PROVE  Upgrading(n)'
    <3>1. Excl(t) /\ n = node(t)
      BY <1>14, <2>2 DEF NoWriter, Writer
    <3> QED
      BY <1>1, <1>2, <1>5, <3>1 DEF Upgrading, Excl, op, node
  <2>3. \A n \in Nodes : Writer(n)' <=> Writer(n)
    BY <1>1, <1>6 DEF Writer
  <2> QED
    BY <1>1, <1>10, <2>1, <2>2, <2>3, ContainsIsMember DEF DirectoryKnows
<1>16. Reading(t, {"share", "add", "fill"})' => NoWriter
  BY <1>1, <1>14 DEF Reading, Excl, op
<1>17. Alone' /\ Messages'
  BY <1>1, <1>2, <1>7, StillAlone DEF In
<1> QED
  BY <1>1, <1>2, <1>7, <1>12, <1>13, <1>15, <1>16, <1>17, InvMove

\* A hit writes a line that is valid, which keeps its state.
LEMMA InvWriteHit ==
    ASSUME TypeOK, Inv, NEW t \in Txns, WriteHit(t), ~Conflicts(t)
    PROVE  Inv'
<1>1. In(t, {"writeHit"}) /\ Goto(t, "done") /\ UNCHANGED <<request, dir, net>>
  BY DEF WriteHit, At, In
<1>2. cache[node(t)] # "Invalid"
  BY DEF Conflicts, WriteHit
<1>3. UNCHANGED cache
  BY <1>2, RequestType DEF TypeOK, WriteHit, SetData
<1> QED
  BY <1>1, <1>3, InvWait DEF In

-----------------------------------------------------------------------------
(* The steps of a transaction that write the cache of its requester.       *)

\* The requester stores the data: the line looks Modified until SetState.
LEMMA InvFill ==
    ASSUME TypeOK, Inv, NEW t \in Txns, Fill(t)
    PROVE  Inv'
<1>1. /\ In(t, {"fill"}) /\ Goto(t, "filled") /\ UNCHANGED <<request, dir, net>>
      /\ cache' = [cache EXCEPT ![node(t)] = SetData(node(t))]
  BY DEF Fill, At, In
<1>2. "filled" \in PCs
  BY DEF PCs
<1>3. /\ txn' \in [Txns -> [pc : PCs, seen : Seq(Nodes), todo : Nat]]
      /\ txn'[t].pc = "filled" /\ txn'[t].seen = txn[t].seen
      /\ \A u \in Txns \ {t} : txn'[u] = txn[u]
  BY <1>1, <1>2, GotoType
<1>4. cache \in [Nodes -> States] /\ node(t) \in Nodes
  BY RequestType DEF TypeOK
<1>5. SetData(node(t)) \in States
  BY <1>4 DEF SetData, States
<1>6. /\ cache' \in [Nodes -> States]
      /\ \A n \in Nodes \ {node(t)} : cache'[n] = cache[n]
  BY <1>1, <1>4, <1>5
<1>7. \A n : n = node(t) => Filling(n)'
  BY <1>1, <1>3 DEF Filling, At, node
<1>8. \A n \in Nodes \ {node(t)} : Filling(n)' <=> Filling(n)
  BY <1>1, <1>3 DEF Filling, At, node, In
<1>9. Holding(t) /\ \A u \in Txns : Holding(u)' => Holding(u)
  BY <1>1, <1>3 DEF Holding, In
<1>10. \A n \in Nodes \ {node(t)} : ~Writer(n)
  <2>1. CASE Excl(t)
    BY <1>1, <2>1 DEF Inv, NoneElsewhere, Exclusive, In, Writer
  <2>2. CASE ~Excl(t)
    BY <1>1, <2>2 DEF Inv, NoneWhileShared, NoWriter, Reading, In, Writer
  <2> QED
    BY <2>1, <2>2
<1>11. NoWriter'
  BY <1>6, <1>7, <1>8, <1>10 DEF NoWriter, Writer
<1>12. Alone' /\ Messages'
  BY <1>1, <1>2, <1>9, StillAlone DEF In
<1>13. NoneWhileShared'
  BY <1>11 DEF NoneWhileShared
<1>14. SingleWriter'
  BY <1>11 DEF SingleWriter, NoWriter
<1>15. DirectoryKnows'
  <2>1. Contains(dir.sharers, node(t))
    BY <1>1, ContainsIsMember DEF Inv, TypeOK, Control, In, Sharer
  <2>2. ASSUME NEW n \in Nodes \ {node(t)}, cache[n] # "Invalid"
        PROVE  (Contains(dir.sharers, n) \/ \E u \in Txns : node(u) = n /\ At(u, "add"))'
    BY <1>1, <1>3, <2>2 DEF Inv, DirectoryKnows, At, In, node
  <2> QED
    BY <1>1, <1>6, <1>11, <2>1, <2>2 DEF DirectoryKnows, NoWriter
<1>16. ASSUME NEW u \in Txns PROVE Control(u)'
  <2>1. CASE u = t
    BY <1>1, <1>3, <2>1 DEF Inv, Control, In, Reading, Excl, op, node, Sharer
  <2>2. CASE u # t
    BY <1>1, <1>3, <2>2 DEF Inv, Control, In, Reading, Excl, op, node, Sharer
  <2> QED
    BY <2>1, <2>2
<1>17. ASSUME NEW u \in Txns PROVE NoneElsewhere(u)'
  <2>1. CASE u = t
    BY <1>1, <1>3, <1>6, <2>1 DEF Inv, NoneElsewhere, In, Exclusive, Excl, op, node
  <2>2. CASE u # t /\ Excl(u)
    BY <1>1, <1>3, <1>9, <2>2, OthersIdle
    DEF NoneElsewhere, In, Exclusive, Holding
  <2>3. CASE ~Excl(u)
    BY <1>1, <2>3 DEF NoneElsewhere, Exclusive, Excl, op
  <2> QED
    BY <2>1, <2>2, <2>3
<1> QED
  BY <1>12, <1>13, <1>14, <1>15, <1>16, <1>17 DEF Inv

\* The requester takes the state the home node granted.
LEMMA InvFilled ==
    ASSUME TypeOK, Inv, NEW t \in Txns, Filled(t)
    PROVE  Inv'
<1>1. /\ In(t, {"filled"}) /\ Goto(t, "done") /\ UNCHANGED <<request, dir, net>>
      /\ cache' = [cache EXCEPT ![node(t)] = Granted(t)]
  BY DEF Filled, At, In
<1>2. "done" \in PCs
  BY DEF PCs
<1>3. /\ txn' \in [Txns -> [pc : PCs, seen : Seq(Nodes), todo : Nat]]
      /\ txn'[t].pc = "done" /\ txn'[t].seen = txn[t].seen
      /\ \A u \in Txns \ {t} : txn'[u] = txn[u]
  BY <1>1, <1>2, GotoType
<1>4. cache \in [Nodes -> States] /\ node(t) \in Nodes /\ op(t) \in Ops
  BY RequestType DEF TypeOK
<1>5. /\ Granted(t) \in States
      /\ ~Excl(t) => Granted(t) # "Modified"
      /\ Granted(t) = "Modified" => op(t) = "WriteUnique"
  BY <1>4 DEF Granted, States, Ops, Excl
<1>6. /\ cache' \in [Nodes -> States] /\ cache'[node(t)] = Granted(t)
      /\ \A n \in Nodes \ {node(t)} : cache'[n] = cache[n]
  BY <1>1, <1>4, <1>5
<1>7. \A n \in Nodes \ {node(t)} : Filling(n)' <=> Filling(n)
  BY <1>1, <1>3 DEF Filling, At, node, In
<1>8. Holding(t) /\ ~Holding(t)' /\ \A u \in Txns : Holding(u)' => Holding(u)
  BY <1>1, <1>3 DEF Holding, In
<1>9. Excl(t) => net = {} /\ \A n \in Nodes \ {node(t)} : cache[n] = "Invalid"
  BY <1>1 DEF Inv, NoneElsewhere, Exclusive, In
<1>10. \A n \in Nodes \ {node(t)} : ~Writer(n)
  <2>1. CASE Excl(t)
    BY <1>9, <2>1 DEF Writer
  <2>2. CASE ~Excl(t)
    BY <1>1, <2>2 DEF Inv, NoneWhileShared, NoWriter, Reading, In, Writer
  <2> QED
    BY <2>1, <2>2
<1>11. ~Excl(t) => NoWriter'
  BY <1>5, <1>6, <1>7, <1>10 DEF NoWriter, Writer
<1>12. Alone' /\ Messages'
  BY <1>1, <1>2, <1>8, StillAlone DEF In
<1>13. NoneWhileShared'
  <2>1. ASSUME NEW u \in Txns, Reading(u, {"share", "add", "fill", "filled"})'
        PROVE  NoWriter'
    <3>1. Holding(u) /\ u # t
      BY <1>8, <2>1 DEF Reading, In, Holding
    <3> QED
      BY <1>8, <1>11, <3>1, OthersIdle
  <2>2. \A m \in net' : NoWriter'
    BY <1>1, <1>9, <1>11
  <2> QED
    BY <2>1, <2>2 DEF NoneWhileShared
<1>14. SingleWriter'
  <2>1. ASSUME NEW n \in Nodes, Writer(n)', NEW o \in Nodes \ {n}
        PROVE  cache'[o] = "Invalid"
    <3>1. n = node(t)
      BY <1>6, <1>7, <1>10, <2>1 DEF Writer
    <3>2. Excl(t)
      BY <1>5, <1>6, <2>1, <3>1 DEF Writer
    <3> QED
      BY <1>6, <1>9, <3>1, <3>2
  <2> QED
    BY <2>1 DEF SingleWriter
<1>15. DirectoryKnows'
  <2>1. Contains(dir.sharers, node(t))
    BY <1>1, ContainsIsMember DEF Inv, TypeOK, Control, In, Sharer
  <2>2. Granted(t) = "Modified" => dir.state = "Modified"
    BY <1>1, <1>5 DEF Inv, Control, In
  <2>3. ASSUME NEW n \in Nodes \ {node(t)}, cache[n] # "Invalid"
        PROVE  (Contains(dir.sharers, n) \/ \E u \in Txns : node(u) = n /\ At(u, "add"))'
    BY <1>1, <1>3, <2>3 DEF Inv, DirectoryKnows, At, In, node
  <2> QED
    BY <1>1, <1>6, <1>7, <1>10, <2>1, <2>2, <2>3 DEF DirectoryKnows, Writer
<1>16. ASSUME NEW u \in Txns PROVE Control(u)'
  <2>1. CASE u = t
    BY <1>1, <1>3, <2>1 DEF Control, In, Reading
  <2>2. CASE u # t
    BY <1>1, <1>3, <2>2 DEF Inv, Control, In, Reading, Excl, op, node, Sharer
  <2> QED
    BY <2>1, <2>2
<1>17. ASSUME NEW u \in Txns PROVE NoneElsewhere(u)'
  <2>1. CASE u = t
    BY <1>1, <1>3, <2>1 DEF NoneElsewhere, In, Exclusive
  <2>2. CASE u # t /\ Excl(u)
    BY <1>1, <1>3, <1>8, <2>2, OthersIdle
    DEF NoneElsewhere, In, Exclusive, Holding
  <2>3. CASE ~Excl(u)
    BY <1>1, <2>3 DEF NoneElsewhere, Exclusive, Excl, op
  <2> QED
    BY <2>1, <2>2, <2>3
<1> QED
  BY <1>12, <1>13, <1>14, <1>15, <1>16, <1>17 DEF Inv

-----------------------------------------------------------------------------
(* The snoops and what comes back.                                         *)

\* A read snoops the first sharer of a dirty line.
LEMMA InvSnoopOwner ==
    ASSUME TypeOK, Inv, NEW t \in Txns, SnoopOwner(t)
    PROVE  Inv'
<1>1. CASE dir.sharers = <<>>
  <2>1. In(t, {"snoop"}) /\ Goto(t, "failed") /\ UNCHANGED <<request, cache, dir, net>>
    BY <1>1 DEF SnoopOwner, At, In
  <2> QED
    BY <2>1, InvWait DEF In
<1>2. CASE dir.sharers # <<>>
  <2> DEFINE snp == Snoop(t, "SnpSharedFwd", dir.sharers[1])
  <2>1. /\ In(t, {"snoop"}) /\ net' = net \cup {snp}
        /\ txn' = [txn EXCEPT ![t] = [pc |-> "wait", seen |-> dir.sharers, todo |-> 1]]
        /\ UNCHANGED <<request, cache, dir>>
    BY <1>2 DEF SnoopOwner, At, In
  <2>2. dir.sharers \in Seq(Nodes) /\ dir.sharers[1] \in Nodes
    BY <1>2 DEF TypeOK
  <2>3. /\ snp \in [type : MessageTypes, txn : Txns, node : Nodes]
        /\ snp.type = "SnpSharedFwd" /\ snp.txn = t
    BY <2>2 DEF Snoop, MessageTypes
  <2> HIDE DEF snp
  <2>4. /\ txn' \in [Txns -> [pc : PCs, seen : Seq(Nodes), todo : Nat]]
        /\ txn'[t].pc = "wait" /\ txn'[t].seen = dir.sharers /\ txn'[t].todo = 1
        /\ \A u \in Txns \ {t} : txn'[u] = txn[u]
    BY <2>1, <2>2 DEF TypeOK, PCs
  <2>5. \A n : Filling(n)' <=> Filling(n)
    BY <2>1, <2>4 DEF Filling, At, node, In
  <2>6. Holding(t) /\ \A u \in Txns : Holding(u)' => Holding(u)
    BY <2>1, <2>4 DEF Holding, In
  <2>7. ~Excl(t)
    BY <2>1 DEF Inv, Control, In
  <2>8. \A u \in Txns : Excl(u) => ~Holding(u) /\ ~Holding(u)'
    BY <2>6, <2>7 DEF Inv, Alone
  <2>9. Alone'
    BY <2>1, <2>8 DEF Alone, Excl, op
  <2>10. Messages'
    <3>1. IsFiniteSet(net')
      BY <2>1, FS_AddElement DEF Inv, Messages
    <3>2. \A m \in net : ~Excl(m.txn)
      BY <2>8 DEF Inv, Messages, In, Holding, TypeOK
    <3> QED
      BY <2>1, <2>3, <2>7, <2>8, <3>1, <3>2 DEF Inv, Messages, Excl, op
  <2>11. ASSUME NEW u \in Txns PROVE Control(u)'
    <3>1. CASE u = t
      BY <2>1, <2>4, <3>1 DEF Control, In, Reading, Sharer
    <3>2. CASE u # t
      BY <2>1, <2>4, <3>2 DEF Inv, Control, In, Reading, Excl, op, node, Sharer
    <3> QED
      BY <3>1, <3>2
  <2>12. NoneWhileShared'
    <3>1. NoWriter' <=> NoWriter
      BY <2>1, <2>5 DEF NoWriter, Writer
    <3>2. ASSUME NEW u \in Txns, Reading(u, {"share", "add", "fill", "filled"})'
          PROVE  NoWriter
      BY <2>1, <2>4, <3>2 DEF Inv, NoneWhileShared, Reading, In, Excl, op
    <3> QED
      BY <2>1, <2>3, <3>1, <3>2 DEF Inv, NoneWhileShared, Excl, op
  <2>13. ASSUME NEW u \in Txns PROVE NoneElsewhere(u)'
    BY <2>1, <2>8 DEF NoneElsewhere, Exclusive, In, Excl, op, Holding
  <2>14. SingleWriter'
    BY <2>1, <2>5 DEF Inv, SingleWriter, Writer
  <2>15. DirectoryKnows'
    BY <2>1, <2>4, <2>5 DEF Inv, DirectoryKnows, At, node, op, In, Writer, Upgrading
  <2> QED
    BY <2>9, <2>10, <2>11, <2>12, <2>13, <2>14, <2>15 DEF Inv
<1> QED
  BY <1>1, <1>2

\* A ReadUnique or WriteUnique snoops every other sharer, so every other copy.
LEMMA InvSnoopSharers ==
    ASSUME TypeOK, Inv, NEW t \in Txns, SnoopSharers(t), ~Conflicts(t)
    PROVE  Inv'
<1> DEFINE others == ToSet(dir.sharers) \ {node(t)}
           pc == IF others = {} THEN "clear" ELSE "wait"
           snoops == {Snoop(t, "SnpUniqueFwd", n) : n \in others}
<1>1. /\ In(t, {"home"}) /\ Excl(t)
      /\ txn' = [txn EXCEPT ![t] = [pc |-> pc, seen |-> dir.sharers, todo |-> Cardinality(others)]]
      /\ net' = net \cup snoops /\ UNCHANGED <<request, cache, dir>>
  BY DEF SnoopSharers, At, In, Excl
<1>2. net = {} /\ \A u \in Txns : ~Holding(u)
  BY <1>1 DEF Conflicts, Holding, Excl, At, In
<1>3. dir.sharers \in Seq(Nodes)
  BY DEF TypeOK
<1>4. IsFiniteSet(others) /\ Cardinality(others) \in Nat /\ others \subseteq Nodes
  <2>1. others \subseteq Nodes
    BY <1>3 DEF ToSet
  <2> QED
    BY <2>1, CoherenceAssumption, FS_Subset, FS_CardinalityType
<1>5. IsFiniteSet(snoops) /\ Cardinality(snoops) <= Cardinality(others)
  <2> DEFINE f == [n \in others |-> Snoop(t, "SnpUniqueFwd", n)]
  <2>1. f \in Surjection(others, snoops)
    BY DEF Surjection
  <2> QED
    BY <1>4, <2>1, FS_Surjection
<1>6. /\ pc = "clear" => others = {} /\ snoops = {}
      /\ pc = "wait" => Cardinality(others) >= 1
      /\ pc \in {"clear", "wait"} /\ pc \in PCs
  BY <1>4, FS_EmptySet DEF PCs
<1>7. /\ \A m \in snoops : /\ m.type = "SnpUniqueFwd" /\ m.txn = t
                            /\ m \in [type : MessageTypes, txn : Txns, node : Nodes]
      /\ \A n \in others : Snoop(t, "SnpUniqueFwd", n) \in snoops
  BY <1>4 DEF Snoop, MessageTypes
<1>8. \A n \in Nodes \ {node(t)} : cache[n] # "Invalid" => n \in others
  <2>1. \A u \in Txns : ~At(u, "add")
    BY <1>2 DEF Holding, At
  <2> QED
    BY <1>3, <2>1, ContainsIsMember DEF Inv, DirectoryKnows
<1> HIDE DEF others, pc, snoops
<1>9. /\ txn' \in [Txns -> [pc : PCs, seen : Seq(Nodes), todo : Nat]]
      /\ txn'[t].pc = pc /\ txn'[t].seen = dir.sharers
      /\ txn'[t].todo = Cardinality(others)
      /\ \A u \in Txns \ {t} : txn'[u] = txn[u]
  BY <1>1, <1>3, <1>4, <1>6 DEF TypeOK
<1>10. \A n : Filling(n)' <=> Filling(n)
  BY <1>1, <1>6, <1>9 DEF Filling, At, node, In
<1>11. \A u \in Txns \ {t} : ~Holding(u)'
  BY <1>2, <1>9 DEF Holding
<1>12. Alone'
  BY <1>11 DEF Alone
<1>13. Messages'
  <2>1. \A m \in net' : m \in snoops
    BY <1>1, <1>2
  <2>2. net' # {} => In(t, {"wait", "waiting"})'
    BY <1>6, <1>9, <2>1 DEF In
  <2> QED
    BY <1>1, <1>2, <1>5, <1>7, <1>11, <2>1, <2>2 DEF Messages, Excl, op
<1>14. ASSUME NEW u \in Txns PROVE Control(u)'
  <2>1. CASE u = t
    BY <1>1, <1>6, <1>9, <2>1 DEF Control, In, Reading, Excl, op
  <2>2. CASE u # t
    BY <1>1, <1>9, <2>2 DEF Inv, Control, In, Reading, Excl, op, node, Sharer
  <2> QED
    BY <2>1, <2>2
<1>15. NoneWhileShared'
  <2>1. \A u \in Txns : ~Reading(u, {"share", "add", "fill", "filled"})'
    BY <1>1, <1>11 DEF Reading, In, Holding, Excl, op
  <2> QED
    BY <1>1, <1>2, <1>7, <2>1 DEF NoneWhileShared
<1>16. ASSUME NEW u \in Txns PROVE NoneElsewhere(u)'
  <2>1. CASE u = t
    BY <1>1, <1>2, <1>4, <1>5, <1>6, <1>7, <1>8, <1>9, <2>1
    DEF NoneElsewhere, In, Exclusive, Excl, op, node, Snoop
  <2>2. CASE u # t
    BY <1>11, <2>2 DEF NoneElsewhere, In, Exclusive, Holding
  <2> QED
    BY <2>1, <2>2
<1>17. SingleWriter'
  BY <1>1, <1>10 DEF Inv, SingleWriter, Writer
<1>18. DirectoryKnows'
  BY <1>1, <1>6, <1>9, <1>10 DEF Inv, DirectoryKnows, At, node, op, In, Writer, Upgrading
<1> QED
  BY <1>12, <1>13, <1>14, <1>15, <1>16, <1>17, <1>18 DEF Inv

\* A snooped node downgrades or drops its copy and answers.
LEMMA InvHandleSnoop ==
    ASSUME TypeOK, Inv, NEW m \in net, HandleSnoop(m)
    PROVE  Inv'
<1> DEFINE r == [m EXCEPT !.type = IF cache[m.node] \in {"Exclusive", "Modified"}
                                   THEN "SnpRespData" ELSE "SnpResp"]
           n0 == m.node
           s == Snooped(m.type, cache[n0])
<1>1. m \in [type : MessageTypes, txn : Txns, node : Nodes] /\ n0 \in Nodes
      /\ cache \in [Nodes -> States]
  BY DEF TypeOK
<1>2. /\ m.type \in {"SnpSharedFwd", "SnpUniqueFwd"}
      /\ cache' = [cache EXCEPT ![n0] = s]
      /\ net' = (net \ {m}) \cup {r} /\ UNCHANGED <<request, dir, txn>>
  BY <1>1 DEF HandleSnoop
<1>3. /\ s \in {"Shared", "Invalid"} /\ s \in States
      /\ cache[n0] = "Invalid" => s = "Invalid"
      /\ m.type = "SnpUniqueFwd" => s = "Invalid"
  BY DEF Snooped, States
<1>4. /\ r \in [type : MessageTypes, txn : Txns, node : Nodes] /\ r.txn = m.txn
      /\ r.type \in {"SnpRespData", "SnpResp"}
      /\ r.type = "SnpRespData" => cache[n0] \in {"Exclusive", "Modified"}
  BY <1>1 DEF MessageTypes
<1> HIDE DEF r, s, n0
<1>5. /\ cache' \in [Nodes -> States] /\ cache'[n0] = s
      /\ \A n \in Nodes \ {n0} : cache'[n] = cache[n]
  BY <1>1, <1>2, <1>3
<1>6. \A n : Filling(n)' <=> Filling(n)
  BY <1>2 DEF Filling, At, node
<1>7. NoWriter => NoWriter'
  BY <1>1, <1>3, <1>5, <1>6 DEF NoWriter, Writer
<1>8. IsFiniteSet(net') /\ Cardinality(net') <= Cardinality(net)
  <2>1. /\ IsFiniteSet(net \ {m}) /\ Cardinality(net \ {m}) = Cardinality(net) - 1
        /\ Cardinality(net) \in Nat
    BY FS_RemoveElement, FS_CardinalityType DEF Inv, Messages
  <2>2. /\ IsFiniteSet(net')
        /\ Cardinality(net') = IF r \in net \ {m} THEN Cardinality(net \ {m})
                                                  ELSE Cardinality(net \ {m}) + 1
    BY <1>2, <2>1, FS_AddElement
  <2> QED
    BY <2>1, <2>2
<1>9. Alone'
  BY <1>2 DEF Inv, Alone, Excl, op, Holding
<1>10. Messages'
  BY <1>2, <1>4, <1>8 DEF Inv, Messages, Excl, op, Holding, In
<1>11. \A u \in Txns : Control(u)'
  BY <1>2 DEF Inv, Control, In, Reading, Excl, op, node, Sharer
<1>12. NoneWhileShared'
  <2>1. ASSUME r.type = "SnpRespData", ~Excl(m.txn)
        PROVE  NoWriter'
    <3>1. m.type = "SnpSharedFwd" /\ cache[n0] # "Invalid"
      BY <1>2, <1>4, <2>1 DEF Inv, Messages
    <3>2. \A n \in Nodes \ {n0} : ~Writer(n)
      BY <1>1, <3>1 DEF Inv, SingleWriter, Writer
    <3> QED
      BY <1>3, <1>5, <1>6, <3>2 DEF NoWriter, Writer
  <2>2. ASSUME NEW u \in Txns, Reading(u, {"share", "add", "fill", "filled"})'
        PROVE  NoWriter'
    BY <1>2, <1>7, <2>2 DEF Inv, NoneWhileShared, Reading, In, Excl, op
  <2>3. ASSUME NEW x \in net, x.type = "SnpRespData", ~Excl(x.txn)
        PROVE  NoWriter'
    BY <1>7, <2>3 DEF Inv, NoneWhileShared
  <2> QED
    BY <1>2, <1>4, <2>1, <2>2, <2>3 DEF NoneWhileShared, Excl, op
<1>13. ASSUME NEW u \in Txns PROVE NoneElsewhere(u)'
  <2>1. CASE Exclusive(u, {"wait", "waiting"})
    <3>1. m.txn = u /\ Excl(m.txn)
      BY <2>1 DEF Inv, Messages, Exclusive, In, Holding
    <3>2. s = "Invalid"
      BY <1>2, <1>3, <3>1 DEF Inv, Messages
    <3>3. /\ txn[u].todo >= Cardinality(net)
          /\ \A n \in Nodes \ {node(u)} :
               cache[n] # "Invalid" => Snoop(u, "SnpUniqueFwd", n) \in net
      BY <2>1 DEF Inv, NoneElsewhere
    <3>4. txn[u].todo >= Cardinality(net')
      BY <1>8, <3>3, FS_CardinalityType DEF Inv, TypeOK, Messages
    <3>5. ASSUME NEW n \in Nodes \ {node(u)}, cache'[n] # "Invalid"
          PROVE  Snoop(u, "SnpUniqueFwd", n) \in net'
      <4>1. n # n0 /\ cache[n] # "Invalid"
        BY <1>5, <3>2, <3>5
      <4>2. Snoop(u, "SnpUniqueFwd", n) # m
        BY <4>1 DEF Snoop, n0
      <4> QED
        BY <1>2, <3>3, <4>1, <4>2
    <3> QED
      BY <1>2, <2>1, <3>4, <3>5 DEF NoneElsewhere, Exclusive, In, Excl, op, node, Snoop
  <2>2. CASE ~Exclusive(u, {"wait", "waiting"})
    <3>1. ~Exclusive(u, {"clear", "add", "own", "fill", "filled"})
      BY DEF Inv, NoneElsewhere
    <3> QED
      BY <1>2, <2>2, <3>1 DEF NoneElsewhere, Exclusive, In, Excl, op
  <2> QED
    BY <2>1, <2>2
<1>14. SingleWriter'
  BY <1>1, <1>3, <1>5, <1>6 DEF Inv, SingleWriter, Writer
<1>15. DirectoryKnows'
  BY <1>1, <1>2, <1>3, <1>5, <1>6 DEF Inv, DirectoryKnows, At, node, op, Writer, Upgrading
<1> QED
  BY <1>9, <1>10, <1>11, <1>12, <1>13, <1>14, <1>15 DEF Inv

\* A response ends a wait of every transaction that waits for its type; as each
\* exclusive one waits at least as often as there are messages, it ends its last
\* wait after the last of them.
LEMMA InvResponse ==
    ASSUME TypeOK, Waits, Inv, NEW m \in net, Response(m)
    PROVE  Inv'
<1> DEFINE Ends(t) == In(t, {"waiting"}) /\ Awaits(t) = m.type
           after(t) == IF txn[t].todo > 1 THEN "wait"
                       ELSE IF op(t) = "ReadShared" THEN "share" ELSE "clear"
<1>1. /\ m.type \in {"SnpResp", "SnpRespData"}
      /\ net' = net \ {m} /\ UNCHANGED <<request, cache, dir>>
  BY DEF Response
<1>2. \A t \in Txns : txn[t].todo \in Nat /\ (Ends(t) => txn[t].todo >= 1)
  BY DEF TypeOK, Waits, In
<1>3. \A t \in Txns :
        IF Ends(t) THEN /\ txn'[t].pc = after(t) /\ txn'[t].seen = txn[t].seen
                        /\ txn'[t].todo = txn[t].todo - 1
                   ELSE txn'[t] = txn[t]
  BY ResponseType
<1>4. \A t \in Txns : Ends(t) => (Excl(t) <=> m.type = "SnpResp")
  BY DEF Awaits, Excl
<1>5. /\ IsFiniteSet(net) /\ IsFiniteSet(net') /\ Cardinality(net) \in Nat
      /\ Cardinality(net) >= 1 /\ Cardinality(net') = Cardinality(net) - 1
  <2>1. /\ IsFiniteSet(net) /\ IsFiniteSet(net') /\ Cardinality(net) \in Nat
        /\ Cardinality(net') = Cardinality(net) - 1 /\ Cardinality(net') \in Nat
    BY <1>1, FS_RemoveElement, FS_CardinalityType DEF Inv, Messages
  <2> QED
    BY <2>1
<1>6. \A t \in Txns : Holding(t)' <=> Holding(t)
  BY <1>3 DEF Holding, In
<1>7. \A n : Filling(n)' <=> Filling(n)
  BY <1>1, <1>3 DEF Filling, At, node, In
<1>8. \A t \in Txns : \A pc \in {"add", "own", "fill"} : At(t, pc)' <=> At(t, pc)
  BY <1>3 DEF At, In
\* An exclusive transaction waits on as long as there is a message.
<1>9. ASSUME NEW t \in Txns, Exclusive(t, {"wait", "waiting"})
      PROVE  In(t, {"wait", "waiting"})' \/ (In(t, {"clear"})' /\ net' = {})
  <2>1. txn[t].todo >= Cardinality(net)
    BY <1>9 DEF Inv, NoneElsewhere
  <2>2. CASE Ends(t) /\ txn[t].todo > 1
    BY <1>3, <2>2 DEF In
  <2>3. CASE Ends(t) /\ ~(txn[t].todo > 1)
    <3>1. Cardinality(net') = 0
      BY <1>2, <1>5, <2>1, <2>3
    <3>2. after(t) = "clear"
      BY <1>9, <2>3 DEF Exclusive, Excl
    <3> QED
      BY <1>3, <1>5, <2>3, <3>1, <3>2, FS_EmptySet DEF In
  <2>4. CASE ~Ends(t)
    BY <1>3, <1>9, <2>4 DEF Exclusive, In
  <2> QED
    BY <2>2, <2>3, <2>4
<1>10. Alone'
  BY <1>1, <1>6 DEF Inv, Alone, Excl, op
<1>11. Messages'
  <2>1. ASSUME NEW x \in net', Excl(x.txn)
        PROVE  In(x.txn, {"wait", "waiting"})'
    <3>1. x.txn \in Txns /\ Exclusive(x.txn, {"wait", "waiting"})
      BY <1>1, <2>1 DEF Inv, Messages, TypeOK, Exclusive
    <3> QED
      BY <1>9, <3>1
  <2> QED
    BY <1>1, <1>5, <1>6, <2>1 DEF Inv, Messages, Excl, op
<1>12. ASSUME NEW t \in Txns PROVE Control(t)'
  <2>1. CASE Ends(t)
    <3>1. In(t, {"wait", "share", "clear"})' /\ txn'[t].seen = txn[t].seen
      BY <1>3, <2>1 DEF In
    <3>2. (In(t, {"share"})' => ~Excl(t)) /\ (In(t, {"clear"})' => Excl(t))
      BY <1>3, <2>1 DEF In, Excl
    <3> HIDE DEF Ends
    <3> QED
      BY <1>1, <2>1, <3>1, <3>2 DEF Inv, Control, In, Reading, Excl, op, Sharer, Ends
  <2>2. CASE ~Ends(t)
    BY <1>1, <1>3, <2>2 DEF Inv, Control, In, Reading, Excl, op, node, Sharer
  <2> QED
    BY <2>1, <2>2
<1>13. NoneWhileShared'
  <2>1. NoWriter' <=> NoWriter
    BY <1>1, <1>7 DEF NoWriter, Writer
  <2>2. ASSUME NEW t \in Txns, Reading(t, {"share", "add", "fill", "filled"})'
        PROVE  NoWriter
    <3>1. ~Excl(t)
      BY <1>1, <2>2 DEF Reading, Excl, op
    <3>2. CASE Ends(t)
      <4>1. m.type = "SnpRespData"
        BY <1>1, <1>4, <3>1, <3>2
      <4>2. Holding(t) /\ m.txn \in Txns
        BY <3>2 DEF Holding, In, TypeOK
      <4>3. ~Excl(m.txn)
        BY <3>1, <4>2 DEF Inv, Alone, Messages, Holding, In
      <4> QED
        BY <4>1, <4>3 DEF Inv, NoneWhileShared
    <3>3. CASE ~Ends(t)
      BY <1>3, <2>2, <3>1, <3>3 DEF Inv, NoneWhileShared, Reading, In
    <3> QED
      BY <3>2, <3>3
  <2> QED
    BY <1>1, <2>1, <2>2 DEF Inv, NoneWhileShared, Excl, op
<1>14. ASSUME NEW t \in Txns PROVE NoneElsewhere(t)'
  <2>1. ~Exclusive(t, {"clear", "add", "own", "fill", "filled"})
    BY DEF Inv, NoneElsewhere
  <2>2. CASE Exclusive(t, {"wait", "waiting"})
    <3>1. /\ txn[t].todo >= Cardinality(net)
          /\ \A n \in Nodes \ {node(t)} :
               cache[n] # "Invalid" => Snoop(t, "SnpUniqueFwd", n) \in net
      BY <2>2 DEF Inv, NoneElsewhere
    <3>2. \A n \in Nodes \ {node(t)} :
            cache[n] # "Invalid" => Snoop(t, "SnpUniqueFwd", n) \in net'
      BY <1>1, <3>1 DEF Snoop
    <3>3. txn'[t].todo >= Cardinality(net')
      <4>1. txn'[t].todo \in {txn[t].todo, txn[t].todo - 1}
        BY <1>3
      <4> QED
        BY <1>2, <1>5, <3>1, <4>1
    <3>4. CASE In(t, {"wait", "waiting"})'
      BY <1>1, <3>2, <3>3, <3>4
      DEF NoneElsewhere, Exclusive, In, Excl, op, node, Snoop
    <3>5. CASE In(t, {"clear"})' /\ net' = {}
      BY <1>1, <3>2, <3>5
      DEF NoneElsewhere, Exclusive, In, Excl, op, node
    <3> QED
      BY <1>9, <2>2, <3>4, <3>5
  <2>3. CASE ~Exclusive(t, {"wait", "waiting"})
    <3>1. Excl(t) => txn'[t] = txn[t]
      BY <1>3, <2>3 DEF Exclusive, In
    <3> QED
      BY <1>1, <2>1, <2>3, <3>1 DEF NoneElsewhere, Exclusive, In, Excl, op
  <2> QED
    BY <2>2, <2>3
<1>15. SingleWriter'
  BY <1>1, <1>7 DEF Inv, SingleWriter, Writer
<1>16. DirectoryKnows'
  BY <1>1, <1>7, <1>8 DEF Inv, DirectoryKnows, At, node, op, Writer, Upgrading
<1> QED
  BY <1>10, <1>11, <1>12, <1>13, <1>14, <1>15, <1>16 DEF Inv

\* A step that changes nothing keeps the invariant.
LEMMA InvStutter ==
    ASSUME Inv, UNCHANGED vars
    PROVE  Inv'
<1>1. UNCHANGED <<request, cache, dir, txn, net>>
  BY DEF vars
<1>2. SingleWriter' /\ DirectoryKnows'
  BY <1>1 DEF Inv, SingleWriter, DirectoryKnows, Filling, At, node, op, Writer, Upgrading
<1>3. Alone' /\ Messages' /\ NoneWhileShared'
  BY <1>1 DEF Inv, Alone, Messages, NoneWhileShared, NoWriter, Filling, Reading, In,
     Holding, Excl, At, node, op, Writer
<1>4. \A t \in Txns : Control(t)' /\ NoneElsewhere(t)'
  BY <1>1 DEF Inv, Control, NoneElsewhere, Exclusive, Reading, In, Excl, Sharer, node, op
<1> QED
  BY <1>2, <1>3, <1>4 DEF Inv

-----------------------------------------------------------------------------
\* Every call of a transaction and every delivery that meets no conflict keeps
\* the invariant.
LEMMA InvNext ==
    ASSUME TypeOK, Waits, raced \/ Inv, [Next]_vars
    PROVE  (raced \/ Inv)'
<1>1. ASSUME NEW t \in Txns, Transaction(t), raced' = (raced \/ Conflicts(t)), ~raced'
      PROVE  Inv'
  <2>1. Inv /\ ~Conflicts(t)
    BY <1>1
  <2>2. CASE Wait(t) \/ Timeout(t)
    <3>1. PICK pc \in {"waiting", "failed"} :
            /\ Goto(t, pc) /\ UNCHANGED <<request, cache, dir, net>>
            /\ In(t, {"wait", "waiting"})
            /\ pc = "waiting" => In(t, {"wait"})
            /\ pc = "waiting" \/ \A m \in net : m.txn # t
      BY <2>2 DEF Wait, Timeout, At, In
    <3> QED
      BY <2>1, <3>1, InvWait DEF In
  <2>3. CASE Share(t) \/ Clear(t) \/ Add(t) \/ Own(t)
    BY <2>1, <2>3, InvDirectory
  <2> QED
    BY <1>1, <2>1, <2>2, <2>3, InvStart, InvWriteHit, InvReadState, InvSnoopOwner,
       InvSnoopSharers, InvFill, InvFilled DEF Transaction
<1>2. ASSUME NEW m \in net, HandleSnoop(m) \/ Response(m), UNCHANGED raced, ~raced'
      PROVE  Inv'
  BY <1>2, InvHandleSnoop, InvResponse
<1>3. ASSUME UNCHANGED vars PROVE raced' \/ Inv'
  BY <1>3, InvStutter DEF vars
<1> QED
  BY <1>1, <1>2, <1>3 DEF Next, Deliver, Stop

\* The types hold in every state.
LEMMA TypeAlways == Spec => [](TypeOK /\ Waits)
<1>1. TypeOK /\ Waits /\ [Next]_vars => (TypeOK /\ Waits)'
  BY TypeNext
<1> QED
  BY <1>1, TypeInit, PTL DEF Spec

\* Until there is a conflict, the invariant holds.
LEMMA InvAlways == Spec => [](raced \/ Inv)
<1>1. TypeOK /\ Waits /\ (raced \/ Inv) /\ [Next]_vars => (raced \/ Inv)'
  BY InvNext
<1>2. Init => raced \/ Inv
  BY InvInit
<1> QED
  BY <1>1, <1>2, TypeAlways, PTL DEF Spec

\* The directory lists no node twice, whatever adds, clears and late responses
\* of the transactions come in between, of transactions that conflict too.
THEOREM TypeCorrect == Spec => []TypeOK
BY TypeAlways, PTL

\* Without a conflict of accesses a modified copy is the only one: no call of a
\* transaction, snoop or late response lets another cache keep its copy.
THEOREM WritersAlone == Spec => []OnlyRacesBreakWriter
<1>1. raced \/ Inv => OnlyRacesBreakWriter
  BY DEF Inv, OnlyRacesBreakWriter
<1> QED
  BY <1>1, InvAlways, PTL

\* Without a conflict of accesses the home node's directory lists every copy, and
\* knows the modified one, after timeouts and failed transactions too.
THEOREM DirectoryComplete == Spec => []OnlyRacesBreakDirectory
<1>1. raced \/ Inv => OnlyRacesBreakDirectory
  BY DEF Inv, OnlyRacesBreakDirectory
<1> QED
  BY <1>1, InvAlways, PTL
=============================================================================
