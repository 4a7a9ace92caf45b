------------------------------ MODULE TxnProofs ------------------------------
(***************************************************************************)
(* Proofs about TxnManager, for any nodes, transactions, programs that     *)
(* satisfy TxnAssumption and channel sizes: the types, and that a live      *)
(* transaction is managed by exactly one node or on its way to one.        *)
(***************************************************************************)
EXTENDS TxnManager, SequenceTheorems, TLAPS

Yielded == [cmd : Nat \ {0}, at : Nodes]

MessageTypes == DOMAIN Reply \union {"migration"}

Message == [type : MessageTypes, from : Nodes, to : Nodes, txn : Txns, cmd : Nat]

TypeInv ==
    /\ next \in [Txns -> Nat]
    /\ state \in [Txns -> {"run", "yield", "failed", "panic", "exited"}]
    /\ ctx \in [Txns -> Nodes]
    /\ yieldCh \in [Txns -> Seq(Yielded)]
    /\ resumeCh \in [Txns -> Seq(Value)]
    /\ active \subseteq Txns
    /\ migrated \in [Nodes -> SUBSET Txns]
    /\ net \subseteq Message
    /\ \A t \in Txns :
         /\ next[t] \in 1 .. Len(Program[t]) + 1
         /\ state[t] = "yield" => next[t] \in DOMAIN Program[t]
         /\ Len(yieldCh[t]) <= ChannelSize
         /\ Len(resumeCh[t]) <= ChannelSize
         /\ \A i \in DOMAIN yieldCh[t] : yieldCh[t][i].cmd \in DOMAIN Program[t]

-----------------------------------------------------------------------------
(* The channels.                                                           *)

\* A value put on resumeCh arrives at the end, or is dropped when the channel
\* is full (the non-blocking sends of Tick and routeMessage).
LEMMA PutProps ==
    ASSUME NEW r \in Seq(Value), Len(r) <= ChannelSize, NEW v \in Value
    PROVE  /\ Put(r, <<v>>) = r \/ Put(r, <<v>>) = Append(r, v)
           /\ Put(r, <<v>>) \in Seq(Value)
           /\ Len(Put(r, <<v>>)) <= ChannelSize
<1>1. <<v>> \in Seq(Value) /\ Len(<<v>>) = 1 /\ <<v>>[1] = v
  OBVIOUS
<1>2. <<v>> # <<>>
  BY <1>1, EmptySeq
<1>4. /\ Append(r, v) \in Seq(Value) /\ Len(Append(r, v)) = Len(r) + 1
      /\ Append(r, v)[Len(r) + 1] = v
      /\ \A i \in 1 .. Len(r) : Append(r, v)[i] = r[i]
  BY AppendProperties
<1>3. r \o <<v>> = Append(r, v)
  BY AppendIsConcat
<1> QED BY <1>2, <1>3, <1>4, TxnAssumption DEF Put

\* A Tick takes the commands of a transaction from the front (the receive from
\* yieldCh).
LEMMA TailProps ==
    ASSUME NEW S, NEW y \in Seq(S), y # <<>>
    PROVE  /\ Tail(y) \in Seq(S) /\ Len(Tail(y)) = Len(y) - 1 /\ Len(y) \in Nat \ {0}
           /\ Head(y) = y[1] /\ 1 \in DOMAIN y /\ y[1] \in S
           /\ \A i \in DOMAIN Tail(y) : i + 1 \in DOMAIN y /\ Tail(y)[i] = y[i + 1]
<1>1. Len(y) \in Nat \ {0}
  BY EmptySeq
<1> QED BY <1>1, HeadTailProperties

\* What a program's command is (the arguments of the TxnContext calls).
LEMMA CommandType ==
    ASSUME NEW t \in Txns, NEW k \in DOMAIN Program[t]
    PROVE  /\ Program[t][k].op \in Ops /\ Program[t][k].to \in Nodes
           /\ k \in Nat \ {0} /\ k <= Len(Program[t])
           /\ Len(Program[t]) \in Nat /\ DOMAIN Program[t] = 1 .. Len(Program[t])
<1> DEFINE Command == [op : Ops, type : STRING, to : Nodes]
<1>1. Program[t] \in Seq(Command)
  BY TxnAssumption
<1> HIDE DEF Command
<1>2. Len(Program[t]) \in Nat /\ DOMAIN Program[t] = 1 .. Len(Program[t])
      /\ Program[t][k] \in Command
  BY <1>1, LenProperties, ElementOfSeq
<1>3. k \in Nat \ {0} /\ k <= Len(Program[t])
  BY <1>2
<1> QED BY <1>2, <1>3 DEF Command

-----------------------------------------------------------------------------
(* Types.                                                                  *)

\* A goroutine that goes on, waits or ends is at a command of its program or
\* after the last (the control flow of a transaction function).
LEMMA Advances ==
    ASSUME TypeInv, NEW t \in Txns, next[t] \in DOMAIN Program[t],
           NEW s \in {"run", "yield", "failed", "panic"},
           state' = [state EXCEPT ![t] = s],
           \/ next' = next
           \/ s = "run" /\ next' = [next EXCEPT ![t] = next[t] + 1]
    PROVE  /\ next' \in [Txns -> Nat]
           /\ state' \in [Txns -> {"run", "yield", "failed", "panic", "exited"}]
           /\ \A u \in Txns : /\ next'[u] \in 1 .. Len(Program[u]) + 1
                              /\ state'[u] = "yield" => next'[u] \in DOMAIN Program[u]
<1>1. /\ next[t] \in Nat \ {0} /\ next[t] <= Len(Program[t]) /\ Len(Program[t]) \in Nat
  BY CommandType
<1>2. /\ next \in [Txns -> Nat] /\ next[t] + 1 \in Nat
      /\ state \in [Txns -> {"run", "yield", "failed", "panic", "exited"}]
  BY <1>1 DEF TypeInv
<1>7. /\ state' \in [Txns -> {"run", "yield", "failed", "panic", "exited"}]
      /\ state'[t] = s /\ \A u \in Txns \ {t} : state'[u] = state[u]
  BY <1>2
<1>8. next' \in [Txns -> Nat] /\ \A u \in Txns \ {t} : next'[u] = next[u]
  BY <1>2
<1>3. \/ next'[t] = next[t]
      \/ next'[t] = next[t] + 1 /\ s = "run"
  BY <1>2
<1>4. \A u \in Txns : /\ next[u] \in 1 .. Len(Program[u]) + 1
                      /\ state[u] = "yield" => next[u] \in DOMAIN Program[u]
  BY DEF TypeInv
<1>5. next'[t] \in 1 .. Len(Program[t]) + 1
  BY <1>1, <1>3
<1>6. state'[t] = "yield" => next'[t] \in DOMAIN Program[t]
  <2>1. CASE next'[t] = next[t]
    BY <2>1
  <2>2. CASE next'[t] # next[t]
    BY <2>2, <1>3, <1>7
  <2> QED BY <2>1, <2>2
<1> QED BY <1>4, <1>5, <1>6, <1>7, <1>8

\* The goroutine of a transaction keeps the types (TxnContext.Yield and its
\* callers, the values they receive, their timeouts, their return).
LEMMA GoroutineTypes ==
    ASSUME TypeInv, NEW t \in Txns, Goroutine(t)
    PROVE  TypeInv'
<1>1. CASE Yield(t)
  <2>1. /\ state[t] = "run" /\ next[t] \in DOMAIN Program[t]
        /\ UNCHANGED <<ctx, active, migrated, net, resumeCh>>
    BY <1>1 DEF Yield, managers
  <2>2. /\ next[t] \in Nat \ {0} /\ next[t] <= Len(Program[t])
        /\ Len(Program[t]) \in Nat /\ DOMAIN Program[t] = 1 .. Len(Program[t])
    BY <2>1, CommandType
  <2>3. CASE Room(t)
    <3> DEFINE e == [cmd |-> next[t], at |-> ctx[t]]
    <3>1. e \in Yielded /\ e.cmd = next[t]
      BY <2>2 DEF Yielded, TypeInv
    <3>2. yieldCh' = [yieldCh EXCEPT ![t] = Append(yieldCh[t], e)]
      BY <1>1, <2>3 DEF Yield
    <3>3. yieldCh[t] \in Seq(Yielded) /\ Len(yieldCh[t]) < ChannelSize
      BY <2>3 DEF TypeInv, Room
    <3> HIDE DEF e
    <3>4. /\ Append(yieldCh[t], e) \in Seq(Yielded)
          /\ Len(Append(yieldCh[t], e)) = Len(yieldCh[t]) + 1
          /\ Len(yieldCh[t]) \in Nat
          /\ Append(yieldCh[t], e)[Len(yieldCh[t]) + 1] = e
          /\ \A i \in 1 .. Len(yieldCh[t]) : Append(yieldCh[t], e)[i] = yieldCh[t][i]
          /\ DOMAIN Append(yieldCh[t], e) = 1 .. Len(yieldCh[t]) + 1
          /\ DOMAIN yieldCh[t] = 1 .. Len(yieldCh[t])
      BY <3>1, <3>3, AppendProperties, LenProperties
    <3>11. \A i \in DOMAIN yieldCh[t] : yieldCh[t][i].cmd \in DOMAIN Program[t]
      BY DEF TypeInv
    <3> DEFINE y == Append(yieldCh[t], e)
    <3>5. Len(Append(yieldCh[t], e)) <= ChannelSize
      BY <3>3, <3>4, TxnAssumption
    <3>6. \A i \in DOMAIN Append(yieldCh[t], e) :
             Append(yieldCh[t], e)[i].cmd \in DOMAIN Program[t]
      <4>1. SUFFICES ASSUME NEW i \in DOMAIN y PROVE y[i].cmd \in DOMAIN Program[t]
        OBVIOUS
      <4>2. /\ DOMAIN y = 1 .. Len(yieldCh[t]) + 1 /\ y[Len(yieldCh[t]) + 1] = e
            /\ \A j \in 1 .. Len(yieldCh[t]) : y[j] = yieldCh[t][j]
        BY <3>4
      <4> HIDE DEF y
      <4>3. CASE i = Len(yieldCh[t]) + 1
        BY <2>1, <3>1, <4>2, <4>3
      <4>4. CASE i # Len(yieldCh[t]) + 1
        BY <3>4, <3>11, <4>1, <4>2, <4>4
      <4> QED BY <4>3, <4>4
    <3>7. /\ yieldCh' \in [Txns -> Seq(Yielded)]
          /\ yieldCh'[t] = Append(yieldCh[t], e)
          /\ \A u \in Txns \ {t} : yieldCh'[u] = yieldCh[u]
      BY <3>2, <3>4 DEF TypeInv
    <3>8. \A u \in Txns :
             /\ Len(yieldCh'[u]) <= ChannelSize
             /\ \A i \in DOMAIN yieldCh'[u] : yieldCh'[u][i].cmd \in DOMAIN Program[u]
      BY <3>5, <3>6, <3>7 DEF TypeInv
    <3>9. \/ state' = [state EXCEPT ![t] = "yield"] /\ next' = next
          \/ /\ state' = [state EXCEPT ![t] = "run"]
             /\ next' = [next EXCEPT ![t] = next[t] + 1]
      BY <1>1, <2>1, <2>3 DEF Yield, TypeInv
    <3>10. /\ next' \in [Txns -> Nat]
           /\ state' \in [Txns -> {"run", "yield", "failed", "panic", "exited"}]
           /\ \A u \in Txns : /\ next'[u] \in 1 .. Len(Program[u]) + 1
                              /\ state'[u] = "yield" => next'[u] \in DOMAIN Program[u]
      BY <2>1, <3>9, Advances
    <3> QED BY <2>1, <3>7, <3>8, <3>10 DEF TypeInv
  <2>4. CASE ~Room(t)
    BY <1>1, <2>1, <2>4 DEF TypeInv, Yield
  <2> QED BY <2>3, <2>4
<1>2. CASE Resume(t)
  <2> DEFINE c == Program[t][next[t]]
             moved == Arrives(t, Head(resumeCh[t]))
  <2>1. /\ state[t] = "yield" /\ resumeCh[t] # <<>>
        /\ ctx' = IF moved THEN [ctx EXCEPT ![t] = c.to] ELSE ctx
        /\ UNCHANGED <<yieldCh, active, migrated, net>>
        /\ resumeCh' = [resumeCh EXCEPT ![t] = Tail(@)]
    BY <1>2 DEF Resume, managers
  <2>2. next[t] \in DOMAIN Program[t]
    BY <2>1 DEF TypeInv
  <2>3. /\ next[t] \in Nat \ {0} /\ next[t] <= Len(Program[t]) /\ c.to \in Nodes
        /\ Len(Program[t]) \in Nat /\ DOMAIN Program[t] = 1 .. Len(Program[t])
    BY <2>2, CommandType
  <2>4. \/ /\ state' = [state EXCEPT ![t] = "run"]
           /\ next' = [next EXCEPT ![t] = next[t] + 1]
        \/ /\ state' = [state EXCEPT ![t] = "panic"] /\ next' = next
        \/ /\ state' = [state EXCEPT ![t] = "failed"] /\ next' = next
    BY <1>2 DEF Resume
  <2> HIDE DEF c, moved
  <2>5. ctx' \in [Txns -> Nodes]
    BY <2>1, <2>3 DEF TypeInv
  <2>6. /\ next' \in [Txns -> Nat]
        /\ state' \in [Txns -> {"run", "yield", "failed", "panic", "exited"}]
        /\ \A u \in Txns : /\ next'[u] \in 1 .. Len(Program[u]) + 1
                           /\ state'[u] = "yield" => next'[u] \in DOMAIN Program[u]
    BY <2>2, <2>4, Advances
  <2>7. /\ Tail(resumeCh[t]) \in Seq(Value)
        /\ Len(Tail(resumeCh[t])) = Len(resumeCh[t]) - 1 /\ Len(resumeCh[t]) \in Nat
    BY <2>1, TailProps DEF TypeInv
  <2>8. /\ resumeCh' \in [Txns -> Seq(Value)]
        /\ \A u \in Txns : Len(resumeCh'[u]) <= ChannelSize
    BY <2>1, <2>7, TxnAssumption DEF TypeInv
  <2> QED BY <2>1, <2>5, <2>6, <2>8 DEF TypeInv
<1>3. CASE Timeout(t)
  BY <1>3 DEF Timeout, TypeInv, managers
<1>4. CASE Exit(t)
  BY <1>4 DEF Exit, TypeInv
<1> QED BY <1>1, <1>2, <1>3, <1>4 DEF Goroutine
\* A value of a kind of K, or none, is put on the resumeCh of t.
Receives(t, K) ==
    \/ resumeCh'[t] = resumeCh[t]
    \/ \E v \in Value : v.kind \in K /\ resumeCh'[t] = Append(resumeCh[t], v)

\* A routed message may resume transactions with a message, and a migration
\* request resumes the transaction that migrates with a MigrationResult
\* (routeMessage, handleMigration).
LEMMA RouteResumes ==
    ASSUME TypeInv, NEW n \in Nodes, NEW m \in net, Route(n, m)
    PROVE  /\ resumeCh' \in [Txns -> Seq(Value)]
           /\ \A t \in Txns :
                /\ Len(resumeCh'[t]) <= ChannelSize
                /\ Receives(t, IF m.type = "migration" /\ t = m.txn THEN {"migrated"}
                               ELSE {"message"})
<1> DEFINE resumed  == IF m.type = "migration" THEN {m.txn} ELSE Resumed(n, m)
           v(t)     == IF m.type = "migration" THEN [kind |-> "migrated", txn |-> t]
                       ELSE [kind |-> "message", txn |-> m.txn]
<1>1. m.txn \in Txns
  BY DEF TypeInv, Message
<1>2. \A t \in Txns :
         /\ v(t) \in Value
         /\ v(t).kind = IF m.type = "migration" THEN "migrated" ELSE "message"
  BY <1>1 DEF Value
<1>3. resumeCh' = [t \in Txns |-> IF t \in resumed THEN Put(resumeCh[t], <<v(t)>>)
                                  ELSE resumeCh[t]]
  <2>1. CASE m.type = "migration"
    BY <2>1 DEF Route, MigrationResult
  <2>2. CASE m.type # "migration"
    BY <2>2 DEF Route
  <2> QED BY <2>1, <2>2
<1>4. m.type = "migration" => \A t \in resumed : t = m.txn
  OBVIOUS
<1> HIDE DEF resumed, v
<1>5. ASSUME NEW t \in Txns
      PROVE  /\ Put(resumeCh[t], <<v(t)>>) \in Seq(Value)
             /\ Len(Put(resumeCh[t], <<v(t)>>)) <= ChannelSize
             /\ \/ Put(resumeCh[t], <<v(t)>>) = resumeCh[t]
                \/ Put(resumeCh[t], <<v(t)>>) = Append(resumeCh[t], v(t))
  BY <1>2, PutProps DEF TypeInv
<1>6. ASSUME NEW t \in Txns
      PROVE  /\ resumeCh'[t] \in Seq(Value)
             /\ Len(resumeCh'[t]) <= ChannelSize
             /\ Receives(t, IF m.type = "migration" /\ t = m.txn THEN {"migrated"}
                            ELSE {"message"})
  <2>1. CASE t \in resumed
    <3>1. resumeCh'[t] = Put(resumeCh[t], <<v(t)>>)
      BY <1>3, <2>1
    <3>2. v(t).kind \in IF m.type = "migration" /\ t = m.txn THEN {"migrated"}
                        ELSE {"message"}
      BY <1>2, <1>4, <2>1
    <3> QED BY <1>2, <1>5, <3>1, <3>2 DEF Receives
  <2>2. CASE t \notin resumed
    <3>1. resumeCh'[t] = resumeCh[t]
      BY <1>3, <2>2
    <3> QED BY <3>1 DEF Receives, TypeInv
  <2> QED BY <2>1, <2>2
<1>7. resumeCh' \in [Txns -> Seq(Value)]
  <2>1. \A t \in Txns : resumeCh'[t] \in Seq(Value)
    BY <1>6
  <2>2. resumeCh' = [t \in Txns |-> resumeCh'[t]]
    BY <1>3
  <2> QED BY <2>1, <2>2
<1> QED BY <1>6, <1>7

\* A routed message leaves the network, and what it is answered with is no
\* migration request; a migration request makes the node the manager.
LEMMA RouteMoves ==
    ASSUME TypeInv, NEW n \in Nodes, NEW m \in net, Route(n, m)
    PROVE  /\ m \in Message /\ m.to = n
           /\ net' \subseteq Message
           /\ migrated' \in [Nodes -> SUBSET Txns]
           /\ UNCHANGED <<next, state, ctx, active, yieldCh>>
           /\ \A t \in Txns :
                /\ InTransit(t)' = InTransit(t) \ {m}
                /\ m.type # "migration" \/ t # m.txn => Managers(t)' = Managers(t)
                /\ m.type = "migration" /\ t = m.txn =>
                       Managers(t)' = Managers(t) \union {n}
<1>1. m \in Message /\ m.to = n /\ m.txn \in Txns
  BY DEF TypeInv, Message, Route
<1>2. \A r \in Replies(m) : r \in Message /\ r.type # "migration"
  <2>1. SUFFICES ASSUME NEW r \in Replies(m)
                 PROVE  r \in Message /\ r.type # "migration"
    OBVIOUS
  <2>2. /\ m.type \in DOMAIN Reply /\ Reply[m.type] # NoReply
        /\ r = [m EXCEPT !.type = Reply[m.type], !.from = m.to, !.to = m.from]
    BY <1>1, <2>1 DEF Replies, Message, MessageTypes
  <2>3. Reply[m.type] \in DOMAIN Reply /\ Reply[m.type] # "migration"
    BY <2>2, TxnAssumption
  <2>4. r = [type |-> Reply[m.type], from |-> m.to, to |-> m.from, txn |-> m.txn,
             cmd |-> m.cmd]
    BY <1>1, <2>2 DEF Message
  <2> QED BY <1>1, <2>3, <2>4 DEF Message, MessageTypes
<1>3. net' = (net \ {m}) \union Replies(m)
      /\ UNCHANGED <<next, state, ctx, active, yieldCh>>
  BY DEF Route, goroutines
<1>4. net' \subseteq Message
  BY <1>2, <1>3 DEF TypeInv
<1>5. \A t \in Txns : InTransit(t)' = InTransit(t) \ {m}
  BY <1>2, <1>3 DEF InTransit
<1>6. migrated' = IF m.type = "migration"
                  THEN [migrated EXCEPT ![n] = migrated[n] \union {m.txn}] ELSE migrated
  BY DEF Route
<1>7. migrated' \in [Nodes -> SUBSET Txns]
  BY <1>1, <1>6 DEF TypeInv
<1>8. \A k \in Nodes : migrated'[k] = IF m.type = "migration" /\ k = n
                                      THEN migrated[k] \union {m.txn} ELSE migrated[k]
  BY <1>6 DEF TypeInv
<1>9. ASSUME NEW t \in Txns
      PROVE  /\ m.type # "migration" \/ t # m.txn => Managers(t)' = Managers(t)
             /\ m.type = "migration" /\ t = m.txn =>
                       Managers(t)' = Managers(t) \union {n}
  BY <1>3, <1>8 DEF Managers, Registered
<1> QED BY <1>1, <1>3, <1>4, <1>5, <1>7, <1>9
\* What the manager of a node does with the command it takes from t, seen from
\* t: its yieldCh, its managers, what is on its way for it (Tick, step 3).
TakesCommand(n, t) ==
    /\ n \in Managers(t)
    /\ yieldCh[t] # <<>> /\ yieldCh'[t] = Tail(yieldCh[t])
    /\ Receives(t, {"nil"})
    /\ \/ /\ Taken(t).op = "migrate"
          /\ Managers(t)' = Managers(t) \ {n}
          /\ \E m \in Message : m.to = Taken(t).to /\ InTransit(t)' = InTransit(t) \union {m}
       \/ /\ Taken(t).op = "complete"
          /\ Managers(t)' \subseteq Managers(t) /\ InTransit(t)' = InTransit(t)
       \/ /\ Taken(t).op \notin {"migrate", "complete"}
          /\ Managers(t)' = Managers(t) /\ InTransit(t)' = InTransit(t)

\* A manager takes one command of each transaction it has (Tick, step 3).
LEMMA CollectTakes ==
    ASSUME TypeInv, NEW n \in Nodes, Collect(n)
    PROVE  /\ net' \subseteq Message
           /\ active' \subseteq Txns
           /\ migrated' \in [Nodes -> SUBSET Txns]
           /\ UNCHANGED <<next, state, ctx>>
           /\ yieldCh' \in [Txns -> Seq(Yielded)]
           /\ resumeCh' \in [Txns -> Seq(Value)]
           /\ \A t \in Txns :
                /\ Len(resumeCh'[t]) <= ChannelSize
                /\ \/ TakesCommand(n, t)
                   \/ /\ yieldCh'[t] = yieldCh[t] /\ resumeCh'[t] = resumeCh[t]
                      /\ Managers(t)' = Managers(t) /\ InTransit(t)' = InTransit(t)
<1>1. /\ net' = net \union {Sent(n, t) : t \in Senders(n)}
      /\ active' = active \ {t \in Deregistered(n) : Origin[t] = n}
      /\ migrated' = [migrated EXCEPT ![n] = migrated[n] \ Deregistered(n)]
      /\ yieldCh' = [t \in Txns |-> IF t \in Takers(n) THEN Tail(yieldCh[t])
                                    ELSE yieldCh[t]]
      /\ resumeCh' = [t \in Txns |-> IF t \in Takers(n) THEN Put(resumeCh[t], Nil(t))
                                     ELSE resumeCh[t]]
      /\ UNCHANGED <<next, state, ctx>>
  BY DEF Collect, goroutines
<1>2. Takers(n) \subseteq Txns /\ Senders(n) \subseteq Takers(n)
      /\ Deregistered(n) \subseteq Takers(n)
  BY DEF TypeInv, Takers, Senders, Deregistered, Registered
<1>3. ASSUME NEW t \in Takers(n)
      PROVE  /\ yieldCh[t] # <<>> /\ n \in Managers(t)
             /\ Head(yieldCh[t]).cmd \in DOMAIN Program[t]
             /\ Head(yieldCh[t]).cmd \in Nat
             /\ Taken(t).op \in Ops /\ Taken(t).to \in Nodes
             /\ Taken(t).op \in {"send", "sendAndWait"} =>
                    Taken(t).type \in DOMAIN Reply
  <2>1. yieldCh[t] \in Seq(Yielded) /\ yieldCh[t] # <<>> /\ n \in Managers(t)
    BY <1>2 DEF Takers, TypeInv, Managers
  <2>2. Head(yieldCh[t]) = yieldCh[t][1] /\ 1 \in DOMAIN yieldCh[t]
    BY <2>1, TailProps
  <2>3. Head(yieldCh[t]).cmd \in DOMAIN Program[t]
    BY <1>2, <2>2 DEF TypeInv
  <2> QED BY <1>2, <2>1, <2>3, CommandType, TxnAssumption DEF Taken
<1>4. ASSUME NEW t \in Senders(n)
      PROVE  /\ Sent(n, t) \in Message /\ Sent(n, t).txn = t
             /\ Sent(n, t).to = Taken(t).to
             /\ Sent(n, t).type = "migration" <=> Taken(t).op = "migrate"
  <2>1. /\ Taken(t).op \in {"send", "sendAndWait", "migrate"} /\ Taken(t).to \in Nodes
        /\ Taken(t).op # "migrate" => Taken(t).type \in DOMAIN Reply
        /\ Head(yieldCh[t]).cmd \in Nat /\ t \in Txns
    BY <1>2, <1>3 DEF Senders
  <2> QED BY <2>1, TxnAssumption DEF Sent, Message, MessageTypes
<1>5. net' \subseteq Message /\ active' \subseteq Txns
      /\ migrated' \in [Nodes -> SUBSET Txns]
  <2>1. net' \subseteq Message
    BY <1>1, <1>4 DEF TypeInv
  <2>2. active' \subseteq Txns /\ migrated' \in [Nodes -> SUBSET Txns]
    BY <1>1 DEF TypeInv
  <2> QED BY <2>1, <2>2
<1>6. ASSUME NEW t \in Txns
      PROVE  /\ yieldCh'[t] = IF t \in Takers(n) THEN Tail(yieldCh[t]) ELSE yieldCh[t]
             /\ yieldCh'[t] \in Seq(Yielded)
  <2>1. yieldCh'[t] = IF t \in Takers(n) THEN Tail(yieldCh[t]) ELSE yieldCh[t]
    BY <1>1
  <2>2. t \in Takers(n) => Tail(yieldCh[t]) \in Seq(Yielded)
    BY <1>3, TailProps DEF TypeInv
  <2> QED BY <2>1, <2>2 DEF TypeInv
<1>7. ASSUME NEW t \in Txns
      PROVE  /\ t \notin Takers(n) => resumeCh'[t] = resumeCh[t]
             /\ Receives(t, {"nil"})
             /\ resumeCh'[t] \in Seq(Value) /\ Len(resumeCh'[t]) <= ChannelSize
  <2> DEFINE v == [kind |-> "nil", txn |-> t]
  <2>1. v \in Value /\ v.kind = "nil"
    BY DEF Value
  <2>2. Nil(t) = IF Taken(t).op = "sendAndWait" THEN <<v>> ELSE <<>>
    BY DEF Nil
  <2>3. resumeCh'[t] = IF t \in Takers(n) THEN Put(resumeCh[t], Nil(t)) ELSE resumeCh[t]
    BY <1>1
  <2>6. resumeCh[t] \in Seq(Value) /\ Len(resumeCh[t]) <= ChannelSize
    BY DEF TypeInv
  <2> HIDE DEF v
  <2>4. CASE t \in Takers(n) /\ Taken(t).op = "sendAndWait"
    <3>1. resumeCh'[t] = Put(resumeCh[t], <<v>>)
      BY <2>2, <2>3, <2>4
    <3>2. /\ Put(resumeCh[t], <<v>>) \in Seq(Value)
          /\ Len(Put(resumeCh[t], <<v>>)) <= ChannelSize
          /\ \/ Put(resumeCh[t], <<v>>) = resumeCh[t]
             \/ Put(resumeCh[t], <<v>>) = Append(resumeCh[t], v)
      BY <2>1, <2>6, PutProps
    <3> QED BY <2>1, <2>4, <3>1, <3>2 DEF Receives
  <2>5. CASE ~(t \in Takers(n) /\ Taken(t).op = "sendAndWait")
    <3>1. resumeCh'[t] = resumeCh[t]
      BY <2>2, <2>3, <2>5 DEF Put
    <3> QED BY <2>6, <3>1 DEF Receives
  <2> QED BY <2>4, <2>5
<1>8. ASSUME NEW t \in Txns
      PROVE  Managers(t)' = IF t \in Deregistered(n) THEN Managers(t) \ {n}
                            ELSE Managers(t)
  <2>1. \A k \in Nodes : migrated'[k] = IF k = n THEN migrated[k] \ Deregistered(n)
                                        ELSE migrated[k]
    BY <1>1 DEF TypeInv
  <2>2. t \in active' <=> t \in active /\ ~(t \in Deregistered(n) /\ Origin[t] = n)
    BY <1>1
  <2> HIDE DEF Deregistered
  <2>3. \A k \in Nodes :
           /\ t \in Registered(k) <=> (t \in active /\ Origin[t] = k) \/ t \in migrated[k]
           /\ t \in Registered(k)' <=> (t \in active' /\ Origin[t] = k) \/ t \in migrated'[k]
    BY DEF Registered
  <2>4. \A k \in Nodes : t \in Registered(k)' <=>
           t \in Registered(k) /\ ~(k = n /\ t \in Deregistered(n))
    BY <2>1, <2>2, <2>3
  <2> QED BY <2>4 DEF Managers
<1>9. ASSUME NEW t \in Txns
      PROVE  InTransit(t)' = IF t \in Takers(n) /\ Taken(t).op = "migrate"
                             THEN InTransit(t) \union {Sent(n, t)} ELSE InTransit(t)
  <2>1. t \in Takers(n) /\ Taken(t).op = "migrate" => t \in Senders(n)
    BY DEF Senders
  <2>2. \A m : m \in net' <=> m \in net \/ \E u \in Senders(n) : m = Sent(n, u)
    BY <1>1
  <2>3. \A m : m \in InTransit(t)' <=> m \in net' /\ m.type = "migration" /\ m.txn = t
    BY DEF InTransit
  <2>4. \A m : m \in InTransit(t) <=> m \in net /\ m.type = "migration" /\ m.txn = t
    BY DEF InTransit
  <2>5. \A u \in Senders(n) : u \in Takers(n)
    BY <1>2
  <2>6. ASSUME NEW m
        PROVE  m \in InTransit(t)' <=>
                 \/ m \in InTransit(t)
                 \/ t \in Takers(n) /\ Taken(t).op = "migrate" /\ m = Sent(n, t)
    <3>1. ASSUME m \in InTransit(t)', m \notin InTransit(t)
          PROVE  t \in Takers(n) /\ Taken(t).op = "migrate" /\ m = Sent(n, t)
      <4>1. PICK u \in Senders(n) : m = Sent(n, u)
        BY <2>2, <2>3, <2>4, <3>1
      <4>2. u = t /\ Taken(u).op = "migrate"
        BY <1>4, <2>3, <3>1, <4>1
      <4> QED BY <2>5, <4>1, <4>2
    <3>2. ASSUME t \in Takers(n), Taken(t).op = "migrate", m = Sent(n, t)
          PROVE  m \in InTransit(t)'
      BY <1>4, <2>1, <2>2, <2>3, <3>2
    <3>3. m \in InTransit(t) => m \in InTransit(t)'
      BY <2>2, <2>3, <2>4
    <3> QED BY <3>1, <3>2, <3>3
  <2> QED BY <2>6
<1>10. ASSUME NEW t \in Takers(n)
       PROVE  TakesCommand(n, t)
  <2>1. t \in Txns
    BY <1>2
  <2>2. CASE Taken(t).op = "migrate"
    <3>1. t \in Deregistered(n) /\ t \in Senders(n)
      BY <2>2 DEF Deregistered, Senders
    <3> QED BY <1>3, <1>4, <1>6, <1>7, <1>8, <1>9, <2>1, <2>2, <3>1 DEF TakesCommand
  <2>3. CASE Taken(t).op = "complete"
    BY <1>3, <1>6, <1>7, <1>8, <1>9, <2>1, <2>3 DEF TakesCommand
  <2>4. CASE Taken(t).op \notin {"migrate", "complete"}
    <3>1. t \notin Deregistered(n)
      BY <2>4 DEF Deregistered
    <3> QED BY <1>3, <1>6, <1>7, <1>8, <1>9, <2>1, <2>4, <3>1 DEF TakesCommand
  <2> QED BY <2>2, <2>3, <2>4
<1>11. ASSUME NEW t \in Txns, t \notin Takers(n)
       PROVE  /\ yieldCh'[t] = yieldCh[t] /\ resumeCh'[t] = resumeCh[t]
              /\ Managers(t)' = Managers(t) /\ InTransit(t)' = InTransit(t)
  BY <1>2, <1>6, <1>7, <1>8, <1>9, <1>11
<1>12. yieldCh' = [t \in Txns |-> yieldCh'[t]] /\ resumeCh' = [t \in Txns |-> resumeCh'[t]]
  BY <1>1
<1>13. yieldCh' \in [Txns -> Seq(Yielded)] /\ resumeCh' \in [Txns -> Seq(Value)]
  BY <1>6, <1>7, <1>12
<1> QED BY <1>1, <1>5, <1>7, <1>10, <1>11, <1>13
\* Every step keeps the types (the fields of TxnContext and TxnManager).
LEMMA TypeStep == TypeInv /\ [Next]_vars => TypeInv'
<1> SUFFICES ASSUME TypeInv, [Next]_vars PROVE TypeInv'
  OBVIOUS
<1>1. CASE \E t \in Txns : Goroutine(t)
  BY <1>1, GoroutineTypes
<1>2. ASSUME NEW n \in Nodes, Collect(n)
      PROVE  TypeInv'
  <2>1. /\ net' \subseteq Message /\ active' \subseteq Txns
        /\ migrated' \in [Nodes -> SUBSET Txns]
        /\ UNCHANGED <<next, state, ctx>>
        /\ yieldCh' \in [Txns -> Seq(Yielded)] /\ resumeCh' \in [Txns -> Seq(Value)]
        /\ \A t \in Txns :
             /\ Len(resumeCh'[t]) <= ChannelSize
             /\ yieldCh'[t] = yieldCh[t] \/ (yieldCh[t] # <<>> /\ yieldCh'[t] = Tail(yieldCh[t]))
    BY <1>2, CollectTakes DEF TakesCommand
  <2>2. ASSUME NEW t \in Txns
        PROVE  /\ Len(yieldCh'[t]) <= ChannelSize
               /\ \A i \in DOMAIN yieldCh'[t] : yieldCh'[t][i].cmd \in DOMAIN Program[t]
    <3>1. CASE yieldCh'[t] = yieldCh[t]
      BY <3>1 DEF TypeInv
    <3>2. CASE yieldCh[t] # <<>> /\ yieldCh'[t] = Tail(yieldCh[t])
      <4>1. /\ Len(Tail(yieldCh[t])) = Len(yieldCh[t]) - 1 /\ Len(yieldCh[t]) \in Nat \ {0}
            /\ \A i \in DOMAIN Tail(yieldCh[t]) :
                  i + 1 \in DOMAIN yieldCh[t] /\ Tail(yieldCh[t])[i] = yieldCh[t][i + 1]
        BY <3>2, TailProps DEF TypeInv
      <4>2. Len(yieldCh[t]) <= ChannelSize
            /\ \A i \in DOMAIN yieldCh[t] : yieldCh[t][i].cmd \in DOMAIN Program[t]
        BY DEF TypeInv
      <4>3. Len(Tail(yieldCh[t])) <= ChannelSize
        BY <4>1, <4>2, TxnAssumption
      <4> QED BY <3>2, <4>1, <4>2, <4>3
    <3> QED BY <2>1, <3>1, <3>2
  <2> QED BY <2>1, <2>2 DEF TypeInv
<1>3. ASSUME NEW n \in Nodes, NEW m \in net, Route(n, m)
      PROVE  TypeInv'
  BY <1>3, RouteMoves, RouteResumes DEF TypeInv
<1>4. CASE UNCHANGED vars
  BY <1>4 DEF vars, goroutines, managers, TypeInv
<1> QED BY <1>1, <1>2, <1>3, <1>4 DEF Next, Manager, Idle

\* The transactions start in the types (Start).
LEMMA TypeInit == Init => TypeInv
<1> SUFFICES ASSUME Init PROVE TypeInv
  OBVIOUS
<1>1. ASSUME NEW t \in Txns
      PROVE  Len(Program[t]) \in Nat
  <2> DEFINE Command == [op : Ops, type : STRING, to : Nodes]
  <2>1. Program[t] \in Seq(Command)
    BY TxnAssumption
  <2> HIDE DEF Command
  <2> QED BY <2>1, LenProperties
<1>2. /\ <<>> \in Seq(Yielded) /\ <<>> \in Seq(Value) /\ Len(<<>>) = 0 /\ DOMAIN <<>> = {}
  BY EmptySeq
<1> QED BY <1>1, <1>2, TxnAssumption DEF Init, TypeInv

\* Every variable keeps its type, and no channel holds more than its size
\* (makes of yieldCh and resumeCh in Start, and the selects that send on them).
THEOREM TypeCorrect == Spec => []TypeOK
<1>1. TypeInv => TypeOK
  BY LenProperties DEF TypeInv, TypeOK
<1> QED BY <1>1, TypeInit, TypeStep, PTL DEF Spec
-----------------------------------------------------------------------------
(* One manager at a time.  A transaction that migrates has yielded every    *)
(* other command and its manager has taken them; it has no manager until   *)
(* the request arrives, and its MigrationResult is the only one it gets.   *)

Alive(t) == state[t] \in {"run", "yield"}

Migrates(t) == state[t] = "yield" /\ Program[t][next[t]].op = "migrate"

\* Its manager has taken the command.
Moving(t) == Migrates(t) /\ yieldCh[t] = <<>>

Settled(t) == \A i \in DOMAIN resumeCh[t] : resumeCh[t][i].kind # "migrated"

OneResult(t) ==
    \A i, j \in DOMAIN resumeCh[t] :
        resumeCh[t][i].kind = "migrated" /\ resumeCh[t][j].kind = "migrated" => i = j

Departed(t) ==
    /\ Managers(t) = {} /\ Settled(t)
    /\ \E m \in net : InTransit(t) = {m} /\ m.to = Program[t][next[t]].to

Arrived(t) ==
    /\ InTransit(t) = {} /\ Managers(t) = {Program[t][next[t]].to}
    /\ OneResult(t)

AtHome(t) == Managers(t) = {ctx[t]} /\ InTransit(t) = {} /\ Settled(t)

\* Whatever is still to be taken is taken where it was yielded.
Held(t) ==
    yieldCh[t] # <<>> =>
        /\ Managers(t) \subseteq {ctx[t]} /\ InTransit(t) = {}
        /\ \A i \in DOMAIN yieldCh[t] : yieldCh[t][i].at = ctx[t]

Placed(t) ==
    /\ Held(t)
    /\ Live(t) /\ ~Moving(t) => AtHome(t)
    /\ Moving(t) => Departed(t) \/ Arrived(t)

\* A migration or a completion is the last command in the channel, and the
\* goroutine waits for the migration, or has nothing left to execute.
LastOf(t, i) ==
    /\ Program[t][yieldCh[t][i].cmd].op = "migrate" =>
         /\ i = Len(yieldCh[t])
         /\ Alive(t) => state[t] = "yield" /\ next[t] = yieldCh[t][i].cmd
    /\ Program[t][yieldCh[t][i].cmd].op = "complete" =>
         /\ i = Len(yieldCh[t])
         /\ Alive(t) => next[t] \notin DOMAIN Program[t]

InOrder(t) ==
    /\ \A i \in DOMAIN yieldCh[t] : LastOf(t, i)
    /\ Migrates(t) /\ yieldCh[t] # <<>> =>
           yieldCh[t][Len(yieldCh[t])].cmd = next[t]

PlaceInv == \A t \in Txns : Placed(t) /\ InOrder(t)

\* No value but a MigrationResult says that a transaction has moved, and a
\* transaction that had none has at most one (the sends on resumeCh).
LEMMA ResultsAfter ==
    ASSUME NEW t \in Txns, resumeCh[t] \in Seq(Value), NEW K, Receives(t, K)
    PROVE  /\ "migrated" \notin K /\ Settled(t) => Settled(t)'
           /\ "migrated" \notin K /\ OneResult(t) => OneResult(t)'
           /\ Settled(t) => OneResult(t)'
<1>1. CASE resumeCh'[t] = resumeCh[t]
  BY <1>1 DEF Settled, OneResult
<1>2. ASSUME NEW v \in Value, v.kind \in K, resumeCh'[t] = Append(resumeCh[t], v)
      PROVE  /\ "migrated" \notin K /\ Settled(t) => Settled(t)'
             /\ "migrated" \notin K /\ OneResult(t) => OneResult(t)'
             /\ Settled(t) => OneResult(t)'
  <2> DEFINE r == resumeCh[t]
             q == resumeCh'[t]
  <2>1. /\ q \in Seq(Value) /\ Len(q) = Len(r) + 1 /\ q[Len(r) + 1] = v
        /\ \A i \in 1 .. Len(r) : q[i] = r[i]
    BY <1>2, AppendProperties
  <2>2. Len(r) \in Nat /\ DOMAIN r = 1 .. Len(r) /\ DOMAIN q = 1 .. Len(r) + 1
    BY <2>1, LenProperties
  <2>3. /\ Settled(t) <=> \A i \in DOMAIN r : r[i].kind # "migrated"
        /\ Settled(t)' <=> \A i \in DOMAIN q : q[i].kind # "migrated"
        /\ OneResult(t) <=> \A i, j \in DOMAIN r :
               r[i].kind = "migrated" /\ r[j].kind = "migrated" => i = j
        /\ OneResult(t)' <=> \A i, j \in DOMAIN q :
               q[i].kind = "migrated" /\ q[j].kind = "migrated" => i = j
    BY DEF Settled, OneResult
  <2> HIDE DEF r, q
  <2>4. \A i \in DOMAIN q : i = Len(r) + 1 \/ (i \in DOMAIN r /\ q[i] = r[i])
    BY <2>1, <2>2
  <2> QED BY <1>2, <2>1, <2>2, <2>3, <2>4
<1> QED BY <1>1, <1>2 DEF Receives

\* A step that changes nothing of a transaction but gives it a message or the
\* nil of SendAndWait leaves it where it is (the other transactions of a Tick).
LEMMA PlaceFrame ==
    ASSUME TypeInv, NEW t \in Txns, Placed(t), InOrder(t),
           next'[t] = next[t], state'[t] = state[t], ctx'[t] = ctx[t],
           yieldCh'[t] = yieldCh[t],
           Managers(t)' = Managers(t), InTransit(t)' = InTransit(t),
           NEW K, Receives(t, K), "migrated" \notin K
    PROVE  Placed(t)' /\ InOrder(t)'
<1>1. Settled(t) => Settled(t)'
  BY ResultsAfter DEF TypeInv
<1>2. OneResult(t) => OneResult(t)'
  BY ResultsAfter DEF TypeInv
<1>3. InOrder(t)'
  BY DEF InOrder, LastOf, Alive, Migrates
<1>4. Held(t)'
  BY DEF Placed, Held
<1>5. (Moving(t) <=> Moving(t)') /\ (Live(t) <=> Live(t)')
  BY DEF Moving, Migrates, Live
<1>6. AtHome(t) => AtHome(t)'
  BY <1>1 DEF AtHome
<1>7. Departed(t) => Departed(t)'
  <2>1. \A m : m \in InTransit(t)' => m \in net'
    BY DEF InTransit
  <2> QED BY <1>1, <2>1 DEF Departed
<1>8. Arrived(t) => Arrived(t)'
  BY <1>2 DEF Arrived
<1> QED BY <1>3, <1>4, <1>5, <1>6, <1>7, <1>8 DEF Placed
\* The manager that takes a command of t is the one where t yielded it; after a
\* migration it has none, after any other it stays (Tick, step 3).
LEMMA CommandTaken ==
    ASSUME TypeInv, NEW t \in Txns, Placed(t), InOrder(t),
           NEW n \in Nodes, TakesCommand(n, t), UNCHANGED <<next, state, ctx>>,
           net' \subseteq Message
    PROVE  Placed(t)' /\ InOrder(t)'
<1> DEFINE y == yieldCh[t]
           z == yieldCh'[t]
           op == Taken(t).op
<1>1. y \in Seq(Yielded) /\ y # <<>> /\ z = Tail(y)
  BY DEF TakesCommand, TypeInv
<1>2. /\ z \in Seq(Yielded) /\ Len(z) = Len(y) - 1 /\ Len(y) \in Nat \ {0}
      /\ Head(y) = y[1] /\ 1 \in DOMAIN y /\ y[1] \in Yielded
      /\ \A i \in DOMAIN z : i + 1 \in DOMAIN y /\ z[i] = y[i + 1]
  BY <1>1, TailProps
<1>3. DOMAIN z = 1 .. Len(z) /\ DOMAIN y = 1 .. Len(y)
  BY <1>1, <1>2, LenProperties
<1>4. /\ Managers(t) = {n} /\ ctx[t] = n /\ InTransit(t) = {}
      /\ \A i \in DOMAIN y : y[i].at = ctx[t]
  BY <1>1 DEF Placed, Held, TakesCommand
<1>5. op = Program[t][y[1].cmd].op
  BY <1>2 DEF Taken
<1>6. next'[t] = next[t] /\ state'[t] = state[t] /\ ctx'[t] = ctx[t]
  OBVIOUS
<1>7. \A i \in DOMAIN y : LastOf(t, i)
  BY DEF InOrder
<1>8. Migrates(t) => y[Len(y)].cmd = next[t]
  BY <1>1 DEF InOrder
<1>9. Settled(t) => Settled(t)'
  BY ResultsAfter DEF TypeInv, TakesCommand
<1>10. op \in {"migrate", "complete"} => z = <<>>
  <2>1. op \in {"migrate", "complete"} => Len(y) = 1
    BY <1>2, <1>5, <1>7 DEF LastOf
  <2>2. Len(z) = 0 => z = <<>>
    BY <1>2, EmptySeq
  <2> QED BY <1>2, <2>1, <2>2
<1>11. z = <<>> => DOMAIN z = {}
  BY EmptySeq
<1>12. Alive(t) /\ ~Moving(t) /\ (next[t] \in DOMAIN Program[t] \/ y # <<>>) => AtHome(t)
  BY DEF Placed, Live, Alive
<1>13. Alive(t) => AtHome(t)
  BY <1>1, <1>12 DEF Moving
<1>14. /\ Alive(t)' <=> Alive(t)
       /\ Migrates(t)' <=> Migrates(t)
       /\ Moving(t)' <=> Migrates(t) /\ z = <<>>
       /\ Live(t)' <=> Alive(t) /\ (next[t] \in DOMAIN Program[t] \/ z # <<>>)
  BY <1>6 DEF Alive, Migrates, Moving, Live
<1>15. Migrates(t) => Alive(t) /\ next[t] \in DOMAIN Program[t]
  BY DEF Migrates, Alive, TypeInv
<1>16. InOrder(t)'
  <2>1. ASSUME NEW i \in DOMAIN z
        PROVE  LastOf(t, i)'
    <3>1. i + 1 \in DOMAIN y /\ z[i] = y[i + 1] /\ (i + 1 = Len(y) <=> i = Len(z))
      BY <1>2, <1>3
    <3>2. LastOf(t, i + 1)
      BY <1>7, <3>1
    <3> QED BY <1>6, <1>14, <3>1, <3>2 DEF LastOf
  <2>2. Migrates(t) /\ z # <<>> => z[Len(z)].cmd = next[t]
    <3>1. z # <<>> => Len(z) \in DOMAIN z /\ Len(z) + 1 = Len(y)
      BY <1>2, <1>3, EmptySeq
    <3> QED BY <1>2, <1>8, <3>1
  <2> QED BY <1>6, <1>14, <2>1, <2>2 DEF InOrder
<1>17. CASE op = "migrate"
  <2>1. z = <<>>
    BY <1>10, <1>17
  <2>2. PICK m \in Message : m.to = Taken(t).to /\ InTransit(t)' = InTransit(t) \union {m}
    BY <1>17 DEF TakesCommand
  <2>3. /\ Managers(t)' = {} /\ InTransit(t)' = {m} /\ m \in net'
    BY <1>4, <1>17, <2>2 DEF TakesCommand, InTransit
  <2>4. Alive(t) => /\ state[t] = "yield" /\ next[t] = y[1].cmd /\ Migrates(t)
                    /\ Taken(t) = Program[t][next[t]]
    BY <1>2, <1>5, <1>7, <1>17 DEF LastOf, Migrates, Taken
  <2>5. Alive(t) => Departed(t)'
    BY <1>6, <1>9, <1>13, <2>2, <2>3, <2>4 DEF Departed, AtHome
  <2> QED BY <1>14, <1>15, <1>16, <2>1, <2>4, <2>5 DEF Placed, Held
<1>18. CASE op = "complete"
  <2>1. z = <<>>
    BY <1>10, <1>18
  <2>2. Alive(t) => next[t] \notin DOMAIN Program[t]
    BY <1>2, <1>5, <1>7, <1>18 DEF LastOf
  <2>3. ~Live(t)' /\ ~Moving(t)'
    BY <1>14, <1>15, <2>1, <2>2
  <2>4. Held(t)'
    BY <2>1 DEF Held
  <2> QED BY <1>16, <2>3, <2>4 DEF Placed
<1>19. CASE op \notin {"migrate", "complete"}
  <2>1. Managers(t)' = Managers(t) /\ InTransit(t)' = InTransit(t)
    BY <1>19 DEF TakesCommand
  <2>2. ~Moving(t)'
    <3>1. SUFFICES ASSUME Migrates(t), z = <<>> PROVE FALSE
      BY <1>14
    <3>2. Len(y) = 1
      BY <1>2, <3>1, EmptySeq
    <3>3. op = Program[t][next[t]].op
      BY <1>5, <1>8, <3>1, <3>2
    <3> QED BY <1>19, <3>1, <3>3 DEF Migrates
  <2>3. \A i \in DOMAIN z : z[i].at = ctx[t]
    BY <1>2, <1>4
  <2>4. Held(t)'
    BY <1>4, <1>6, <2>1, <2>3 DEF Held
  <2>5. Live(t)' => AtHome(t)'
    BY <1>6, <1>9, <1>13, <1>14, <2>1 DEF AtHome
  <2> QED BY <1>16, <2>2, <2>4, <2>5 DEF Placed
<1> QED BY <1>17, <1>18, <1>19

\* The transaction of a migration request is on its way, so that the node that
\* receives it is the only manager from then on (handleMigration).
LEMMA RequestArrives ==
    ASSUME TypeInv, NEW t \in Txns, Placed(t), InOrder(t),
           NEW n \in Nodes, NEW m \in net, Route(n, m),
           m.type = "migration", m.txn = t
    PROVE  Placed(t)' /\ InOrder(t)'
<1>1. /\ UNCHANGED <<next, state, ctx, yieldCh>> /\ m.to = n
      /\ InTransit(t)' = InTransit(t) \ {m} /\ Managers(t)' = Managers(t) \union {n}
  BY RouteMoves
<1>2. m \in InTransit(t)
  BY DEF InTransit
<1>3. yieldCh[t] = <<>>
  BY <1>2 DEF Placed, Held
<1>4. InOrder(t)'
  BY <1>1 DEF InOrder, LastOf, Alive, Migrates
<1>5. Held(t)'
  BY <1>1, <1>3 DEF Held
<1>6. (Live(t)' <=> Live(t)) /\ (Moving(t)' <=> Moving(t))
  BY <1>1 DEF Live, Moving, Migrates
<1>7. ~(Live(t) /\ ~Moving(t))
  BY <1>2 DEF Placed, AtHome
<1>8. Moving(t) => Departed(t)
  BY <1>2 DEF Placed, Arrived
<1>9. Departed(t) => Arrived(t)'
  <2>1. Settled(t) => OneResult(t)'
    BY RouteResumes, ResultsAfter DEF TypeInv
  <2>2. SUFFICES ASSUME Departed(t) PROVE Arrived(t)'
    OBVIOUS
  <2>3. InTransit(t) = {m} /\ n = Program[t][next[t]].to /\ Managers(t) = {} /\ Settled(t)
    BY <1>1, <1>2, <2>2 DEF Departed
  <2> QED BY <1>1, <2>1, <2>3 DEF Arrived
<1> QED BY <1>4, <1>5, <1>6, <1>7, <1>8, <1>9 DEF Placed
\* What t yields is yielded where it is managed, and nothing is yielded after a
\* command that moves or ends it (Yield and the calls of TxnContext).
LEMMA YieldPlaced ==
    ASSUME TypeInv, NEW t \in Txns, Placed(t), InOrder(t), Yield(t)
    PROVE  Placed(t)' /\ InOrder(t)'
<1>1. /\ state[t] = "run" /\ next[t] \in DOMAIN Program[t]
      /\ UNCHANGED <<ctx, active, migrated, net, resumeCh>>
  BY DEF Yield, managers
<1>2. Managers(t)' = Managers(t) /\ InTransit(t)' = InTransit(t)
  BY <1>1 DEF Managers, Registered, InTransit
<1>3. ~Moving(t) /\ ~Migrates(t) /\ Live(t) /\ Alive(t)
  BY <1>1 DEF Moving, Migrates, Live, Alive
<1>4. AtHome(t) /\ AtHome(t)'
  BY <1>1, <1>2, <1>3 DEF Placed, AtHome, Settled
<1>5. CASE Room(t)
  <2> DEFINE e == [cmd |-> next[t], at |-> ctx[t]]
             y == yieldCh[t]
             z == yieldCh'[t]
             op == Program[t][next[t]].op
  <2>1. z = Append(y, e) /\ y \in Seq(Yielded)
    BY <1>5 DEF Yield, TypeInv
  <2>2. e \in Yielded /\ e.cmd = next[t] /\ e.at = ctx[t]
    BY <1>1, CommandType DEF Yielded, TypeInv
  <2> HIDE DEF e
  <2>3. /\ z \in Seq(Yielded) /\ z # <<>> /\ Len(z) = Len(y) + 1 /\ z[Len(z)] = e
        /\ \A i \in 1 .. Len(y) : z[i] = y[i]
    BY <2>1, <2>2, AppendProperties
  <2>4. Len(y) \in Nat /\ DOMAIN y = 1 .. Len(y) /\ DOMAIN z = 1 .. Len(z)
    BY <2>1, <2>3, LenProperties
  <2>5. \A i \in DOMAIN y : y[i].at = ctx[t]
    BY <1>4, <2>4, EmptySeq DEF Placed, Held
  <2>6. \/ /\ Blocks(op) /\ state'[t] = "yield" /\ next'[t] = next[t]
        \/ /\ ~Blocks(op) /\ state'[t] = "run" /\ next'[t] = next[t] + 1
    BY <1>1, <1>5 DEF Yield, TypeInv
  <2>7. \A i \in DOMAIN z : (i = Len(z) /\ z[i] = e) \/ (i \in DOMAIN y /\ z[i] = y[i])
    BY <2>3, <2>4
  <2>8. Held(t)'
    BY <1>1, <1>4, <2>2, <2>5, <2>7 DEF Held, AtHome
  <2>9. \A i \in DOMAIN y : Program[t][y[i].cmd].op \notin {"migrate", "complete"}
    BY <1>1, <1>3 DEF InOrder, LastOf
  <2>10. ASSUME NEW i \in DOMAIN z
         PROVE  LastOf(t, i)'
    <3>1. CASE i \in DOMAIN y /\ z[i] = y[i]
      <4>1. Program[t][z[i].cmd].op \notin {"migrate", "complete"}
        BY <2>9, <3>1
      <4> QED BY <4>1 DEF LastOf
    <3>2. CASE i = Len(z) /\ z[i] = e
      <4>1. z[i].cmd = next[t]
        BY <2>2, <3>2
      <4>2. op = "migrate" => state'[t] = "yield" /\ next'[t] = next[t]
        BY <2>6 DEF Blocks
      <4>3. op = "complete" => next'[t] \notin DOMAIN Program[t]
        <5>1. op = "complete" => next'[t] = next[t] + 1
          BY <2>6 DEF Blocks
        <5>2. op = "complete" => next[t] = Len(Program[t])
          BY <1>1, TxnAssumption
        <5> QED BY <1>1, <5>1, <5>2, CommandType
      <4> QED BY <3>2, <4>1, <4>2, <4>3 DEF LastOf
    <3> QED BY <2>7, <3>1, <3>2
  <2>11. Migrates(t)' => z[Len(z)].cmd = next'[t]
    BY <2>2, <2>3, <2>6 DEF Migrates
  <2>12. ~Moving(t)'
    BY <2>3 DEF Moving
  <2> QED BY <1>4, <2>8, <2>10, <2>11, <2>12 DEF Placed, InOrder
<1>6. CASE ~Room(t)
  <2>1. state'[t] = "failed" /\ next' = next /\ yieldCh' = yieldCh
    BY <1>6 DEF Yield, TypeInv
  <2>2. ~Alive(t)' /\ ~Migrates(t)' /\ ~Moving(t)' /\ ~Live(t)'
    BY <2>1 DEF Alive, Migrates, Moving, Live
  <2>3. Held(t)'
    BY <1>1, <1>2, <2>1 DEF Placed, Held
  <2>4. \A i \in DOMAIN yieldCh'[t] : LastOf(t, i)'
    BY <2>1, <2>2 DEF InOrder, LastOf
  <2> QED BY <2>2, <2>3, <2>4 DEF Placed, InOrder
<1> QED BY <1>5, <1>6

\* A transaction goes on only with a value for what it waits for: it is on the
\* node it asked to move to when MigrateTo returns (MigrateTo, SendAndWait).
LEMMA ResumePlaced ==
    ASSUME TypeInv, NEW t \in Txns, Placed(t), InOrder(t), Resume(t)
    PROVE  Placed(t)' /\ InOrder(t)'
<1> DEFINE c == Program[t][next[t]]
           r == resumeCh[t]
           q == resumeCh'[t]
           moved == Arrives(t, Head(r))
<1>1. /\ state[t] = "yield" /\ r # <<>> /\ r \in Seq(Value)
      /\ UNCHANGED <<yieldCh, active, migrated, net>>
      /\ q = Tail(r)
  BY DEF Resume, managers, TypeInv
<1>2. /\ Head(r) = r[1] /\ 1 \in DOMAIN r
      /\ \A i \in DOMAIN q : i + 1 \in DOMAIN r /\ q[i] = r[i + 1]
  BY <1>1, TailProps
<1>3. next[t] \in DOMAIN Program[t] /\ c.to \in Nodes
  BY <1>1, CommandType DEF TypeInv
<1>4. ctx'[t] = IF moved THEN c.to ELSE ctx[t]
  BY <1>3 DEF Resume, TypeInv
<1>5. /\ state'[t] \in {"run", "panic", "failed"}
      /\ state'[t] = "run" => moved \/ c.op # "migrate"
  BY <1>1 DEF Resume, TypeInv, Arrives
<1>6. Managers(t)' = Managers(t) /\ InTransit(t)' = InTransit(t)
  BY <1>1 DEF Managers, Registered, InTransit
<1>7. /\ moved <=> c.op = "migrate" /\ r[1].kind = "migrated"
      /\ Migrates(t) <=> c.op = "migrate"
      /\ Live(t) /\ Alive(t)
  BY <1>1, <1>2, <1>3 DEF Arrives, Migrates, Live, Alive
<1> HIDE DEF moved
<1>8. ~Moving(t)' /\ ~Migrates(t)' /\ (Live(t)' => state'[t] = "run")
  BY <1>5 DEF Moving, Migrates, Live
<1>9. ~(\E i \in DOMAIN q : q[i].kind = "migrated" /\ Settled(t))
  BY <1>2 DEF Settled
<1>10. CASE moved
  <2>1. Arrived(t) /\ yieldCh[t] = <<>>
    BY <1>2, <1>7, <1>10 DEF Placed, AtHome, Departed, Settled, Moving
  <2>2. \A i \in DOMAIN q : q[i].kind # "migrated"
    <3>1. SUFFICES ASSUME NEW i \in DOMAIN q, q[i].kind = "migrated" PROVE FALSE
      OBVIOUS
    <3>2. i + 1 \in DOMAIN r /\ r[i + 1].kind = "migrated" /\ r[1].kind = "migrated"
      BY <1>2, <1>7, <1>10, <3>1
    <3>3. i + 1 = 1
      BY <1>2, <2>1, <3>2 DEF Arrived, OneResult
    <3>4. q \in Seq(Value) /\ i \in 1 .. Len(q)
      BY <1>1, HeadTailProperties, LenProperties
    <3> QED BY <3>3, <3>4
  <2>3. AtHome(t)'
    BY <1>4, <1>6, <1>10, <2>1, <2>2 DEF AtHome, Arrived, Settled
  <2>4. yieldCh'[t] = <<>> /\ DOMAIN yieldCh'[t] = {}
    BY <1>1, <2>1
  <2> QED BY <1>8, <2>3, <2>4 DEF Placed, Held, InOrder
<1>11. CASE ~moved
  <2>1. Held(t)'
    BY <1>1, <1>4, <1>6, <1>11 DEF Placed, Held
  <2>2. Live(t)' => AtHome(t)'
    <3>1. SUFFICES ASSUME state'[t] = "run" PROVE AtHome(t)'
      BY <1>8
    <3>2. ~Moving(t)
      BY <1>5, <1>7, <1>11, <3>1 DEF Moving
    <3>3. AtHome(t)
      BY <1>7, <3>2 DEF Placed
    <3> QED BY <1>4, <1>6, <1>9, <1>11, <3>3 DEF AtHome, Settled
  <2>3. ASSUME NEW i \in DOMAIN yieldCh[t]
        PROVE  LastOf(t, i)'
    <3>1. LastOf(t, i) /\ yieldCh' = yieldCh
      BY <1>1 DEF InOrder
    <3>2. Program[t][yieldCh[t][i].cmd].op = "migrate" => ~Alive(t)'
      <4>1. SUFFICES ASSUME Program[t][yieldCh[t][i].cmd].op = "migrate"
                     PROVE  state'[t] # "run"
        BY <1>5 DEF Alive
      <4>2. c.op = "migrate"
        BY <1>7, <3>1, <4>1 DEF LastOf
      <4> QED BY <1>5, <1>11, <4>2
    <3>3. Program[t][yieldCh[t][i].cmd].op # "complete"
      BY <1>3, <1>7, <3>1 DEF LastOf
    <3> QED BY <3>1, <3>2, <3>3 DEF LastOf
  <2> QED BY <1>1, <1>8, <2>1, <2>2, <2>3 DEF Placed, InOrder
<1> QED BY <1>10, <1>11

\* A transaction that times out or returns yields nothing any more, and is
\* managed by no other node than before (Yield's timeout, the cleanup of Start).
LEMMA EndPlaced ==
    ASSUME TypeInv, NEW t \in Txns, Placed(t), InOrder(t), Timeout(t) \/ Exit(t)
    PROVE  Placed(t)' /\ InOrder(t)'
<1>1. /\ UNCHANGED <<next, ctx, migrated, net, yieldCh>>
      /\ active' \subseteq active /\ state'[t] \in {"failed", "exited"}
  BY DEF Timeout, Exit, managers, TypeInv
<1>2. Managers(t)' \subseteq Managers(t) /\ InTransit(t)' = InTransit(t)
  BY <1>1 DEF Managers, Registered, InTransit
<1>3. ~Alive(t)' /\ ~Migrates(t)' /\ ~Moving(t)' /\ ~Live(t)'
  BY <1>1 DEF Alive, Migrates, Moving, Live
<1>4. Held(t)'
  BY <1>1, <1>2 DEF Placed, Held
<1>5. \A i \in DOMAIN yieldCh'[t] : LastOf(t, i)'
  BY <1>1, <1>3 DEF InOrder, LastOf
<1> QED BY <1>3, <1>4, <1>5 DEF Placed, InOrder
\* A step of one goroutine changes nothing of the other transactions (each has
\* its own TxnContext and channels).
LEMMA OthersUntouched ==
    ASSUME TypeInv, NEW t \in Txns, Goroutine(t), NEW u \in Txns, u # t
    PROVE  /\ next'[u] = next[u] /\ state'[u] = state[u] /\ ctx'[u] = ctx[u]
           /\ yieldCh'[u] = yieldCh[u] /\ resumeCh'[u] = resumeCh[u]
           /\ Managers(u)' = Managers(u) /\ InTransit(u)' = InTransit(u)
<1>1. /\ next'[u] = next[u] /\ state'[u] = state[u] /\ ctx'[u] = ctx[u]
      /\ yieldCh'[u] = yieldCh[u] /\ resumeCh'[u] = resumeCh[u]
  <2>1. CASE Yield(t)
    BY <2>1 DEF Yield, TypeInv
  <2>2. CASE Resume(t)
    BY <2>2 DEF Resume, TypeInv
  <2>3. CASE Timeout(t) \/ Exit(t)
    BY <2>3 DEF Timeout, Exit, TypeInv
  <2> QED BY <2>1, <2>2, <2>3 DEF Goroutine
<1>2. /\ migrated' = migrated /\ net' = net
      /\ active' = active \/ active' = active \ {t}
  BY DEF Goroutine, Yield, Resume, Timeout, Exit, managers
<1> QED BY <1>1, <1>2 DEF Managers, Registered, InTransit

\* Every step keeps each transaction in its place and its commands in order.
LEMMA PlaceStep == TypeInv /\ PlaceInv /\ [Next]_vars => PlaceInv'
<1> SUFFICES ASSUME TypeInv, PlaceInv, [Next]_vars, NEW u \in Txns
             PROVE  Placed(u)' /\ InOrder(u)'
  BY DEF PlaceInv
<1>1. Placed(u) /\ InOrder(u)
  BY DEF PlaceInv
<1>2. resumeCh'[u] = resumeCh[u] => Receives(u, {"message"})
  BY DEF Receives
<1>3. ASSUME NEW t \in Txns, Goroutine(t)
      PROVE  Placed(u)' /\ InOrder(u)'
  <2>1. CASE u = t
    BY <1>1, <1>3, <2>1, YieldPlaced, ResumePlaced, EndPlaced DEF Goroutine
  <2>2. CASE u # t
    BY <1>1, <1>2, <1>3, <2>2, OthersUntouched, PlaceFrame
  <2> QED BY <2>1, <2>2
<1>4. ASSUME NEW n \in Nodes, Collect(n)
      PROVE  Placed(u)' /\ InOrder(u)'
  <2>1. UNCHANGED <<next, state, ctx>> /\ net' \subseteq Message
    BY <1>4, CollectTakes
  <2>2. CASE TakesCommand(n, u)
    BY <1>1, <2>1, <2>2, CommandTaken
  <2>3. CASE /\ yieldCh'[u] = yieldCh[u] /\ resumeCh'[u] = resumeCh[u]
             /\ Managers(u)' = Managers(u) /\ InTransit(u)' = InTransit(u)
    BY <1>1, <1>2, <2>1, <2>3, PlaceFrame
  <2> QED BY <1>4, <2>2, <2>3, CollectTakes
<1>5. ASSUME NEW n \in Nodes, NEW m \in net, Route(n, m)
      PROVE  Placed(u)' /\ InOrder(u)'
  <2>1. CASE m.type = "migration" /\ m.txn = u
    BY <1>1, <1>5, <2>1, RequestArrives
  <2>2. CASE ~(m.type = "migration" /\ m.txn = u)
    <3>1. /\ UNCHANGED <<next, state, ctx, yieldCh>>
          /\ Managers(u)' = Managers(u) /\ InTransit(u)' = InTransit(u) \ {m}
      BY <1>5, <2>2, RouteMoves
    <3>2. m \notin InTransit(u)
      BY <2>2 DEF InTransit
    <3>3. Receives(u, {"message"})
      BY <1>5, <2>2, RouteResumes
    <3>4. InTransit(u)' = InTransit(u)
      BY <3>1, <3>2
    <3> QED BY <1>1, <3>1, <3>3, <3>4, PlaceFrame
  <2> QED BY <2>1, <2>2
<1>6. CASE UNCHANGED vars
  <2>1. /\ UNCHANGED <<next, state, ctx, yieldCh, resumeCh, active, migrated, net>>
    BY <1>6 DEF vars, goroutines, managers
  <2>2. Managers(u)' = Managers(u) /\ InTransit(u)' = InTransit(u)
    BY <2>1 DEF Managers, Registered, InTransit
  <2> QED BY <1>1, <1>2, <2>1, <2>2, PlaceFrame
<1> QED BY <1>3, <1>4, <1>5, <1>6 DEF Next, Manager, Idle

\* A transaction is started on the node that manages it (Start).
LEMMA PlaceInit == Init => PlaceInv
<1> SUFFICES ASSUME Init, NEW t \in Txns PROVE Placed(t) /\ InOrder(t)
  BY DEF PlaceInv
<1>1. /\ yieldCh[t] = <<>> /\ resumeCh[t] = <<>> /\ state[t] = "run" /\ ctx[t] = Origin[t]
      /\ Origin[t] \in Nodes /\ InTransit(t) = {}
  BY TxnAssumption DEF Init, InTransit
<1>2. Managers(t) = {Origin[t]}
  BY <1>1 DEF Init, Managers, Registered
<1>3. DOMAIN <<>> = {}
  BY EmptySeq
<1> QED BY <1>1, <1>2, <1>3 DEF Placed, InOrder, Held, AtHome, Settled, Moving, Migrates

\* The place of each transaction says who manages it.
LEMMA PlacedManagedOnce == TypeInv /\ PlaceInv => ManagedOnce
<1> SUFFICES ASSUME TypeInv, PlaceInv PROVE ManagedOnce
  OBVIOUS
<1>1. ASSUME NEW t \in Txns, Live(t)
      PROVE  \/ InTransit(t) = {} /\ \E n \in Nodes : Managers(t) = {n}
             \/ Managers(t) = {} /\ \E m \in net : InTransit(t) = {m}
  <2>1. CASE ~Moving(t)
    <3>1. AtHome(t) /\ ctx[t] \in Nodes
      BY <1>1, <2>1 DEF PlaceInv, Placed, TypeInv
    <3> QED BY <3>1 DEF AtHome
  <2>2. CASE Moving(t)
    <3>1. Program[t][next[t]].to \in Nodes
      BY <2>2, CommandType DEF Moving, Migrates, TypeInv
    <3> QED BY <2>2, <3>1 DEF PlaceInv, Placed, Departed, Arrived
  <2> QED BY <2>1, <2>2
<1>2. ASSUME NEW n \in Nodes, NEW t \in Takers(n)
      PROVE  Head(yieldCh[t]).at = n
  <2>1. t \in Txns /\ yieldCh[t] # <<>> /\ n \in Managers(t)
    BY DEF Takers, Registered, Managers, TypeInv
  <2>2. Head(yieldCh[t]) = yieldCh[t][1] /\ 1 \in DOMAIN yieldCh[t]
    BY <2>1, TailProps DEF TypeInv
  <2> QED BY <2>1, <2>2 DEF PlaceInv, Placed, Held
<1> QED BY <1>1, <1>2 DEF ManagedOnce

\* For any programs, nodes and interleavings of Ticks: a live transaction has
\* exactly one manager, or none and one migration request on its way, and a
\* manager takes only commands that were yielded on its node (MigrateTo, Tick,
\* handleMigration).
THEOREM OneManager == Spec => []ManagedOnce
BY TypeInit, PlaceInit, TypeStep, PlaceStep, PlacedManagedOnce, PTL DEF Spec
=============================================================================
