----------------------------- MODULE TxnManager -----------------------------
(***************************************************************************)
(* TxnManager (internal/dataflow/transaction): transactions are goroutines *)
(* that yield commands to the manager of the node they are on, and managers*)
(* that take one command of each transaction per Tick, route the incoming  *)
(* messages to the transactions that wait for them and hand transactions   *)
(* over to one another.                                                    *)
(*                                                                         *)
(* What a transaction does is its program, a sequence of commands.  A      *)
(* message is described by its type, the transaction it belongs to and the *)
(* command that sent it.  Between two nodes messages may overtake one      *)
(* another; a node that receives a request answers it.                     *)
(***************************************************************************)
EXTENDS Integers, Sequences

CONSTANTS
    Nodes,
    Txns,
    Origin,        \* the node on which each transaction is started
    Program,       \* the commands of each transaction: [op, type, to]
    Reply,         \* Reply[type]: what the receiver of a message answers
    NoReply,       \*   or NoReply
    ChannelSize    \* of yieldCh and resumeCh (10 in Start)

Ops == {"send", "sendAndWait", "wait", "migrate", "complete"}

\* Complete is the last yield of every flow that has one, and the type of a
\* migration request (-1) is that of no message.
ASSUME TxnAssumption ==
    /\ Origin \in [Txns -> Nodes]
    /\ \A t \in Txns : Program[t] \in Seq([op : Ops, type : STRING, to : Nodes])
    /\ \A t \in Txns : \A k \in DOMAIN Program[t] :
           /\ Program[t][k].op = "complete" => k = Len(Program[t])
           /\ Program[t][k].op \in {"send", "sendAndWait"} =>
                  Program[t][k].type \in DOMAIN Reply
    /\ \A type \in DOMAIN Reply : Reply[type] \in DOMAIN Reply \union {NoReply}
    /\ "migration" \notin DOMAIN Reply
    /\ ChannelSize \in Nat \ {0}

VARIABLES
    next,       \* the command each goroutine executes next
    state,      \* "run", "yield" (blocked), "failed", "panic" or "exited"
    ctx,        \* the node of its TxnContext
    yieldCh,    \* commands yielded and not yet taken: [cmd, at]
    resumeCh,   \* values not yet received: [kind, txn], see Value
    active,     \* activeTxns, over all nodes: t is in that of Origin[t]
    migrated,   \* migratedTxns of each node
    waiting,    \* waiting[n][t]: the type t waits for at n, or "none"
    net         \* messages on their way

goroutines == <<next, state, ctx>>
managers   == <<active, migrated, waiting, net>>
vars       == <<goroutines, managers, yieldCh, resumeCh>>

\* What is received from resumeCh: a message (of txn), the nil that answers
\* SendAndWait, or a MigrationResult.
Value == [kind : {"message", "nil", "migrated"}, txn : Txns]

Init ==
    /\ next = [t \in Txns |-> 1]
    /\ state = [t \in Txns |-> "run"]
    /\ ctx = Origin
    /\ yieldCh = [t \in Txns |-> <<>>] /\ resumeCh = [t \in Txns |-> <<>>]
    /\ active = Txns
    /\ migrated = [n \in Nodes |-> {}]
    /\ waiting = [n \in Nodes |-> [t \in Txns |-> "none"]]
    /\ net = {}

-----------------------------------------------------------------------------
(* The goroutine of a transaction (TxnContext).                            *)

\* Fault: the send on yieldCh never fails.
RoomForever(t) == TRUE

Room(t) == Len(yieldCh[t]) < ChannelSize

\* Send and Complete go on at once; SendAndWait, Yield and MigrateTo block
\* until a value comes.
Blocks(op) == op \in {"wait", "migrate", "sendAndWait"}

\* Every command fails when yieldCh is full.
Yield(t) ==
    /\ state[t] = "run" /\ next[t] \in DOMAIN Program[t]
    /\ \/ /\ Room(t)
          /\ yieldCh' = [yieldCh EXCEPT ![t] =
                 Append(@, [cmd |-> next[t], at |-> ctx[t]])]
          /\ IF Blocks(Program[t][next[t]].op)
             THEN state' = [state EXCEPT ![t] = "yield"] /\ next' = next
             ELSE next' = [next EXCEPT ![t] = @ + 1] /\ state' = state
       \/ /\ ~Room(t)
          /\ state' = [state EXCEPT ![t] = "failed"]
          /\ UNCHANGED <<yieldCh, next>>
    /\ UNCHANGED <<ctx, managers, resumeCh>>

\* MigrateTo takes no other value than a MigrationResult.
Arrives(t, value) == Program[t][next[t]].op = "migrate" /\ value.kind = "migrated"

\* A value arrives: MigrateTo checks it, a wait asserts that it is a message,
\* SendAndWait ignores it.
Resume(t) ==
    /\ state[t] = "yield" /\ resumeCh[t] # <<>>
    /\ LET c     == Program[t][next[t]]
           value == Head(resumeCh[t])
           ok    == \/ c.op = "sendAndWait"
                    \/ c.op = "wait" /\ value.kind = "message"
                    \/ Arrives(t, value)
       IN  /\ ctx' = IF Arrives(t, value) THEN [ctx EXCEPT ![t] = c.to] ELSE ctx
           /\ state' = [state EXCEPT ![t] = IF ok THEN "run"
                                            ELSE IF c.op = "wait" THEN "panic"
                                            ELSE "failed"]
           /\ next' = IF ok THEN [next EXCEPT ![t] = @ + 1] ELSE next
    /\ resumeCh' = [resumeCh EXCEPT ![t] = Tail(@)]
    /\ UNCHANGED <<managers, yieldCh>>

\* Every wait of the program has a Timeout, which may also fire when the value
\* is already there.
Timeout(t) ==
    /\ state[t] = "yield" /\ Program[t][next[t]].op = "wait"
    /\ state' = [state EXCEPT ![t] = "failed"]
    /\ UNCHANGED <<next, ctx, managers, yieldCh, resumeCh>>

\* The function returns, with or without an error; the deferred cleanup of
\* Start removes the transaction from activeTxns of its origin.
Exit(t) ==
    /\ \/ state[t] = "run" /\ next[t] \notin DOMAIN Program[t]
       \/ state[t] = "failed"
    /\ state' = [state EXCEPT ![t] = "exited"]
    /\ active' = active \ {t}
    /\ UNCHANGED <<next, ctx, migrated, waiting, net, yieldCh, resumeCh>>

Goroutine(t) == Yield(t) \/ Resume(t) \/ Timeout(t) \/ Exit(t)

-----------------------------------------------------------------------------
(* The manager of a node.  A Tick routes every incoming message and then    *)
(* takes one command of every transaction; goroutines run at any time, so  *)
(* each message and the collection are steps of their own.                 *)

Registered(n) == {t \in active : Origin[t] = n} \union migrated[n]

\* The transactions whose next command n can take, and that command.
Takers(n) == {t \in Registered(n) : yieldCh[t] # <<>>}
Taken(t)  == Program[t][Head(yieldCh[t]).cmd]

\* routeMessage: every transaction that waits for the type, whatever
\* transaction the message belongs to.
Resumed(n, m) ==
    {t \in Registered(n) : waiting[n][t] = m.type /\ Len(resumeCh[t]) < ChannelSize}

\* Fault: a transaction that migrates away stays registered where it was.
DropsCompleted(n) == {t \in Takers(n) : t \notin active /\ Taken(t).op = "complete"}

\* Fault: Complete leaves a migrated transaction registered.
DropsMigrated(n) == {t \in Takers(n) : Taken(t).op = "migrate"}

\* A transaction that migrates away is forgotten, and so is a migrated one
\* that completes; a local one stays until its goroutine exits.
Deregistered(n) ==
    {t \in Takers(n) : \/ Taken(t).op = "migrate"
                       \/ Taken(t).op = "complete" /\ t \notin active}

\* Only SendAndWait is answered by the manager itself.
Nil(t) ==
    IF Taken(t).op = "sendAndWait" THEN <<[kind |-> "nil", txn |-> t]>> ELSE <<>>

Sent(n, t) ==
    [type |-> IF Taken(t).op = "migrate" THEN "migration" ELSE Taken(t).type,
     from |-> n, to |-> Taken(t).to, txn |-> t, cmd |-> Head(yieldCh[t]).cmd]

Senders(n) == {t \in Takers(n) : Taken(t).op \in {"send", "sendAndWait", "migrate"}}

\* What the handler of the node answers to an incoming request.
Replies(m) ==
    IF m.type = "migration" \/ Reply[m.type] = NoReply THEN {}
    ELSE {[m EXCEPT !.type = Reply[m.type], !.from = m.to, !.to = m.from]}

\* Fault: a migration request resumes nobody.
NoValue(t) == <<>>

MigrationResult(t) == <<[kind |-> "migrated", txn |-> t]>>

\* Sends on resumeCh are non-blocking: a value that finds it full is dropped.
Put(channel, values) ==
    IF values # <<>> /\ Len(channel) < ChannelSize THEN channel \o values ELSE channel

\* Step 1 of Tick, for one incoming message.
Route(n, m) ==
    LET migrates == m.type = "migration"
        resumed  == IF migrates THEN {m.txn} ELSE Resumed(n, m)
        value(t) == IF migrates THEN MigrationResult(t)
                    ELSE <<[kind |-> "message", txn |-> m.txn]>>
    IN  /\ m \in net /\ m.to = n
        /\ net' = (net \ {m}) \union Replies(m)
        /\ resumeCh' = [t \in Txns |-> IF t \in resumed THEN Put(resumeCh[t], value(t))
                                       ELSE resumeCh[t]]
        /\ waiting' = [waiting EXCEPT ![n] =
               [t \in Txns |-> IF t \in resumed THEN "none" ELSE @[t]]]
        /\ migrated' = IF migrates THEN [migrated EXCEPT ![n] = @ \union {m.txn}]
                       ELSE migrated
        /\ UNCHANGED <<goroutines, active, yieldCh>>

\* Steps 2 and 3: the next command of every registered transaction.
Collect(n) ==
    /\ Takers(n) # {}
    /\ net' = net \union {Sent(n, t) : t \in Senders(n)}
    /\ resumeCh' = [t \in Txns |-> IF t \in Takers(n) THEN Put(resumeCh[t], Nil(t))
                                   ELSE resumeCh[t]]
    /\ waiting' = [waiting EXCEPT ![n] = [t \in Txns |->
           IF t \in Takers(n) /\ Taken(t).op = "wait" THEN Taken(t).type ELSE @[t]]]
    /\ active' = active \ {t \in Deregistered(n) : Origin[t] = n}
    /\ migrated' = [migrated EXCEPT ![n] = @ \ Deregistered(n)]
    /\ yieldCh' = [t \in Txns |-> IF t \in Takers(n) THEN Tail(yieldCh[t])
                                  ELSE yieldCh[t]]
    /\ UNCHANGED goroutines

Manager(n) == Collect(n) \/ \E m \in net : Route(n, m)

-----------------------------------------------------------------------------
\* Ticks of nodes without messages and commands go on.
Idle ==
    /\ net = {} /\ \A n \in Nodes : Takers(n) = {}
    /\ UNCHANGED vars

Next == (\E t \in Txns : Goroutine(t)) \/ (\E n \in Nodes : Manager(n)) \/ Idle

\* Goroutines and nodes run for ever; a timer that was started fires.
Spec == Init /\ [][Next]_vars
FairSpec == /\ Spec
            /\ \A t \in Txns : WF_vars(Goroutine(t))
            /\ \A n \in Nodes : WF_vars(Manager(n))

-----------------------------------------------------------------------------
(* Properties.                                                             *)

\* Every variable keeps its type, and no channel holds more than its size.
TypeOK ==
    /\ \A t \in Txns :
         /\ next[t] \in 1 .. Len(Program[t]) + 1
         /\ state[t] \in {"run", "yield", "failed", "panic", "exited"}
         /\ ctx[t] \in Nodes
         /\ Len(yieldCh[t]) <= ChannelSize /\ Len(resumeCh[t]) <= ChannelSize
         /\ \A i \in DOMAIN yieldCh[t] : yieldCh[t][i].cmd \in DOMAIN Program[t]
         /\ \A i \in DOMAIN resumeCh[t] : resumeCh[t][i] \in Value
    /\ active \subseteq Txns
    /\ migrated \in [Nodes -> SUBSET Txns]

InTransit(t) == {m \in net : m.type = "migration" /\ m.txn = t}
Managers(t)  == {n \in Nodes : t \in Registered(n)}

\* It still has commands to execute or to be taken.
Live(t) == /\ state[t] \in {"run", "yield"}
           /\ next[t] \in DOMAIN Program[t] \/ yieldCh[t] # <<>>

\* A live transaction has exactly one manager, or none while the request to
\* migrate it is on its way, whatever it yields and however Ticks interleave;
\* and a manager takes only commands yielded on its node: what a transaction
\* does for one node is never done by another.
ManagedOnce ==
    /\ \A t \in Txns : Live(t) =>
         \/ InTransit(t) = {} /\ \E n \in Nodes : Managers(t) = {n}
         \/ Managers(t) = {} /\ \E m \in net : InTransit(t) = {m}
    /\ \A n \in Nodes : \A t \in Takers(n) : Head(yieldCh[t]).at = n

\* Every message a transaction has sent reaches the network: none is left in
\* the yieldCh of a transaction that no manager looks at any more.
NoLostSend ==
    \A t \in Txns : \A i \in DOMAIN yieldCh[t] :
        Program[t][yieldCh[t][i].cmd].op \in {"send", "sendAndWait"} =>
            Managers(t) # {}

\* Every transaction ends, and none by a panic: no message it needs is lost
\* between the managers, and none is taken for the value of another command.
Terminates == <>(\A t \in Txns : state[t] = "exited")

\* The managers forget a transaction whose function returned without an
\* error, wherever it ended; its Complete may be taken before or after that.
CleanedUp ==
    \A t \in Txns :
        state[t] = "exited" /\ next[t] \notin DOMAIN Program[t] ~> Managers(t) = {}
=============================================================================
