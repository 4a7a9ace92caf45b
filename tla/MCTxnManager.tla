---------------------------- MODULE MCTxnManager ----------------------------
(***************************************************************************)
(* Programs for TxnManager: the yields of the flows of internal/dataflow/chi*)
(* on a requester "rn", a second requester "rn2" and a home node "hn".      *)
(***************************************************************************)
EXTENDS TxnManager

Cmd(op, type, to) == [op |-> op, type |-> type, to |-> to]

MCNodes == {"rn", "rn2", "hn"}

\* ReadUniqueContinuous with one other sharer.
ReadUnique(rn, sharer) ==
    <<Cmd("send", "ReadUnique", "hn"), Cmd("migrate", "", "hn"),
      Cmd("send", "SnpUniqueFwd", sharer), Cmd("wait", "SnpResp", "hn"),
      Cmd("send", "CompData", rn), Cmd("migrate", "", rn),
      Cmd("complete", "", rn)>>

\* A snoop handler that sends its response and moves on to the requester.
SnoopForward(rn) ==
    <<Cmd("sendAndWait", "SnpRespDataFwded", rn), Cmd("migrate", "", rn),
      Cmd("complete", "", rn)>>

\* A snoop handler that answers the home node.
SnoopRespond ==
    <<Cmd("sendAndWait", "SnpResp", "hn"), Cmd("complete", "", "hn")>>

\* HomeNodeReadCleanHandler.
HomeReadClean(rn) == <<Cmd("send", "CompData", rn)>>

MCReply == [type \in {"ReadUnique", "CompData", "SnpResp", "SnpRespDataFwded", "SnpUniqueFwd"} |->
               IF type = "SnpUniqueFwd" THEN "SnpResp" ELSE "none"]

\* A request that waits at the home node for a snoop response, the handlers of
\* the two snoops a home node sends, and an answer that may resume another.
FlowTxns == {"unique", "forward", "respond"}
FlowOrigin == [t \in FlowTxns |-> CASE t = "unique" -> "rn"
                                    [] t = "forward" -> "rn2"
                                    [] t = "respond" -> "rn2"]
FlowProgram == [t \in FlowTxns |-> CASE t = "unique" -> ReadUnique("rn", "rn2")
                                     [] t = "forward" -> SnoopForward("rn")
                                     [] t = "respond" -> SnoopRespond]

HandlerTxns == {"handler"}
HandlerOrigin == [t \in HandlerTxns |-> "hn"]
HandlerProgram == [t \in HandlerTxns |-> HomeReadClean("rn")]
=============================================================================
