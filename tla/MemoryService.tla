-------------------------- MODULE MemoryService --------------------------
(***************************************************************************)
(* What a memory node promises its callers: requests are accepted in the   *)
(* order of their numbers, each accepted one is answered once and in any   *)
(* order, and the node gives up only when it has too many to do.           *)
(***************************************************************************)
EXTENDS Naturals, Sequences, FiniteSets

CONSTANTS NumRequests, Capacity

VARIABLES
    accepted,   \* requests 1 .. accepted have been accepted
    answers,    \* the requests that were answered, in that order
    failed

vars == <<accepted, answers, failed>>

Answered == {answers[k] : k \in DOMAIN answers}
Pending == (1 .. accepted) \ Answered

Init == accepted = 0 /\ answers = <<>> /\ failed = FALSE

\* In one cycle a request may come and an earlier one be answered.
Cycle ==
    /\ ~failed
    /\ accepted' \in {accepted} \union (1 .. NumRequests \cap {accepted + 1})
    /\ \/ answers' = answers
       \/ \E i \in Pending : answers' = Append(answers, i)
    /\ UNCHANGED failed

Fail ==
    /\ Cardinality(Pending) >= Capacity
    /\ failed' = TRUE
    /\ UNCHANGED <<accepted, answers>>

Next == Cycle \/ Fail
SafeSpec == Init /\ [][Next]_vars
Spec == SafeSpec /\ WF_vars(Cycle /\ answers' # answers)
=============================================================================
