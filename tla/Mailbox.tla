------------------------------ MODULE Mailbox ------------------------------
(***************************************************************************)
(* What a port is to the components on its two sides: a mailbox with one   *)
(* compartment per cycle.  Receive empties the compartment of its cycle in *)
(* one step, after the sender has closed the cycle with MarkDone.          *)
(***************************************************************************)
EXTENDS Integers

CONSTANTS LastCycle, Packets

Cycles == 0 .. LastCycle

VARIABLES
    done,      \* last cycle closed by the sender
    mail,      \* mail[c]: packets sent for cycle c and not yet received
    received,  \* received[c]: what Receive(c) returned
    next       \* the next cycle to receive

vars == <<done, mail, received, next>>

Init ==
    /\ done = -1 /\ next = 0
    /\ mail = [c \in Cycles |-> {}]
    /\ received = [c \in Cycles |-> {}]

Send ==
    /\ done < LastCycle
    /\ \E p \in Packets :
         /\ \A c \in Cycles : p \notin mail[c] \union received[c]
         /\ mail' = [mail EXCEPT ![done + 1] = @ \union {p}]
    /\ UNCHANGED <<done, received, next>>

MarkDone ==
    /\ done < LastCycle
    /\ done' = done + 1
    /\ UNCHANGED <<mail, received, next>>

Receive ==
    /\ next <= done
    /\ received' = [received EXCEPT ![next] = mail[next]]
    /\ mail' = [mail EXCEPT ![next] = {}]
    /\ next' = next + 1
    /\ UNCHANGED done

Next == Send \/ MarkDone \/ Receive

SafeSpec == Init /\ [][Next]_vars
Spec == SafeSpec /\ WF_vars(MarkDone) /\ WF_vars(Receive)
=============================================================================
