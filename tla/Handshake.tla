----------------------------- MODULE Handshake -----------------------------
(***************************************************************************)
(* What ComponentSync promises its two callers, without flags, channels or *)
(* locks: Ready answers, once the cycle is decided, with the decision the  *)
(* downstream side declared; WaitDone returns once the cycle is done; and  *)
(* neither call sleeps for ever when what it waits for has happened.       *)
(***************************************************************************)
EXTENDS Integers

CONSTANTS LastCycle, Initial, Ahead

Cycles == 0 .. (LastCycle + Ahead)

VARIABLES
    done,       \* last cycle the upstream side has finished
    asking,     \* is the upstream side inside Ready, for cycle done + 1?
    answer,     \* the last result of Ready for that cycle
    decision,   \* what the downstream side has declared for each cycle
    rCycle,     \* the cycle of the downstream side
    waited      \* has WaitDone(rCycle) returned?

vars == <<done, asking, answer, decision, rCycle, waited>>

Init ==
    /\ done = -1
    /\ asking = FALSE
    /\ answer = "none"
    /\ decision = [c \in Cycles |-> IF c < Initial THEN "ready" ELSE "unset"]
    /\ rCycle = 0
    /\ waited = FALSE

Ask ==
    /\ ~asking /\ done < LastCycle
    /\ asking' = TRUE
    /\ UNCHANGED <<done, answer, decision, rCycle, waited>>

Answer ==
    /\ asking /\ decision[done + 1] # "unset"
    /\ answer' = IF decision[done + 1] = "ready" THEN "yes" ELSE "no"
    /\ asking' = FALSE
    /\ UNCHANGED <<done, decision, rCycle, waited>>

MarkDone ==
    /\ ~asking /\ done < LastCycle
    /\ done' = done + 1
    /\ answer' = "none"
    /\ UNCHANGED <<asking, decision, rCycle, waited>>

WaitReturns ==
    /\ ~waited /\ rCycle <= done
    /\ waited' = TRUE
    /\ UNCHANGED <<done, asking, answer, decision, rCycle>>

\* A decision is declared once, in the order of the cycles.
Declare ==
    /\ waited
    /\ \E c \in Cycles, d \in {"ready", "notReady"} :
         /\ c <= rCycle + Ahead
         /\ decision[c] = "unset"
         /\ \A b \in Cycles : b < c => decision[b] # "unset"
         /\ decision' = [decision EXCEPT ![c] = d]
    /\ UNCHANGED <<done, asking, answer, rCycle, waited>>

Proceed ==
    /\ waited /\ decision[rCycle + 1] # "unset"
    /\ rCycle' = rCycle + 1
    /\ waited' = FALSE
    /\ UNCHANGED <<done, asking, answer, decision>>

Next == Ask \/ Answer \/ MarkDone \/ WaitReturns \/ Declare \/ Proceed

Fairness ==
    /\ WF_vars(Answer)
    /\ WF_vars(MarkDone)
    /\ WF_vars(WaitReturns)
    /\ WF_vars(Declare \/ Proceed)

SafeSpec == Init /\ [][Next]_vars
Spec == SafeSpec /\ Fairness
=============================================================================
