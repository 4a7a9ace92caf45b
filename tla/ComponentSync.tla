--------------------------- MODULE ComponentSync ---------------------------
(***************************************************************************)
(* ComponentSync (internal/core/ahead_port/sync.go): the handshake that    *)
(* keeps two simulated components in step.  One goroutine, the upstream    *)
(* side of a port, asks whether a cycle is ready (Ready) and publishes the *)
(* cycles it has finished (SetDone); another, the downstream side, waits   *)
(* for a finished cycle (WaitDone) and declares which cycles it is ready   *)
(* for (UpdateReady).  Every atomic load or store, every section under     *)
(* waiterMu and every channel operation of the Go code is one step here,   *)
(* so that the two goroutines interleave as the Go memory model allows     *)
(* (sync/atomic is sequentially consistent).                               *)
(*                                                                         *)
(* readyStates is the slice of the code with the subtraction of readyUntil *)
(* undone: readyStates[c] is the slot of cycle c, and the slots below      *)
(* readyUntil, which the code has sliced off, are "unset".                 *)
(***************************************************************************)
EXTENDS Integers

CONSTANTS
    LastCycle,     \* the last cycle either side simulates
    Initial,       \* cycles declared ready before the goroutines start
    Ahead,         \* how far past its own cycle the downstream side decides
    MaxAsks,       \* calls of Ready the upstream side makes in one cycle
    RetryRefused   \* TRUE: it may ask again in a cycle it was refused

ASSUME ConstantsAssumption ==
    /\ LastCycle \in Nat
    /\ Ahead \in Nat \ {0}
    /\ Initial \in 1 .. (LastCycle + Ahead)
    /\ MaxAsks \in Nat \ {0}
    /\ RetryRefused \in BOOLEAN

Cycles == 0 .. (LastCycle + Ahead)
Decision == {"unset", "ready", "notReady"}

VARIABLES
    done,             \* last finished cycle of the upstream side
    doneWaiting,      \* 1 while WaitDone may be asleep
    waitingFor,       \* the cycle WaitDone waits for
    doneToken,        \* tokens in doneNotify (capacity 1)
    readyUntil,       \* every cycle below is answered TRUE without a lock
    readyStates,      \* decisions not yet folded into readyUntil
    readyWaiting,     \* 1 while Ready may be asleep
    waitingForReady,  \* the cycle Ready waits for
    readyToken,       \* tokens in readyNotify (capacity 1)
    mu,               \* waiterMu: is it held by UpdateReady?
    pcS, sCycle,      \* upstream goroutine: where it is, its cycle,
    asks, answer,     \*   calls of Ready in this cycle, the last result
    pcR, rCycle,      \* downstream goroutine: where it is, its cycle,
    nextUpdate, upd,  \*   the next cycle to decide, the decision in hand
    decision          \* history: what UpdateReady declared, never forgotten

doneVars  == <<done, doneWaiting, waitingFor, doneToken>>
readyVars == <<readyUntil, readyStates, readyWaiting, waitingForReady,
               readyToken, mu, decision>>
sVars     == <<pcS, sCycle, asks, answer>>
rVars     == <<pcR, rCycle, nextUpdate, upd>>
vars      == <<doneVars, readyVars, sVars, rVars>>

Init ==
    /\ done = -1 /\ doneWaiting = 0 /\ waitingFor = 0 /\ doneToken = 0
    /\ readyUntil = Initial
    /\ readyStates = [c \in Cycles |-> "unset"]
    /\ decision = [c \in Cycles |-> IF c < Initial THEN "ready" ELSE "unset"]
    /\ readyWaiting = 0 /\ waitingForReady = 0 /\ readyToken = 0
    /\ mu = FALSE
    /\ pcS = "tick" /\ sCycle = 0 /\ asks = 0 /\ answer = "none"
    /\ pcR = "wdFast" /\ rCycle = 0 /\ nextUpdate = 0
    /\ upd = [cycle |-> 0, ready |-> TRUE]

-----------------------------------------------------------------------------
(* Upstream goroutine: Ready(sCycle).                                      *)

AskReady ==
    /\ pcS = "tick" /\ asks < MaxAsks
    /\ answer = "no" => RetryRefused
    /\ asks' = asks + 1
    /\ pcS' = "rdFast"
    /\ UNCHANGED <<sCycle, answer, doneVars, readyVars, rVars>>

ReadyFast ==
    /\ pcS = "rdFast"
    /\ IF sCycle < readyUntil
       THEN pcS' = "tick" /\ answer' = "yes"
       ELSE pcS' = "rdPublish" /\ answer' = answer
    /\ UNCHANGED <<sCycle, asks, doneVars, readyVars, rVars>>

ReadyPublish ==
    /\ pcS = "rdPublish"
    /\ waitingForReady' = sCycle
    /\ pcS' = "rdFlag"
    /\ UNCHANGED <<sCycle, asks, answer, doneVars, rVars, readyUntil,
                   readyStates, readyWaiting, readyToken, mu, decision>>

ReadyFlag ==
    /\ pcS = "rdFlag"
    /\ readyWaiting' = 1
    /\ pcS' = "rdLoop"
    /\ UNCHANGED <<sCycle, asks, answer, doneVars, rVars, readyUntil,
                   readyStates, waitingForReady, readyToken, mu, decision>>

ReadyLoop ==
    /\ pcS = "rdLoop"
    /\ IF sCycle < readyUntil
       THEN pcS' = "rdClear" /\ answer' = "yes"
       ELSE pcS' = "rdLock" /\ answer' = answer
    /\ UNCHANGED <<sCycle, asks, doneVars, readyVars, rVars>>

\* Fault: the prune drops one cycle too many.
PrunesOneTooMany == sCycle + 2

newReadyUntil == sCycle + 1

\* checkStatesAndPrune: a decided cycle is pruned with everything before it,
\* and readyUntil moves past it whatever the decision was.
ReadyCheckAndPrune ==
    /\ pcS = "rdLock" /\ ~mu
    /\ \/ /\ sCycle < readyUntil
          /\ pcS' = "rdClear" /\ answer' = "yes"
          /\ UNCHANGED <<readyStates, readyUntil>>
       \/ /\ sCycle >= readyUntil /\ readyStates[sCycle] = "unset"
          /\ pcS' = "rdSleep"
          /\ UNCHANGED <<readyStates, readyUntil, answer>>
       \/ /\ sCycle >= readyUntil /\ readyStates[sCycle] # "unset"
          /\ pcS' = "rdClear"
          /\ answer' = IF readyStates[sCycle] = "ready" THEN "yes" ELSE "no"
          /\ readyUntil' = newReadyUntil
          /\ readyStates' = [c \in Cycles |->
                 IF c < newReadyUntil THEN "unset" ELSE readyStates[c]]
    /\ UNCHANGED <<sCycle, asks, doneVars, rVars, readyWaiting,
                   waitingForReady, readyToken, mu, decision>>

ReadySleep ==
    /\ pcS = "rdSleep" /\ readyToken = 1
    /\ readyToken' = 0
    /\ pcS' = "rdLoop"
    /\ UNCHANGED <<sCycle, asks, answer, doneVars, rVars, readyUntil,
                   readyStates, readyWaiting, waitingForReady, mu, decision>>

ReadyClear ==
    /\ pcS = "rdClear"
    /\ readyWaiting' = 0
    /\ pcS' = "tick"
    /\ UNCHANGED <<sCycle, asks, answer, doneVars, rVars, readyUntil,
                   readyStates, waitingForReady, readyToken, mu, decision>>

-----------------------------------------------------------------------------
(* Upstream goroutine: SetDone(sCycle), then the next cycle.               *)

SetDoneStore ==
    /\ pcS = "tick"
    /\ done' = sCycle
    /\ pcS' = "sdFlag"
    /\ UNCHANGED <<sCycle, asks, answer, readyVars, rVars, doneWaiting,
                   waitingFor, doneToken>>

\* SetDone returns: the upstream side goes on to its next cycle.
NextSCycle ==
    /\ pcS' = IF sCycle = LastCycle THEN "end" ELSE "tick"
    /\ sCycle' = IF sCycle = LastCycle THEN sCycle ELSE sCycle + 1
    /\ asks' = 0 /\ answer' = "none"

SetDoneFlag ==
    /\ pcS = "sdFlag"
    /\ IF doneWaiting = 1
       THEN pcS' = "sdTarget" /\ UNCHANGED <<sCycle, asks, answer>>
       ELSE NextSCycle
    /\ UNCHANGED <<doneVars, readyVars, rVars>>

SetDoneTarget ==
    /\ pcS = "sdTarget"
    /\ IF sCycle >= waitingFor
       THEN pcS' = "sdNotify" /\ UNCHANGED <<sCycle, asks, answer>>
       ELSE NextSCycle
    /\ UNCHANGED <<doneVars, readyVars, rVars>>

\* Fault: a token is added although one is already there.
NotifiesTwice ==
    /\ pcS = "sdNotify"
    /\ doneToken' = doneToken + 1
    /\ NextSCycle
    /\ UNCHANGED <<done, doneWaiting, waitingFor, readyVars, rVars>>

SetDoneNotify ==
    /\ pcS = "sdNotify"
    /\ doneToken' = 1
    /\ NextSCycle
    /\ UNCHANGED <<done, doneWaiting, waitingFor, readyVars, rVars>>

-----------------------------------------------------------------------------
(* Downstream goroutine: WaitDone(rCycle).                                 *)

WaitDoneFast ==
    /\ pcR = "wdFast"
    /\ pcR' = IF done >= rCycle THEN "decide" ELSE "wdPublish"
    /\ UNCHANGED <<rCycle, nextUpdate, upd, doneVars, readyVars, sVars>>

WaitDonePublish ==
    /\ pcR = "wdPublish"
    /\ waitingFor' = rCycle
    /\ pcR' = "wdFlag"
    /\ UNCHANGED <<rCycle, nextUpdate, upd, done, doneWaiting, doneToken,
                   readyVars, sVars>>

\* Fault: no double check between the flag and the sleep.
SleepsWithoutCheck ==
    /\ pcR = "wdFlag"
    /\ doneWaiting' = 1
    /\ pcR' = "wdSleep"
    /\ UNCHANGED <<rCycle, nextUpdate, upd, done, waitingFor, doneToken,
                   readyVars, sVars>>

WaitDoneFlag ==
    /\ pcR = "wdFlag"
    /\ doneWaiting' = 1
    /\ pcR' = "wdLoop"
    /\ UNCHANGED <<rCycle, nextUpdate, upd, done, waitingFor, doneToken,
                   readyVars, sVars>>

\* The double check and the loop condition are the same load and comparison.
WaitDoneLoop ==
    /\ pcR = "wdLoop"
    /\ pcR' = IF done >= rCycle THEN "wdClear" ELSE "wdSleep"
    /\ UNCHANGED <<rCycle, nextUpdate, upd, doneVars, readyVars, sVars>>

\* Fault: a token is taken for the answer, done is not read again.
TrustsToken ==
    /\ pcR = "wdSleep" /\ doneToken = 1
    /\ doneToken' = 0
    /\ pcR' = "wdClear"
    /\ UNCHANGED <<rCycle, nextUpdate, upd, done, doneWaiting, waitingFor,
                   readyVars, sVars>>

WaitDoneSleep ==
    /\ pcR = "wdSleep" /\ doneToken = 1
    /\ doneToken' = 0
    /\ pcR' = "wdLoop"
    /\ UNCHANGED <<rCycle, nextUpdate, upd, done, doneWaiting, waitingFor,
                   readyVars, sVars>>

WaitDoneClear ==
    /\ pcR = "wdClear"
    /\ doneWaiting' = 0
    /\ pcR' = "decide"
    /\ UNCHANGED <<rCycle, nextUpdate, upd, done, waitingFor, doneToken,
                   readyVars, sVars>>

-----------------------------------------------------------------------------
(* Downstream goroutine: UpdateReady(upd.cycle, upd.ready).  It decides    *)
(* the cycles in order, its next cycle at the latest, and repeats a        *)
(* decision only to confirm a cycle that was declared ready at the start.  *)

CallUpdateReady ==
    /\ pcR = "decide" /\ nextUpdate <= rCycle + Ahead
    /\ \E ready \in BOOLEAN :
         /\ nextUpdate < Initial => ready
         /\ upd' = [cycle |-> nextUpdate, ready |-> ready]
    /\ nextUpdate' = nextUpdate + 1
    /\ pcR' = "urStart"
    /\ UNCHANGED <<rCycle, doneVars, readyVars, sVars>>

UpdateReadyStart ==
    /\ pcR = "urStart"
    /\ pcR' = IF upd.ready /\ readyUntil = upd.cycle THEN "urFast" ELSE "urSlow"
    /\ UNCHANGED <<rCycle, nextUpdate, upd, doneVars, readyVars, sVars>>

NoStates == \A c \in Cycles : readyStates[c] = "unset"

Decide == decision' = [decision EXCEPT ![upd.cycle] =
                           IF upd.ready THEN "ready" ELSE "notReady"]

\* The sequential fast path: it unlocks before it notifies.
UpdateReadyFast ==
    /\ pcR = "urFast" /\ ~mu
    /\ \/ /\ readyUntil = upd.cycle /\ NoStates
          /\ readyUntil' = upd.cycle + 1
          /\ Decide
          /\ pcR' = "ntFlag"
       \/ /\ ~ (readyUntil = upd.cycle /\ NoStates)
          /\ pcR' = "urSlow"
          /\ UNCHANGED <<readyUntil, decision>>
    /\ UNCHANGED <<rCycle, nextUpdate, upd, doneVars, sVars, readyStates,
                   readyWaiting, waitingForReady, readyToken, mu>>

\* Fault: the compaction folds every decided slot, not only the ready ones.
FoldsDecided(from, s, n) ==
    /\ \A c \in from .. (n - 1) : s[c] # "unset"
    /\ n \in Cycles => s[n] = "unset"

\* Compaction: readyUntil is n once the leading "ready" slots of s are dropped.
Compacts(from, s, n) ==
    /\ \A c \in from .. (n - 1) : s[c] = "ready"
    /\ n \in Cycles => s[n] # "ready"

UpdateReadyDecided ==
    /\ pcR = "urSlow" /\ ~mu
    /\ upd.cycle < readyUntil \/ readyStates[upd.cycle] # "unset"
    /\ pcR' = IF upd.cycle < readyUntil
              THEN IF upd.ready THEN "decide" ELSE "panic"
              ELSE IF (readyStates[upd.cycle] = "ready") = upd.ready
                   THEN "decide" ELSE "panic"
    /\ UNCHANGED <<rCycle, nextUpdate, upd, doneVars, readyVars, sVars>>

\* The slow path keeps waiterMu until it has notified.
UpdateReadySet ==
    /\ pcR = "urSlow" /\ ~mu
    /\ upd.cycle >= readyUntil /\ readyStates[upd.cycle] = "unset"
    /\ LET s == [readyStates EXCEPT ![upd.cycle] =
                    IF upd.ready THEN "ready" ELSE "notReady"]
       IN  \E n \in readyUntil .. (LastCycle + Ahead + 1) :
             /\ Compacts(readyUntil, s, n)
             /\ readyUntil' = n
             /\ readyStates' =
                   [c \in Cycles |-> IF c < n THEN "unset" ELSE s[c]]
    /\ Decide
    /\ mu' = TRUE
    /\ pcR' = "ntFlag"
    /\ UNCHANGED <<rCycle, nextUpdate, upd, doneVars, sVars, readyWaiting,
                   waitingForReady, readyToken>>

NotifyFlag ==
    /\ pcR = "ntFlag"
    /\ IF readyWaiting = 1
       THEN pcR' = "ntTarget" /\ mu' = mu
       ELSE pcR' = "decide" /\ mu' = FALSE
    /\ UNCHANGED <<rCycle, nextUpdate, upd, doneVars, sVars, readyUntil,
                   readyStates, readyWaiting, waitingForReady, readyToken,
                   decision>>

\* Fault: the target cycle itself does not wake the sleeper.
NotifiesPastTarget ==
    /\ pcR = "ntTarget"
    /\ IF upd.cycle > waitingForReady
       THEN pcR' = "ntSend" /\ mu' = mu
       ELSE pcR' = "decide" /\ mu' = FALSE
    /\ UNCHANGED <<rCycle, nextUpdate, upd, doneVars, sVars, readyUntil,
                   readyStates, readyWaiting, waitingForReady, readyToken,
                   decision>>

NotifyTarget ==
    /\ pcR = "ntTarget"
    /\ IF upd.cycle >= waitingForReady
       THEN pcR' = "ntSend" /\ mu' = mu
       ELSE pcR' = "decide" /\ mu' = FALSE
    /\ UNCHANGED <<rCycle, nextUpdate, upd, doneVars, sVars, readyUntil,
                   readyStates, readyWaiting, waitingForReady, readyToken,
                   decision>>

NotifySend ==
    /\ pcR = "ntSend"
    /\ readyToken' = 1
    /\ mu' = FALSE
    /\ pcR' = "decide"
    /\ UNCHANGED <<rCycle, nextUpdate, upd, doneVars, sVars, readyUntil,
                   readyStates, readyWaiting, waitingForReady, decision>>

\* The component's Tick returns; the next cycle is decided by then.
NextRCycle ==
    /\ pcR = "decide" /\ nextUpdate > rCycle + 1
    /\ pcR' = IF rCycle = LastCycle THEN "end" ELSE "wdFast"
    /\ rCycle' = IF rCycle = LastCycle THEN rCycle ELSE rCycle + 1
    /\ UNCHANGED <<nextUpdate, upd, doneVars, readyVars, sVars>>

-----------------------------------------------------------------------------
Ready       == \/ ReadyFast \/ ReadyPublish \/ ReadyFlag \/ ReadyLoop
               \/ ReadyCheckAndPrune \/ ReadySleep \/ ReadyClear
SetDone     == SetDoneStore \/ SetDoneFlag \/ SetDoneTarget \/ SetDoneNotify
WaitDone    == \/ WaitDoneFast \/ WaitDonePublish \/ WaitDoneFlag
               \/ WaitDoneLoop \/ WaitDoneSleep \/ WaitDoneClear
UpdateReady == \/ UpdateReadyStart \/ UpdateReadyFast \/ UpdateReadyDecided
               \/ UpdateReadySet \/ NotifyFlag \/ NotifyTarget \/ NotifySend

Upstream   == AskReady \/ Ready \/ SetDone
Downstream == WaitDone \/ CallUpdateReady \/ UpdateReady \/ NextRCycle

Finished == pcS = "end" /\ pcR = "end" /\ UNCHANGED vars

Next == Upstream \/ Downstream \/ Finished

\* The Go scheduler runs every goroutine that can run.
Spec == Init /\ [][Next]_vars
FairSpec == Spec /\ WF_vars(Upstream) /\ WF_vars(Downstream)

-----------------------------------------------------------------------------
(* Properties.                                                             *)

\* Every variable keeps its type: cycles stay in range, a notification
\* channel never holds more than its one token.
TypeOK ==
    /\ done \in -1 .. LastCycle
    /\ doneWaiting \in {0, 1} /\ waitingFor \in 0 .. LastCycle
    /\ doneToken \in {0, 1}
    /\ readyUntil \in 0 .. (LastCycle + Ahead + 1)
    /\ readyStates \in [Cycles -> Decision]
    /\ decision \in [Cycles -> Decision]
    /\ readyWaiting \in {0, 1} /\ waitingForReady \in 0 .. LastCycle
    /\ readyToken \in {0, 1}
    /\ mu \in BOOLEAN
    /\ pcS \in {"tick", "rdFast", "rdPublish", "rdFlag", "rdLoop", "rdLock",
                "rdSleep", "rdClear", "sdFlag", "sdTarget", "sdNotify", "end"}
    /\ sCycle \in 0 .. LastCycle
    /\ asks \in 0 .. MaxAsks
    /\ answer \in {"none", "yes", "no"}
    /\ pcR \in {"wdFast", "wdPublish", "wdFlag", "wdLoop", "wdSleep", "wdClear",
                "decide", "urStart", "urFast", "urSlow", "ntFlag", "ntTarget",
                "ntSend", "panic", "end"}
    /\ rCycle \in 0 .. LastCycle
    /\ nextUpdate \in 0 .. (LastCycle + Ahead + 1)
    /\ upd \in [cycle : Cycles, ready : BOOLEAN]

\* Ready returns what the downstream side declared for the cycle, although
\* checkStatesAndPrune throws the decision away and moves readyUntil past it.
AnswerIsDecision ==
    pcS \in {"tick", "rdClear"} =>
        /\ answer = "yes" => decision[sCycle] = "ready"
        /\ answer = "no"  => decision[sCycle] = "notReady"

\* The targeted wakeup of UpdateReady is never missed: while Ready sleeps on
\* a cycle that has been decided, a token is in readyNotify or on its way.
NoLostReadyWakeup ==
    (pcS = "rdSleep" /\ decision[sCycle] # "unset") =>
        \/ readyToken = 1
        \/ /\ pcR \in {"ntFlag", "ntTarget", "ntSend"}
           /\ upd.cycle >= sCycle

\* The targeted wakeup of SetDone is never missed: while WaitDone sleeps on a
\* cycle that is done, a token is in doneNotify or on its way.
NoLostDoneWakeup ==
    (pcR = "wdSleep" /\ done >= rCycle) =>
        \/ doneToken = 1
        \/ pcS \in {"sdFlag", "sdTarget", "sdNotify"}

\* A downstream side that decides its cycles in order never runs into the
\* "already marked as ready" and "cannot change" panics of UpdateReady.
NoPanic == pcR # "panic"

\* The abstract handshake, seen through the call boundaries of Ready and
\* WaitDone.  Its fairness makes this a liveness property as well: no order of
\* the loads, stores and channel operations leaves a goroutine asleep, and
\* both get through all their cycles.
Abstract == INSTANCE Handshake WITH
    asking <- pcS \in {"rdFast", "rdPublish", "rdFlag", "rdLoop", "rdLock",
                       "rdSleep"},
    answer <- IF pcS \in {"sdFlag", "sdTarget", "sdNotify"} THEN "none"
              ELSE answer,
    rCycle <- IF pcR = "end" THEN LastCycle + 1 ELSE rCycle,
    waited <- pcR \notin {"wdFast", "wdPublish", "wdFlag", "wdLoop", "wdSleep",
                          "wdClear", "end"}
ImplementsHandshake == Abstract!Spec
=============================================================================
