------------------------ MODULE ComponentSyncProofs ------------------------
(***************************************************************************)
(* The safety of ComponentSync for every number of cycles, every lookahead *)
(* and every number of calls of Ready per cycle.                           *)
(***************************************************************************)
EXTENDS ComponentSync, TLAPS

InReady   == {"rdFlag", "rdLoop", "rdLock", "rdSleep"}
InSetDone == {"sdFlag", "sdTarget", "sdNotify"}
InUpdate  == {"urStart", "urFast", "urSlow"}
InNotify  == {"ntFlag", "ntTarget", "ntSend"}

\* What the two goroutines have published while they may be asleep, and what
\* the one that wakes them holds in its hand.
ReadyPublished ==
    /\ pcS \in InReady => waitingForReady = sCycle
    /\ pcS \in InReady \ {"rdFlag"} => readyWaiting = 1

DonePublished ==
    /\ pcR \in {"wdFlag", "wdLoop", "wdSleep"} => waitingFor = rCycle
    /\ pcR \in {"wdLoop", "wdSleep"} => doneWaiting = 1
    /\ pcS \in InSetDone => done = sCycle

\* readyUntil and readyStates together hold every decision that was not
\* pruned, and nothing else.
StatesAreDecisions ==
    \A c \in Cycles :
        /\ c >= readyUntil => readyStates[c] = decision[c]
        /\ c < readyUntil  => decision[c] # "unset"

\* Decisions are made in the order of the cycles; the one in hand is not made
\* yet.
InOrder ==
    /\ pcR \in InUpdate \union InNotify =>
           /\ nextUpdate = upd.cycle + 1
           /\ upd.cycle < Initial => upd.ready
    /\ pcR = "urFast" => upd.ready
    /\ \A c \in Cycles :
           /\ c < Initial => decision[c] = "ready"
           /\ (c >= Initial /\ c >= nextUpdate) => decision[c] = "unset"
           /\ (c >= Initial /\ pcR \in InUpdate /\ c = upd.cycle)
                  => decision[c] = "unset"
           /\ (c < nextUpdate /\ ~ (pcR \in InUpdate /\ c = upd.cycle))
                  => decision[c] # "unset"

\* A refusal that readyUntil has passed is one the upstream side was told of.
RefusalsAnswered ==
    \A c \in Cycles :
        (c < readyUntil /\ decision[c] = "notReady") =>
            \/ c < sCycle
            \/ c = sCycle /\ answer = "no" /\ pcS \notin {"rdFast", "rdPublish"}
                                                            \union InReady
            \/ pcS = "end"

AnswerHolds ==
    /\ answer = "yes" => decision[sCycle] = "ready"
    /\ answer = "no"  => decision[sCycle] = "notReady"

\* The inductive invariants of the two halves of the handshake.
DoneInv  == DonePublished /\ NoLostDoneWakeup
ReadyInv == /\ ReadyPublished /\ StatesAreDecisions /\ InOrder
            /\ NoPanic /\ NoLostReadyWakeup
AnswerInv == RefusalsAnswered /\ AnswerHolds

-----------------------------------------------------------------------------
\* Every step of the two goroutines keeps the types.
LEMMA TypeStep == TypeOK /\ [Next]_vars => TypeOK'
<1> SUFFICES ASSUME TypeOK, [Next]_vars PROVE TypeOK'
  OBVIOUS
<1> USE ConstantsAssumption DEF TypeOK, Cycles, Decision, Decide, newReadyUntil, vars, doneVars, readyVars, sVars, rVars, NextSCycle
<1>1. CASE AskReady
  BY <1>1 DEF AskReady
<1>2. CASE ReadyFast
  BY <1>2 DEF ReadyFast
<1>3. CASE ReadyPublish
  BY <1>3 DEF ReadyPublish
<1>4. CASE ReadyFlag
  BY <1>4 DEF ReadyFlag
<1>5. CASE ReadyLoop
  BY <1>5 DEF ReadyLoop
<1>6. CASE ReadyCheckAndPrune
  BY <1>6 DEF ReadyCheckAndPrune
<1>7. CASE ReadySleep
  BY <1>7 DEF ReadySleep
<1>8. CASE ReadyClear
  BY <1>8 DEF ReadyClear
<1>9. CASE SetDoneStore
  BY <1>9 DEF SetDoneStore
<1>10. CASE SetDoneFlag
  BY <1>10 DEF SetDoneFlag
<1>11. CASE SetDoneTarget
  BY <1>11 DEF SetDoneTarget
<1>12. CASE SetDoneNotify
  BY <1>12 DEF SetDoneNotify
<1>13. CASE WaitDoneFast
  BY <1>13 DEF WaitDoneFast
<1>14. CASE WaitDonePublish
  BY <1>14 DEF WaitDonePublish
<1>15. CASE WaitDoneFlag
  BY <1>15 DEF WaitDoneFlag
<1>16. CASE WaitDoneLoop
  BY <1>16 DEF WaitDoneLoop
<1>17. CASE WaitDoneSleep
  BY <1>17 DEF WaitDoneSleep
<1>18. CASE WaitDoneClear
  BY <1>18 DEF WaitDoneClear
<1>19. CASE CallUpdateReady
  BY <1>19 DEF CallUpdateReady
<1>20. CASE UpdateReadyStart
  BY <1>20 DEF UpdateReadyStart
<1>21. CASE UpdateReadyFast
  BY <1>21 DEF UpdateReadyFast
<1>22. CASE UpdateReadyDecided
  BY <1>22 DEF UpdateReadyDecided
<1>23. CASE UpdateReadySet
  BY <1>23 DEF UpdateReadySet
<1>24. CASE NotifyFlag
  <2>1. mu' \in BOOLEAN
    BY <1>24, Zenon DEF NotifyFlag
  <2>2. pcR' \in {"decide", "ntTarget", "ntSend"}
    BY <1>24 DEF NotifyFlag
  <2> QED
    BY <1>24, <2>1, <2>2 DEF NotifyFlag
<1>25. CASE NotifyTarget
  <2>1. mu' \in BOOLEAN
    BY <1>25, Zenon DEF NotifyTarget
  <2>2. pcR' \in {"decide", "ntTarget", "ntSend"}
    BY <1>25 DEF NotifyTarget
  <2> QED
    BY <1>25, <2>1, <2>2 DEF NotifyTarget
<1>26. CASE NotifySend
  BY <1>26 DEF NotifySend
<1>27. CASE NextRCycle
  BY <1>27 DEF NextRCycle
<1>28. CASE UNCHANGED vars
  BY <1>28
<1> QED
  BY <1>1, <1>2, <1>3, <1>4, <1>5, <1>6, <1>7, <1>8, <1>9, <1>10, <1>11, <1>12, <1>13, <1>14, <1>15, <1>16, <1>17, <1>18, <1>19, <1>20, <1>21, <1>22, <1>23, <1>24, <1>25, <1>26, <1>27, <1>28
  DEF Next, Upstream, Downstream, Ready, SetDone, WaitDone, UpdateReady, Finished

\* Every step keeps the invariant of the done side: WaitDone publishes its
\* cycle before its flag and re-reads done after it, SetDone the other way.
LEMMA DoneStep == TypeOK /\ DoneInv /\ [Next]_vars => DoneInv'
<1> SUFFICES ASSUME TypeOK, DoneInv, [Next]_vars PROVE DoneInv'
  OBVIOUS
<1> USE ConstantsAssumption DEF TypeOK, DoneInv, DonePublished, NoLostDoneWakeup, InSetDone, vars, doneVars, readyVars, sVars, rVars, NextSCycle
<1>1. CASE AskReady
  BY <1>1 DEF AskReady
<1>2. CASE ReadyFast
  BY <1>2 DEF ReadyFast
<1>3. CASE ReadyPublish
  BY <1>3 DEF ReadyPublish
<1>4. CASE ReadyFlag
  BY <1>4 DEF ReadyFlag
<1>5. CASE ReadyLoop
  BY <1>5 DEF ReadyLoop
<1>6. CASE ReadyCheckAndPrune
  BY <1>6 DEF ReadyCheckAndPrune
<1>7. CASE ReadySleep
  BY <1>7 DEF ReadySleep
<1>8. CASE ReadyClear
  BY <1>8 DEF ReadyClear
<1>9. CASE SetDoneStore
  BY <1>9 DEF SetDoneStore
<1>10. CASE SetDoneFlag
  BY <1>10 DEF SetDoneFlag
<1>11. CASE SetDoneTarget
  BY <1>11 DEF SetDoneTarget
<1>12. CASE SetDoneNotify
  BY <1>12 DEF SetDoneNotify
<1>13. CASE WaitDoneFast
  BY <1>13 DEF WaitDoneFast
<1>14. CASE WaitDonePublish
  BY <1>14 DEF WaitDonePublish
<1>15. CASE WaitDoneFlag
  BY <1>15 DEF WaitDoneFlag
<1>16. CASE WaitDoneLoop
  BY <1>16 DEF WaitDoneLoop
<1>17. CASE WaitDoneSleep
  BY <1>17 DEF WaitDoneSleep
<1>18. CASE WaitDoneClear
  BY <1>18 DEF WaitDoneClear
<1>19. CASE CallUpdateReady
  BY <1>19 DEF CallUpdateReady
<1>20. CASE UpdateReadyStart
  BY <1>20 DEF UpdateReadyStart
<1>21. CASE UpdateReadyFast
  BY <1>21 DEF UpdateReadyFast
<1>22. CASE UpdateReadyDecided
  BY <1>22 DEF UpdateReadyDecided
<1>23. CASE UpdateReadySet
  BY <1>23 DEF UpdateReadySet
<1>24. CASE NotifyFlag
  BY <1>24 DEF NotifyFlag
<1>25. CASE NotifyTarget
  BY <1>25 DEF NotifyTarget
<1>26. CASE NotifySend
  BY <1>26 DEF NotifySend
<1>27. CASE NextRCycle
  BY <1>27 DEF NextRCycle
<1>28. CASE UNCHANGED vars
  BY <1>28
<1> QED
  BY <1>1, <1>2, <1>3, <1>4, <1>5, <1>6, <1>7, <1>8, <1>9, <1>10, <1>11, <1>12, <1>13, <1>14, <1>15, <1>16, <1>17, <1>18, <1>19, <1>20, <1>21, <1>22, <1>23, <1>24, <1>25, <1>26, <1>27, <1>28
  DEF Next, Upstream, Downstream, Ready, SetDone, WaitDone, UpdateReady, Finished

\* Every step keeps the invariant of the ready side, which says in addition
\* how readyUntil, readyStates and the history of decisions are related.
LEMMA ReadyStep == TypeOK /\ TypeOK' /\ ReadyInv /\ [Next]_vars => ReadyInv'
<1> SUFFICES ASSUME TypeOK, TypeOK', ReadyInv, [Next]_vars PROVE ReadyInv'
  OBVIOUS
<1> USE ConstantsAssumption DEF TypeOK, ReadyInv, ReadyPublished, StatesAreDecisions, InOrder, NoPanic, NoLostReadyWakeup, InReady, InUpdate, InNotify, Cycles, Decision, Decide, newReadyUntil, NoStates, Compacts, vars, doneVars, readyVars, sVars, rVars, NextSCycle
<1>1. CASE AskReady
  BY <1>1 DEF AskReady
<1>2. CASE ReadyFast
  BY <1>2 DEF ReadyFast
<1>3. CASE ReadyPublish
  BY <1>3 DEF ReadyPublish
<1>4. CASE ReadyFlag
  BY <1>4 DEF ReadyFlag
<1>5. CASE ReadyLoop
  BY <1>5 DEF ReadyLoop
<1>6. CASE ReadyCheckAndPrune
  <2>1. CASE sCycle < readyUntil
    BY <1>6, <2>1 DEF ReadyCheckAndPrune
  <2>2. CASE sCycle >= readyUntil /\ readyStates[sCycle] = "unset"
    BY <1>6, <2>2 DEF ReadyCheckAndPrune
  <2>3. CASE sCycle >= readyUntil /\ readyStates[sCycle] # "unset"
    <3>1. readyUntil' = sCycle + 1 /\ sCycle \in Cycles
      BY <1>6, <2>3 DEF ReadyCheckAndPrune
    <3>2. \A c \in Cycles : c <= sCycle => decision[c] # "unset"
      <4>1. decision[sCycle] # "unset"
        BY <2>3, <3>1
      <4>2. ASSUME NEW c \in Cycles, c < sCycle, c >= Initial
            PROVE  decision[c] # "unset"
        <5>1. sCycle < nextUpdate /\ sCycle \in Int /\ c \in Int /\ nextUpdate \in Int
          BY <3>1, <4>1, <4>2
        <5>2. pcR \in InUpdate => nextUpdate = upd.cycle + 1 /\ upd.cycle \in Int
          OBVIOUS
        <5>3. c < nextUpdate /\ ~ (pcR \in InUpdate /\ c = upd.cycle)
          BY <4>2, <5>1, <5>2
        <5> QED
          BY <4>2, <5>3
      <4>3. \A c \in Cycles : c < Initial => decision[c] # "unset"
        OBVIOUS
      <4>4. \A c \in Cycles : c <= sCycle => c = sCycle \/ c < sCycle
        BY <3>1
      <4>5. \A c \in Cycles : c < Initial \/ c >= Initial
        OBVIOUS
      <4> QED
        BY <4>1, <4>2, <4>3, <4>4, <4>5, Zenon
    <3>3. StatesAreDecisions'
      BY <1>6, <2>3, <3>1, <3>2 DEF ReadyCheckAndPrune
    <3> QED
      BY <1>6, <2>3, <3>3 DEF ReadyCheckAndPrune
  <2> QED
    BY <2>1, <2>2, <2>3
<1>7. CASE ReadySleep
  BY <1>7 DEF ReadySleep
<1>8. CASE ReadyClear
  BY <1>8 DEF ReadyClear
<1>9. CASE SetDoneStore
  BY <1>9 DEF SetDoneStore
<1>10. CASE SetDoneFlag
  BY <1>10 DEF SetDoneFlag
<1>11. CASE SetDoneTarget
  BY <1>11 DEF SetDoneTarget
<1>12. CASE SetDoneNotify
  BY <1>12 DEF SetDoneNotify
<1>13. CASE WaitDoneFast
  BY <1>13 DEF WaitDoneFast
<1>14. CASE WaitDonePublish
  BY <1>14 DEF WaitDonePublish
<1>15. CASE WaitDoneFlag
  BY <1>15 DEF WaitDoneFlag
<1>16. CASE WaitDoneLoop
  BY <1>16 DEF WaitDoneLoop
<1>17. CASE WaitDoneSleep
  BY <1>17 DEF WaitDoneSleep
<1>18. CASE WaitDoneClear
  BY <1>18 DEF WaitDoneClear
<1>19. CASE CallUpdateReady
  BY <1>19 DEF CallUpdateReady
<1>20. CASE UpdateReadyStart
  BY <1>20 DEF UpdateReadyStart
<1>21. CASE UpdateReadyFast
  BY <1>21 DEF UpdateReadyFast
<1>22. CASE UpdateReadyDecided
  BY <1>22 DEF UpdateReadyDecided
<1>23. CASE UpdateReadySet
  BY <1>23 DEF UpdateReadySet
<1>24. CASE NotifyFlag
  BY <1>24 DEF NotifyFlag
<1>25. CASE NotifyTarget
  BY <1>25 DEF NotifyTarget
<1>26. CASE NotifySend
  BY <1>26 DEF NotifySend
<1>27. CASE NextRCycle
  BY <1>27 DEF NextRCycle
<1>28. CASE UNCHANGED vars
  BY <1>28
<1> QED
  BY <1>1, <1>2, <1>3, <1>4, <1>5, <1>6, <1>7, <1>8, <1>9, <1>10, <1>11, <1>12, <1>13, <1>14, <1>15, <1>16, <1>17, <1>18, <1>19, <1>20, <1>21, <1>22, <1>23, <1>24, <1>25, <1>26, <1>27, <1>28
  DEF Next, Upstream, Downstream, Ready, SetDone, WaitDone, UpdateReady, Finished

\* Every step keeps the answers true when a refused cycle is not asked again.
LEMMA AnswerStep == ~RetryRefused /\ TypeOK /\ TypeOK' /\ ReadyInv /\ AnswerInv /\ [Next]_vars => AnswerInv'
<1> SUFFICES ASSUME ~RetryRefused, TypeOK, TypeOK', ReadyInv, AnswerInv, [Next]_vars PROVE AnswerInv'
  OBVIOUS
<1> USE ConstantsAssumption DEF TypeOK, ReadyInv, StatesAreDecisions, InOrder, AnswerInv, RefusalsAnswered, AnswerHolds, InReady, InUpdate, InNotify, Cycles, Decision, Decide, newReadyUntil, NoStates, Compacts, vars, doneVars, readyVars, sVars, rVars, NextSCycle
<1>1. CASE AskReady
  BY <1>1 DEF AskReady
<1>2. CASE ReadyFast
  BY <1>2 DEF ReadyFast
<1>3. CASE ReadyPublish
  BY <1>3 DEF ReadyPublish
<1>4. CASE ReadyFlag
  BY <1>4 DEF ReadyFlag
<1>5. CASE ReadyLoop
  BY <1>5 DEF ReadyLoop
<1>6. CASE ReadyCheckAndPrune
  BY <1>6 DEF ReadyCheckAndPrune
<1>7. CASE ReadySleep
  BY <1>7 DEF ReadySleep
<1>8. CASE ReadyClear
  BY <1>8 DEF ReadyClear
<1>9. CASE SetDoneStore
  BY <1>9 DEF SetDoneStore
<1>10. CASE SetDoneFlag
  BY <1>10 DEF SetDoneFlag
<1>11. CASE SetDoneTarget
  BY <1>11 DEF SetDoneTarget
<1>12. CASE SetDoneNotify
  BY <1>12 DEF SetDoneNotify
<1>13. CASE WaitDoneFast
  BY <1>13 DEF WaitDoneFast
<1>14. CASE WaitDonePublish
  BY <1>14 DEF WaitDonePublish
<1>15. CASE WaitDoneFlag
  BY <1>15 DEF WaitDoneFlag
<1>16. CASE WaitDoneLoop
  BY <1>16 DEF WaitDoneLoop
<1>17. CASE WaitDoneSleep
  BY <1>17 DEF WaitDoneSleep
<1>18. CASE WaitDoneClear
  BY <1>18 DEF WaitDoneClear
<1>19. CASE CallUpdateReady
  BY <1>19 DEF CallUpdateReady
<1>20. CASE UpdateReadyStart
  BY <1>20 DEF UpdateReadyStart
<1>21. CASE UpdateReadyFast
  <2>1. CASE readyUntil = upd.cycle /\ NoStates
    <3>1. decision[upd.cycle] = "unset" \/ upd.cycle < Initial
      BY <1>21 DEF UpdateReadyFast
    <3>2. decision' = [decision EXCEPT ![upd.cycle] = "ready"]
      BY <1>21, <2>1 DEF UpdateReadyFast
    <3> QED
      BY <1>21, <2>1, <3>1, <3>2 DEF UpdateReadyFast
  <2>2. CASE ~ (readyUntil = upd.cycle /\ NoStates)
    BY <1>21, <2>2 DEF UpdateReadyFast
  <2> QED
    BY <2>1, <2>2
<1>22. CASE UpdateReadyDecided
  BY <1>22 DEF UpdateReadyDecided
<1>23. CASE UpdateReadySet
  BY <1>23 DEF UpdateReadySet
<1>24. CASE NotifyFlag
  BY <1>24 DEF NotifyFlag
<1>25. CASE NotifyTarget
  BY <1>25 DEF NotifyTarget
<1>26. CASE NotifySend
  BY <1>26 DEF NotifySend
<1>27. CASE NextRCycle
  BY <1>27 DEF NextRCycle
<1>28. CASE UNCHANGED vars
  BY <1>28
<1> QED
  BY <1>1, <1>2, <1>3, <1>4, <1>5, <1>6, <1>7, <1>8, <1>9, <1>10, <1>11, <1>12, <1>13, <1>14, <1>15, <1>16, <1>17, <1>18, <1>19, <1>20, <1>21, <1>22, <1>23, <1>24, <1>25, <1>26, <1>27, <1>28
  DEF Next, Upstream, Downstream, Ready, SetDone, WaitDone, UpdateReady, Finished

-----------------------------------------------------------------------------
\* ComponentSync keeps its types: in particular no notification channel ever
\* holds more than one token.
THEOREM TypeCorrect == Spec => []TypeOK
<1>1. Init => TypeOK
  <2> SUFFICES ASSUME Init PROVE TypeOK
    OBVIOUS
  <2>1. mu \in BOOLEAN
    BY DEF Init
  <2>2. upd \in [cycle : Cycles, ready : BOOLEAN]
    BY ConstantsAssumption DEF Init, Cycles
  <2>3. /\ readyStates \in [Cycles -> Decision]
        /\ decision \in [Cycles -> Decision]
    BY ConstantsAssumption DEF Init, Cycles, Decision
  <2> QED
    BY <2>1, <2>2, <2>3, ConstantsAssumption DEF Init, TypeOK
<1> QED
  BY <1>1, TypeStep, PTL DEF Spec

\* No order of the loads and stores of SetDone and WaitDone leaves WaitDone
\* asleep without a token when its cycle is done.
THEOREM DoneWakeup == Spec => []NoLostDoneWakeup
<1>1. Init => DoneInv
  BY DEF Init, DoneInv, DonePublished, NoLostDoneWakeup, InSetDone
<1>2. DoneInv => NoLostDoneWakeup
  BY DEF DoneInv
<1> QED
  BY <1>1, <1>2, TypeCorrect, DoneStep, PTL DEF Spec

\* The invariant of the ready side holds in every behaviour.
LEMMA ReadyInvariant == Spec => []ReadyInv
<1>1. Init => ReadyInv
  BY ConstantsAssumption
  DEF Init, ReadyInv, ReadyPublished, StatesAreDecisions, InOrder, NoPanic,
      NoLostReadyWakeup, InReady, InUpdate, InNotify, Cycles
<1> QED
  BY <1>1, TypeCorrect, ReadyStep, PTL DEF Spec

\* No order of the loads and stores of UpdateReady and Ready leaves Ready
\* asleep without a token when its cycle has been decided.
THEOREM ReadyWakeup == Spec => []NoLostReadyWakeup
<1>1. ReadyInv => NoLostReadyWakeup
  BY DEF ReadyInv
<1> QED
  BY <1>1, ReadyInvariant, PTL

\* UpdateReady never panics when the cycles are decided in order.
THEOREM NeverPanics == Spec => []NoPanic
<1>1. ReadyInv => NoPanic
  BY DEF ReadyInv
<1> QED
  BY <1>1, ReadyInvariant, PTL

\* As long as the upstream side does not ask again in a cycle it was refused,
\* Ready returns the declared decision, although a refusal is forgotten as
\* soon as it has been returned.
THEOREM AnswersAreDecisions ==
    ASSUME ~RetryRefused PROVE Spec => []AnswerIsDecision
<1>1. Init => AnswerInv
  BY ConstantsAssumption
  DEF Init, AnswerInv, RefusalsAnswered, AnswerHolds, Cycles
<1>2. TypeOK /\ TypeOK' /\ ReadyInv /\ AnswerInv /\ [Next]_vars => AnswerInv'
  BY AnswerStep
<1>3. AnswerInv => AnswerIsDecision
  BY DEF AnswerInv, AnswerHolds, AnswerIsDecision
<1> QED
  BY <1>1, <1>2, <1>3, TypeCorrect, ReadyInvariant, PTL DEF Spec

-----------------------------------------------------------------------------
(* The four calls implement the abstract handshake.                        *)

\* How done runs behind the upstream side's cycle, and what the downstream
\* side knows of it when WaitDone is about to return.
Tracks ==
    /\ pcS \in InSetDone \union {"end"} => done = sCycle
    /\ pcS \notin InSetDone \union {"end"} => done = sCycle - 1
    /\ pcR = "wdClear" => done >= rCycle
    /\ pcR \in InUpdate => upd.cycle <= rCycle + Ahead

\* Every step keeps track of done.
LEMMA TracksStep == TypeOK /\ Tracks /\ [Next]_vars => Tracks'
<1> SUFFICES ASSUME TypeOK, Tracks, [Next]_vars PROVE Tracks'
  OBVIOUS
<1> USE ConstantsAssumption DEF TypeOK, Tracks, InSetDone, InUpdate, vars, doneVars,
        readyVars, sVars, rVars, NextSCycle
<1>1. CASE AskReady
  BY <1>1 DEF AskReady
<1>2. CASE ReadyFast
  BY <1>2 DEF ReadyFast
<1>3. CASE ReadyPublish
  BY <1>3 DEF ReadyPublish
<1>4. CASE ReadyFlag
  BY <1>4 DEF ReadyFlag
<1>5. CASE ReadyLoop
  BY <1>5 DEF ReadyLoop
<1>6. CASE ReadyCheckAndPrune
  BY <1>6 DEF ReadyCheckAndPrune
<1>7. CASE ReadySleep
  BY <1>7 DEF ReadySleep
<1>8. CASE ReadyClear
  BY <1>8 DEF ReadyClear
<1>9. CASE SetDoneStore
  BY <1>9 DEF SetDoneStore
<1>10. CASE SetDoneFlag
  BY <1>10 DEF SetDoneFlag
<1>11. CASE SetDoneTarget
  BY <1>11 DEF SetDoneTarget
<1>12. CASE SetDoneNotify
  BY <1>12 DEF SetDoneNotify
<1>13. CASE WaitDoneFast
  BY <1>13 DEF WaitDoneFast
<1>14. CASE WaitDonePublish
  BY <1>14 DEF WaitDonePublish
<1>15. CASE WaitDoneFlag
  BY <1>15 DEF WaitDoneFlag
<1>16. CASE WaitDoneLoop
  BY <1>16 DEF WaitDoneLoop
<1>17. CASE WaitDoneSleep
  BY <1>17 DEF WaitDoneSleep
<1>18. CASE WaitDoneClear
  BY <1>18 DEF WaitDoneClear
<1>19. CASE CallUpdateReady
  BY <1>19 DEF CallUpdateReady
<1>20. CASE UpdateReadyStart
  BY <1>20 DEF UpdateReadyStart
<1>21. CASE UpdateReadyFast
  BY <1>21 DEF UpdateReadyFast
<1>22. CASE UpdateReadyDecided
  BY <1>22 DEF UpdateReadyDecided
<1>23. CASE UpdateReadySet
  BY <1>23 DEF UpdateReadySet
<1>24. CASE NotifyFlag
  BY <1>24 DEF NotifyFlag
<1>25. CASE NotifyTarget
  BY <1>25 DEF NotifyTarget
<1>26. CASE NotifySend
  BY <1>26 DEF NotifySend
<1>27. CASE NextRCycle
  BY <1>27 DEF NextRCycle
<1>28. CASE UNCHANGED vars
  BY <1>28
<1> QED
  BY <1>1, <1>2, <1>3, <1>4, <1>5, <1>6, <1>7, <1>8, <1>9, <1>10, <1>11, <1>12, <1>13, <1>14, <1>15, <1>16, <1>17, <1>18, <1>19, <1>20, <1>21, <1>22, <1>23, <1>24, <1>25, <1>26, <1>27, <1>28
     DEF Next, Upstream, Downstream, Ready, SetDone, WaitDone, UpdateReady, Finished

\* What the concrete state says to the abstract handshake.
HandshakeInv == TypeOK /\ ReadyInv /\ AnswerInv /\ Tracks

asking == pcS \in {"rdFast", "rdPublish", "rdFlag", "rdLoop", "rdLock", "rdSleep"}
shown == IF pcS \in {"sdFlag", "sdTarget", "sdNotify"} THEN "none" ELSE answer
waited == pcR \notin {"wdFast", "wdPublish", "wdFlag", "wdLoop", "wdSleep", "wdClear", "end"}
reached == IF pcR = "end" THEN LastCycle + 1 ELSE rCycle

\* A cycle below readyUntil was declared ready if the upstream side still asks
\* for it.
LEMMA PrunedIsReady ==
    ASSUME HandshakeInv, pcS \in {"rdFast"} \union InReady, sCycle < readyUntil
    PROVE  decision[sCycle] = "ready"
<1>1. sCycle \in Cycles /\ sCycle \in Nat
  BY ConstantsAssumption DEF HandshakeInv, TypeOK, Cycles
<1>2. decision[sCycle] # "unset" /\ decision[sCycle] \in Decision
  BY <1>1 DEF HandshakeInv, ReadyInv, StatesAreDecisions, TypeOK
<1>3. decision[sCycle] # "notReady"
  BY <1>1 DEF HandshakeInv, AnswerInv, RefusalsAnswered, InReady
<1> QED
  BY <1>2, <1>3 DEF Decision

\* Ready answers what was declared, however it came to know.
LEMMA AnswerSteps ==
    ASSUME HandshakeInv, ReadyFast \/ ReadyLoop \/ ReadyCheckAndPrune
    PROVE  Abstract!Answer \/ UNCHANGED Abstract!vars
<1> USE DEF asking, shown, waited, reached
<1>1. /\ UNCHANGED <<done, decision, pcR, rCycle>> /\ sCycle \in Cycles
      /\ done + 1 = sCycle /\ asking /\ readyUntil \in Int /\ sCycle \in Int
  BY ConstantsAssumption DEF HandshakeInv, TypeOK, Tracks, InSetDone, Cycles, ReadyFast, ReadyLoop,
     ReadyCheckAndPrune, doneVars, readyVars, rVars
<1>2. sCycle < readyUntil => decision[sCycle] = "ready"
  BY PrunedIsReady DEF ReadyFast, ReadyLoop, ReadyCheckAndPrune, InReady
<1>3. sCycle >= readyUntil => readyStates[sCycle] = decision[sCycle]
  BY <1>1 DEF HandshakeInv, ReadyInv, StatesAreDecisions
<1>4. \/ /\ asking' /\ shown' = shown
      \/ /\ ~asking' /\ decision[sCycle] # "unset"
         /\ shown' = IF decision[sCycle] = "ready" THEN "yes" ELSE "no"
  <2>1. CASE ReadyFast
    BY <1>2, <2>1 DEF ReadyFast
  <2>2. CASE ReadyLoop
    BY <1>2, <2>2 DEF ReadyLoop
  <2>3. CASE ReadyCheckAndPrune
    BY <1>2, <1>3, <2>3 DEF ReadyCheckAndPrune
  <2> QED
    BY <2>1, <2>2, <2>3
<1>5. CASE asking' /\ shown' = shown
  <2>1. asking' = asking
    BY <1>1, <1>5
  <2> QED
    BY <1>1, <1>5, <2>1 DEF Abstract!vars
<1>6. CASE /\ ~asking' /\ decision[sCycle] # "unset"
           /\ shown' = IF decision[sCycle] = "ready" THEN "yes" ELSE "no"
  <2>1. asking' = FALSE
    BY <1>6
  <2> QED
    BY <1>1, <1>6, <2>1 DEF Abstract!Answer
<1> QED
  BY <1>4, <1>5, <1>6

\* UpdateReady declares the next undecided cycle, or repeats a declaration
\* made at the start.
LEMMA DeclareSteps ==
    ASSUME HandshakeInv, Decide, pcR \in InUpdate, pcR' = "ntFlag",
           UNCHANGED <<doneVars, sVars, rCycle>>
    PROVE  Abstract!Declare \/ UNCHANGED Abstract!vars
<1> USE DEF asking, shown, waited, reached
<1> DEFINE c == upd.cycle
           d == IF upd.ready THEN "ready" ELSE "notReady"
<1>1. /\ c \in Cycles /\ c \in Int /\ d \in {"ready", "notReady"}
      /\ nextUpdate = c + 1 /\ c <= rCycle + Ahead
      /\ decision' = [decision EXCEPT ![c] = d] /\ decision \in [Cycles -> Decision]
      /\ Initial \in Int
  BY ConstantsAssumption DEF HandshakeInv, TypeOK, ReadyInv, InOrder, Tracks, Decide, Cycles
<1>2. /\ waited /\ waited' /\ reached = rCycle
      /\ UNCHANGED <<done, asking, shown, reached>>
  BY DEF InUpdate, doneVars, sVars
<1>3. waited' = waited
  BY <1>2
<1>4. CASE c < Initial
  <2>1. upd.ready /\ decision[c] = "ready"
    BY <1>1, <1>4 DEF HandshakeInv, ReadyInv, InOrder
  <2>2. decision' = decision
    BY <1>1, <2>1
  <2> QED
    BY <1>2, <1>3, <2>2 DEF Abstract!vars
<1>5. CASE c >= Initial
  <2>1. decision[c] = "unset"
    BY <1>1, <1>5 DEF HandshakeInv, ReadyInv, InOrder
  <2>2. \A b \in Cycles : b < c => decision[b] # "unset"
    <3>1. \A b \in Cycles : b < c => b < nextUpdate /\ b # c
      BY <1>1 DEF Cycles
    <3> QED
      BY <3>1 DEF HandshakeInv, ReadyInv, InOrder
  <2> HIDE DEF c, d
  <2>3. Abstract!Declare
    BY <1>1, <1>2, <1>3, <2>1, <2>2 DEF Abstract!Declare, Abstract!Cycles, Cycles
  <2> QED
    BY <2>3
<1> QED
  BY <1>1, <1>4, <1>5

\* Every atomic step of the four calls is a step of the handshake, or none.
LEMMA HandshakeStep ==
    ASSUME HandshakeInv, [Next]_vars
    PROVE  [Abstract!Next]_(Abstract!vars)
<1> USE DEF asking, shown, waited, reached
<1>0. /\ sCycle \in 0 .. LastCycle /\ rCycle \in 0 .. LastCycle /\ LastCycle \in Nat
      /\ done \in Int
      /\ pcS \in InSetDone \union {"end"} => done = sCycle
      /\ pcS \notin InSetDone \union {"end"} => done = sCycle - 1
      /\ pcR = "wdClear" => done >= rCycle
  BY ConstantsAssumption DEF HandshakeInv, TypeOK, Tracks
<1>a. ASSUME UNCHANGED <<done, decision>>, asking' = asking, shown' = shown,
             reached' = reached, waited' = waited
      PROVE  UNCHANGED Abstract!vars
  BY <1>a DEF Abstract!vars
<1>b. ASSUME UNCHANGED <<rVars, done, decision>>, asking' = asking, shown' = shown
      PROVE  UNCHANGED Abstract!vars
  BY <1>a, <1>b DEF rVars
<1>c. ASSUME UNCHANGED <<sVars, rCycle, done, decision>>, waited' = waited, pcR # "end",
             pcR' # "end"
      PROVE  UNCHANGED Abstract!vars
  BY <1>a, <1>c DEF sVars
<1>d. ASSUME NextSCycle, pcS \in InSetDone, UNCHANGED <<rVars, done, decision>>
      PROVE  UNCHANGED Abstract!vars
  <2>1. shown = "none" /\ shown' = "none" /\ asking = FALSE /\ asking' = FALSE
    BY <1>d DEF NextSCycle, InSetDone
  <2> QED
    BY <1>b, <1>d, <2>1
<1>1. CASE AskReady
  <2>1. /\ asking = FALSE /\ asking' = TRUE /\ shown' = shown /\ done < LastCycle
        /\ UNCHANGED <<done, decision, waited, reached>>
    BY <1>0, <1>1 DEF AskReady, doneVars, readyVars, rVars, InSetDone
  <2>2. Abstract!Ask
    BY <2>1 DEF Abstract!Ask
  <2> QED
    BY <2>2 DEF Abstract!Next
<1>2. CASE ReadyFast \/ ReadyLoop \/ ReadyCheckAndPrune
  BY <1>2, AnswerSteps DEF Abstract!Next
<1>3. CASE ReadyPublish
  BY <1>3, <1>b DEF ReadyPublish, doneVars
<1>4. CASE ReadyFlag
  BY <1>4, <1>b DEF ReadyFlag, doneVars
<1>5. CASE ReadySleep
  BY <1>5, <1>b DEF ReadySleep, doneVars
<1>6. CASE ReadyClear
  BY <1>6, <1>b DEF ReadyClear, doneVars
<1>7. CASE SetDoneStore
  <2>1. /\ asking = FALSE /\ asking' = FALSE /\ shown' = "none" /\ done < LastCycle
        /\ done' = done + 1
        /\ UNCHANGED <<decision, waited, reached>>
    BY <1>0, <1>7 DEF SetDoneStore, readyVars, rVars, InSetDone
  <2>2. Abstract!MarkDone
    BY <2>1 DEF Abstract!MarkDone
  <2> QED
    BY <2>2 DEF Abstract!Next
<1>8. CASE SetDoneFlag
  BY <1>8, <1>b, <1>d DEF SetDoneFlag, doneVars, readyVars, InSetDone
<1>9. CASE SetDoneTarget
  BY <1>9, <1>b, <1>d DEF SetDoneTarget, doneVars, readyVars, InSetDone
<1>10. CASE SetDoneNotify
  BY <1>10, <1>d DEF SetDoneNotify, readyVars, InSetDone
<1>e. ASSUME UNCHANGED <<sVars, rCycle, done, decision>>, waited = FALSE, waited' = TRUE,
             rCycle <= done, pcR # "end", pcR' # "end"
      PROVE  Abstract!WaitReturns
  BY <1>e DEF Abstract!WaitReturns, sVars
<1>11. CASE WaitDoneFast
  <2>1. CASE done >= rCycle
    <3>1. waited = FALSE /\ waited' = TRUE /\ rCycle <= done
      BY <1>0, <1>11, <2>1 DEF WaitDoneFast
    <3> QED
      BY <1>e, <1>11, <2>1, <3>1 DEF WaitDoneFast, doneVars, readyVars, Abstract!Next
  <2>2. CASE ~(done >= rCycle)
    BY <1>c, <1>11, <2>2 DEF WaitDoneFast, doneVars, readyVars
  <2> QED
    BY <2>1, <2>2
<1>12. CASE WaitDonePublish
  BY <1>12, <1>c DEF WaitDonePublish, readyVars
<1>13. CASE WaitDoneFlag
  BY <1>13, <1>c DEF WaitDoneFlag, readyVars
<1>14. CASE WaitDoneLoop
  BY <1>14, <1>c DEF WaitDoneLoop, doneVars, readyVars
<1>15. CASE WaitDoneSleep
  BY <1>15, <1>c DEF WaitDoneSleep, readyVars
<1>16. CASE WaitDoneClear
  <2>1. waited = FALSE /\ waited' = TRUE /\ rCycle <= done
    BY <1>0, <1>16 DEF WaitDoneClear
  <2> QED
    BY <1>e, <1>16, <2>1 DEF WaitDoneClear, readyVars, Abstract!Next
<1>17. CASE CallUpdateReady
  BY <1>17, <1>c DEF CallUpdateReady, doneVars, readyVars
<1>18. CASE UpdateReadyStart
  BY <1>18, <1>c DEF UpdateReadyStart, doneVars, readyVars
<1>19. CASE UpdateReadyFast
  <2>1. CASE Decide /\ pcR' = "ntFlag"
    BY <1>19, <2>1, DeclareSteps DEF UpdateReadyFast, InUpdate, Abstract!Next
  <2>2. CASE pcR' = "urSlow" /\ decision' = decision
    BY <1>19, <2>2, <1>c DEF UpdateReadyFast, doneVars
  <2> QED
    BY <1>19, <2>1, <2>2 DEF UpdateReadyFast
<1>20. CASE UpdateReadyDecided
  BY <1>20, <1>c DEF UpdateReadyDecided, doneVars, readyVars
<1>21. CASE UpdateReadySet
  BY <1>21, DeclareSteps DEF UpdateReadySet, InUpdate, Abstract!Next
<1>22. CASE NotifyFlag
  BY <1>22, <1>c DEF NotifyFlag, doneVars
<1>23. CASE NotifyTarget
  BY <1>23, <1>c DEF NotifyTarget, doneVars
<1>24. CASE NotifySend
  BY <1>24, <1>c DEF NotifySend, doneVars
<1>25. CASE NextRCycle
  <2>1. /\ waited = TRUE /\ waited' = FALSE /\ reached = rCycle /\ reached' = rCycle + 1
        /\ UNCHANGED <<done, asking, shown, decision>>
    BY <1>0, <1>25 DEF NextRCycle, doneVars, readyVars, sVars
  <2>2. decision[rCycle + 1] # "unset"
    <3>1. rCycle + 1 \in Cycles /\ rCycle + 1 < nextUpdate /\ pcR = "decide"
      BY <1>0, <1>25, ConstantsAssumption DEF NextRCycle, Cycles, HandshakeInv, TypeOK
    <3> QED
      BY <3>1 DEF HandshakeInv, ReadyInv, InOrder, InUpdate
  <2>3. Abstract!Proceed
    BY <2>1, <2>2 DEF Abstract!Proceed
  <2> QED
    BY <2>3 DEF Abstract!Next
<1>26. CASE UNCHANGED vars
  BY <1>26, <1>b DEF vars, doneVars, readyVars, sVars
<1> QED
  BY <1>1, <1>2, <1>3, <1>4, <1>5, <1>6, <1>7, <1>8, <1>9, <1>10, <1>11, <1>12, <1>13, <1>14, <1>15, <1>16, <1>17, <1>18, <1>19, <1>20, <1>21, <1>22, <1>23, <1>24, <1>25, <1>26
     DEF Next, Upstream, Downstream, Ready, SetDone, WaitDone, UpdateReady, Finished

\* As long as the upstream side does not ask again in a cycle it was refused,
\* Ready, SetDone, WaitDone and UpdateReady (sync.go) together do what the
\* handshake says, in spite of their flags, tokens, fast paths and pruning:
\* Ready answers what UpdateReady declared and WaitDone returns when the cycle
\* is done.
THEOREM ImplementsHandshakeSafely ==
    ASSUME ~RetryRefused PROVE Spec => Abstract!SafeSpec
<1>1. Init => Abstract!Init
  BY ConstantsAssumption DEF Init, Abstract!Init, Abstract!Cycles, Cycles
<1>2. Init => AnswerInv
  BY ConstantsAssumption
  DEF Init, AnswerInv, RefusalsAnswered, AnswerHolds, Cycles
<1>3. Init => Tracks
  BY DEF Init, Tracks, InSetDone, InUpdate
<1>4. TypeOK /\ TypeOK' /\ ReadyInv /\ AnswerInv /\ [Next]_vars => AnswerInv'
  BY AnswerStep
<1>5. TypeOK /\ Tracks /\ [Next]_vars => Tracks'
  BY TracksStep
<1>6. TypeOK /\ ReadyInv /\ AnswerInv /\ Tracks /\ [Next]_vars
        => [Abstract!Next]_(Abstract!vars)
  BY HandshakeStep DEF HandshakeInv
<1> QED
  BY <1>1, <1>2, <1>3, <1>4, <1>5, <1>6, TypeCorrect, ReadyInvariant, PTL
     DEF Spec, Abstract!SafeSpec
=============================================================================
