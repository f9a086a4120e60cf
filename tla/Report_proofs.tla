--------------------------- MODULE Report_proofs ---------------------------
(***************************************************************************)
(* Theorems about the report program.  Its steps are steps of the Slack    *)
(* sink, with the main goroutine as its caller, or leave the sink alone,   *)
(* so the sink's theorems hold here; what is left is what the main loop    *)
(* owes the sink between reading a verdict and notifying about it.         *)
(***************************************************************************)
EXTENDS Report, TLAPS

\* The theorems about the sink.
SinkT == INSTANCE SlackSink_proofs WITH Callers <- {"main"}, MaxAlerts <- MaxVerdicts

LEMMA SinkAssumptions == SinkT!SinkAssumption
  BY BufferAssumption, MaxVerdictsAssumption DEF SinkT!SinkAssumption

LEMMA SinkVars == UNCHANGED sinkVars => UNCHANGED SinkT!sinkVars
  BY DEF sinkVars, SinkT!sinkVars, SinkT!counters, SinkT!callerVars

\* Report's instance of the sink is the one the theorems are about.
LEMMA SinkOps ==
  /\ Sink!Maybe("main") => SinkT!Maybe("main")
  /\ Sink!Close("main") => SinkT!Close("main")
  /\ Sink!CloseReturns("main") => SinkT!CloseReturns("main")
  /\ Sink!SenderStep => SinkT!SenderStep
  <1>1. Sink!Maybe("main") => SinkT!Maybe("main")
    BY DEF Sink!Maybe, Sink!Enqueue, Sink!DropWhenFull, Sink!DropAfterClose, Sink!callerVars,
           SinkT!Maybe, SinkT!Enqueue, SinkT!DropWhenFull, SinkT!DropAfterClose, SinkT!callerVars
  <1>2. /\ Sink!Close("main") => SinkT!Close("main")
        /\ Sink!CloseReturns("main") => SinkT!CloseReturns("main")
    BY DEF Sink!Close, Sink!CloseFirst, Sink!CloseAgain, Sink!CloseNothing, Sink!Goto,
           Sink!CloseReturns, Sink!Drained, Sink!OnceDone, Sink!counters,
           SinkT!Close, SinkT!CloseFirst, SinkT!CloseAgain, SinkT!CloseNothing, SinkT!Goto,
           SinkT!CloseReturns, SinkT!Drained, SinkT!OnceDone, SinkT!counters
  <1>3. Sink!SenderStep => SinkT!SenderStep
    BY DEF Sink!SenderStep, Sink!Receive, Sink!Post, Sink!Quit, Sink!callerVars, Sink!counters,
           SinkT!SenderStep, SinkT!Receive, SinkT!Post, SinkT!Quit, SinkT!callerVars,
           SinkT!counters
  <1> QED BY <1>1, <1>2, <1>3

LEMMA InitSink == ReportInit => SinkT!SinkInit
  BY DEF ReportInit, Sink!SinkInit, SinkT!SinkInit

LEMMA NextSink == [ReportNext]_vars => [SinkT!SinkNext]_(SinkT!sinkVars)
  <1> SUFFICES ASSUME [ReportNext]_vars PROVE [SinkT!SinkNext]_(SinkT!sinkVars)
    OBVIOUS
  <1>1. CASE \/ UNCHANGED vars \/ (\E b \in Bands : Handle(b))
             \/ Closed \/ PrintSummary \/ Exit
    <2>1. UNCHANGED sinkVars
      BY <1>1 DEF vars, Handle, Closed, PrintSummary, Exit
    <2> QED BY <2>1, SinkVars
  <1>2. CASE Notify
    <2>1. Sink!Maybe("main") \/ UNCHANGED sinkVars
      BY <1>2 DEF Notify
    <2> QED BY <2>1, SinkVars, SinkOps DEF SinkT!SinkNext
  <1>3. CASE StdinEnds \/ DeferredClose \/ SinkStep
    <2>1. Sink!Close("main") \/ Sink!SenderStep \/ Sink!CloseReturns("main")
      BY <1>3 DEF StdinEnds, DeferredClose, SinkStep
    <2> QED BY <2>1, SinkOps DEF SinkT!SinkNext
  <1> QED BY <1>1, <1>2, <1>3 DEF ReportNext, MainStep

\* What the sink brings, in Report's own terms.
SinkOK == Sink!SinkTypeOK /\ Sink!EveryAlertCounted /\ Sink!ClosedMeansDrained

LEMMA SinkHolds == ReportSafetySpec => []SinkOK
  <1>1. ReportSafetySpec => SinkT!SinkSafetySpec
    BY InitSink, NextSink, PTL DEF ReportSafetySpec, SinkT!SinkSafetySpec
  <1>2. SinkT!SinkSafetySpec => []SinkT!SinkTypeOK /\ []SinkT!EveryAlertCounted
                                /\ []SinkT!ClosedMeansDrained
    BY SinkAssumptions, SinkT!SinkTypeCorrect, SinkT!AlertsCounted, SinkT!CloseDrains, PTL
  <1>3. SinkT!SinkTypeOK /\ SinkT!EveryAlertCounted /\ SinkT!ClosedMeansDrained => SinkOK
    BY DEF SinkOK, Sink!SinkTypeOK, Sink!EveryAlertCounted, Sink!ClosedMeansDrained,
           Sink!InFlight, Sink!CallerStates,
           SinkT!SinkTypeOK, SinkT!EveryAlertCounted, SinkT!ClosedMeansDrained,
           SinkT!InFlight, SinkT!CallerStates
  <1> QED BY <1>1, <1>2, <1>3, PTL

-----------------------------------------------------------------------------
(* The main loop.                                                          *)

\* A verdict that was counted as an alert and not yet passed to the sink.
Owed == IF main = "notify" /\ BandAtLeast(band, slackThreshold) THEN 1 ELSE 0

ReportInv ==
  /\ alerts \in Nat /\ shown \in Nat
  /\ BandAtLeast(slackThreshold, threshold) => alerts <= shown
  /\ offered + Owed = IF enabled THEN alerts ELSE Owed
  /\ main \in {"summary", "return"} => caller["main"] = "closed"
  /\ stats.printed => main \in {"return", "returning", "exited"}
  /\ SummaryComplete

LEMMA RankOrder ==
  ASSUME NEW b, NEW s, NEW t, BandAtLeast(b, s), BandAtLeast(s, t)
  PROVE  BandAtLeast(b, t)
  <1>1. \A x : BandRank(x) \in Nat
    BY DEF BandRank
  <1> HIDE DEF BandRank
  <1> QED BY <1>1 DEF BandAtLeast

\* The sink's step on behalf of main moves no alert.
LEMMA SinkStepQuiet ==
  ASSUME Sink!Close("main") \/ Sink!CloseReturns("main") \/ Sink!SenderStep
  PROVE  /\ enabled' = enabled /\ offered' = offered
         /\ Sink!SenderStep => caller' = caller
         /\ Sink!CloseReturns("main") => caller["main"] # "closed"
  BY DEF Sink!Close, Sink!CloseFirst, Sink!CloseAgain, Sink!CloseNothing,
         Sink!CloseReturns, Sink!Drained, Sink!OnceDone,
         Sink!SenderStep, Sink!Receive, Sink!Post, Sink!Quit, Sink!callerVars

LEMMA NextReport == SinkOK /\ ReportInv /\ [ReportNext]_vars => ReportInv'
  <1> SUFFICES ASSUME SinkOK, ReportInv, [ReportNext]_vars PROVE ReportInv'
    OBVIOUS
  <1>0. /\ offered \in Nat /\ sent \in Nat /\ failed \in Nat /\ dropped \in Nat
        /\ enabled \in BOOLEAN /\ alerts \in Nat /\ shown \in Nat
        /\ Owed \in {0, 1} /\ Owed' \in {0, 1}
    BY DEF SinkOK, Sink!SinkTypeOK, ReportInv, Owed
  <1>1. CASE UNCHANGED vars
    BY <1>1 DEF vars, sinkVars, thresholds, tallies, ReportInv, Owed, SummaryComplete
  <1>2. ASSUME NEW b \in Bands, Handle(b)
        PROVE  ReportInv'
    <2>1. /\ main = "read" /\ main' = "notify" /\ band' = b
          /\ shown' = (IF BandAtLeast(b, threshold) THEN shown + 1 ELSE shown)
          /\ alerts' = (IF BandAtLeast(b, slackThreshold) THEN alerts + 1 ELSE alerts)
          /\ UNCHANGED <<threshold, slackThreshold, stats, enabled, offered, caller>>
      BY <1>2 DEF Handle, Shown, thresholds, sinkVars
    <2>2. ASSUME BandAtLeast(slackThreshold, threshold)
          PROVE  alerts' <= shown'
      <3>1. alerts <= shown
        BY <2>2 DEF ReportInv
      <3>2. BandAtLeast(b, slackThreshold) => BandAtLeast(b, threshold)
        BY <2>2, RankOrder
      <3> QED BY <1>0, <2>1, <3>1, <3>2
    <2>3. Owed = 0 /\ Owed' = IF BandAtLeast(b, slackThreshold) THEN 1 ELSE 0
      BY <2>1 DEF Owed
    <2>4. offered' + Owed' = IF enabled' THEN alerts' ELSE Owed'
      BY <1>0, <2>1, <2>3 DEF ReportInv
    <2>5. SummaryComplete'
      BY <2>1 DEF ReportInv, SummaryComplete
    <2>6. BandAtLeast(slackThreshold, threshold)' <=> BandAtLeast(slackThreshold, threshold)
      BY <2>1 DEF BandAtLeast
    <2>7. alerts' \in Nat /\ shown' \in Nat
      BY <1>0, <2>1
    <2> QED BY <2>1, <2>2, <2>4, <2>5, <2>6, <2>7 DEF ReportInv
  <1>3. CASE Notify
    <2>1. /\ main = "notify" /\ main' = "read"
          /\ UNCHANGED <<threshold, slackThreshold, band, stats, shown, alerts>>
      BY <1>3 DEF Notify, thresholds, tallies
    <2>2. Owed' = 0
      BY <2>1 DEF Owed
    <2>3. CASE enabled /\ BandAtLeast(band, slackThreshold) /\ Sink!Maybe("main")
      <3>1. enabled' = enabled /\ offered' = offered + 1
        BY <2>3 DEF Sink!Maybe
      <3>2. Owed = 1
        BY <2>1, <2>3 DEF Owed
      <3> QED BY <1>0, <2>1, <2>2, <2>3, <3>1, <3>2
              DEF ReportInv, SummaryComplete, BandAtLeast
    <2>4. CASE ~(enabled /\ BandAtLeast(band, slackThreshold)) /\ UNCHANGED sinkVars
      <3>1. enabled' = enabled /\ offered' = offered
        BY <2>4 DEF sinkVars
      <3>2. enabled => Owed = 0
        BY <2>4 DEF Owed
      <3> QED BY <1>0, <2>1, <2>2, <3>1, <3>2 DEF ReportInv, SummaryComplete, BandAtLeast
    <2> QED BY <1>3, <2>3, <2>4 DEF Notify
  <1>4. CASE StdinEnds \/ DeferredClose
    <2>1. /\ \/ main = "read" /\ main' = "closing"
             \/ main = "return" /\ main' = "returning"
          /\ UNCHANGED <<threshold, slackThreshold, band, stats, shown, alerts>>
          /\ enabled' = enabled /\ offered' = offered
      BY <1>4, SinkStepQuiet DEF StdinEnds, DeferredClose, thresholds, tallies
    <2> QED BY <2>1 DEF ReportInv, SummaryComplete, BandAtLeast, Owed
  <1>5. CASE Closed
    <2>1. /\ main = "closing" /\ main' = "summary" /\ caller["main"] = "closed"
          /\ UNCHANGED <<threshold, slackThreshold, band, stats, shown, alerts,
                         enabled, offered, caller>>
      BY <1>5 DEF Closed, thresholds, tallies, sinkVars
    <2> QED BY <2>1 DEF ReportInv, SummaryComplete, BandAtLeast, Owed
  <1>6. CASE PrintSummary
    <2>1. /\ main = "summary" /\ main' = "return"
          /\ stats' = [sent |-> sent, failed |-> failed, dropped |-> dropped, printed |-> TRUE]
          /\ UNCHANGED <<threshold, slackThreshold, band, shown, alerts,
                         enabled, offered, caller>>
      BY <1>6 DEF PrintSummary, thresholds, tallies, sinkVars
    <2>2. ASSUME enabled
          PROVE  sent + failed + dropped = alerts
      <3>1. sent + failed = Len(accepted) /\ offered = Len(accepted) + dropped
        BY <2>1, <2>2 DEF ReportInv, SinkOK, Sink!ClosedMeansDrained, Sink!EveryAlertCounted
      <3>2. offered = alerts
        BY <1>0, <2>1, <2>2 DEF ReportInv, Owed
      <3> QED BY <1>0, <3>1, <3>2
    <2> QED BY <2>1, <2>2 DEF ReportInv, SummaryComplete, BandAtLeast, Owed
  <1>7. CASE Exit
    <2>1. /\ main = "returning" /\ main' = "exited"
          /\ UNCHANGED <<threshold, slackThreshold, band, stats, shown, alerts,
                         enabled, offered, caller>>
      BY <1>7 DEF Exit, thresholds, tallies, sinkVars
    <2> QED BY <2>1 DEF ReportInv, SummaryComplete, BandAtLeast, Owed
  <1>8. CASE SinkStep
    <2>1. /\ UNCHANGED <<main, threshold, slackThreshold, band, stats, shown, alerts>>
          /\ enabled' = enabled /\ offered' = offered
          /\ caller["main"] = "closed" => caller'["main"] = "closed"
      BY <1>8, SinkStepQuiet DEF SinkStep, thresholds, tallies
    <2> QED BY <2>1 DEF ReportInv, SummaryComplete, BandAtLeast, Owed
  <1> QED BY <1>1, <1>2, <1>3, <1>4, <1>5, <1>6, <1>7, <1>8 DEF ReportNext, MainStep

LEMMA InitReport == ReportInit => ReportInv
  BY DEF ReportInit, Sink!SinkInit, NoStats, ReportInv, SummaryComplete, Owed

\* The sink keeps its promises inside the report program, and the main loop
\* owes it at most the verdict in hand.
THEOREM ReportInvariant == ReportSafetySpec => [](SinkOK /\ ReportInv)
  BY InitReport, NextReport, SinkHolds, PTL DEF ReportSafetySpec

\* The printed "slack:" line accounts for every verdict at or above the Slack
\* threshold, for any buffer and any number of verdicts (main.go 120).
THEOREM SummaryAccountsForAll == ReportSafetySpec => []SummaryComplete
  <1>1. ReportInv => SummaryComplete
    BY DEF ReportInv
  <1> QED BY <1>1, ReportInvariant, PTL

\* One ranking for display and Slack: with a Slack threshold not below the
\* display threshold nothing is alerted that was not printed.
THEOREM NothingHiddenAlerted == ReportSafetySpec => []AlertsWereShown
  <1>1. SinkOK /\ ReportInv => AlertsWereShown
    <2> SUFFICES ASSUME SinkOK, ReportInv, BandAtLeast(slackThreshold, threshold)
                 PROVE  offered <= shown
      BY DEF AlertsWereShown
    <2>1. offered \in Nat /\ alerts \in Nat /\ shown \in Nat /\ alerts <= shown /\ Owed \in {0, 1}
      BY DEF SinkOK, Sink!SinkTypeOK, ReportInv, Owed
    <2>2. offered <= alerts
      BY <2>1 DEF ReportInv
    <2> QED BY <2>1, <2>2
  <1> QED BY <1>1, ReportInvariant, PTL
=============================================================================
