------------------------------- MODULE Report -------------------------------
(***************************************************************************)
(* The report program, src/exectrace/cmd/report/main.go (59-135): one loop *)
(* that reads verdicts, tallies and prints them (internal/report/          *)
(* report.go) and alerts Slack (SlackSink, with the main goroutine as its  *)
(* one caller), then the drain and the summary.                            *)
(*                                                                         *)
(* A verdict is its band.  Pre-scored input may carry any text as a band;  *)
(* "other" stands for those that are none of the three.  Blank and         *)
(* malformed lines change nothing.                                         *)
(*                                                                         *)
(* Definitions that no action uses (ShownAbove, StdinEndsUndrained) are    *)
(* mutants of the definition that follows them.                            *)
(***************************************************************************)
EXTENDS Naturals, Sequences

CONSTANTS BufferSize,   \* the sink's
          MaxVerdicts   \* bound: how many verdicts stdin holds

ASSUME BufferAssumption == BufferSize \in Nat \ {0}
ASSUME MaxVerdictsAssumption == MaxVerdicts \in Nat

VARIABLES
  main,        \* read, notify, closing, summary, return, returning, exited
  threshold,   \* the display threshold
  slackThreshold,
  band,        \* the band of the verdict in hand
  scanned, flagged, perBand,   \* the summary
  stats,       \* what the summary printed of the sink, NoStats before
  \* history
  shown,       \* how many verdicts were printed
  alerts,      \* how many verdicts were at or above slackThreshold
  \* the sink
  enabled, ch, chClosed, once, caller, sender, posting, sent, failed, dropped,
  offered, accepted

Sink == INSTANCE SlackSink WITH Callers <- {"main"}, MaxAlerts <- MaxVerdicts

sinkVars == <<enabled, ch, chClosed, once, caller, sender, posting, sent, failed, dropped,
              offered, accepted>>
thresholds == <<threshold, slackThreshold>>
tallies == <<band, scanned, flagged, perBand, shown, alerts>>
vars == <<main, thresholds, tallies, stats, sinkVars>>

ValidBands == {"LOW", "GRAY", "HIGH"}
Bands == ValidBands \cup {"other"}

\* Unknown bands rank as LOW: the zero value of a missing map entry.
BandRank(b) == CASE b = "HIGH" -> 2 [] b = "GRAY" -> 1 [] OTHER -> 0

BandAtLeast(b, t) == BandRank(b) >= BandRank(t)

\* A flag that names no band falls back.
Threshold(flag, fallback) == IF flag \in ValidBands THEN flag ELSE fallback

NoStats == [sent |-> 0, failed |-> 0, dropped |-> 0, printed |-> FALSE]

ReportInit ==
  /\ Sink!SinkInit
  /\ main = "read"
  /\ threshold \in {Threshold(flag, "LOW") : flag \in Bands}
  /\ slackThreshold \in {Threshold(flag, "HIGH") : flag \in Bands}
  /\ band = "LOW"
  /\ scanned = 0 /\ flagged = 0 /\ perBand = [b \in Bands |-> 0]
  /\ stats = NoStats
  /\ shown = 0 /\ alerts = 0

-----------------------------------------------------------------------------
ShownAbove(b) == BandRank(b) > BandRank(threshold)

Shown(b) == BandAtLeast(b, threshold)

\* A line is read and scored, then Reporter.Handle.
Handle(b) ==
  /\ main = "read" /\ scanned < MaxVerdicts
  /\ band' = b
  /\ scanned' = scanned + 1
  /\ perBand' = [perBand EXCEPT ![b] = @ + 1]
  /\ flagged' = IF b # "LOW" THEN flagged + 1 ELSE flagged
  /\ shown' = IF Shown(b) THEN shown + 1 ELSE shown
  /\ alerts' = IF BandAtLeast(b, slackThreshold) THEN alerts + 1 ELSE alerts
  /\ main' = "notify"
  /\ UNCHANGED <<thresholds, stats, sinkVars>>

Notify ==
  /\ main = "notify"
  /\ \/ enabled /\ BandAtLeast(band, slackThreshold) /\ Sink!Maybe("main")
     \/ ~(enabled /\ BandAtLeast(band, slackThreshold)) /\ UNCHANGED sinkVars
  /\ main' = "read"
  /\ UNCHANGED <<thresholds, tallies, stats>>

StdinEndsUndrained ==
  /\ main = "read"
  /\ main' = "summary"
  /\ UNCHANGED <<thresholds, tallies, stats, sinkVars>>

\* stdin ends, or a line is too long for the scanner: the sink is drained ...
StdinEnds ==
  /\ main = "read"
  /\ Sink!Close("main")
  /\ main' = "closing"
  /\ UNCHANGED <<thresholds, tallies, stats>>

Closed ==
  /\ main = "closing" /\ caller["main"] = "closed"
  /\ main' = "summary"
  /\ UNCHANGED <<thresholds, tallies, stats, sinkVars>>

\* ... before its counters are printed with the summary ...
PrintSummary ==
  /\ main = "summary"
  /\ stats' = [sent |-> sent, failed |-> failed, dropped |-> dropped, printed |-> TRUE]
  /\ main' = "return"
  /\ UNCHANGED <<thresholds, tallies, sinkVars>>

\* ... and closed again by the deferred call.
DeferredClose ==
  /\ main = "return"
  /\ Sink!Close("main")
  /\ main' = "returning"
  /\ UNCHANGED <<thresholds, tallies, stats>>

Exit ==
  /\ main = "returning" /\ caller["main"] = "closed"
  /\ main' = "exited"
  /\ UNCHANGED <<thresholds, tallies, stats, sinkVars>>

\* The sender, and the waits inside Close.
SinkStep ==
  /\ main # "exited"
  /\ Sink!SenderStep \/ Sink!CloseReturns("main")
  /\ UNCHANGED <<main, thresholds, tallies, stats>>

MainStep == Notify \/ Closed \/ PrintSummary \/ DeferredClose \/ Exit

ReportNext ==
  \/ \E b \in Bands : Handle(b)
  \/ StdinEnds \/ MainStep \/ SinkStep
  \/ main = "exited" /\ UNCHANGED vars

ReportSafetySpec == ReportInit /\ [][ReportNext]_vars

\* stdin may be silent for ever; the main goroutine and the sink's run.
ReportSpec ==
  /\ ReportSafetySpec
  /\ WF_vars(MainStep)
  /\ WF_vars(SinkStep)

-----------------------------------------------------------------------------
\* "Drain Slack deliveries before reporting their stats" (main.go 120): the line
\* "slack: sent= failed= dropped=" accounts for every verdict at or above the
\* Slack threshold, none still in flight.
SummaryComplete ==
  stats.printed /\ enabled => stats.sent + stats.failed + stats.dropped = alerts

\* Display and Slack share one ranking "so they can't drift" (types.go 62-63):
\* with a Slack threshold not below the display threshold, nothing is alerted
\* that was hidden, for unknown bands and fallen-back flags too.
AlertsWereShown ==
  BandAtLeast(slackThreshold, threshold) => offered <= shown

\* Once stdin has ended the program exits, whatever the webhook answers.
ReportExits == main = "closing" ~> main = "exited"
=============================================================================
