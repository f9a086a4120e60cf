\* A channel of one, four verdicts of any band, every pair of thresholds.
CONSTANTS
  BufferSize = 1
  MaxVerdicts = 4
SPECIFICATION ReportSpec
INVARIANTS
  SummaryComplete
  AlertsWereShown
PROPERTIES
  ReportExits
