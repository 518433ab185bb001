SPECIFICATION FairSpec
CONSTANTS
  Sectors = 2
  pages_per_sector = 2
  Requests <- AllRequests
  MaxFaults = 4
  CutAnswers = TRUE
  Padded = FALSE
INVARIANTS
  DoneMeansWritten
  TwoFaultsSurvived
  ReadsTrue
PROPERTIES
  Ends
CHECK_DEADLOCK FALSE
