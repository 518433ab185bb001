SPECIFICATION Spec
CONSTANTS
  Row = {0, 1}
  Col = {0}
  Half = {0}
  cycles_per_refresh = 19
  InitWrap = 40
  CountWrap = 64
  tRP = 4
  tRFC = 7
  tRC = 10
  tRCD = 3
  tRAS = 6
  tWR = 2
  tMRD = 2
  SinceMax = 12
INVARIANTS TypeOK LegalCommands RefreshInTime
