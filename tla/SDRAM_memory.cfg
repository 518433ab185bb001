SPECIFICATION FairSpec
CONSTANTS
  Row <- MCRow
  Col <- MCCol
  Half <- MCHalf
  ZeroWord <- MCZeroWord
  Instr <- MCInstr
  NoInstr <- MCNoInstr
  PowerUp <- MCPowerUp
  cycles_per_refresh = 12
  InitWrap = 40
  CountWrap = 64
  tRP = 4
  tRFC = 7
  tRC = 10
  tRCD = 3
  tRAS = 6
  tWR = 2
  tMRD = 2
  SinceMax = 12
  Resets = TRUE
PROPERTIES AtomicSpec Answered
