SPECIFICATION TimerFairSpec
CONSTANTS
  Instr <- SmallInstr
  NoInstr <- SmallNoInstr
  ZeroWord <- SmallZeroWord
  Values <- SmallValues
  delay = 2
PROPERTIES OnTime SeenOnce Fires
