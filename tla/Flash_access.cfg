SPECIFICATION FairSpec
CONSTANTS
  Instr <- MCInstr
  NoInstr <- MCNoInstr
  ZeroWord <- MCZeroWord
  Content <- MCContent
INVARIANTS FlashRead NoContention
PROPERTIES FlashAnswered
