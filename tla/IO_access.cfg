SPECIFICATION FairSpec
CONSTANTS
  Instr <- MCInstr
  NoInstr <- MCNoInstr
  ZeroWord <- MCZeroWord
  Cells <- MCCells
  Replies <- MCReplies
  Bits = 2
  DIVISOR = 4
  CLKS_PER_BIT = 2
INVARIANTS SpiExchange OneFrame OwnAnswer
PROPERTIES Answered
