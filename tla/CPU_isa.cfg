SPECIFICATION Spec
CONSTANTS
  WordBits = 4
  AddrSize = 8
  Registers = 3
  BitOr <- MCOr
  BitAnd <- MCAnd
  BitXor <- MCXor
  PCstart = 7
  StackSize = 2
  Wired <- MCWired
  MinReset = 2
  LeftRegs <- MCLeftRegs
  LeftMem <- MCLeftMem
  Menu <- MCMenu
PROPERTIES IsaSpec LinesHold
