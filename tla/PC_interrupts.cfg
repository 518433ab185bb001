SPECIFICATION FairSpec
CONSTANTS
  AddrSize = 7
  PCstart = 6
  Operand = {2, 6}
  Wired = {2, 5}
  MinReset = 2
  StrayReti = FALSE
INVARIANTS TypeOK UpdatedOnce IntIdNamesCause
PROPERTIES ResetComplete EdgeKept FlowSpec Served
