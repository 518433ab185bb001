SPECIFICATION CompilerSpec
CONSTANTS
  Value <- MCValue
  Registers <- registers
  Programs <- MCPrograms
  Ints = {1}
  Junk = {0, 777}
INVARIANTS MeansSource ConflictsApart
PROPERTIES Ends Progress

