SPECIFICATION Spec
CONSTANTS
  Projects <- AllProjects
INVARIANTS
  MeansSource
  
  LibrariesOnce
PROPERTIES
  Ends
CHECK_DEADLOCK FALSE
