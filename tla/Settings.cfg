SPECIFICATION Spec
INVARIANTS
  InForce
  
  TablesMatch
  NeverUnserved
  
PROPERTIES
  
  RenameAllOrNothing
CHECK_DEADLOCK FALSE
