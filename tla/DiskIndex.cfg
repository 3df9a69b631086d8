SPECIFICATION Spec
CONSTANTS
  Name = {f1}
  AutoFlush = 1
  Backlog = 0
  MaxEvents = 1

  
PROPERTIES
  ScanFindsAll
  
  RowGoesWithFile
CHECK_DEADLOCK FALSE
