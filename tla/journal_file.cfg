SPECIFICATION Spec
CONSTANTS
  Bodies <- SmallAndLargest
  MaxRecordBytes = 3
  ToolRecordBytes = 4
  ToolMaxRecords = 3
  MaxAppends = 4
  MaxDamage = 2
CHECK_DEADLOCK FALSE
INVARIANTS RepairIsExact 
