SPECIFICATION Spec
CONSTANTS
  Partitions <- MCPartitions
  GroupOf <- MCGroupOf
  GroupMax <- MCGroupMax
  FirstSector = 2
  DevSectors = 20
  Align = 2
  Wanted <- MCWanted
  FirstTables <- MCFirstTables
  MaxExtents = 7
  MaxRuns = 4
INVARIANTS TypeOK TablesTile CopiesSound RerunAgrees
PROPERTY LiveGrows
CHECK_DEADLOCK FALSE
