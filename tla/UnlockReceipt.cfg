SPECIFICATION Spec
CONSTANTS
  d1 = d1
  d2 = d2
  NoDir = NoDir
  Dirs = {d1}
  Landings = {TRUE, FALSE}
  MaxFaults = 0
INVARIANT ReceiptProvesWrites
