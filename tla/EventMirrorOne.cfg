SPECIFICATION Spec
CONSTANTS
  Stores = {s1}
  MaxEvents = 4
  MaxFaults = 3
INVARIANTS MirrorsCommitted ComplaintOrCopy
PROPERTY LinesStay
