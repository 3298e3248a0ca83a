SPECIFICATION Spec
CONSTANTS
  Stores = {s1, s2}
  MaxEvents = 2
  MaxFaults = 0
INVARIANT MirrorsCommitted
