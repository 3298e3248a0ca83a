CONSTANTS
    Inspectors = {i1}
    Gates = {g1}
    Paths = {1, 2}
    Notable = {2}
    Contents = {x, y}
    Charters = {c1, c2}
    None = None
    MaxEvidence = 1
    MaxContexts = 1
    MaxChanges = 2
SYMMETRY SameContents
SPECIFICATION Spec
INVARIANT AcceptedWasCurrent
CHECK_DEADLOCK FALSE
