CONSTANTS
    Ingesters = {p1, p2}
    Indexers = {q1}
    Sources = {"markdown", "html", "git"}
    Raws <- MCRaws
    GitPaths <- MCPaths
    Pinned <- MCPinned
    Revisions = {r1, r2}
    None = None
    MaxRuns = 3
    MaxEdits = 1
    MaxCrashes = 1
SYMMETRY SameProcesses
SPECIFICATION Spec
INVARIANTS SnapshotsIntact PassagesFound IndexCovers
CHECK_DEADLOCK FALSE
