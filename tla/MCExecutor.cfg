SPECIFICATION FairSpec
CONSTANTS
  a = a
  b = b
  c = c
  d = d
  p1 = p1
  e1 = e1
  e2 = e2
  Tasks <- MCTasks
  Plans = {p1}
  TasksOf <- MCTasksOf
  Deps <- MCDeps
  Assignment <- MCAssignment
  ValidPlans = {p1}
  Rank <- MCRank
  Results = {r1}
  NoPlan = NoPlan
  NoResult = NoResult
  MaxRevision = 1
  MaxApprovals = 1
  Slots = 2
  Execs = {e1, e2}
  Fleet = {e1}
  NoExec = NoExec
  MaxCommits = 1
  Restless = FALSE
  MaxFaults = 1
INVARIANTS ExecTypeOK RowsMatchWorkers NeverRefused VerdictTrue WithinSlots SucceedsOnBase
PROPERTIES RecoversOnlyTheDead KeepsPromise ExecutionEnds
