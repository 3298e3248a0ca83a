SPECIFICATION StoreSpec
CONSTANTS
  a = a
  b = b
  c = c
  p1 = p1
  p2 = p2
  p3 = p3
  bad = bad
  Tasks <- MCTasks
  Plans <- MCPlans
  TasksOf <- MCTasksOf
  Deps <- MCDeps
  Assignment <- MCAssignment
  ValidPlans <- MCValidPlans
  Results = {r1, r2}
  NoPlan = NoPlan
  NoResult = NoResult
  MaxRevision = 3
  MaxApprovals = 3
INVARIANTS TypeOK ExecutionApproved NoStaleApproval
  OneAttempt DependenciesFirst AttemptsApproved LogSilentOnlyOnPinning
PROPERTY SettledForGood
CHECK_DEADLOCK FALSE
