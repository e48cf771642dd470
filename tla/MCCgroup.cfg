CONSTANTS
  t1 = t1   t2 = t2   d1 = d1   d2 = d2   g1 = g1   p1 = p1
  Threads <- MCThreads
  Domains = {d1, d2}
  Pids = {p1}
  GroupName <- Collide
  Controls = {"cpu.weight", "cpu.max", "cgroup.freeze"}
  Commands <- MCCommands
  Initial = Initial
  Rejected = Rejected
  Malformed = Malformed
  Nothing = Nothing
SPECIFICATION Spec
INVARIANTS TypeOK BudgetIsWhole ConfirmedFreezeHolds
PROPERTIES JobsEnd KeepsCustody
