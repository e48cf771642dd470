CONSTANTS
  t1 = t1   t2 = t2   d1 = d1   d2 = d2   p1 = p1   h1 = h1   h2 = h2
  Threads <- MCThreads
  Domains = {d1, d2}
  Pids = {p1}
  Handles <- MCHandles
  Commands <- MCCommands
  Least = 2
  Whole = 8
  Step = 2
  Byte = 2
  Size = 4
  Malformed = Malformed
  Nothing = Nothing
SPECIFICATION Spec
SYMMETRY Interchangeable
INVARIANTS TypeOK BudgetHolds
PROPERTIES KeepsToItsJob KeepsCustody
