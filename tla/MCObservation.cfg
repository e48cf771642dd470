CONSTANTS
  t1 = t1   t2 = t2   s1 = s1   s2 = s2   p1 = p1   p2 = p2
  Sources <- MCSources
  StaleAfter = 1
  Nothing = Nothing
  Threads <- MCThreads
  Audience = {"projector", "logger"}
  Refusals = {"PROCESS_NOT_FOUND"}
  MaxEvents = 3
  MaxNow = 2
  Processes <- MCProcesses
SPECIFICATION Spec
INVARIANTS TypeOK FieldsFromOwner ErrorExplained
PROPERTIES NothingIsSilent HealthyIsFresh PublishedIsApplied
SYMMETRY Alike
