CONSTANTS
  counter = counter   ticking = ticking   jumping = jumping
  Runtimes = {ticking}
  StateKeys = {counter}
  Payloads <- Mixed
  Absent = Absent
  NotANumber = NotANumber
  Units = 4
  Rates = {3, 6}
  Float <- Coarse
  Slack = 1
  A = 5
  C = 3
  M = 8
  Seed = 1
  MaxTick = 2
  MaxEvents = 3
  MaxQuanta = 2
SPECIFICATION Spec
INVARIANTS TypeOK OverdueOnlyAfterFailure ExecutedInOrder EveryEventOnce RateIsKept
PROPERTY MethodsEnd
