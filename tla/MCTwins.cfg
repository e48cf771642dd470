CONSTANTS
  counter = counter   ticking = ticking   jumping = jumping
  Runtimes = {ticking, jumping}
  Ticker = ticking
  Jumper = jumping
  StateKeys = {counter}
  Payloads <- Sound
  Absent = Absent
  NotANumber = NotANumber
  Units = 2
  Rates = {}
  Float <- Coarse
  Slack = 1
  A = 5
  C = 3
  M = 8
  Seed = 1
  MaxTick = 3
  MaxEvents = 3
  MaxQuanta = 1
SPECIFICATION TwinsSpec
INVARIANT SameHash
