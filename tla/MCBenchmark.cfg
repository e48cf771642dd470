CONSTANTS
  writer = writer   reader = reader   r1 = r1   r2 = r2
  Users = {writer, reader}
  RunIds = {r1, r2}
  BaselineOrder <- MCBaselines
  Commands <- MCCommands
  Outcomes <- MCOutcomes
  EarlierGates = 1
  Policy <- DefaultPolicy
  One = 100
  Evidence = {"seen"}
  Answers <- MCAnswers
  MaxFaults = 1
  Missing = Missing
  Torn = Torn
  Nothing = Nothing
SPECIFICATION Spec
SYMMETRY Interchangeable
INVARIANTS TypeOK ToldIsBacked CountedPassed
