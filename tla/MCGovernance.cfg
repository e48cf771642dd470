CONSTANTS
  Policy <- MCPolicy
  One = 2
  Evidence = {"seen"}
  Answers <- MCAnswers
  Domains <- MCDomains
  Situations <- MCSituations
  Nothing = Nothing
SPECIFICATION Spec
INVARIANTS TypeOK InteractiveKeepsPace
PROPERTIES EnvelopeKept ChangesSpaced Settles DebtIsFought RateUnwinds
