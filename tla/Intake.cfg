SPECIFICATION Spec
CONSTANTS
  MaxRounds = 1
  PartialLimit = 1
  CascadeLimit = 8
  NormalizeRounds = 5
  StubRoundLimit = 2
  Budget = 2
  Askers = 2
  Sources <- MCSources
  Environments <- MCEnvironments
  Answers <- MCAnswers
INVARIANTS VerdictsAreRight SemanticIsWhole FrozenFitsItsCallers FrozenStandsAlone
