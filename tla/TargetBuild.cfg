SPECIFICATION Spec
CONSTANTS
  Programs <- MCPrograms
  MaxBuilds = 2
  Faithful = {"TON"}
  Approximate = {"SIN"}
  Fields = {"n", "r", "t", "w"}
  KindOf <- MCKindOf
  Requests <- MCRequests
  MaxQueries = 2
INVARIANTS InstrumentationIsRight BundleIsWhole AnswersAreFacts
