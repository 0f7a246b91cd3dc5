CONSTANTS
  t1 = t1 t2 = t2 t3 = t3 t4 = t4
  r1 = r1 r2 = r2 r3 = r3
  Tests = {t2, t3}
  Risks = {r2, r3}
  NoTest = NoTest NoRisk = NoRisk Timeout = Timeout
  Key <- MCKey
  Shows <- MCShows
  Shorter <- MCShorter
  MaxOffers = 1
  MaxRuns = 2
  Torn = Torn
SPECIFICATION FairSpec
INVARIANTS ReproMatchesFinding ConfirmedWasRepeated NothingLost JournalNamesCrash
PROPERTY Terminates
