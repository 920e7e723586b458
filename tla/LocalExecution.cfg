SPECIFICATION FairSpec
CONSTANTS
  Rounds = 3
  Specs <- AnySpec
  MaxRestarts = 2
  MaxDeaths = 1
INVARIANTS
  PausedIsResumable
PROPERTIES
  RunsAsUninterrupted
  OutcomeIsFinal
  PauseIsAnswered
CHECK_DEADLOCK FALSE
