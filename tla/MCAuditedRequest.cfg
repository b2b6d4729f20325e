SPECIFICATION LiveSpec
CONSTANTS
  Client = {r1, r2}
  Slot = {s1, s2}
  NoClient = NoClient
  Absent = Absent
INVARIANTS
  AnswersAreTrue
  OneTrueCompletion
PROPERTIES
  OnlyFreshConnectionsRefuse
  EveryRequestAnswered
CHECK_DEADLOCK FALSE
