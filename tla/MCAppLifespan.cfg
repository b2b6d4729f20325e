SPECIFICATION LiveSpec
CONSTANTS
  t1 = t1
  t2 = t2
  Emitter = {t1, t2}
  Main = main
  Capacity = 2
  MaxEmitted = 5
INVARIANTS RecordsAccounted NothingLeftQueued ResourcesReleased
PROPERTY LifespanEnds
CHECK_DEADLOCK FALSE
