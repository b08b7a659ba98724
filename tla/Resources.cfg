SPECIFICATION Spec
CONSTANTS
  Arrivals = 3
  PoolSize = 2
  Workers = 1
INVARIANTS TypeOK PoolServes TurnsExclude
PROPERTIES EveryoneEnds
CHECK_DEADLOCK FALSE
