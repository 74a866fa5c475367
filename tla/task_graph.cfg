SPECIFICATION Spec
CONSTANTS
  Tasks = {t1, t2, t3}
  Inline = {t3}
  Workers = 1
  MaxCrashes = 1
  MaxAborts = 1
INVARIANTS
  TypeOK
  RunsOnlyAfterSuccess
  DependenciesAcyclic
PROPERTIES
  EveryTaskEnds
CHECK_DEADLOCK FALSE
