SPECIFICATION TasksSpec
CONSTANTS
  Tasks = {t1, t2}
  AtTasks = {t1}
  MaxId = 2
  MaxFailures = 2
  MaxOverlap = 3
  MaxToggles = 2
  MaxRestarts = 1
INVARIANTS TasksTypeOK AtTaskStartsOnce
PROPERTIES DueTaskStarts FailingTaskStops
CHECK_DEADLOCK FALSE
