SPECIFICATION Spec
CONSTANTS
  Producers = {p1, p2}
  Consumers = {c1, c2}
  TASK_COUNT = 2
  NoTask = NoTask
INVARIANT
  AllTasksProcessed
