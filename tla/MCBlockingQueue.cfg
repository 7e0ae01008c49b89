SPECIFICATION MCSpec
CONSTANTS
  Threads = {t1, t2, t3, t4}
  Tasks = {a, b}
  NoThread = NoThread
  MaxData = 3
SYMMETRY MCSymmetry
INVARIANTS
  LockDiscipline
  WakeupsCoverTasks
