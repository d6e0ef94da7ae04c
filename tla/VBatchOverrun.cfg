\* A context of two entries, to which operations are submitted before the completed
\* ones are processed.
SPECIFICATION Spec
CONSTANTS
  Threads = {t1, t2}
  Ios = {o1, o2, o3}
  max_ios = 2
CHECK_DEADLOCK FALSE
INVARIANTS
  NoOverrun
