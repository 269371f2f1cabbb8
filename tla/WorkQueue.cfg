\* The Work Queue batch back end with three jobs.
CONSTANTS
  NONE = NONE
  f1 = f1
  f2 = f2
  Files = {f1, f2}
  Unwritable = {f2}
  MaxTasks = 3
SPECIFICATION Spec
PROPERTY OutputDelivered EveryJobReturned
