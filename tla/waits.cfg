CONSTANTS
  Task = {1, 2}
  LockId = {2}
  Queue = queue
  Setter = {isr}
  Wakeable = {1, 2}
  Waits = {0, 2}
  Null = null
SPECIFICATION Spec
INVARIANTS TypeOK FlagsAndSignalsKept DeadlineKept
PROPERTIES TimeoutMeansClear BoundedWaitReturns
