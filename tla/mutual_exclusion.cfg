CONSTANTS
  Task = {t1, t2}
  LockId = {1, 2, 3}
  Free = free
  MaxHeld = 2
  Slots = 1
  MaxGuards = 2
SPECIFICATION Spec
INVARIANT MutualExclusion
