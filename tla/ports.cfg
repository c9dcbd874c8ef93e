CONSTANTS
  t0 = t0  t1 = t1  t2 = t2  top = top
  Leaf = {t0, t1}
  Group = {top}
  Root = top
  Main = t0
  Null = null
  Quantum <- RingQuantum
  Home <- RingHome
  Sleeps = {1, 2}
  Resource = {}
  RootDrains = FALSE
  Archs = {"RiscV", "Arm", "Xtensa", "Posix", "Win32"}
CHECK_DEADLOCK FALSE
SPECIFICATION BusySpec
INVARIANTS OthersSaved RightCodeRuns StackNotReclaimed ThreadsFollowTasks
PROPERTIES KicksDoNotTick NoneStarves ShutdownEnds
