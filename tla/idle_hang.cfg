CONSTANTS
  t0 = t0  t1 = t1  t2 = t2  top = top
  Leaf = {t0, t1}
  Group = {top}
  Root = top
  Main = t0
  Null = null
  Quantum <- RingQuantum
  Home <- RingHome
  Sleeps = {2}
  Resource = {}
  RootDrains = FALSE
  Archs = {"RiscV"}
CHECK_DEADLOCK FALSE
SPECIFICATION BusySpec
PROPERTY SleeperRuns
