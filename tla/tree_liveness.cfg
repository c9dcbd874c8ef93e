CONSTANTS
  t0 = t0  t1 = t1  t2 = t2  top = top  grp = grp
  Leaf = {t0, t1, t2}
  Group = {top, grp}
  Root = top
  Main = t0
  Null = null
  Quantum <- TreeQuantum
  Home <- TreeHome
  Sleeps = {1}
  Resource = {}
  RootDrains = FALSE
  Period = 2
  CanYield = FALSE
SPECIFICATION BusySpec
PROPERTIES ReadyRuns SleeperRuns
