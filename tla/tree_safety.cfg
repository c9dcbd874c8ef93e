CONSTANTS
  t0 = t0  t1 = t1  t2 = t2  top = top  grp = grp
  Leaf = {t0, t1, t2}
  Group = {top, grp}
  Root = top
  Main = t0
  Null = null
  Quantum <- TreeQuantum
  Home <- TreeHome
  Sleeps = {2}
  Resource = {r}
  RootDrains = FALSE
  Period = 1
  CanYield = TRUE
SPECIFICATION PortSpec
INVARIANTS TypeOK TreeInv ActiveCountsLeaves RunningIsRunnable QuantumLeft NoOverdueSleeper
PROPERTIES IdleOnlyWhenNothingRuns LeftoverKept CursorKeepsPreempted
