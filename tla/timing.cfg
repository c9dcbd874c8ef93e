CONSTANTS
  s1 = s1  s2 = s2
  Caller = {s1, s2}
  Builds = {"CortexM", "RiscV", "Arm", "Xtensa", "Posix", "Win32"}
  K = 3
  Unit = 3
  U24 = 15
  U32 = 63
  U64 = 255
  MinCycles = 2
  MinHost = {4, 6}
  Cntfrq = 20
  Freqs = {0, 8, 27}
  Slices <- Asked
  Durations <- Lengths
  Timeouts <- Millis
  Clock <- Nows
SPECIFICATION TimingSpec
INVARIANTS SliceHonoured TimerFollowsConfig DurationsKept
SYMMETRY Symmetry
