CONSTANTS
  a = a  b = b  g = g
  Base = 2
  Region = 68
  Hdr = 3
  Slot = 1
  Leaves = {a, b}
  Groups = {g}
  TcbSize <- MCTcbSize
  TcbAlign <- MCTcbAlign
  Closures <- MCClosures
  Stack = 7
  Builds = {"CortexM", "RiscV", "Arm", "Xtensa", "Posix", "Win32"}
  Floor <- MCFloor
  Align <- MCAlign
  Frame <- MCFrame
SPECIFICATION MemorySpec
INVARIANTS HoldsApart MemoryAccounted CarvingEnds
SYMMETRY Symmetry
