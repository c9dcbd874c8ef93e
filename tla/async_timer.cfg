CONSTANTS
  a = a
  b = b
  Byte = {a, b}
  Capacity = 2
  Word = 4
  Writes <- MCWrites
  reader = reader
  writer = writer
  isr = isr
  Null = null
  Programs <- BlockingPrograms
SPECIFICATION FairSpec
PROPERTY SleepResolves
