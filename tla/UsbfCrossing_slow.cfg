SPECIFICATION FairSpec
CONSTANTS
  Byte = {1, 2}
  Length = {0, 1}
  HMAX = 1
  PMIN = 1
  PMAX = 3
  IDLE = 10
VIEW view
INVARIANTS DataIsDone ReadsHead FreeIsFree
PROPERTIES DoneInOrder AccessEnds
