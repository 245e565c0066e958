SPECIFICATION LiveSpec
CONSTANTS
  Conn = {c1, c2, c3}
  Manager = {m1, m2, m3, m4}
  None = None
INVARIANTS
  TypeOK
  RefsCountHolders
  NoUseAfterFree
  OldInUse
  NoFault
  DeadlineSet
PROPERTIES
  CurrentRotates
