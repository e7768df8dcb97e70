CONSTANTS
  Byte = {a, b}
  Garbage = Garbage
  Null = Null
  Fit <- FitBlockSize
  MaxData = 5
  MaxPut = 3
  Obj = {o1, o2, o3}
  Slot = {s1, s2}
  None = None
  SeqMod = 4
  Top = 3
  C_EXTEND_SET = 2
  C_SLOT_1 = 2
  C_SLOT_2 = 4
  C_MAX_POOL_SIZE = 20
  C_MAX_WATER_MARK = 6
  MaxHeld = 3
SPECIFICATION AllSpec
SYMMETRY Symmetry
INVARIANTS InBounds SlotsPartitioned ReportsCurrent PoolSound
PROPERTIES IsByteQueue CallsReported
