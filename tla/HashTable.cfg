CONSTANTS
  a = a
  v = v
  w = w
  t1 = t1
  t2 = t2
  t3 = t3
  Names = {a}
  IntKeys = {0, 1, 2}
  Hash <- MCHash
  Writes <- MCWrites
  Pushed = {"x"}
  MinCapacity = 4
  Tables = {t1, t2, t3}
  Locals = {v, w}
  None = None
SPECIFICATION Spec
SYMMETRY Alike
INVARIANTS ProbesFind RoomLeft OwnersCounted LoopReadsTable
PROPERTIES ArraySpec
