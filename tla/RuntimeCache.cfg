CONSTANTS
  c1 = c1
  c2 = c2
  c3 = c3
  exe = exe
  dylib = dylib
  Compilers = {c1, c2, c3}
  Texts = {exe, dylib}
  Names <- Files
  Text <- TextOf
  NameOf <- FileOf
  Absent = Absent
  Partial = Partial
  MaxEvictions = 1
SPECIFICATION Spec
CHECK_DEADLOCK FALSE
INVARIANTS LinkedWhole FailsForCause LeavesNothing
PROPERTIES RunsEnd
