CONSTANTS
  f1 = f1
  f2 = f2
  Fibers = {f1, f2}
  Main = Main
  Values = {"v", "w"}
  Null = Null
  Throwables = {"A"}
  FiberError = FiberError
  Nothing = Nothing
  NoHandler = NoHandler
  MaxTries = 1
  MaxQuiet = 1
  Idioms = {"freeactive"}
SPECIFICATION Spec
INVARIANTS StacksMapped
