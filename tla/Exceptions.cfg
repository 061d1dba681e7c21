CONSTANTS
  Trips = 2
  Throwables = {"A", "B"}
  Programs <- RoutedPrograms
SPECIFICATION FairSpec
INVARIANTS PhpBehaviour ChainNests
PROPERTIES Stops
