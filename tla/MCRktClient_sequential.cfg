\* Three configured options leave room, but calls never overlap.
SPECIFICATION Spec
CONSTANTS
  Goroutines = {g1, g2}
  Images = {"dep", "builder"}
  GlobalArgs = 5
  StoreArgs <- StoreOnly
  Parallel = FALSE
INVARIANTS TypeOK CommandsIntact
