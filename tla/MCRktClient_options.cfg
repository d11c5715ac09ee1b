\* Goroutines overlap and one configured option leaves room for one word.
SPECIFICATION Spec
CONSTANTS
  Goroutines = {g1, g2}
  Images = {"dep", "builder"}
  GlobalArgs = 3
  StoreArgs <- NoStoreArgs
  Parallel = TRUE
INVARIANTS CommandsIntact
