SPECIFICATION Spec
CONSTANTS
  Workers = {0, 1}
  Outsiders = {x}
  Main = Main
  Quitter = Quitter
  Services = {s1}
  NoService = NoService
  MAX_SEARCHERS = 1
  LOCAL_CAPACITY = 1
  MaxRuns = 2
  MayQuit = TRUE
INVARIANTS
  NothingStranded
CHECK_DEADLOCK FALSE
