SPECIFICATION Spec
CONSTANTS
  Workers = {0, 1}
  Outsiders = {x}
  Main = Main
  Quitter = Quitter
  Services = {s1, s2}
  NoService = NoService
  MAX_SEARCHERS = 1
  LOCAL_CAPACITY = 1
  MaxRuns = 3
  MayQuit = TRUE
SYMMETRY ServiceSymmetry
INVARIANTS
  Accounted
  NobodySleepsOnWork
CHECK_DEADLOCK FALSE
