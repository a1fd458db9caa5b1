SPECIFICATION FairSpec
CONSTANTS
  Workers = {0, 1}
  Outsiders = {x}
  Main = Main
  Quitter = Quitter
  Services = {s1}
  NoService = NoService
  MAX_SEARCHERS = 1
  LOCAL_CAPACITY = 1
  MaxRuns = 2
  MayQuit = TRUE
PROPERTIES
  WorkersProgress
CHECK_DEADLOCK FALSE
