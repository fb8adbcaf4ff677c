SPECIFICATION Spec
CONSTANTS
  Node = {"r", "a", "b"}
  Root = {"r"}
  Url = {"a1", "a2", "b1"}
  UrlsOf <- TwoUrls
  Fetcher = {w1, w2}
  NoNode = "none"
  Dirs = 2
  TechLists <- DirectoryTechs
  Keys = {"project"}
  NoConfig = NoConfig
  Pkg = {"a", "b", "c"}
  Entry <- LogEntries
  Pin = {"p", "q"}
  NoVersion = "none"
  Project <- LoggedProject
  Projects <- DetectedProjects
  Layouts <- TwoFiles
  Lists <- MixedLists
INVARIANTS
  CurationTypes
  RefusalReported
  NoPackageMissed
  ProjectCovered
  OwnRepository
  AuditsKeepApart
  LogRecovered
