SPECIFICATION Spec
CONSTANTS
  Commands = {"first", "second"}
  Servers = {"github"}
  Names = {"a", "b"}
  Safe <- SameName
  History <- Commits
  Requests <- Overlapping
  MaxRepos = 2
  NumThreads = 2
  Tries = 2
CHECK_DEADLOCK FALSE
INVARIANTS
  ReportExact
  CacheComplete
