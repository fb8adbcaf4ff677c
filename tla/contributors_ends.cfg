SPECIFICATION FairSpec
CONSTANTS
  Commands = {"only"}
  Servers = {"github"}
  Names = {"a", "b"}
  Safe <- SameName
  History <- Commits
  Requests <- AnyOptions
  MaxRepos = 2
  NumThreads = 2
  Tries = 2
CHECK_DEADLOCK FALSE
INVARIANTS
  IndInv
PROPERTIES
  Termination
