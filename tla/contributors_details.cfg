SPECIFICATION Spec
CONSTANTS
  Commands = {"first", "second"}
  Servers = {"github"}
  Names = {"a", "b"}
  Safe <- SameName
  History <- Commits
  Requests <- WithDetails
  MaxRepos = 1
  NumThreads = 1
  Tries = 2
CHECK_DEADLOCK FALSE
INVARIANTS
  DetailsComplete
