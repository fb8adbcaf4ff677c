SPECIFICATION Spec
CONSTANTS
  Commands = {"only"}
  Servers = {"github"}
  Names = {"a/b", "a_b"}
  Safe <- SlashAndUnderscore
  History <- Commits
  Requests <- OneFile
  MaxRepos = 2
  NumThreads = 1
  Tries = 2
CHECK_DEADLOCK FALSE
INVARIANTS
  EntryOfRepo
