SPECIFICATION FairSpec
CONSTANTS
  NumTargets = 2
  NumThreads = 1
  Capacity = 6
  Plans <- SinglePlans
  Outcomes <- AllOutcomes
INVARIANTS
  NoScaBehindContextual
  OutcomesAccounted
  IndInv
PROPERTIES
  Termination
