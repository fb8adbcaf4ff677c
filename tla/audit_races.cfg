SPECIFICATION Spec
CONSTANTS
  NumTargets = 2
  NumThreads = 3
  Capacity = 4
  Plans <- RacePlans
  Outcomes <- OkOrFail
INVARIANTS
  ScannersHaveDir
  EndAfterScans
  ContextualAfterSca
  ProcessedIsComplete
PROPERTIES
  NoLateScanner
  KeepsPromise
