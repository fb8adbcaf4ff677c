SPECIFICATION Spec
CONSTANTS
  NoPackage = NoPackage
  None = None
  Nobody = Nobody
  Jobs <- JasJobs
  Workers = {"w1", "w2"}
  LastSecond = 1
  Nothing = Nothing
  Absent = None
  Audited <- Audits
  Fixes <- FixRequests
  TechLists <- BuilderLists
  Root = Root
  Processes <- ManagerUsers
  Versions <- ManagerVersions
  Requests <- ManagerRequests
  Forests <- ForestInputs
  Boms <- PluginBoms
  Others <- Compared
  Answers <- XrayAnswers
  Scans <- ContextScans
  DefaultRoot = 0
  EvidenceFile = 8
  Cap = 2
  MaxInt8 = 5
  Cases <- PolicyCases
  NoOne = "none"
INVARIANTS
  WorkflowTypes
  LeftAsFound
  FailureReturned
  ListIsExact
  RelationsComplete
  ReportFaithful
  TreesRight
  RowsRight
  FormatsAgree
  FixedOrUndone
  ScanIsItsOwn
  ManagerIsWhole
  PreparedBeforeUse
  AskedIsScanned
