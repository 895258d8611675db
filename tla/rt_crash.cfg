SPECIFICATION Spec
CONSTANTS
  n1 = n1  n2 = n2  None = None
  Nodes = {n1, n2}
  MaxAttempt = 4
  Deps <- ChainDeps
  Kind <- ToolThenMerge
  Merge <- MergeBestEffort
  Quorum <- NoQuorum
  PreNode <- Allow
  PreTool <- Allow
  Outcomes <- MayFail
  PreResponse = {"ALLOW"}
  Deadlines = {"merge", "spend"}
  MaxRetries = 1
  MaxParallel = 2
  MaxToolCalls = 3
  Callers = {c1}
  Polling = FALSE
  Stalls = FALSE
  MaxApprovals = 0
  MaxCancels = 0
  MaxCrashes = 1
INVARIANTS ToolOncePerAttempt DoneMeansSettled RunningIsLeased OneDeadLetter
PROPERTIES SucceededIsFinal DeadLetterIsFinal KeepsPromise
