SPECIFICATION Spec
CONSTANTS
  n1 = n1  n2 = n2  None = None
  Nodes = {n1, n2}
  MaxAttempt = 4
  Deps <- NoDeps
  Kind <- ToolThenApproval
  Merge <- MergeAll
  Quorum <- NoQuorum
  PreNode <- Allow
  PreTool <- Allow
  Outcomes <- MayFail
  PreResponse = {"ALLOW"}
  Deadlines = {}
  MaxRetries = 1
  MaxParallel = 2
  MaxToolCalls = 3
  Callers = {c1, c2}
  Polling = FALSE
  Stalls = TRUE
  MaxApprovals = 1
  MaxCancels = 1
  MaxCrashes = 0
INVARIANTS TypeOK RunExclusive ToolOncePerAttempt NoLostRetry DoneMeansSettled StatusAgrees
SYMMETRY CallerSymmetry
PROPERTIES SucceededIsFinal CancelledIsFinal
