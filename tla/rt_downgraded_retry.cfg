SPECIFICATION PolledSpec
CONSTANTS
  n1 = n1  n2 = n2  None = None
  Nodes = {n1, n2}
  MaxAttempt = 2
  Deps <- NoDeps
  Kind <- AllTools
  Merge <- MergeAll
  Quorum <- NoQuorum
  PreNode <- Allow
  PreTool <- Allow
  Outcomes <- Flaky
  PreResponse = {"ALLOW"}
  Deadlines = {}
  MaxRetries = 1
  MaxParallel = 2
  MaxToolCalls = 1
  Callers = {c1}
  Polling = TRUE
  Stalls = FALSE
  MaxApprovals = 0
  MaxCancels = 0
  MaxCrashes = 0
PROPERTIES EventuallySettled
