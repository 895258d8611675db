SPECIFICATION PolledSpec
CONSTANTS
  n1 = n1  n2 = n2  None = None
  Nodes = {n1}
  MaxAttempt = 3
  Deps <- NoDeps
  Kind <- AllTools
  Merge <- MergeAll
  Quorum <- NoQuorum
  PreNode <- Allow
  PreTool <- Allow
  Outcomes <- Flaky
  PreResponse = {"ALLOW"}
  Deadlines = {}
  MaxRetries = 1
  MaxParallel = 2
  MaxToolCalls = 3
  Callers = {c1}
  Polling = TRUE
  Stalls = FALSE
  MaxApprovals = 0
  MaxCancels = 0
  MaxCrashes = 1
PROPERTIES EventuallySettled
