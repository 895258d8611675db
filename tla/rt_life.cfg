SPECIFICATION PolledSpec
CONSTANTS
  n1 = n1  n2 = n2  None = None
  Nodes = {n1, n2}
  MaxAttempt = 4
  Deps <- ChainDeps
  Kind <- AllTools
  Merge <- MergeAll
  Quorum <- NoQuorum
  PreNode <- AnyPolicySecond
  PreTool <- AnyPolicy
  Outcomes <- FirstRetries
  PreResponse = {"ALLOW", "DENY"}
  Deadlines = {"latency"}
  MaxRetries = 1
  MaxParallel = 2
  MaxToolCalls = 1
  Callers = {c1}
  Polling = TRUE
  Stalls = FALSE
  MaxApprovals = 1
  MaxCancels = 0
  MaxCrashes = 0
INVARIANTS ClaimsReleased ToolsWithinBudget
PROPERTIES TerminalIsFinal EventuallySettled KeepsPromise
