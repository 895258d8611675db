------------------------- MODULE MCTaskGraphRuntime -------------------------
(***************************************************************************)
(* Small task graphs for TLC.  The nodes are model values.                 *)
(***************************************************************************)
EXTENDS TaskGraphProperties, TLC

CONSTANTS n1, n2

EachNode(x) == [n \in Nodes |-> x]

NoDeps    == EachNode({})
ChainDeps == [n \in Nodes |-> IF n = n2 THEN {n1} ELSE {}]
AllTools  == EachNode("tool")
ToolThenApproval == [n \in Nodes |-> IF n = n1 THEN "tool" ELSE "approval"]
ToolThenMerge    == [n \in Nodes |-> IF n = n1 THEN "tool" ELSE "merge"]
MergeAll  == EachNode("ALL")
MergeBestEffort == EachNode("BEST_EFFORT")
NoQuorum  == EachNode(0)

Allow      == EachNode({"ALLOW"})
AnyPolicy  == EachNode(Policy)
AnyPolicySecond == [n \in Nodes |-> IF n = n1 THEN {"ALLOW"} ELSE Policy]

Flaky      == EachNode({"ok", "retryable"})
MayFail    == EachNode({"ok", "retryable", "fatal"})
FirstRetries == [n \in Nodes |-> IF n = n1 THEN Outcome ELSE Outcome \ {"retryable"}]
\* The invocations of runTask are interchangeable.
CallerSymmetry == Permutations(Callers)
=============================================================================
