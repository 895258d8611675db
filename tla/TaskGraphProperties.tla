------------------------ MODULE TaskGraphProperties ------------------------
(***************************************************************************)
(* What a task graph's execution must keep to, whatever the order of its   *)
(* runs, retries, approvals, cancellations, lost leases and crashes.  The  *)
(* model-checking runs are in MCTaskGraphRuntime, the proofs in            *)
(* TaskGraphRuntimeProofs, TaskGraphSafetyProofs and, for what holds under *)
(* conditions, TaskGraphPromiseProofs.                                     *)
(***************************************************************************)
EXTENDS TaskGraphRuntime

TasksOK ==
  /\ taskStatus \in TaskStatus /\ currentWait \in Nodes \cup {None} /\ toolCalls \in Nat
NodesOK ==
  /\ nodeStatus \in [Nodes -> NodeStatus]
  /\ attempt \in [Nodes -> 0..MaxAttempt]
  /\ retryable \in [Nodes -> BOOLEAN]
  /\ approvalGranted \in [Nodes -> BOOLEAN]
\* What an invocation has left to do: claims, their units, due jobs, then nodes.
TodoOK(c) ==
  /\ callPc[c] = "expire" => todo[c] \subseteq Claim
  /\ callPc[c] \in {"renode", "jobs", "remark"} => todo[c] \subseteq Nodes \X Attempts
  /\ callPc[c] \in {"plan", "downgrade", "downgraded", "wait"} => todo[c] \subseteq Nodes
CallsOK ==
  /\ runningTask \in BOOLEAN
  /\ callPc \in [Callers -> CallPc]
  /\ todo = [c \in Callers |-> todo[c]]
  /\ marking \in [Callers -> SUBSET (Nodes \X Attempts)]
  /\ \A c \in Callers : TodoOK(c)
FlowsOK ==
  /\ flowPc \in [Nodes -> FlowPc]
  /\ target \in [Nodes -> 0..MaxAttempt]
  /\ spentSeen \in [Nodes -> Nat]
UsersOK ==
  /\ approvePc \in {"idle", "task"} /\ approved \in Nodes \cup {None}
  /\ cancelPc \in {"idle", "nodes", "claims", "task"} /\ toCancel \subseteq Nodes
  /\ approvals \in Nat /\ cancels \in Nat
WorldOK == elapsed \subseteq Deadlines /\ epoch \in Nat
InvokedOK == invoked \in [Nodes -> [Attempts -> Nat]]

\* Every variable stays within its type.
TypeOK ==
  /\ TasksOK /\ NodesOK /\ CallsOK /\ timer \in Timer /\ FlowsOK /\ UsersOK /\ WorldOK
  /\ InvokedOK /\ SubstrateTypeOK

FlowsIdle == \A n \in Nodes : flowPc[n] = "idle"
Quiet ==
  /\ FlowsIdle /\ approvePc = "idle" /\ cancelPc = "idle"
  /\ \A c \in Callers : callPc[c] = "idle"

\* Of all the invocations of runTask that overlap (a timer that fires while a
\* client posts /run), one at a time is past the runningTaskIds test, and nodes
\* are executed only under it (runTask's finally block gives it back).
RunExclusive ==
  /\ \A c, d \in Callers : callPc[c] \in Guarded /\ callPc[d] \in Guarded => c = d
  /\ runningTask <=> \E c \in Callers : callPc[c] \in Guarded
  /\ ~FlowsIdle => runningTask

\* No attempt of a node calls its executor twice, whatever recovery, retries,
\* approvals and overlapping runs do: an attempt number is an idempotency token.
ToolOncePerAttempt == \A n \in Nodes, a \in Attempts : invoked[n][a] <= 1

\* A node that failed retryably has a retry ahead: an active job for its next
\* attempt, or the flow that is about to schedule it (no crash, no cancellation,
\* no deadline).
NoLostRetry ==
  epoch = 0 /\ cancels = 0 /\ ~Expired =>
    \A n \in Nodes : nodeStatus[n] = "FAILED" /\ retryable[n] =>
      flowPc[n] = "schedule" \/ retryJobs[n][attempt[n] + 1] \in ActiveJob

\* A task that is DONE left nothing behind: every node SUCCEEDED, no node is still
\* executing, no execution claim is held.
DoneMeansSettled ==
  taskStatus = "DONE" /\ cancels = 0 =>
    FlowsIdle /\ executionClaims = {} /\ \A n \in Nodes : nodeStatus[n] = "SUCCEEDED"

\* The units taken from expired claims whose nodes an invocation has not turned to yet.
Lost(c) == CASE callPc[c] = "expire" -> marking[c] [] callPc[c] = "renode" -> todo[c]
             [] OTHER -> {}

\* A node that is RUNNING can be recovered: it is being executed, or a claim on its
\* attempt is there to run out, or the run that took that claim away is about to
\* reopen the node.  (A second crash, in that last window, loses the node.)
RunningIsLeased ==
  \A n \in Nodes : nodeStatus[n] = "RUNNING" =>
    \/ flowPc[n] # "idle"
    \/ ClaimsOn(n, attempt[n]) # {}
    \/ \E c \in Callers : \E unit \in Lost(c) : unit[1] = n

\* When nothing is in progress every claim has been given back (without crashes):
\* no error path of executeNode keeps its lease.
ClaimsReleased == Quiet /\ epoch = 0 => executionClaims = {}

\* When nothing is in progress and no run is about to start, a task that has not
\* ended shows WAITING_USER exactly when one of its nodes waits for the user: no
\* order of the writes of parallel nodes, approvals and runs leaves it otherwise.
StatusAgrees ==
  Quiet /\ ~timer.soon /\ epoch = 0 /\ taskStatus \notin TerminalTask =>
    (taskStatus = "WAITING_USER" <=> \E n \in Nodes : nodeStatus[n] = "WAITING_USER")

\* A result is never taken back: recovery of a lease that ran out under a running
\* executor, or a late retry, does not reopen a node that SUCCEEDED.
SucceededIsFinal ==
  [][\A n \in Nodes : nodeStatus[n] = "SUCCEEDED" /\ cancels' = 0
                        => nodeStatus'[n] = "SUCCEEDED"]_vars

\* A dead-lettered node is never executed again.
DeadLetterIsFinal ==
  [][\A n \in Nodes : (\E a \in Attempts : <<n, a>> \in deadLetters)
                        => invoked'[n] = invoked[n]]_vars

\* Retries that are exhausted leave at most one dead letter per node, also when a restart comes
\* between the failure, its dead letter and the release of the claim.
OneDeadLetter ==
  \A n \in Nodes, a, b \in Attempts :
    <<n, a>> \in deadLetters /\ <<n, b>> \in deadLetters => a = b

\* A task that reached a terminal status keeps it, unless a user cancels it or an
\* approval was being recorded at that moment (one invocation at a time, no lost
\* lease; see README for the others).
TerminalIsFinal ==
  [][approvePc = "idle" /\ cancels' = 0 /\ taskStatus \in TerminalTask
       => taskStatus' = taskStatus]_vars

\* Once cancelTask has finished and no run is in progress, none begins again: late
\* timers, due retries, expired leases and approvals leave the task CANCELLED.
CancelledIsFinal ==
  [][taskStatus = "CANCELLED" /\ ~runningTask
       => taskStatus' = "CANCELLED" /\ ~runningTask']_vars

ToolRan(n) == attempt[n] > 0 /\ invoked[n][attempt[n]] > 0

\* The results tools have given and the tools being executed are together never more
\* than max_tool_calls (one node at a time, no crash): a tool is called only while the
\* budget leaves room for its result, the others are downgraded to best effort.  An
\* execution that fails is not charged, and its retry may call the tool again.
ToolsWithinBudget ==
  Cardinality({n \in Nodes : /\ Kind[n] = "tool"
                             /\ \/ nodeStatus[n] = "SUCCEEDED" /\ ToolRan(n)
                                \/ flowPc[n] = "executing"})
    <= MaxToolCalls

\* Every task comes to rest: it ends, or waits for its user, or (see README) waits
\* for a node whose input has failed for good.
Stranded ==
  \E n \in Nodes : /\ nodeStatus[n] = "PENDING" /\ ~Ready(n)
                   /\ \E d \in Deps[n] : nodeStatus[d] = "FAILED" /\ ~retryable[d]
EventuallySettled ==
  <>[](taskStatus \in TerminalTask \cup {"WAITING_USER"} \/ Stranded)

-----------------------------------------------------------------------------
(* What all this adds up to for a client: TaskExecution *)

LeastInputs(n) ==
  IF Deps[n] = {} THEN 0
  ELSE CASE Kind[n] # "merge" \/ Merge[n] = "ALL" -> Cardinality(Deps[n])
         [] Kind[n] = "merge" /\ Merge[n] = "ANY_K" -> IF Quorum[n] = 0 THEN 1 ELSE Quorum[n]
         [] OTHER -> 0

Promise == INSTANCE TaskExecution WITH
  Inputs    <- Deps,
  Least     <- [n \in Nodes |-> LeastInputs(n)],
  Approvals <- MaxApprovals > 0,
  calls     <- invoked,
  results   <- {n \in Nodes : nodeStatus[n] = "SUCCEEDED"},
  abandoned <- {n \in Nodes : \E a \in Attempts : <<n, a>> \in deadLetters},
  outcome   <- CASE taskStatus = "DONE" -> "done"
                 [] taskStatus = "FAILED" -> "failed"
                 [] OTHER -> "open"

\* The runtime, with its claims, retry jobs, overlapping runs and crashes, implements
\* what TaskExecution promises a client who does not cancel.
KeepsPromise == Promise!Spec

-----------------------------------------------------------------------------
(* The inductive invariant behind RunExclusive and ToolOncePerAttempt *)

\* A node is executed for the invocation that waits for its batch, and in no other
\* phase of an invocation.
FlowOwned ==
  \A n \in Nodes : flowPc[n] # "idle" =>
    \E c \in Callers : callPc[c] = "wait" /\ n \in todo[c]

UnderClaim == {"consume", "work", "executing", "commit", "wait", "run", "schedule",
               "deadletter", "release", "releaseRetry", "releaseFail"}

\* Until the node is RUNNING a flow aims at the next attempt, from then on it is in it.
FlowAttempts ==
  \A n \in Nodes :
    /\ flowPc[n] \in {"gate", "start"} => target[n] = attempt[n] + 1
    /\ flowPc[n] \in UnderClaim => target[n] = attempt[n] /\ target[n] > 0
    /\ flowPc[n] \in {"schedule", "releaseRetry", "wake"} => target[n] <= MaxRetries

\* Only attempts that have begun were given to an executor, and the one that begins
\* has not been yet.
InvokedPast ==
  \A n \in Nodes :
    /\ \A a \in Attempts : invoked[n][a] > 0 => a <= attempt[n]
    /\ flowPc[n] \in {"consume", "work"} => invoked[n][target[n]] = 0

Inductive ==
  /\ TypeOK /\ RunExclusive /\ FlowOwned /\ FlowAttempts /\ InvokedPast /\ ToolOncePerAttempt
=============================================================================
