-------------------------- MODULE TaskGraphRuntime --------------------------
(***************************************************************************)
(* One task graph executed by TaskGraphRuntime: the calls of runTask, the  *)
(* executeNode of every node of a batch, approveTask, cancelTask, the      *)
(* worker pool's timer, and crashes of the process.                        *)
(*                                                                         *)
(* Granularity.  The runtime is one Node process; its handlers interleave  *)
(* at awaits.  A store read is answered from the store's memory in every   *)
(* driver, a store write waits for the database, and a tool or a model     *)
(* call waits for its answer.  A step therefore runs from one such wait to *)
(* the next: the reads a handler makes, the decision it takes, and one     *)
(* write.  The writes of one substrate operation (claim, unit, session)    *)
(* are one step.  A crash may fall between any two steps and loses         *)
(* everything that is not in the store.                                    *)
(***************************************************************************)
EXTENDS ExecutionSubstrate

CONSTANTS
  Deps,            \* node -> nodes it takes input from (ensureNodeInputFrom)
  Kind,            \* node -> "tool", "approval", "llm" or "merge"
  Merge,           \* node -> "ALL", "ANY_K" or "BEST_EFFORT"
  Quorum,          \* node -> k of merge_policy
  PreNode,         \* node -> actions the policy may answer at PRE_NODE
  PreTool,         \* node -> actions the policy may answer at PRE_TOOL
  Outcomes,        \* node -> how its executor may end
  PreResponse,     \* actions the policy may answer at PRE_RESPONSE
  Deadlines,       \* deadlines configured: "latency", "merge"; "spend" for a budget of
                   \* tokens or of summed latency
  MaxRetries,      \* retry_policy.max_retries
  MaxParallel,     \* max_parallel_nodes
  MaxToolCalls,    \* budget.max_tool_calls
  Callers,         \* concurrent invocations of runTask (timer, API)
  Polling,         \* has startWorkerPoolPolling been called?
  Stalls,          \* may the lease of a live execution run out?
  MaxApprovals, MaxCancels, MaxCrashes,    \* bounds on the environment
  None             \* no node

Policy   == {"ALLOW", "DENY", "DOWNGRADE", "REQUIRE_APPROVAL"}
Outcome  == {"ok", "retryable", "fatal", "needs_user"}

ASSUME GraphAssumption ==
  /\ Deps \in [Nodes -> SUBSET Nodes]
  /\ Kind \in [Nodes -> {"tool", "approval", "llm", "merge"}]
  /\ Merge \in [Nodes -> {"ALL", "ANY_K", "BEST_EFFORT"}]
  /\ Quorum \in [Nodes -> Nat]
  /\ None \notin Nodes
ASSUME PolicyAssumption ==
  /\ PreNode \in [Nodes -> SUBSET Policy]
  /\ PreTool \in [Nodes -> SUBSET Policy]
  /\ Outcomes \in [Nodes -> SUBSET Outcome]
  /\ PreResponse \subseteq Policy
  /\ Deadlines \subseteq {"latency", "merge", "spend"}
ASSUME LimitAssumption ==
  /\ MaxRetries \in Nat /\ MaxRetries < MaxAttempt
  /\ MaxParallel \in Nat \ {0} /\ MaxToolCalls \in Nat
  /\ MaxApprovals \in Nat /\ MaxCancels \in Nat /\ MaxCrashes \in Nat
  /\ Polling \in BOOLEAN /\ Stalls \in BOOLEAN

VARIABLES
  \* in the store
  taskStatus, currentWait, toolCalls,
  nodeStatus, attempt, retryable, approvalGranted,
  \* in the process
  runningTask,     \* the task is in runningTaskIds
  timer,           \* the one timer the worker pool holds for the task
  callPc, todo,    \* invocations of runTask and what each has left to do
  marking,         \* the units an invocation has taken from their claims so far, or the
                   \* retry job it is about to mark REQUEUED
  flowPc, target, spentSeen,             \* executeNode of each node
  approvePc, approved,                   \* an approveTask in progress
  cancelPc, toCancel,                    \* a cancelTask in progress
  \* the environment
  elapsed,         \* deadlines that have passed
  epoch, approvals, cancels,
  \* history
  invoked          \* [node][attempt] -> executor invocations made

taskVars   == <<taskStatus, currentWait, toolCalls>>
nodeVars   == <<nodeStatus, attempt, retryable, approvalGranted>>
storeVars  == <<taskVars, nodeVars>>
callVars   == <<runningTask, timer, callPc, todo, marking>>
flowVars   == <<flowPc, target, spentSeen>>
userVars   == <<approvePc, approved, cancelPc, toCancel, approvals, cancels>>
worldVars  == <<elapsed, epoch>>
vars == <<storeVars, callVars, flowVars, userVars, worldVars, invoked, substrateVars>>

TaskStatus   == {"RUNNING", "WAITING_USER", "DONE", "FAILED", "CANCELLED"}
TerminalTask == {"DONE", "FAILED", "CANCELLED"}
NodeStatus   == {"PENDING", "RUNNING", "WAITING_USER", "SUCCEEDED", "FAILED", "CANCELLED"}
TerminalNode == {"SUCCEEDED", "FAILED", "CANCELLED"}

CallPc == {"idle", "expire", "renode", "requeue", "jobs", "remark", "plan", "downgrade",
           "downgraded", "wait", "follow", "finish", "failclaims", "failtask"}
\* between runningTaskIds.add and runningTaskIds.delete
Guarded == {"plan", "downgrade", "downgraded", "wait", "follow", "finish",
            "failclaims", "failtask"}
FlowPc == {"idle", "check", "gate", "start", "consume", "work", "executing",
           "commit", "gatewait", "wait", "gaterun", "run", "schedule",
           "deadletter", "release", "releaseRetry", "releaseFail", "wake", "reconcile"}

(* The worker pool keeps one timer per task, for the earliest moment asked   *)
(* for: at once (soon), or when the first of some backoffs and leases ends.  *)
NoTimer == [soon |-> FALSE, jobs |-> {}, claims |-> {}]
Soon    == [soon |-> TRUE,  jobs |-> {}, claims |-> {}]
Timer   == [soon : BOOLEAN, jobs : SUBSET (Nodes \X Attempts), claims : SUBSET Claim]

WakeAt(jobs, claims) ==
  IF timer.soon THEN timer
  ELSE [soon |-> FALSE, jobs |-> timer.jobs \cup jobs, claims |-> timer.claims \cup claims]

TimerDue ==
  \/ timer.soon
  \/ \E j \in timer.jobs : retryJobs[j[1]][j[2]] # "SCHEDULED"
  \/ timer.claims \ (executionClaims \ staleClaims) # {}

Init ==
  /\ taskStatus = "RUNNING" /\ currentWait = None /\ toolCalls = 0
  /\ nodeStatus = [n \in Nodes |-> "PENDING"]
  /\ attempt = [n \in Nodes |-> 0]
  /\ retryable = [n \in Nodes |-> FALSE]
  /\ approvalGranted = [n \in Nodes |-> FALSE]
  /\ runningTask = FALSE /\ timer = NoTimer
  /\ callPc = [c \in Callers |-> "idle"]
  /\ todo = [c \in Callers |-> {}]
  /\ marking = [c \in Callers |-> {}]
  /\ flowPc = [n \in Nodes |-> "idle"]
  /\ target = [n \in Nodes |-> 0]
  /\ spentSeen = [n \in Nodes |-> 0]
  /\ approvePc = "idle" /\ approved = None
  /\ cancelPc = "idle" /\ toCancel = {}
  /\ elapsed = {} /\ epoch = 0 /\ approvals = 0 /\ cancels = 0
  /\ invoked = [n \in Nodes |-> [a \in Attempts |-> 0]]
  /\ SubstrateInit

-----------------------------------------------------------------------------
(* What a snapshot shows *)

\* Variant: inputs that have failed count as well.
ReadyThoughFailed(n) == \A d \in Deps[n] : nodeStatus[d] \in TerminalNode

\* evaluateNodeReadiness
Ready(n) ==
  LET succeeded == {d \in Deps[n] : nodeStatus[d] = "SUCCEEDED"}
      mode == IF Kind[n] = "merge" THEN Merge[n] ELSE "ALL"
  IN \/ Deps[n] = {}
     \/ mode = "ALL" /\ succeeded = Deps[n]
     \/ mode = "ANY_K" /\ Cardinality(succeeded) >= (IF Quorum[n] = 0 THEN 1 ELSE Quorum[n])
     \/ mode = "BEST_EFFORT" /\ \/ \A d \in Deps[n] : nodeStatus[d] \in TerminalNode
                                \/ "merge" \in elapsed

Runnable == {n \in Nodes : nodeStatus[n] = "PENDING" /\ Ready(n)}

Expired == "latency" \in elapsed

BudgetExceeded == toolCalls >= MaxToolCalls \/ "spend" \in elapsed

WillExceedBudget(n) == (Kind[n] = "tool" /\ toolCalls + 1 > MaxToolCalls) \/ Expired

SetTask(s, w) == taskStatus' = s /\ currentWait' = w /\ UNCHANGED toolCalls

SetNode(n, s) == nodeStatus' = [nodeStatus EXCEPT ![n] = s]

\* The node gets a status with which no retry is due.
ClosedNode(n, s) == SetNode(n, s) /\ retryable' = [retryable EXCEPT ![n] = FALSE]

\* Variants of ReconcileTask: waiting nodes overlooked, looked at after the others,
\* failed nodes overlooked at the end.
ReconcileOverlookingWaits ==
  LET has(s) == \E n \in Nodes : nodeStatus[n] = s
      going  == has("PENDING") \/ has("RUNNING") \/ HasPendingRetryJobs \/ executionClaims # {}
  IN SetTask(IF going THEN "RUNNING" ELSE IF has("FAILED") THEN "FAILED" ELSE "DONE", currentWait)
ReconcileWaitsLast ==
  LET has(s) == \E n \in Nodes : nodeStatus[n] = s
      going  == has("PENDING") \/ has("RUNNING") \/ HasPendingRetryJobs \/ executionClaims # {}
  IN SetTask(IF going THEN "RUNNING" ELSE IF has("WAITING_USER") THEN "WAITING_USER"
             ELSE IF has("FAILED") THEN "FAILED" ELSE "DONE", currentWait)
ReconcileOverlookingFailures ==
  LET has(s) == \E n \in Nodes : nodeStatus[n] = s
      going  == has("PENDING") \/ has("RUNNING") \/ HasPendingRetryJobs \/ executionClaims # {}
  IN SetTask(IF has("WAITING_USER") THEN "WAITING_USER" ELSE IF going THEN "RUNNING"
             ELSE "DONE", currentWait)

\* reconcileTaskTerminalState: reads nodes, retry jobs and claims, writes the task.
\* It does not look at the task's own status.
ReconcileTask ==
  LET has(s)  == \E n \in Nodes : nodeStatus[n] = s
      going   == \/ has("PENDING") \/ has("RUNNING")
                 \/ \E n \in Nodes : nodeStatus[n] = "FAILED" /\ retryable[n]
                 \/ HasPendingRetryJobs
                 \/ executionClaims # {}
      barren  == has("FAILED") /\ ~has("SUCCEEDED")
  IN \/ has("WAITING_USER") /\ SetTask("WAITING_USER", currentWait)
     \/ ~has("WAITING_USER") /\ going /\ SetTask("RUNNING", currentWait)
     \/ /\ ~has("WAITING_USER") /\ ~going
        /\ \/ barren /\ SetTask("FAILED", currentWait)
           \/ ~barren /\ "DENY" \in PreResponse /\ SetTask("FAILED", currentWait)
           \/ /\ ~barren /\ "ALLOW" \in PreResponse
              /\ SetTask(IF has("FAILED") THEN "FAILED" ELSE "DONE", None)

-----------------------------------------------------------------------------
(* runTask, one invocation c.  Everything before the runningTaskIds test is *)
(* done by every invocation, also while another one is executing nodes.     *)

MoveCall(c, pc, left) ==
  /\ callPc' = [callPc EXCEPT ![c] = pc]
  /\ todo' = [todo EXCEPT ![c] = left]

\* recoverStaleExecutionClaims lists the claims that have run out.
EnterRun(c) ==
  /\ callPc[c] = "idle"
  /\ MoveCall(c, IF staleClaims = {} THEN "requeue" ELSE "expire", staleClaims)
  /\ UNCHANGED <<storeVars, flowVars, userVars, worldVars, invoked, runningTask, marking,
                 substrateVars>>

TimerFires(c) == TimerDue /\ timer' = NoTimer /\ EnterRun(c)
RunRequested(c) == UNCHANGED timer /\ EnterRun(c)     \* POST /tasks/:id/run

\* drainOnce of the worker pool, when its polling loop has been started.
Poll(c) ==
  /\ Polling /\ taskStatus \notin TerminalTask \cup {"WAITING_USER"}
  /\ timer' = NoTimer /\ EnterRun(c)

\* It releases them one after the other, then turns to the nodes of all of them.
ExpireClaim(c) ==
  /\ callPc[c] = "expire"
  /\ \E claim \in todo[c] :
       LET expired == marking[c] \cup UnitsOf({claim})
       IN /\ RecoverStaleClaim(claim)
          /\ \/ /\ todo[c] = {claim}
                /\ MoveCall(c, "renode", expired)
                /\ marking' = [marking EXCEPT ![c] = {}]
             \/ /\ todo[c] # {claim}
                /\ MoveCall(c, "expire", todo[c] \ {claim})
                /\ marking' = [marking EXCEPT ![c] = expired]
  /\ UNCHANGED <<storeVars, flowVars, userVars, worldVars, invoked, runningTask, timer>>

\* Variants of RecoverNode: every node of a lost lease is reopened; a RUNNING one is not.
RecoverAnyNode(c) ==
  /\ callPc[c] = "renode"
  /\ \E unit \in todo[c] :
       /\ SetNode(unit[1], "PENDING")
       /\ MoveCall(c, IF todo[c] = {unit} THEN "requeue" ELSE "renode", todo[c] \ {unit})
  /\ UNCHANGED <<taskVars, attempt, retryable, approvalGranted, flowVars, userVars, worldVars,
                 invoked, runningTask, timer, marking, substrateVars>>
RecoverPendingNode(c) ==
  /\ callPc[c] = "renode"
  /\ \E unit \in todo[c] :
       MoveCall(c, IF todo[c] = {unit} THEN "requeue" ELSE "renode", todo[c] \ {unit})
  /\ UNCHANGED <<storeVars, flowVars, userVars, worldVars, invoked, runningTask, timer,
                 marking, substrateVars>>

\* The nodes of those units, each as its record is found now.
RecoverNode(c) ==
  /\ callPc[c] = "renode"
  /\ \E unit \in todo[c] :
       /\ IF nodeStatus[unit[1]] \in {"RUNNING", "PENDING"}
            THEN ClosedNode(unit[1], "PENDING")
            ELSE UNCHANGED <<nodeStatus, retryable>>
       /\ MoveCall(c, IF todo[c] = {unit} THEN "requeue" ELSE "renode", todo[c] \ {unit})
  /\ UNCHANGED <<taskStatus, currentWait, toolCalls, attempt, approvalGranted,
                 flowVars, userVars, worldVars, invoked, runningTask, timer, marking, substrateVars>>

\* The due jobs are listed once, then taken one at a time.
JobsLeft(c) == IF callPc[c] = "requeue" THEN DueRetryJobs ELSE todo[c]

\* Variant: the attempt of the job compared off by one, so its node is not reopened.
RequeueWrongAttempt(c) ==
  /\ callPc[c] \in {"requeue", "jobs"}
  /\ \E job \in JobsLeft(c) :
       /\ SetJob(job[1], job[2], "COMPLETED")
       /\ MoveCall(c, "jobs", JobsLeft(c) \ {job})
  /\ UNCHANGED <<storeVars, flowVars, userVars, worldVars, invoked, runningTask, timer, marking>>

RequeueDueJob(c) ==
  /\ callPc[c] \in {"requeue", "jobs"}
  /\ \E job \in JobsLeft(c) :
       LET n == job[1]
           a == job[2]
           rest == JobsLeft(c) \ {job}
       IN \/ /\ nodeStatus[n] = "FAILED" /\ attempt[n] + 1 = a
             /\ SetNode(n, "PENDING")
             /\ retryable' = [retryable EXCEPT ![n] = FALSE]
             /\ MoveCall(c, "remark", rest)
             /\ marking' = [marking EXCEPT ![c] = {job}]
             /\ UNCHANGED substrateVars
          \/ /\ ~(nodeStatus[n] = "FAILED" /\ attempt[n] + 1 = a)
             /\ IF attempt[n] + 1 >= a \/ nodeStatus[n] \in {"PENDING", "RUNNING"}
                  THEN SetJob(n, a, "COMPLETED")
                  ELSE UNCHANGED substrateVars
             /\ MoveCall(c, "jobs", rest)
             /\ UNCHANGED <<nodeStatus, retryable, marking>>
  /\ UNCHANGED <<taskStatus, currentWait, toolCalls, attempt, approvalGranted,
                 flowVars, userVars, worldVars, invoked, runningTask, timer>>

\* A blind write, one database round trip after the node became PENDING.
MarkRequeued(c) ==
  /\ callPc[c] = "remark"
  /\ \E job \in marking[c] : SetJob(job[1], job[2], "REQUEUED")
  /\ marking' = [marking EXCEPT ![c] = {}]
  /\ MoveCall(c, "jobs", todo[c])
  /\ UNCHANGED <<storeVars, flowVars, userVars, worldVars, invoked, runningTask, timer>>

\* applyBudgetDowngrade works from the snapshot taken here.
DowngradableTools ==
  IF BudgetExceeded THEN {n \in Runnable : Kind[n] = "tool"} ELSE {}

\* Variants of PassGuard: runningTaskIds is not consulted; the task's status is not.
PassGuardUnguarded(c) ==
  /\ callPc[c] \in {"requeue", "jobs"} /\ JobsLeft(c) = {}
  /\ runningTask' = TRUE
  /\ MoveCall(c, "plan", DowngradableTools)
  /\ UNCHANGED <<storeVars, flowVars, userVars, worldVars, invoked, timer, marking, substrateVars>>
PassGuardThoughEnded(c) ==
  /\ callPc[c] \in {"requeue", "jobs"} /\ JobsLeft(c) = {} /\ ~runningTask
  /\ runningTask' = TRUE
  /\ MoveCall(c, "plan", DowngradableTools)
  /\ UNCHANGED <<storeVars, flowVars, userVars, worldVars, invoked, timer, marking, substrateVars>>

\* The runningTaskIds test; a refused invocation asks for another one in 50 ms.
PassGuard(c) ==
  /\ callPc[c] \in {"requeue", "jobs"} /\ JobsLeft(c) = {}
  /\ \/ /\ runningTask
        /\ timer' = Soon
        /\ MoveCall(c, "idle", {}) /\ UNCHANGED runningTask
     \/ /\ ~runningTask /\ taskStatus \in TerminalTask
        /\ MoveCall(c, "idle", {}) /\ UNCHANGED <<runningTask, timer>>
     \/ /\ ~runningTask /\ taskStatus \notin TerminalTask
        /\ runningTask' = TRUE
        /\ MoveCall(c, "plan", DowngradableTools) /\ UNCHANGED timer
  /\ UNCHANGED <<storeVars, flowVars, userVars, worldVars, invoked, marking, substrateVars>>

\* isTaskExpired, then failTask: retry jobs, claims and the task; no node changes.
FailExpiredTask(c) ==
  /\ callPc[c] = "plan" /\ Expired
  /\ CancelPendingRetryJobs
  /\ MoveCall(c, "failclaims", {})
  /\ UNCHANGED <<storeVars, flowVars, userVars, worldVars, invoked, runningTask, timer, marking>>

FailExpiredClaims(c) ==
  /\ callPc[c] = "failclaims"
  /\ ReleaseActiveClaims
  /\ MoveCall(c, "failtask", {})
  /\ UNCHANGED <<storeVars, flowVars, userVars, worldVars, invoked, runningTask, timer, marking>>

FailExpiredEnd(c) ==
  /\ callPc[c] = "failtask"
  /\ SetTask("FAILED", None)
  /\ MoveCall(c, "finish", {})
  /\ UNCHANGED <<nodeStatus, attempt, retryable, approvalGranted, flowVars, userVars,
                 worldVars, invoked, runningTask, timer, marking, substrateVars>>

Planning(c) == (callPc[c] = "plan" /\ ~Expired) \/ callPc[c] = "downgrade"

\* markNodeDowngraded for one node of the snapshot: the node, then the task.
DowngradeTool(c) ==
  /\ Planning(c)
  /\ \E n \in todo[c] :
       /\ attempt[n] < MaxAttempt
       /\ SetNode(n, "SUCCEEDED")
       /\ attempt' = [attempt EXCEPT ![n] = @ + 1]
       /\ retryable' = [retryable EXCEPT ![n] = FALSE]
       /\ MoveCall(c, "downgraded", todo[c] \ {n})
  /\ UNCHANGED <<taskStatus, currentWait, toolCalls, approvalGranted, flowVars, userVars,
                 worldVars, invoked, runningTask, timer, marking, substrateVars>>

DowngradeToolEnd(c) ==
  /\ callPc[c] = "downgraded"
  /\ SetTask("RUNNING", None)
  /\ MoveCall(c, "downgrade", todo[c])
  /\ UNCHANGED <<nodeStatus, attempt, retryable, approvalGranted, flowVars, userVars,
                 worldVars, invoked, runningTask, timer, marking, substrateVars>>

\* The batch: at most MaxParallel runnable nodes.  The task is set to RUNNING
\* whatever its status has become since the guard.
IsBatch(batch) ==
  /\ batch \subseteq Runnable
  /\ Cardinality(batch) <= MaxParallel
  /\ batch = Runnable \/ Cardinality(batch) = MaxParallel

Dispatch(c) ==
  /\ Planning(c) /\ todo[c] = {} /\ Runnable # {}
  /\ SetTask("RUNNING", currentWait)
  /\ \E batch \in SUBSET Runnable :
       /\ IsBatch(batch)
       /\ MoveCall(c, "wait", batch)
       /\ flowPc' = [n \in Nodes |-> IF n \in batch THEN "check" ELSE flowPc[n]]
  /\ UNCHANGED <<nodeStatus, attempt, retryable, approvalGranted, target, spentSeen,
                 userVars, worldVars, invoked, runningTask, timer, marking, substrateVars>>

NothingRunnable(c) == Planning(c) /\ todo[c] = {} /\ Runnable = {}

\* Promise.all over the batch
BatchDone(c) == callPc[c] = "wait" /\ \A n \in todo[c] : flowPc[n] = "idle"

ReconcileRun(c) ==
  /\ NothingRunnable(c) \/ BatchDone(c)
  /\ ReconcileTask
  /\ MoveCall(c, "follow", {})
  /\ UNCHANGED <<nodeStatus, attempt, retryable, approvalGranted, flowVars, userVars,
                 worldVars, invoked, runningTask, timer, marking, substrateVars>>

\* scheduleFollowUpRun
FollowUp(c) ==
  /\ callPc[c] = "follow"
  /\ timer' = IF taskStatus \in TerminalTask THEN timer
              ELSE IF Runnable # {} THEN Soon
              ELSE WakeAt(JobsWith({"SCHEDULED"}), executionClaims \ staleClaims)
  /\ MoveCall(c, "finish", {})
  /\ UNCHANGED <<storeVars, flowVars, userVars, worldVars, invoked, runningTask, marking, substrateVars>>

FinishRun(c) ==
  /\ callPc[c] = "finish"
  /\ runningTask' = FALSE
  /\ MoveCall(c, "idle", {})
  /\ UNCHANGED <<storeVars, flowVars, userVars, worldVars, invoked, timer, marking, substrateVars>>

RunSteps(c) ==
  \/ TimerFires(c) \/ ExpireClaim(c) \/ RecoverNode(c) \/ RequeueDueJob(c)
  \/ MarkRequeued(c) \/ PassGuard(c) \/ FailExpiredTask(c) \/ FailExpiredClaims(c)
  \/ FailExpiredEnd(c) \/ DowngradeTool(c) \/ DowngradeToolEnd(c) \/ Dispatch(c)
  \/ ReconcileRun(c) \/ FollowUp(c) \/ FinishRun(c)

RunTask(c) == RunRequested(c) \/ Poll(c) \/ RunSteps(c)

-----------------------------------------------------------------------------
(* executeNode of node n *)

Goto(n, pc) == flowPc' = [flowPc EXCEPT ![n] = pc]

\* A step of a flow that writes the node and nothing else.
WritesNode  == UNCHANGED <<taskVars, callVars, userVars, worldVars, substrateVars>>
\* A step of a flow that changes neither task nor nodes.
KeepsStates == UNCHANGED <<storeVars, userVars, worldVars>>

\* No longer PENDING, or inputs not ready: the flow returns.
ExecSkip(n) ==
  /\ flowPc[n] = "check" /\ n \notin Runnable
  /\ Goto(n, "idle")
  /\ KeepsStates /\ UNCHANGED <<callVars, target, spentSeen, invoked, substrateVars>>

ExecOverBudget(n) ==
  /\ flowPc[n] = "check" /\ n \in Runnable /\ WillExceedBudget(n)
  /\ IF Kind[n] = "tool"
       THEN /\ attempt[n] < MaxAttempt
            /\ ClosedNode(n, "SUCCEEDED")
            /\ attempt' = [attempt EXCEPT ![n] = @ + 1]
            /\ Goto(n, "gaterun")
       ELSE /\ ClosedNode(n, "FAILED") /\ UNCHANGED attempt
            /\ Goto(n, "idle")
  /\ WritesNode /\ UNCHANGED <<approvalGranted, target, spentSeen, invoked>>

\* Up to the write that attaches the PRE_NODE decision.
ExecPrepare(n) ==
  /\ flowPc[n] = "check" /\ n \in Runnable /\ ~WillExceedBudget(n)
  /\ attempt[n] < MaxAttempt
  /\ target' = [target EXCEPT ![n] = attempt[n] + 1]
  /\ Goto(n, "gate")
  /\ KeepsStates /\ UNCHANGED <<callVars, spentSeen, invoked, substrateVars>>

\* A policy that asks for approval is satisfied by one already granted.
Holds(n, phase) ==
  "REQUIRE_APPROVAL" \in phase[n] /\ Kind[n] # "approval" /\ ~approvalGranted[n]
Passes(n, phase) ==
  \/ "ALLOW" \in phase[n]
  \/ "DOWNGRADE" \in phase[n] /\ Kind[n] # "tool"
  \/ "REQUIRE_APPROVAL" \in phase[n] /\ (Kind[n] = "approval" \/ approvalGranted[n])

\* PRE_NODE answers DENY, or a required permission is missing.
GateDenies(n) ==
  /\ flowPc[n] = "gate" /\ "DENY" \in PreNode[n]
  /\ ClosedNode(n, "FAILED")
  /\ Goto(n, "idle")
  /\ WritesNode /\ UNCHANGED <<attempt, approvalGranted, target, spentSeen, invoked>>

GateDowngrades(n) ==
  /\ flowPc[n] = "gate" /\ "DOWNGRADE" \in PreNode[n] /\ Kind[n] = "tool"
  /\ ClosedNode(n, "SUCCEEDED")
  /\ attempt' = [attempt EXCEPT ![n] = target[n]]
  /\ Goto(n, "gaterun")
  /\ WritesNode /\ UNCHANGED <<approvalGranted, target, spentSeen, invoked>>

GateAsksUser(n) ==
  /\ flowPc[n] = "gate" /\ Holds(n, PreNode)
  /\ SetNode(n, "WAITING_USER")
  /\ Goto(n, "gatewait")
  /\ WritesNode
  /\ UNCHANGED <<attempt, retryable, approvalGranted, target, spentSeen, invoked>>

\* claimExecutionUnit returns nothing: the flow returns, the node stays PENDING.
ClaimRefused(n) ==
  /\ flowPc[n] = "gate" /\ Passes(n, PreNode) /\ UnitRefused(n, target[n])
  /\ Goto(n, "idle")
  /\ KeepsStates /\ UNCHANGED <<callVars, target, spentSeen, invoked, substrateVars>>

ClaimUnit(n) ==
  /\ flowPc[n] = "gate" /\ Passes(n, PreNode)
  /\ ClaimExecutionUnit(n, target[n], epoch)
  /\ Goto(n, "start")
  /\ KeepsStates /\ UNCHANGED <<callVars, target, spentSeen, invoked>>

\* Variant: the attempt number is not recorded when the node starts.
StartNodeSameAttempt(n) ==
  /\ flowPc[n] = "start"
  /\ ClosedNode(n, "RUNNING")
  /\ Goto(n, "consume")
  /\ WritesNode /\ UNCHANGED <<attempt, approvalGranted, target, spentSeen, invoked>>

\* The node becomes RUNNING whatever it has become since "check".
StartNode(n) ==
  /\ flowPc[n] = "start"
  /\ ClosedNode(n, "RUNNING")
  /\ attempt' = [attempt EXCEPT ![n] = target[n]]
  /\ Goto(n, "consume")
  /\ WritesNode /\ UNCHANGED <<approvalGranted, target, spentSeen, invoked>>

ConsumeRetryJob(n) ==
  /\ flowPc[n] = "consume"
  /\ MarkRetryJobCompleted(n, target[n])
  /\ Goto(n, "work")
  /\ KeepsStates /\ UNCHANGED <<callVars, target, spentSeen, invoked>>

\* PRE_TOOL, which other kinds of node do not have.
ToolPasses(n) == Kind[n] = "tool" => Passes(n, PreTool)

WorkDowngraded(n) ==
  /\ flowPc[n] = "work" /\ Kind[n] = "tool" /\ "DOWNGRADE" \in PreTool[n]
  /\ ClosedNode(n, "SUCCEEDED")
  /\ Goto(n, "run")
  /\ WritesNode /\ UNCHANGED <<attempt, approvalGranted, target, spentSeen, invoked>>

WorkAsksUser(n) ==
  /\ flowPc[n] = "work"
  /\ Kind[n] = "approval" \/ (Kind[n] = "tool" /\ Holds(n, PreTool))
  /\ SetNode(n, "WAITING_USER")
  /\ Goto(n, "wait")
  /\ WritesNode
  /\ UNCHANGED <<attempt, retryable, approvalGranted, target, spentSeen, invoked>>

\* The executor (tool, model, verifier, merge) is called.
Invoke(n) ==
  /\ flowPc[n] = "work" /\ Kind[n] # "approval" /\ ToolPasses(n)
  /\ invoked' = [invoked EXCEPT ![n][target[n]] = @ + 1]
  /\ Goto(n, "executing")
  /\ KeepsStates /\ UNCHANGED <<callVars, target, spentSeen, substrateVars>>

\* budget_spent is read here and written one step later.
ReturnOk(n) ==
  /\ flowPc[n] = "executing" /\ "ok" \in Outcomes[n]
  /\ spentSeen' = [spentSeen EXCEPT ![n] = toolCalls]
  /\ ClosedNode(n, "SUCCEEDED")
  /\ approvalGranted' = [approvalGranted EXCEPT ![n] = FALSE]
  /\ Goto(n, "commit")
  /\ WritesNode /\ UNCHANGED <<attempt, target, invoked>>

\* NeedsUserInputError, or a compensation that needs the user, the one of a PRE_TOOL
\* denial among them.
ReturnNeedsUser(n) ==
  /\ "needs_user" \in Outcomes[n]
  /\ \/ flowPc[n] = "executing"
     \/ flowPc[n] = "work" /\ Kind[n] = "tool" /\ "DENY" \in PreTool[n]
  /\ ClosedNode(n, "WAITING_USER")
  /\ Goto(n, "wait")
  /\ WritesNode /\ UNCHANGED <<attempt, approvalGranted, target, spentSeen, invoked>>

CanRetry(n) == attempt[n] - 1 < MaxRetries

\* Variant: the executor is called again at once, within the same attempt.
RetryInPlace(n) ==
  /\ flowPc[n] = "executing" /\ "retryable" \in Outcomes[n] /\ CanRetry(n)
  /\ Goto(n, "work")
  /\ KeepsStates /\ UNCHANGED <<callVars, target, spentSeen, invoked, substrateVars>>

ReturnRetryable(n) ==
  /\ flowPc[n] = "executing" /\ "retryable" \in Outcomes[n] /\ CanRetry(n)
  /\ SetNode(n, "FAILED")
  /\ retryable' = [retryable EXCEPT ![n] = TRUE]
  /\ Goto(n, "schedule")
  /\ WritesNode /\ UNCHANGED <<attempt, approvalGranted, target, spentSeen, invoked>>

ReturnExhausted(n) ==
  /\ flowPc[n] = "executing" /\ "retryable" \in Outcomes[n] /\ ~CanRetry(n)
  /\ ClosedNode(n, "FAILED")
  /\ Goto(n, "deadletter")
  /\ WritesNode /\ UNCHANGED <<attempt, approvalGranted, target, spentSeen, invoked>>

\* An error that is not retryable, a PRE_TOOL denial among them.
ReturnFatal(n) ==
  /\ \/ flowPc[n] = "executing" /\ "fatal" \in Outcomes[n]
     \/ flowPc[n] = "work" /\ Kind[n] = "tool" /\ "DENY" \in PreTool[n]
  /\ ClosedNode(n, "FAILED")
  /\ Goto(n, "releaseFail")
  /\ WritesNode /\ UNCHANGED <<attempt, approvalGranted, target, spentSeen, invoked>>

ScheduleRetry(n) ==
  /\ flowPc[n] = "schedule"
  /\ ScheduleRetryJob(n, target[n] + 1)
  /\ Goto(n, "releaseRetry")
  /\ KeepsStates /\ UNCHANGED <<callVars, target, spentSeen, invoked>>

DeadLetter(n) ==
  /\ flowPc[n] = "deadletter"
  /\ RecordDeadLetter(n, target[n])
  /\ Goto(n, "releaseFail")
  /\ KeepsStates /\ UNCHANGED <<callVars, target, spentSeen, invoked>>

\* Variant: a node that waits keeps its claim.
TaskWaitsHoldingClaim(n) ==
  /\ flowPc[n] \in {"gatewait", "wait"}
  /\ SetTask("WAITING_USER", n)
  /\ Goto(n, "idle")
  /\ UNCHANGED <<nodeVars, callVars, target, spentSeen, userVars, worldVars, invoked, substrateVars>>

\* The second write of a node that waits for the user, before or under a claim.
TaskWaits(n) ==
  /\ flowPc[n] \in {"gatewait", "wait"}
  /\ SetTask("WAITING_USER", n)
  /\ Goto(n, IF flowPc[n] = "wait" THEN "release" ELSE "idle")
  /\ UNCHANGED <<nodeVars, callVars, target, spentSeen, userVars, worldVars, invoked, substrateVars>>

\* The second write of markNodeDowngraded, before or under a claim.
TaskRuns(n) ==
  /\ flowPc[n] \in {"gaterun", "run"}
  /\ SetTask("RUNNING", None)
  /\ Goto(n, IF flowPc[n] = "run" THEN "release" ELSE "idle")
  /\ UNCHANGED <<nodeVars, callVars, target, spentSeen, userVars, worldVars, invoked, substrateVars>>

\* Variant: the tool call is not charged to the budget.
CommitUncharged(n) ==
  /\ flowPc[n] = "commit"
  /\ SetTask("RUNNING", None)
  /\ spentSeen' = [spentSeen EXCEPT ![n] = 0]
  /\ Goto(n, "release")
  /\ UNCHANGED <<nodeVars, callVars, target, userVars, worldVars, invoked, substrateVars>>

Commit(n) ==
  /\ flowPc[n] = "commit"
  /\ taskStatus' = "RUNNING" /\ currentWait' = None
  /\ toolCalls' = spentSeen[n] + (IF Kind[n] = "tool" THEN 1 ELSE 0)
  /\ spentSeen' = [spentSeen EXCEPT ![n] = 0]
  /\ Goto(n, "release")
  /\ UNCHANGED <<nodeVars, callVars, target, userVars, worldVars, invoked, substrateVars>>

\* What follows the release: nothing, the timer of the retry, or a reconciliation.
AfterRelease(pc) ==
  CASE pc = "releaseRetry" -> "wake" [] pc = "releaseFail" -> "reconcile" [] OTHER -> "idle"

Release(n) ==
  /\ flowPc[n] \in {"release", "releaseRetry", "releaseFail"}
  /\ ReleaseClaim(n, target[n], epoch)
  /\ Goto(n, AfterRelease(flowPc[n]))
  /\ KeepsStates /\ UNCHANGED <<callVars, target, spentSeen, invoked>>

WakeForRetry(n) ==
  /\ flowPc[n] = "wake"
  /\ timer' = WakeAt({<<n, target[n] + 1>>}, {})
  /\ Goto(n, "idle")
  /\ KeepsStates
  /\ UNCHANGED <<runningTask, callPc, todo, marking, target, spentSeen, invoked, substrateVars>>

ReconcileFailure(n) ==
  /\ flowPc[n] = "reconcile"
  /\ ReconcileTask
  /\ Goto(n, "idle")
  /\ UNCHANGED <<nodeVars, callVars, target, spentSeen, userVars, worldVars, invoked, substrateVars>>

ExecuteNode(n) ==
  \/ ExecSkip(n) \/ ExecOverBudget(n) \/ ExecPrepare(n)
  \/ GateDenies(n) \/ GateDowngrades(n) \/ GateAsksUser(n) \/ ClaimRefused(n)
  \/ ClaimUnit(n) \/ StartNode(n) \/ ConsumeRetryJob(n)
  \/ WorkDowngraded(n) \/ WorkAsksUser(n) \/ Invoke(n)
  \/ ReturnOk(n) \/ ReturnNeedsUser(n) \/ ReturnRetryable(n) \/ ReturnExhausted(n)
  \/ ReturnFatal(n) \/ ScheduleRetry(n) \/ DeadLetter(n)
  \/ TaskWaits(n) \/ TaskRuns(n) \/ Commit(n) \/ Release(n)
  \/ WakeForRetry(n) \/ ReconcileFailure(n)

-----------------------------------------------------------------------------
(* The user: approveTask and cancelTask.  A rejection is a cancellation.    *)

KeepsRun == UNCHANGED <<callVars, flowVars, worldVars, invoked>>

\* The mark is kept for the nodes that resume: no policy asks for that of an approval.
ApproveNode(n, granted) ==
  /\ approvePc = "idle" /\ approvals < MaxApprovals
  /\ nodeStatus[n] = "WAITING_USER"
  /\ ClosedNode(n, IF Kind[n] = "approval" THEN "SUCCEEDED" ELSE "PENDING")
  /\ approvalGranted' = [approvalGranted EXCEPT ![n] = granted /\ Kind[n] # "approval"]
  /\ approvePc' = "task" /\ approved' = n
  /\ approvals' = approvals + 1
  /\ KeepsRun
  /\ UNCHANGED <<taskVars, attempt, cancelPc, toCancel, cancels, substrateVars>>

\* Only the wait the task shows is cleared; the run is asked for in any case.
ApproveTask ==
  /\ approvePc = "task"
  /\ IF currentWait = approved THEN SetTask("RUNNING", None) ELSE UNCHANGED taskVars
  /\ timer' = Soon
  /\ approvePc' = "idle" /\ approved' = None
  /\ UNCHANGED <<nodeVars, runningTask, callPc, todo, marking, flowVars, cancelPc, toCancel,
                 approvals, cancels, worldVars, invoked, substrateVars>>

\* cancelTask looks at no status of the task, and stops no flow in progress.
CancelStart ==
  /\ cancelPc = "idle" /\ cancels < MaxCancels
  /\ toCancel' = {n \in Nodes : nodeStatus[n] \in {"PENDING", "RUNNING", "WAITING_USER", "FAILED"}}
  /\ cancelPc' = "nodes" /\ cancels' = cancels + 1
  /\ KeepsRun
  /\ UNCHANGED <<storeVars, approvePc, approved, approvals, substrateVars>>

CancelNode ==
  /\ cancelPc = "nodes"
  /\ \E n \in toCancel :
       /\ ClosedNode(n, "CANCELLED")
       /\ toCancel' = toCancel \ {n}
  /\ KeepsRun
  /\ UNCHANGED <<taskVars, attempt, approvalGranted, approvePc, approved, cancelPc,
                 approvals, cancels, substrateVars>>

CancelJobs ==
  /\ cancelPc = "nodes" /\ toCancel = {}
  /\ CancelPendingRetryJobs
  /\ cancelPc' = "claims"
  /\ KeepsRun
  /\ UNCHANGED <<storeVars, approvePc, approved, toCancel, approvals, cancels>>

CancelClaims ==
  /\ cancelPc = "claims"
  /\ ReleaseActiveClaims
  /\ cancelPc' = "task"
  /\ KeepsRun
  /\ UNCHANGED <<storeVars, approvePc, approved, toCancel, approvals, cancels>>

CancelTask ==
  /\ cancelPc = "task"
  /\ SetTask("CANCELLED", None)
  /\ cancelPc' = "idle"
  /\ KeepsRun
  /\ UNCHANGED <<nodeVars, approvePc, approved, toCancel, approvals, cancels, substrateVars>>

UserRequests == CancelStart \/ \E n \in Nodes, g \in BOOLEAN : ApproveNode(n, g)
UserSteps    == ApproveTask \/ CancelNode \/ CancelJobs \/ CancelClaims \/ CancelTask

-----------------------------------------------------------------------------
(* The environment *)

\* The process stops and another starts on the same store; no timer is restored.
Crash ==
  /\ epoch < MaxCrashes
  /\ epoch' = epoch + 1
  /\ runningTask' = FALSE /\ timer' = NoTimer
  /\ callPc' = [c \in Callers |-> "idle"]
  /\ todo' = [c \in Callers |-> {}]
  /\ marking' = [c \in Callers |-> {}]
  /\ flowPc' = [n \in Nodes |-> "idle"]
  /\ spentSeen' = [n \in Nodes |-> 0]
  /\ approvePc' = "idle" /\ approved' = None
  /\ cancelPc' = "idle" /\ toCancel' = {}
  /\ UNCHANGED <<storeVars, target, approvals, cancels, elapsed, invoked, substrateVars>>

KeepsProgram == UNCHANGED <<storeVars, callVars, flowVars, userVars, invoked>>

Backoff(n, a) == BackoffElapses(n, a) /\ KeepsProgram /\ UNCHANGED worldVars

\* The holder of a lease renews it in time, unless its event loop stalls;
\* a claim of an earlier incarnation has no holder.
Orphan(c) == c.epoch < epoch
Lease(c)  == (Orphan(c) \/ Stalls) /\ LeaseExpires(c) /\ KeepsProgram /\ UNCHANGED worldVars
Heartbeat(c) ==
  /\ ~Orphan(c) /\ flowPc[c.node] \notin {"idle", "check", "gate", "gatewait", "gaterun"}
  /\ HeartbeatClaim(c) /\ KeepsProgram /\ UNCHANGED worldVars

DeadlinePasses ==
  /\ \E d \in Deadlines \ elapsed : elapsed' = elapsed \cup {d}
  /\ KeepsProgram /\ UNCHANGED <<epoch, substrateVars>>

Time ==
  \/ \E n \in Nodes, a \in Attempts : Backoff(n, a)
  \/ \E c \in executionClaims : Lease(c) \/ Heartbeat(c)
  \/ DeadlinePasses

-----------------------------------------------------------------------------
Next ==
  \/ \E c \in Callers : RunTask(c)
  \/ \E n \in Nodes : ExecuteNode(n)
  \/ UserRequests \/ UserSteps \/ Time \/ Crash

Spec == Init /\ [][Next]_vars

\* What the process has begun goes on: a handler resumes after its write, a tool
\* answers or times out (toolTimeoutMs), a due timer fires.  Backoffs end, and so
\* do the leases nobody renews.  Nothing is assumed of users, clients or crashes.
Fairness ==
  /\ \A c \in Callers : WF_vars(RunSteps(c))
  /\ \A n \in Nodes : WF_vars(ExecuteNode(n))
  /\ WF_vars(UserSteps)
  /\ \A n \in Nodes, a \in Attempts : WF_vars(Backoff(n, a))
  /\ WF_vars(\E c \in executionClaims : Orphan(c) /\ Lease(c))

FairSpec == Spec /\ Fairness

\* The polling loop of the worker pool, an interval timer, once it is started.
PolledSpec == FairSpec /\ \A c \in Callers : WF_vars(Poll(c))
=============================================================================
