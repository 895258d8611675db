----------------------- MODULE TaskGraphSafetyProofs -----------------------
(***************************************************************************)
(* What happens to results, retries, dead letters, leases and ended tasks, *)
(* for every graph and every bound: the properties of TaskGraphProperties  *)
(* whose argument relates the state of a node to where its flow is.        *)
(***************************************************************************)
EXTENDS TaskGraphRuntimeProofs

-----------------------------------------------------------------------------
(* The inductive invariant *)

\* A cancellation in progress has been counted, an approval in progress is of a
\* node, and a cancelled task shows no wait.
UsersKnown ==
  /\ cancelPc # "idle" => cancels > 0
  /\ approvePc = "task" => approved \in Nodes
  /\ taskStatus = "CANCELLED" => currentWait = None

\* Unless a user cancels, the status of a node follows its flow; recovery and a
\* retry may only have put it back to PENDING.
StatusFits(n) ==
  /\ nodeStatus[n] # "CANCELLED"
  /\ flowPc[n] \in {"check", "gate", "start"} => nodeStatus[n] = "PENDING"
  /\ flowPc[n] \in {"consume", "work", "executing"} => nodeStatus[n] \in {"RUNNING", "PENDING"}
  /\ flowPc[n] \in {"deadletter", "releaseFail", "reconcile"}
       => nodeStatus[n] \in {"FAILED", "PENDING"}
  /\ flowPc[n] \in {"schedule", "releaseRetry", "wake"}
       => nodeStatus[n] = "PENDING" \/ (nodeStatus[n] = "FAILED" /\ retryable[n])

Undisturbed == epoch = 0 /\ cancels = 0 /\ ~Expired

RetryAhead(n) ==
  nodeStatus[n] = "FAILED" /\ retryable[n] =>
    /\ attempt[n] <= MaxRetries
    /\ Undisturbed => flowPc[n] = "schedule" \/ retryJobs[n][attempt[n] + 1] \in ActiveJob

\* Dead: its dead letter is recorded, or about to be.
Dead(n) == flowPc[n] = "deadletter" \/ \E a \in Attempts : <<n, a>> \in deadLetters

DeadClosed(n) ==
  Dead(n) => /\ nodeStatus[n] \in {"FAILED", "CANCELLED"} /\ attempt[n] > MaxRetries
             /\ flowPc[n] \in {"deadletter", "releaseFail", "reconcile", "idle"}

\* The retry jobs that exist, are about to be looked at, or about to be marked, are
\* for attempts the retry policy allows.
Allowed(jobs) == \A j \in jobs : j[2] <= MaxRetries + 1
JobsAllowed ==
  /\ \A n \in Nodes, a \in Attempts : retryJobs[n][a] # "NONE" => a <= MaxRetries + 1
  /\ \A c \in Callers : /\ callPc[c] \in {"jobs", "remark"} => Allowed(todo[c])
                        /\ callPc[c] = "remark" => Allowed(marking[c])

\* What a run is about to downgrade has not failed for good.
PlansAlive ==
  \A c \in Callers : callPc[c] \in {"plan", "downgrade", "downgraded"} =>
    \A n \in todo[c] : ~Dead(n)

\* Without crashes a claim belongs to the flow that holds it.
ClaimsHeld ==
  epoch = 0 => \A claim \in executionClaims :
    /\ flowPc[claim.node] \in UnderClaim \cup {"start"}
    /\ target[claim.node] = claim.attempt /\ claim.epoch = 0

NodeSafe(n) == (cancels = 0 => StatusFits(n)) /\ RetryAhead(n) /\ DeadClosed(n)

Safe ==
  /\ UsersKnown /\ (\A n \in Nodes : NodeSafe(n)) /\ JobsAllowed /\ PlansAlive /\ ClaimsHeld
  /\ DoneMeansSettled

-----------------------------------------------------------------------------
(* What a step leaves alone *)

\* While an invocation is past the runningTaskIds test and does not wait for its
\* batch, no node is executed.
LEMMA NoFlows ==
  ASSUME Owned, NEW c \in Callers, callPc[c] \in Guarded,
         callPc[c] = "wait" => \A n \in todo[c] : flowPc[n] = "idle"
  PROVE  FlowsIdle
<1>1. SUFFICES ASSUME NEW n \in Nodes, flowPc[n] # "idle"  PROVE FALSE
  BY DEF FlowsIdle
<1>2. PICK d \in Callers : callPc[d] = "wait" /\ n \in todo[d]
  BY <1>1 DEF Owned, FlowOwned
<1>3. d = c  BY <1>2 DEF Owned, RunExclusive, Guarded
<1>. QED  BY <1>1, <1>2, <1>3

\* executeNode of one node writes no other node, nor their jobs and dead letters,
\* and asks nothing of users and deadlines.
LEMMA FlowFrame ==
  ASSUME TypeOK, NEW n \in Nodes, ExecuteNode(n)
  PROVE  /\ UNCHANGED <<userVars, worldVars, callPc, todo, marking>>
         /\ \A m \in Nodes \ {n} :
              /\ nodeStatus'[m] = nodeStatus[m] /\ retryable'[m] = retryable[m]
              /\ retryJobs'[m] = retryJobs[m]
              /\ \A a \in Attempts : <<m, a>> \in deadLetters' <=> <<m, a>> \in deadLetters
<1>. USE DEF TypeOK, NodesOK, SubstrateTypeOK, Goto, KeepsStates, WritesNode, ClosedNode, SetNode,
             storeVars, nodeVars, callVars, flowVars, substrateVars
<1>1. CASE \/ ExecSkip(n) \/ ExecOverBudget(n) \/ ExecPrepare(n) \/ GateDenies(n)
           \/ GateDowngrades(n) \/ GateAsksUser(n) \/ ClaimRefused(n)
  BY <1>1 DEF ExecSkip, ExecOverBudget, ExecPrepare, GateDenies, GateDowngrades, GateAsksUser,
       ClaimRefused
<1>2. CASE \/ ClaimUnit(n) \/ StartNode(n) \/ WorkDowngraded(n) \/ WorkAsksUser(n) \/ Invoke(n)
  BY <1>2 DEF ClaimUnit, StartNode, WorkDowngraded, WorkAsksUser, Invoke, ClaimExecutionUnit
<1>3. CASE \/ ReturnOk(n) \/ ReturnNeedsUser(n) \/ ReturnRetryable(n) \/ ReturnExhausted(n)
           \/ ReturnFatal(n)
  BY <1>3 DEF ReturnOk, ReturnNeedsUser, ReturnRetryable, ReturnExhausted, ReturnFatal
<1>4. CASE ConsumeRetryJob(n) \/ ScheduleRetry(n)
  BY <1>4 DEF ConsumeRetryJob, ScheduleRetry, MarkRetryJobCompleted, ScheduleRetryJob, SetJob
<1>5. CASE DeadLetter(n)
  BY <1>5 DEF DeadLetter, RecordDeadLetter
<1>6. CASE \/ TaskWaits(n) \/ TaskRuns(n) \/ Commit(n) \/ Release(n) \/ WakeForRetry(n)
           \/ ReconcileFailure(n)
  BY <1>6 DEF TaskWaits, TaskRuns, Commit, Release, WakeForRetry, ReleaseClaim, ReconcileFailure
<1>. QED  BY <1>1, <1>2, <1>3, <1>4, <1>5, <1>6 DEF ExecuteNode

-----------------------------------------------------------------------------
(* A node under its own flow *)

\* A flow keeps its node's status in step with where it is.
LEMMA FlowStatusFits ==
  ASSUME TypeOK, NEW n \in Nodes, StatusFits(n), ExecuteNode(n)
  PROVE  StatusFits(n)'
<1>. USE DEF StatusFits, TypeOK, NodesOK, FlowsOK, Goto, KeepsStates, WritesNode, ClosedNode,
             SetNode, storeVars, nodeVars
<1>1. CASE \/ ExecSkip(n) \/ ExecOverBudget(n) \/ ExecPrepare(n) \/ GateDenies(n)
           \/ GateDowngrades(n) \/ GateAsksUser(n) \/ ClaimRefused(n)
  BY <1>1 DEF ExecSkip, ExecOverBudget, ExecPrepare, GateDenies, GateDowngrades, GateAsksUser,
       ClaimRefused
<1>2. CASE \/ ClaimUnit(n) \/ StartNode(n) \/ ConsumeRetryJob(n) \/ WorkDowngraded(n)
           \/ WorkAsksUser(n) \/ Invoke(n)
  BY <1>2 DEF ClaimUnit, StartNode, ConsumeRetryJob, WorkDowngraded, WorkAsksUser, Invoke
<1>3. CASE \/ ReturnOk(n) \/ ReturnNeedsUser(n) \/ ReturnRetryable(n) \/ ReturnExhausted(n)
           \/ ReturnFatal(n)
  BY <1>3 DEF ReturnOk, ReturnNeedsUser, ReturnRetryable, ReturnExhausted, ReturnFatal
<1>4. CASE \/ ScheduleRetry(n) \/ DeadLetter(n) \/ TaskWaits(n) \/ TaskRuns(n)
           \/ Commit(n) \/ Release(n) \/ WakeForRetry(n) \/ ReconcileFailure(n)
  BY <1>4 DEF ScheduleRetry, DeadLetter, TaskWaits, TaskRuns, Commit, Release, AfterRelease,
       WakeForRetry, ReconcileFailure
<1>. QED  BY <1>1, <1>2, <1>3, <1>4 DEF ExecuteNode

\* A flow that marks its node for a retry schedules it before it does anything else,
\* and completes only the job of the attempt it is in.
LEMMA FlowRetryAhead ==
  ASSUME TypeOK, FlowAttempts, NEW n \in Nodes, RetryAhead(n), ExecuteNode(n)
  PROVE  RetryAhead(n)'
<1>. USE DEF RetryAhead, Undisturbed, Expired, TypeOK, NodesOK, FlowsOK, SubstrateTypeOK, Goto,
             KeepsStates, WritesNode, ClosedNode, SetNode, storeVars, nodeVars, worldVars, userVars
<1>0. /\ attempt[n] \in 0..MaxAttempt /\ target[n] \in 0..MaxAttempt
      /\ flowPc[n] \in UnderClaim => target[n] = attempt[n] /\ target[n] \in Attempts
      /\ flowPc[n] = "schedule" => target[n] <= MaxRetries
  BY AttemptBound DEF FlowAttempts, UnderClaim, Attempts
<1>1. CASE ExecOverBudget(n) \/ GateDenies(n) \/ GateDowngrades(n) \/ GateAsksUser(n)
  <2>1. ~(nodeStatus'[n] = "FAILED" /\ retryable'[n])
    BY <1>1 DEF ExecOverBudget, GateDenies, GateDowngrades, GateAsksUser
  <2>. QED  BY <2>1
<1>2. CASE \/ StartNode(n) \/ WorkDowngraded(n) \/ WorkAsksUser(n) \/ ReturnOk(n)
           \/ ReturnNeedsUser(n) \/ ReturnExhausted(n) \/ ReturnFatal(n)
  <2>1. ~(nodeStatus'[n] = "FAILED" /\ retryable'[n])
    BY <1>2 DEF StartNode, WorkDowngraded, WorkAsksUser, ReturnOk, ReturnNeedsUser,
         ReturnExhausted, ReturnFatal
  <2>. QED  BY <2>1
<1>3. CASE ReturnRetryable(n)
  <2>1. flowPc'[n] = "schedule" /\ UNCHANGED attempt  BY <1>3 DEF ReturnRetryable
  <2>2. attempt[n] <= MaxRetries
    BY <1>0, <1>3, AttemptBound, LimitAssumption DEF ReturnRetryable, CanRetry
  <2>. QED  BY <2>1, <2>2
<1>4. CASE ScheduleRetry(n)
  <2>1. target[n] = attempt[n] /\ target[n] + 1 \in Attempts
    BY <1>0, <1>4, LimitAssumption, AttemptBound DEF ScheduleRetry, UnderClaim, Attempts
  <2>2. retryJobs'[n][attempt[n] + 1] = "SCHEDULED"
    BY <1>4, <2>1 DEF ScheduleRetry, ScheduleRetryJob, SetJob
  <2>3. UNCHANGED <<nodeStatus, attempt, retryable>>  BY <1>4 DEF ScheduleRetry
  <2>. QED  BY <2>2, <2>3 DEF ActiveJob
<1>5. CASE ConsumeRetryJob(n)
  <2>1. target[n] \in Attempts /\ target[n] # attempt[n] + 1
    BY <1>0, <1>5, AttemptBound DEF ConsumeRetryJob, UnderClaim
  <2>2. ASSUME attempt[n] <= MaxRetries
        PROVE  retryJobs'[n][attempt[n] + 1] = retryJobs[n][attempt[n] + 1]
    <3>1. attempt[n] + 1 \in Attempts  BY <1>0, <2>2, LimitAssumption, AttemptBound DEF Attempts
    <3>. QED
      BY <1>5, <2>1, <3>1 DEF ConsumeRetryJob, MarkRetryJobCompleted, SetJob, substrateVars
  <2>3. flowPc[n] # "schedule" /\ UNCHANGED <<nodeStatus, attempt, retryable, epoch, cancels, elapsed>>
    BY <1>5 DEF ConsumeRetryJob
  <2>. QED  BY <2>2, <2>3
<1>6. CASE \/ ExecSkip(n) \/ ExecPrepare(n) \/ ClaimRefused(n) \/ ClaimUnit(n) \/ Invoke(n)
           \/ DeadLetter(n) \/ TaskWaits(n) \/ TaskRuns(n) \/ Commit(n) \/ Release(n)
           \/ WakeForRetry(n) \/ ReconcileFailure(n)
  <2>1. /\ UNCHANGED <<nodeStatus, attempt, retryable, retryJobs, epoch, cancels, elapsed>>
        /\ flowPc[n] # "schedule"
    BY <1>6 DEF ExecSkip, ExecPrepare, ClaimRefused, ClaimUnit, ClaimExecutionUnit, Invoke,
       DeadLetter, RecordDeadLetter, TaskWaits, TaskRuns, Commit, Release, WakeForRetry,
       ReleaseClaim, ReconcileFailure, substrateVars
  <2>. QED  BY <2>1
<1>. QED  BY <1>1, <1>2, <1>3, <1>4, <1>5, <1>6 DEF ExecuteNode

\* Only a flow whose retries are used up makes a dead letter; from there on it only
\* releases its claim and reconciles the task.
LEMMA FlowDeadClosed ==
  ASSUME TypeOK, NEW n \in Nodes, DeadClosed(n), ExecuteNode(n)
  PROVE  DeadClosed(n)'
<1>. USE DEF DeadClosed, Dead, TypeOK, NodesOK, FlowsOK, SubstrateTypeOK, Goto, KeepsStates,
             WritesNode, ClosedNode, SetNode, storeVars, nodeVars, substrateVars
<1>0. flowPc[n] # "idle"  BY FlowShape
<1>1. CASE ReturnExhausted(n)
  <2>1. /\ flowPc'[n] = "deadletter" /\ nodeStatus'[n] = "FAILED" /\ UNCHANGED attempt
        /\ ~CanRetry(n)
    BY <1>1 DEF ReturnExhausted
  <2>2. attempt[n] > MaxRetries  BY <2>1, AttemptBound, LimitAssumption DEF CanRetry
  <2>. QED  BY <2>1, <2>2
<1>2. CASE DeadLetter(n)
  BY <1>2 DEF DeadLetter, RecordDeadLetter
<1>3. CASE Release(n) \/ WakeForRetry(n) \/ ReconcileFailure(n)
  BY <1>3 DEF Release, AfterRelease, WakeForRetry, ReleaseClaim, ReconcileFailure
<1>4. CASE \/ ExecSkip(n) \/ ExecOverBudget(n) \/ ExecPrepare(n) \/ GateDenies(n)
           \/ GateDowngrades(n) \/ GateAsksUser(n) \/ ClaimRefused(n)
  <2>1. /\ flowPc[n] \in {"check", "gate"} /\ flowPc'[n] # "deadletter"
        /\ UNCHANGED deadLetters
    BY <1>4 DEF ExecSkip, ExecOverBudget, ExecPrepare, GateDenies, GateDowngrades, GateAsksUser,
       ClaimRefused
  <2>. QED  BY <2>1
<1>5. CASE \/ ClaimUnit(n) \/ StartNode(n) \/ ConsumeRetryJob(n) \/ WorkDowngraded(n)
           \/ WorkAsksUser(n) \/ Invoke(n) \/ ReturnOk(n) \/ ReturnNeedsUser(n)
           \/ ReturnRetryable(n) \/ ReturnFatal(n) \/ ScheduleRetry(n)
           \/ TaskWaits(n) \/ TaskRuns(n) \/ Commit(n)
  <2>1. /\ flowPc[n] \notin {"deadletter", "releaseFail", "reconcile"}
        /\ flowPc'[n] # "deadletter" /\ UNCHANGED deadLetters
    BY <1>5 DEF ClaimUnit, ClaimExecutionUnit, StartNode, ConsumeRetryJob, MarkRetryJobCompleted,
         SetJob, WorkDowngraded, WorkAsksUser, Invoke, ReturnOk, ReturnNeedsUser, ReturnRetryable,
         ReturnFatal, ScheduleRetry, ScheduleRetryJob, TaskWaits, TaskRuns, Commit
  <2>. QED  BY <1>0, <2>1
<1>. QED  BY <1>1, <1>2, <1>3, <1>4, <1>5 DEF ExecuteNode

-----------------------------------------------------------------------------
(* A node under a run *)

\* How a step of runTask moves a node: recovery reopens one that had not finished,
\* a due job one that FAILED at the attempt before, and a budget that is used up
\* closes one of the snapshot.
LEMMA RunMoves ==
  ASSUME TypeOK, NEW c \in Callers, RunTask(c), NEW n \in Nodes
  PROVE  /\ UNCHANGED <<target, invoked, userVars, worldVars, deadLetters>>
         /\ \/ UNCHANGED flowPc
            \/ /\ Dispatch(c) /\ UNCHANGED nodeStatus
               /\ flowPc'[n] = flowPc[n] \/ (flowPc'[n] = "check" /\ nodeStatus[n] = "PENDING")
         /\ \/ /\ nodeStatus'[n] = nodeStatus[n] /\ retryable'[n] = retryable[n]
               /\ attempt'[n] = attempt[n]
            \/ /\ nodeStatus[n] \in {"RUNNING", "PENDING"} /\ nodeStatus'[n] = "PENDING"
               /\ ~retryable'[n] /\ attempt'[n] = attempt[n]
            \/ /\ callPc[c] \in {"requeue", "jobs"} /\ <<n, attempt[n] + 1>> \in JobsLeft(c)
               /\ nodeStatus[n] = "FAILED" /\ nodeStatus'[n] = "PENDING"
               /\ ~retryable'[n] /\ attempt'[n] = attempt[n]
            \/ /\ Planning(c) /\ n \in todo[c] /\ nodeStatus'[n] = "SUCCEEDED"
<1>. USE DEF storeVars, nodeVars, flowVars, substrateVars, TypeOK, NodesOK, FlowsOK
<1>1. CASE RecoverNode(c)
  BY <1>1 DEF RecoverNode, ClosedNode, SetNode
<1>2. CASE RequeueDueJob(c)
  <2>1. UNCHANGED <<target, invoked, userVars, worldVars, deadLetters, flowPc, attempt>>
    BY <1>2 DEF RequeueDueJob, SetJob
  <2>2. CASE UNCHANGED <<nodeStatus, retryable>>  BY <2>1, <2>2
  <2>3. CASE ~UNCHANGED <<nodeStatus, retryable>>
    <3>1. callPc[c] \in {"requeue", "jobs"}  BY <1>2 DEF RequeueDueJob
    <3>2. PICK job \in JobsLeft(c) :
            /\ nodeStatus[job[1]] = "FAILED" /\ attempt[job[1]] + 1 = job[2]
            /\ SetNode(job[1], "PENDING")
            /\ retryable' = [retryable EXCEPT ![job[1]] = FALSE]
      BY <1>2, <2>3 DEF RequeueDueJob
    <3>3. job \in Nodes \X Attempts
      BY <3>1 DEF JobsLeft, DueRetryJobs, JobsWith, CallsOK, TodoOK
    <3>4. job = <<job[1], job[2]>>  BY <3>3
    <3>5. CASE n = job[1]
      BY <2>1, <3>1, <3>2, <3>4, <3>5 DEF SetNode
    <3>6. CASE n # job[1]
      BY <2>1, <3>2, <3>6 DEF SetNode
    <3>. QED  BY <3>5, <3>6
  <2>. QED  BY <2>2, <2>3
<1>3. CASE DowngradeTool(c)
  BY <1>3 DEF DowngradeTool, SetNode
<1>4. CASE Dispatch(c)
  BY <1>4 DEF Dispatch, Runnable
<1>5. CASE \/ TimerFires(c) \/ RunRequested(c) \/ Poll(c) \/ ExpireClaim(c) \/ MarkRequeued(c)
           \/ PassGuard(c)
           \/ FailExpiredTask(c) \/ FailExpiredClaims(c) \/ FailExpiredEnd(c)
           \/ DowngradeToolEnd(c) \/ ReconcileRun(c) \/ FollowUp(c) \/ FinishRun(c)
  <2>1. UNCHANGED <<target, invoked, userVars, worldVars, deadLetters, flowPc, nodeStatus,
                    retryable, attempt>>
    BY <1>5 DEF TimerFires, RunRequested, Poll, EnterRun, ExpireClaim, RecoverStaleClaim,
       DropClaims, MarkRequeued, SetJob, PassGuard, FailExpiredTask, CancelPendingRetryJobs,
       FailExpiredClaims, ReleaseActiveClaims, FailExpiredEnd, DowngradeToolEnd, ReconcileRun,
       FollowUp, FinishRun
  <2>. QED  BY <2>1
<1>. QED  BY <1>1, <1>2, <1>3, <1>4, <1>5 DEF RunTask, RunSteps

\* A step of runTask completes no job of the attempt a failed node waits for, and
\* cancels jobs only once the deadline has passed.
LEMMA RunJobs ==
  ASSUME TypeOK, NEW c \in Callers, RunTask(c), NEW n \in Nodes, NEW a \in Attempts,
         retryJobs[n][a] \in ActiveJob, nodeStatus[n] = "FAILED", attempt[n] + 1 = a, ~Expired
  PROVE  retryJobs'[n][a] \in ActiveJob
<1>. USE DEF TypeOK, SubstrateTypeOK
<1>1. CASE RequeueDueJob(c)
  <2>1. CASE UNCHANGED retryJobs  BY <2>1
  <2>2. CASE ~UNCHANGED retryJobs
    <3>1. PICK job \in JobsLeft(c) :
            /\ ~(nodeStatus[job[1]] = "FAILED" /\ attempt[job[1]] + 1 = job[2])
            /\ SetJob(job[1], job[2], "COMPLETED")
      BY <1>1, <2>2 DEF RequeueDueJob, substrateVars
    <3>2. job[1] \in Nodes /\ job[2] \in Attempts
      BY <1>1 DEF RequeueDueJob, JobsLeft, DueRetryJobs, JobsWith, CallsOK, TodoOK
    <3>3. retryJobs'[n][a] = retryJobs[n][a]
      <4>1. job[1] # n \/ job[2] # a  BY <3>1
      <4>. QED  BY <3>1, <3>2, <4>1 DEF SetJob
    <3>. QED  BY <3>3
  <2>. QED  BY <2>1, <2>2
<1>2. CASE MarkRequeued(c)
  <2>1. PICK job \in marking[c] : SetJob(job[1], job[2], "REQUEUED")
    BY <1>2 DEF MarkRequeued
  <2>2. job[1] \in Nodes /\ job[2] \in Attempts  BY DEF CallsOK
  <2>3. retryJobs'[n][a] \in {retryJobs[n][a], "REQUEUED"}  BY <2>1, <2>2 DEF SetJob
  <2>. QED  BY <2>3 DEF ActiveJob
<1>3. CASE FailExpiredTask(c)
  BY <1>3 DEF FailExpiredTask
<1>4. CASE \/ TimerFires(c) \/ RunRequested(c) \/ Poll(c) \/ ExpireClaim(c) \/ PassGuard(c)
           \/ RecoverNode(c)
           \/ FailExpiredClaims(c) \/ FailExpiredEnd(c) \/ DowngradeTool(c) \/ Dispatch(c)
           \/ DowngradeToolEnd(c) \/ ReconcileRun(c) \/ FollowUp(c) \/ FinishRun(c)
  <2>1. UNCHANGED retryJobs
    BY <1>4 DEF TimerFires, RunRequested, Poll, EnterRun, ExpireClaim, RecoverStaleClaim,
       DropClaims, PassGuard, FailExpiredClaims, ReleaseActiveClaims, FailExpiredEnd,
       DowngradeToolEnd, ReconcileRun, FollowUp, FinishRun, RecoverNode, DowngradeTool,
       Dispatch, substrateVars
  <2>. QED  BY <2>1
<1>. QED  BY <1>1, <1>2, <1>3, <1>4 DEF RunTask, RunSteps

\* No step of runTask, whichever invocation makes it, makes a node unsafe.
LEMMA RunNodeSafe ==
  ASSUME TypeOK, Owned, NEW n \in Nodes, NodeSafe(n), JobsAllowed, PlansAlive,
         NEW c \in Callers, RunTask(c)
  PROVE  NodeSafe(n)'
<1>m. /\ UNCHANGED <<userVars, worldVars, deadLetters>>
      /\ \/ UNCHANGED flowPc
         \/ /\ Dispatch(c) /\ UNCHANGED nodeStatus
            /\ flowPc'[n] = flowPc[n] \/ (flowPc'[n] = "check" /\ nodeStatus[n] = "PENDING")
      /\ \/ /\ nodeStatus'[n] = nodeStatus[n] /\ retryable'[n] = retryable[n]
            /\ attempt'[n] = attempt[n]
         \/ /\ nodeStatus[n] \in {"RUNNING", "PENDING"} /\ nodeStatus'[n] = "PENDING"
            /\ ~retryable'[n] /\ attempt'[n] = attempt[n]
         \/ /\ callPc[c] \in {"requeue", "jobs"} /\ <<n, attempt[n] + 1>> \in JobsLeft(c)
            /\ nodeStatus[n] = "FAILED" /\ nodeStatus'[n] = "PENDING"
            /\ ~retryable'[n] /\ attempt'[n] = attempt[n]
         \/ /\ Planning(c) /\ n \in todo[c] /\ nodeStatus'[n] = "SUCCEEDED"
  BY RunMoves
<1>i. Planning(c) => flowPc[n] = "idle"
  BY NoFlows DEF Planning, Guarded, FlowsIdle
<1>0. attempt[n] \in 0..MaxAttempt /\ MaxAttempt \in Nat /\ MaxRetries \in Nat /\ MaxRetries < MaxAttempt
  BY AttemptBound, LimitAssumption DEF TypeOK, NodesOK
<1>1. (cancels = 0 => StatusFits(n))'
  <2>1. SUFFICES ASSUME cancels' = 0  PROVE StatusFits(n)'
    OBVIOUS
  <2>2. cancels = 0 /\ StatusFits(n)  BY <1>m, <2>1 DEF userVars, NodeSafe
  <2>. QED  BY <1>m, <1>i, <2>2 DEF StatusFits, Dispatch
<1>2. RetryAhead(n)'
  <2>1. SUFFICES ASSUME nodeStatus'[n] = "FAILED", retryable'[n]
                 PROVE  RetryAhead(n)'
    BY DEF RetryAhead
  <2>2. nodeStatus[n] = "FAILED" /\ retryable[n] /\ attempt'[n] = attempt[n]
        /\ flowPc'[n] = flowPc[n]
    BY <1>m, <2>1
  <2>3. attempt[n] <= MaxRetries /\ attempt[n] + 1 \in Attempts
    BY <2>2, <1>0 DEF NodeSafe, RetryAhead, Attempts
  <2>4. ASSUME Undisturbed', flowPc[n] # "schedule"
        PROVE  retryJobs'[n][attempt[n] + 1] \in ActiveJob
    <3>1. Undisturbed  BY <1>m, <2>4 DEF Undisturbed, userVars, worldVars, Expired
    <3>2. retryJobs[n][attempt[n] + 1] \in ActiveJob
      BY <2>2, <2>4, <3>1 DEF NodeSafe, RetryAhead
    <3>. QED  BY <2>2, <2>3, <3>1, <3>2, RunJobs DEF Undisturbed
  <2>. QED  BY <2>2, <2>3, <2>4 DEF RetryAhead
<1>3. DeadClosed(n)'
  <2>1. SUFFICES ASSUME Dead(n)'  PROVE DeadClosed(n)'
    BY DEF DeadClosed
  <2>2. Dead(n)
    BY <1>m, <2>1 DEF Dead
  <2>3. /\ nodeStatus[n] \in {"FAILED", "CANCELLED"} /\ attempt[n] > MaxRetries
        /\ flowPc[n] \in {"deadletter", "releaseFail", "reconcile", "idle"}
    BY <2>2 DEF NodeSafe, DeadClosed
  <2>4. ~(callPc[c] \in {"requeue", "jobs"} /\ <<n, attempt[n] + 1>> \in JobsLeft(c))
    <3>1. SUFFICES ASSUME callPc[c] \in {"requeue", "jobs"}, <<n, attempt[n] + 1>> \in JobsLeft(c)
                   PROVE  attempt[n] + 1 <= MaxRetries + 1
      BY <2>3, <1>0
    <3>2. CASE callPc[c] = "requeue"
      <4>1. <<n, attempt[n] + 1>> \in JobsWith({"DUE"})
        BY <3>1, <3>2 DEF JobsLeft, DueRetryJobs
      <4>2. attempt[n] + 1 \in Attempts /\ retryJobs[n][attempt[n] + 1] = "DUE"
        BY <4>1 DEF JobsWith
      <4>. QED  BY <4>2 DEF JobsAllowed
    <3>3. CASE callPc[c] = "jobs"
      BY <3>1, <3>3 DEF JobsLeft, JobsAllowed, Allowed
    <3>. QED  BY <3>1, <3>2, <3>3
  <2>5. ~(Planning(c) /\ n \in todo[c])
    BY <2>2 DEF PlansAlive, Planning
  <2>6. nodeStatus'[n] = nodeStatus[n] /\ attempt'[n] = attempt[n] /\ flowPc'[n] = flowPc[n]
    BY <1>m, <2>3, <2>4, <2>5
  <2>. QED  BY <2>3, <2>6 DEF DeadClosed
<1>. QED  BY <1>1, <1>2, <1>3 DEF NodeSafe

-----------------------------------------------------------------------------
(* A node under its user, time and crashes *)

\* What a user does to a node: an approval ends its wait, a cancellation closes it.
LEMMA UserMoves ==
  ASSUME TypeOK, UsersKnown, UserRequests \/ UserSteps, NEW n \in Nodes
  PROVE  /\ UNCHANGED <<flowVars, runningTask, callPc, todo, marking, worldVars, invoked,
                         deadLetters, attempt>>
         /\ cancels' = 0 => cancels = 0 /\ UNCHANGED retryJobs
         /\ \/ nodeStatus'[n] = nodeStatus[n] /\ retryable'[n] = retryable[n]
            \/ /\ nodeStatus[n] = "WAITING_USER" /\ nodeStatus'[n] \in {"SUCCEEDED", "PENDING"}
               /\ ~retryable'[n]
            \/ cancels' # 0 /\ nodeStatus'[n] = "CANCELLED" /\ ~retryable'[n]
<1>. USE DEF KeepsRun, storeVars, nodeVars, substrateVars, callVars, flowVars, worldVars,
             ClosedNode, SetNode, TypeOK, NodesOK, UsersOK
<1>1. CASE CancelStart     BY <1>1 DEF CancelStart
<1>2. ASSUME NEW m \in Nodes, NEW g \in BOOLEAN, ApproveNode(m, g)
      PROVE  /\ UNCHANGED <<flowVars, runningTask, callPc, todo, marking, worldVars, invoked,
                             deadLetters, attempt>>
             /\ UNCHANGED <<cancels, retryJobs>>
             /\ \/ nodeStatus'[n] = nodeStatus[n] /\ retryable'[n] = retryable[n]
                \/ /\ nodeStatus[n] = "WAITING_USER" /\ nodeStatus'[n] \in {"SUCCEEDED", "PENDING"}
                   /\ ~retryable'[n]
  <2>1. CASE m = n   BY <1>2, <2>1 DEF ApproveNode
  <2>2. CASE m # n   BY <1>2, <2>2 DEF ApproveNode
  <2>. QED  BY <2>1, <2>2
<1>3. CASE ApproveTask     BY <1>3 DEF ApproveTask
<1>4. CASE CancelNode
  <2>1. /\ cancels' # 0
        /\ UNCHANGED <<flowVars, runningTask, callPc, todo, marking, worldVars, invoked,
                       deadLetters, attempt>>
    BY <1>4 DEF CancelNode, UsersKnown
  <2>2. PICK m \in toCancel : /\ nodeStatus' = [nodeStatus EXCEPT ![m] = "CANCELLED"]
                              /\ retryable' = [retryable EXCEPT ![m] = FALSE]
    BY <1>4 DEF CancelNode
  <2>3. CASE m = n
    <3>1. nodeStatus'[n] = "CANCELLED" /\ ~retryable'[n]  BY <2>2, <2>3
    <3>. QED  BY <2>1, <3>1
  <2>4. CASE m # n
    <3>1. nodeStatus'[n] = nodeStatus[n] /\ retryable'[n] = retryable[n]  BY <2>2, <2>4
    <3>. QED  BY <2>1, <3>1
  <2>. QED  BY <2>3, <2>4
<1>5. CASE CancelJobs \/ CancelClaims
  <2>1. cancels > 0 /\ cancels' = cancels  BY <1>5 DEF CancelJobs, CancelClaims, UsersKnown
  <2>. QED
    BY <1>5, <2>1 DEF CancelJobs, CancelPendingRetryJobs, CancelClaims, ReleaseActiveClaims,
       DropClaims
<1>6. CASE CancelTask      BY <1>6 DEF CancelTask
<1>. QED  BY <1>1, <1>2, <1>3, <1>4, <1>5, <1>6 DEF UserRequests, UserSteps

\* Time changes no state of a node, and of a job only that its backoff is over.
LEMMA TimeMoves ==
  ASSUME TypeOK, Time
  PROVE  /\ UNCHANGED <<storeVars, callVars, flowVars, userVars, invoked, deadLetters,
                        executionClaims, epoch>>
         /\ Expired => Expired'
         /\ \A n \in Nodes, a \in Attempts :
              \/ retryJobs'[n][a] = retryJobs[n][a]
              \/ retryJobs[n][a] = "SCHEDULED" /\ retryJobs'[n][a] = "DUE"
<1>. USE DEF KeepsProgram, worldVars, substrateVars, TypeOK, SubstrateTypeOK, Expired
<1>1. ASSUME NEW m \in Nodes, NEW b \in Attempts, Backoff(m, b)
      PROVE  /\ UNCHANGED <<storeVars, callVars, flowVars, userVars, invoked, deadLetters,
                            executionClaims, epoch, elapsed>>
             /\ \A n \in Nodes, a \in Attempts :
                  \/ retryJobs'[n][a] = retryJobs[n][a]
                  \/ retryJobs[n][a] = "SCHEDULED" /\ retryJobs'[n][a] = "DUE"
  BY <1>1 DEF Backoff, BackoffElapses, SetJob
<1>2. ASSUME NEW c \in executionClaims, Lease(c) \/ Heartbeat(c)
      PROVE  UNCHANGED <<storeVars, callVars, flowVars, userVars, invoked, deadLetters,
                         executionClaims, epoch, elapsed, retryJobs>>
  BY <1>2 DEF Lease, Heartbeat, LeaseExpires, HeartbeatClaim
<1>3. CASE DeadlinePasses  BY <1>3 DEF DeadlinePasses
<1>. QED  BY <1>1, <1>2, <1>3 DEF Time

\* Neither users nor time nor a crash make a node unsafe.
LEMMA WorldNodeSafe ==
  ASSUME TypeOK, UsersKnown, NEW n \in Nodes, NodeSafe(n),
         UserRequests \/ UserSteps \/ Time \/ Crash \/ UNCHANGED vars
  PROVE  NodeSafe(n)'
<1>. USE DEF NodeSafe
<1>0. attempt[n] \in Nat /\ MaxRetries \in Nat /\ MaxAttempt \in Nat /\ MaxRetries < MaxAttempt
  BY AttemptBound, LimitAssumption DEF TypeOK, NodesOK
<1>a. RetryAhead(n) /\ nodeStatus[n] = "FAILED" /\ retryable[n] => attempt[n] + 1 \in Attempts
  BY <1>0 DEF RetryAhead, Attempts
<1>1. CASE UserRequests \/ UserSteps
  <2>1. /\ UNCHANGED <<flowPc, epoch, elapsed, deadLetters, attempt>>
        /\ cancels' = 0 => cancels = 0 /\ UNCHANGED retryJobs
        /\ \/ nodeStatus'[n] = nodeStatus[n] /\ retryable'[n] = retryable[n]
           \/ /\ nodeStatus[n] = "WAITING_USER" /\ nodeStatus'[n] \in {"SUCCEEDED", "PENDING"}
              /\ ~retryable'[n]
           \/ cancels' # 0 /\ nodeStatus'[n] = "CANCELLED" /\ ~retryable'[n]
    BY <1>1, UserMoves DEF flowVars, worldVars
  <2>2. (cancels = 0 => StatusFits(n))'  BY <2>1 DEF StatusFits
  <2>3. RetryAhead(n)'  BY <2>1 DEF RetryAhead, Undisturbed, Expired
  <2>4. DeadClosed(n)'  BY <2>1 DEF DeadClosed, Dead
  <2>. QED  BY <2>2, <2>3, <2>4
<1>2. CASE Time
  <2>1. /\ UNCHANGED <<nodeStatus, retryable, attempt, flowPc, epoch, cancels, deadLetters>>
        /\ Expired => Expired'
        /\ \A a \in Attempts : \/ retryJobs'[n][a] = retryJobs[n][a]
                               \/ retryJobs[n][a] = "SCHEDULED" /\ retryJobs'[n][a] = "DUE"
    BY <1>2, TimeMoves DEF storeVars, nodeVars, flowVars, userVars
  <2>2. (cancels = 0 => StatusFits(n))'  BY <2>1 DEF StatusFits
  <2>3. RetryAhead(n)'  BY <2>1, <1>a DEF RetryAhead, Undisturbed, ActiveJob
  <2>4. DeadClosed(n)'  BY <2>1 DEF DeadClosed, Dead
  <2>. QED  BY <2>2, <2>3, <2>4
<1>3. CASE Crash
  <2>1. /\ UNCHANGED <<nodeStatus, retryable, attempt, cancels, deadLetters>>
        /\ flowPc'[n] = "idle" /\ epoch' # 0
    BY <1>3 DEF Crash, storeVars, nodeVars, substrateVars, TypeOK, WorldOK
  <2>2. (cancels = 0 => StatusFits(n))'  BY <2>1 DEF StatusFits
  <2>3. RetryAhead(n)'  BY <2>1 DEF RetryAhead, Undisturbed
  <2>4. DeadClosed(n)'  BY <2>1 DEF DeadClosed, Dead
  <2>. QED  BY <2>2, <2>3, <2>4
<1>4. CASE UNCHANGED vars
  BY <1>4 DEF vars, storeVars, nodeVars, flowVars, userVars, worldVars, substrateVars, StatusFits,
       RetryAhead, Undisturbed, Expired, DeadClosed, Dead
<1>. QED  BY <1>1, <1>2, <1>3, <1>4

\* No step of the runtime makes a node unsafe.
LEMMA NextNodeSafe ==
  ASSUME TypeOK, FlowAttempts, Owned, Safe, [Next]_vars, NEW n \in Nodes
  PROVE  NodeSafe(n)'
<1>. USE DEF Safe
<1>1. CASE ExecuteNode(n)
  <2>1. UNCHANGED userVars  BY <1>1, FlowFrame
  <2>. QED  BY <1>1, <2>1, FlowStatusFits, FlowRetryAhead, FlowDeadClosed DEF NodeSafe, userVars
<1>2. ASSUME NEW m \in Nodes, m # n, ExecuteNode(m)  PROVE NodeSafe(n)'
  <2>1. /\ UNCHANGED <<cancels, epoch, elapsed>>
        /\ nodeStatus'[n] = nodeStatus[n] /\ retryable'[n] = retryable[n]
        /\ retryJobs'[n] = retryJobs[n]
        /\ \A a \in Attempts : <<n, a>> \in deadLetters' <=> <<n, a>> \in deadLetters
        /\ flowPc'[n] = flowPc[n] /\ attempt'[n] = attempt[n]
    BY <1>2, FlowFrame, FlowShape DEF userVars, worldVars
  <2>. QED
    BY <2>1 DEF NodeSafe, StatusFits, RetryAhead, Undisturbed, Expired, DeadClosed, Dead
<1>. QED  BY <1>1, <1>2, RunNodeSafe, WorldNodeSafe DEF Next

-----------------------------------------------------------------------------
(* Cancellations, and the task a cancelled run leaves *)

\* No step loses sight of a cancellation or an approval in progress, nor gives a
\* cancelled task a wait: cancelTask clears current_wait, and all that write another
\* wait write another status.
LEMMA NextUsersKnown ==
  ASSUME TypeOK, UsersKnown, [Next]_vars
  PROVE  UsersKnown'
<1>. USE DEF UsersKnown, SetTask, userVars, storeVars, taskVars
<1>1. ASSUME NEW n \in Nodes, ExecuteNode(n)  PROVE UsersKnown'
  <2>1. UNCHANGED userVars  BY <1>1, FlowFrame
  <2>2. taskStatus' = "CANCELLED" => taskStatus = "CANCELLED" /\ UNCHANGED currentWait
    <3>1. CASE UNCHANGED taskVars  BY <3>1
    <3>2. CASE TaskWaits(n) \/ TaskRuns(n) \/ Commit(n)
      BY <3>2 DEF TaskWaits, TaskRuns, Commit
    <3>3. CASE ReconcileFailure(n)  BY <3>3 DEF ReconcileFailure, ReconcileTask
    <3>4. CASE ~(TaskWaits(n) \/ TaskRuns(n) \/ Commit(n) \/ ReconcileFailure(n))
      <4>1. UNCHANGED taskVars
        BY <1>1, <3>4 DEF ExecuteNode, ExecSkip, ExecOverBudget, ExecPrepare, GateDenies,
           GateDowngrades, GateAsksUser, ClaimRefused, ClaimUnit, StartNode, ConsumeRetryJob,
           WorkDowngraded, WorkAsksUser, Invoke, ReturnOk, ReturnNeedsUser, ReturnRetryable,
           ReturnExhausted, ReturnFatal, ScheduleRetry, DeadLetter, Release, WakeForRetry,
           KeepsStates, WritesNode
      <4>. QED  BY <4>1
    <3>. QED  BY <3>2, <3>3, <3>4
  <2>. QED  BY <2>1, <2>2
<1>2. ASSUME NEW c \in Callers, RunTask(c)  PROVE UsersKnown'
  <2>1. UNCHANGED userVars
    BY <1>2 DEF RunTask, RunSteps, TimerFires, RunRequested, Poll, EnterRun, ExpireClaim,
       RecoverNode, RequeueDueJob, MarkRequeued, PassGuard, FailExpiredTask, FailExpiredClaims,
       FailExpiredEnd, DowngradeTool, DowngradeToolEnd, Dispatch, ReconcileRun, FollowUp,
       FinishRun
  <2>2. taskStatus' = "CANCELLED" => taskStatus = "CANCELLED" /\ UNCHANGED currentWait
    <3>1. CASE FailExpiredEnd(c) \/ DowngradeToolEnd(c) \/ Dispatch(c)
      BY <3>1 DEF FailExpiredEnd, DowngradeToolEnd, Dispatch
    <3>2. CASE ReconcileRun(c)  BY <3>2 DEF ReconcileRun, ReconcileTask
    <3>3. CASE ~(FailExpiredEnd(c) \/ DowngradeToolEnd(c) \/ Dispatch(c) \/ ReconcileRun(c))
      <4>1. UNCHANGED <<taskStatus, currentWait>>
        BY <1>2, <3>3 DEF RunTask, RunSteps, TimerFires, RunRequested, Poll, EnterRun,
           ExpireClaim, RecoverNode, RequeueDueJob, MarkRequeued, PassGuard, FailExpiredTask,
           FailExpiredClaims, DowngradeTool, FollowUp, FinishRun
      <4>. QED  BY <4>1
    <3>. QED  BY <3>1, <3>2, <3>3
  <2>. QED  BY <2>1, <2>2
<1>3. CASE UserRequests
  BY <1>3 DEF UserRequests, CancelStart, ApproveNode, TypeOK, UsersOK
<1>4. CASE UserSteps
  BY <1>4 DEF UserSteps, ApproveTask, CancelNode, CancelJobs, CancelClaims, CancelTask
<1>5. CASE Time \/ UNCHANGED vars
  BY <1>5, TimeMoves DEF vars
<1>6. CASE Crash
  BY <1>6 DEF Crash
<1>. QED  BY <1>1, <1>2, <1>3, <1>4, <1>5, <1>6 DEF Next

-----------------------------------------------------------------------------
(* Jobs and plans *)

\* The jobs an invocation has left to look at are allowed.
LEMMA JobsLeftAllowed ==
  ASSUME TypeOK, JobsAllowed, NEW c \in Callers, callPc[c] \in {"requeue", "jobs"}
  PROVE  Allowed(JobsLeft(c)) /\ JobsLeft(c) \subseteq Nodes \X Attempts
<1>1. CASE callPc[c] = "requeue"
  BY <1>1 DEF JobsLeft, DueRetryJobs, JobsWith, JobsAllowed, Allowed
<1>2. CASE callPc[c] = "jobs"
  BY <1>2 DEF JobsLeft, JobsAllowed, TypeOK, CallsOK, TodoOK
<1>. QED  BY <1>1, <1>2

TableAllowed == \A n \in Nodes, a \in Attempts : retryJobs[n][a] # "NONE" => a <= MaxRetries + 1

\* A job for an allowed attempt may get any status; all others keep theirs.
LEMMA SetJobAllowed ==
  ASSUME TypeOK, TableAllowed, NEW n \in Nodes, NEW a \in Attempts, NEW s, SetJob(n, a, s),
         a <= MaxRetries + 1
  PROVE  TableAllowed'
BY DEF TypeOK, SubstrateTypeOK, SetJob, TableAllowed

\* An invocation moves on with allowed jobs.
LEMMA MoveCallAllowed ==
  ASSUME TypeOK, JobsAllowed, TableAllowed', NEW c \in Callers, NEW pc, NEW left, MoveCall(c, pc, left),
         pc \in {"jobs", "remark"} => Allowed(left),
         pc = "remark" => Allowed(marking'[c]),
         \A d \in Callers \ {c} : marking'[d] = marking[d]
  PROVE  JobsAllowed'
<1>. USE DEF JobsAllowed
<1>1. ASSUME NEW d \in Callers
      PROVE  callPc'[d] \in {"jobs", "remark"} => Allowed(todo'[d])
  BY DEF MoveCall, TypeOK, CallsOK
<1>2. ASSUME NEW d \in Callers, callPc'[d] = "remark"  PROVE Allowed(marking'[d])
  BY <1>2 DEF MoveCall, TypeOK, CallsOK
<1>3. \A d \in Callers : Allowed(todo[d])' <=> Allowed(todo'[d])
  BY DEF Allowed
<1>4. \A d \in Callers : Allowed(marking[d])' <=> Allowed(marking'[d])
  BY DEF Allowed
<1>. QED  BY <1>1, <1>2, <1>3, <1>4 DEF TableAllowed

\* No job is ever made for an attempt past the last one the retry policy allows.
LEMMA NextJobsAllowed ==
  ASSUME TypeOK, FlowAttempts, JobsAllowed, [Next]_vars
  PROVE  JobsAllowed'
<1>t. TableAllowed  BY DEF JobsAllowed, TableAllowed
<1>1. ASSUME NEW n \in Nodes, ExecuteNode(n)  PROVE JobsAllowed'
  <2>1. UNCHANGED <<callPc, todo, marking>>  BY <1>1, FlowFrame
  <2>2. TableAllowed'
    <3>1. CASE ScheduleRetry(n)
      <4>1. target[n] + 1 \in Attempts /\ target[n] + 1 <= MaxRetries + 1
        BY <3>1, LimitAssumption, AttemptBound
        DEF ScheduleRetry, FlowAttempts, UnderClaim, Attempts, TypeOK, FlowsOK
      <4>. QED  BY <3>1, <4>1, <1>t, SetJobAllowed DEF ScheduleRetry, ScheduleRetryJob
    <3>2. CASE ConsumeRetryJob(n)
      <4>1. target[n] \in Attempts
        BY <3>2, AttemptBound DEF ConsumeRetryJob, FlowAttempts, UnderClaim, Attempts, TypeOK,
           FlowsOK
      <4>2. CASE UNCHANGED retryJobs  BY <1>t, <4>2 DEF TableAllowed
      <4>3. CASE retryJobs[n][target[n]] \in ActiveJob /\ SetJob(n, target[n], "COMPLETED")
        <5>1. target[n] <= MaxRetries + 1  BY <1>t, <4>1, <4>3 DEF TableAllowed, ActiveJob
        <5>. QED  BY <1>t, <4>1, <4>3, <5>1, SetJobAllowed
      <4>. QED  BY <3>2, <4>2, <4>3 DEF ConsumeRetryJob, MarkRetryJobCompleted, substrateVars
    <3>3. CASE ~ScheduleRetry(n) /\ ~ConsumeRetryJob(n)
      <4>1. UNCHANGED retryJobs
        BY <1>1, <3>3 DEF ExecuteNode, ExecSkip, ExecOverBudget, ExecPrepare, GateDenies,
           GateDowngrades, GateAsksUser, ClaimRefused, ClaimUnit, ClaimExecutionUnit, StartNode,
           WorkDowngraded, WorkAsksUser, Invoke, ReturnOk, ReturnNeedsUser, ReturnRetryable,
           ReturnExhausted, ReturnFatal, DeadLetter, RecordDeadLetter, TaskWaits, TaskRuns,
           Commit, Release, WakeForRetry, ReleaseClaim, ReconcileFailure, WritesNode,
           substrateVars
      <4>. QED  BY <1>t, <4>1 DEF TableAllowed
    <3>. QED  BY <3>1, <3>2, <3>3
  <2>. QED  BY <2>1, <2>2 DEF JobsAllowed, TableAllowed, Allowed
<1>2. ASSUME NEW c \in Callers, RequeueDueJob(c)  PROVE JobsAllowed'
  <2>1. callPc[c] \in {"requeue", "jobs"}  BY <1>2 DEF RequeueDueJob
  <2>2. Allowed(JobsLeft(c)) /\ JobsLeft(c) \subseteq Nodes \X Attempts
    BY <2>1, JobsLeftAllowed
  <2>3. PICK job \in JobsLeft(c) :
          \/ /\ MoveCall(c, "remark", JobsLeft(c) \ {job})
             /\ marking' = [marking EXCEPT ![c] = {job}] /\ UNCHANGED retryJobs
          \/ /\ SetJob(job[1], job[2], "COMPLETED") \/ UNCHANGED retryJobs
             /\ MoveCall(c, "jobs", JobsLeft(c) \ {job}) /\ UNCHANGED marking
    BY <1>2 DEF RequeueDueJob, substrateVars
  <2>4. /\ job[1] \in Nodes /\ job[2] \in Attempts /\ job[2] <= MaxRetries + 1
        /\ Allowed({job}) /\ Allowed(JobsLeft(c) \ {job})
    BY <2>2 DEF Allowed
  <2>6. /\ \A d \in Callers \ {c} : marking'[d] = marking[d]
        /\ marking'[c] = marking[c] \/ marking'[c] = {job}
    BY <2>3 DEF TypeOK, CallsOK
  <2>7. PICK pc \in {"jobs", "remark"} :
          MoveCall(c, pc, JobsLeft(c) \ {job}) /\ (pc = "remark" => marking'[c] = {job})
    BY <2>3 DEF TypeOK, CallsOK
  <2>5. TableAllowed'
    <3>1. CASE UNCHANGED retryJobs  BY <1>t, <3>1 DEF TableAllowed
    <3>2. CASE SetJob(job[1], job[2], "COMPLETED")  BY <1>t, <2>4, <3>2, SetJobAllowed
    <3>. QED  BY <2>3, <3>1, <3>2
  <2>. QED  BY <2>4, <2>5, <2>6, <2>7, MoveCallAllowed
<1>3. ASSUME NEW c \in Callers, MarkRequeued(c)  PROVE JobsAllowed'
  <2>1. PICK job \in marking[c] : SetJob(job[1], job[2], "REQUEUED")
    BY <1>3 DEF MarkRequeued
  <2>2. job[1] \in Nodes /\ job[2] \in Attempts /\ job[2] <= MaxRetries + 1
    BY <1>3 DEF MarkRequeued, TypeOK, CallsOK, JobsAllowed, Allowed
  <2>3. TableAllowed'  BY <1>t, <2>1, <2>2, SetJobAllowed
  <2>4. /\ MoveCall(c, "jobs", todo[c]) /\ Allowed(todo[c])
        /\ \A d \in Callers \ {c} : marking'[d] = marking[d]
    BY <1>3 DEF MarkRequeued, JobsAllowed, Allowed, TypeOK, CallsOK
  <2>. QED  BY <2>3, <2>4, MoveCallAllowed
<1>4. ASSUME NEW c \in Callers, RunTask(c), ~RequeueDueJob(c), ~MarkRequeued(c)
      PROVE  JobsAllowed'
  <2>1. /\ \A d \in Callers \ {c} : marking'[d] = marking[d]
        /\ UNCHANGED retryJobs \/ CancelPendingRetryJobs
        /\ \E pc, left : MoveCall(c, pc, left) /\ pc \notin {"jobs", "remark"}
    <3>1. CASE TimerFires(c) \/ RunRequested(c) \/ Poll(c)
      BY <3>1 DEF TimerFires, RunRequested, Poll, EnterRun, substrateVars
    <3>13. CASE ExpireClaim(c)
      BY <3>13 DEF ExpireClaim, RecoverStaleClaim, DropClaims, TypeOK, CallsOK
    <3>2. CASE RecoverNode(c)
      <4>1. PICK unit \in todo[c] :
              MoveCall(c, IF todo[c] = {unit} THEN "requeue" ELSE "renode", todo[c] \ {unit})
        BY <3>2 DEF RecoverNode
      <4>2. (IF todo[c] = {unit} THEN "requeue" ELSE "renode") \notin {"jobs", "remark"}
        OBVIOUS
      <4>. QED  BY <3>2, <4>1, <4>2 DEF RecoverNode, substrateVars
    <3>3. CASE PassGuard(c)
      BY <3>3 DEF PassGuard, substrateVars
    <3>4. CASE FailExpiredTask(c)    BY <3>4 DEF FailExpiredTask
    <3>5. CASE FailExpiredClaims(c)
      BY <3>5 DEF FailExpiredClaims, ReleaseActiveClaims, DropClaims
    <3>6. CASE FailExpiredEnd(c)     BY <3>6 DEF FailExpiredEnd, substrateVars
    <3>7. CASE DowngradeTool(c)      BY <3>7 DEF DowngradeTool, substrateVars
    <3>8. CASE DowngradeToolEnd(c)   BY <3>8 DEF DowngradeToolEnd, substrateVars
    <3>9. CASE Dispatch(c)           BY <3>9 DEF Dispatch, substrateVars
    <3>10. CASE ReconcileRun(c)      BY <3>10 DEF ReconcileRun, substrateVars
    <3>11. CASE FollowUp(c)          BY <3>11 DEF FollowUp, substrateVars
    <3>12. CASE FinishRun(c)         BY <3>12 DEF FinishRun, substrateVars
    <3>. QED
      BY <1>4, <3>1, <3>2, <3>3, <3>4, <3>5, <3>6, <3>7, <3>8, <3>9, <3>10, <3>11, <3>12, <3>13
      DEF RunTask, RunSteps
  <2>2. TableAllowed'
    BY <2>1, <1>t DEF TableAllowed, CancelPendingRetryJobs, ActiveJob
  <2>. QED  BY <2>1, <2>2, MoveCallAllowed
<1>5. CASE UserRequests \/ UserSteps
  <2>1. UNCHANGED <<callPc, todo, marking>>  BY <1>5 DEF UserRequests, UserSteps, CancelStart,
    ApproveNode, ApproveTask, CancelNode, CancelJobs, CancelClaims, CancelTask, KeepsRun, callVars
  <2>2. UNCHANGED retryJobs \/ CancelPendingRetryJobs
    BY <1>5 DEF UserRequests, UserSteps, CancelStart, ApproveNode, ApproveTask, CancelNode,
       CancelJobs, CancelClaims, ReleaseActiveClaims, DropClaims, CancelTask, substrateVars
  <2>3. TableAllowed'
    BY <2>2, <1>t DEF TableAllowed, CancelPendingRetryJobs, ActiveJob
  <2>. QED  BY <2>1, <2>3 DEF JobsAllowed, TableAllowed, Allowed
<1>6. CASE Time
  <2>1. UNCHANGED callVars  BY <1>6, TimeMoves
  <2>2. TableAllowed'  BY <1>6, <1>t, TimeMoves DEF TableAllowed
  <2>. QED  BY <2>1, <2>2 DEF JobsAllowed, TableAllowed, Allowed, callVars
<1>7. CASE Crash
  BY <1>7 DEF Crash, JobsAllowed, Allowed, substrateVars
<1>8. CASE UNCHANGED vars
  BY <1>8 DEF vars, callVars, substrateVars, JobsAllowed, Allowed
<1>. QED  BY <1>1, <1>2, <1>3, <1>4, <1>5, <1>6, <1>7, <1>8 DEF Next

\* A run plans while no node is executed, from a snapshot in which a dead node is
\* not runnable.
LEMMA NextPlansAlive ==
  ASSUME TypeOK, Owned, Safe, [Next]_vars
  PROVE  PlansAlive'
<1>. USE DEF Safe
<1>. DEFINE P == {"plan", "downgrade", "downgraded"}
<1>1. ASSUME NEW n \in Nodes, ExecuteNode(n)  PROVE PlansAlive'
  <2>1. flowPc[n] # "idle" /\ UNCHANGED <<callPc, todo>>  BY <1>1, FlowShape
  <2>2. ASSUME NEW c \in Callers, callPc[c] \in P  PROVE FALSE
    BY <2>1, <2>2, NoFlows DEF Guarded, FlowsIdle
  <2>. QED  BY <2>1, <2>2 DEF PlansAlive
<1>2. ASSUME NEW c \in Callers, RunTask(c)  PROVE PlansAlive'
  <2>1. \A n \in Nodes : Dead(n)' => Dead(n)
    <3>1. SUFFICES ASSUME NEW n \in Nodes  PROVE Dead(n)' => Dead(n)
      OBVIOUS
    <3>2. UNCHANGED deadLetters /\ (flowPc'[n] = "deadletter" => flowPc[n] = "deadletter")
      BY <1>2, RunMoves
    <3>. QED  BY <3>2 DEF Dead
  <2>2. \A d \in Callers \ {c} : callPc'[d] = callPc[d] /\ todo'[d] = todo[d]
    BY <1>2 DEF RunTask, RunSteps, TimerFires, RunRequested, Poll, EnterRun, ExpireClaim,
       RecoverNode, RequeueDueJob, MarkRequeued, PassGuard, FailExpiredTask, FailExpiredClaims,
       FailExpiredEnd, DowngradeTool, DowngradeToolEnd, Dispatch, ReconcileRun, FollowUp,
       FinishRun, MoveCall, TypeOK, CallsOK
  <2>3. callPc'[c] \in P => todo'[c] \subseteq Nodes /\ \A n \in todo'[c] : ~Dead(n)
    <3>1. CASE PassGuard(c)
      <4>1. \A n \in Runnable : n \in Nodes /\ ~Dead(n)
        BY DEF Runnable, NodeSafe, DeadClosed
      <4>2. DowngradableTools \subseteq Runnable  BY DEF DowngradableTools
      <4>3. callPc'[c] \in P => todo'[c] = DowngradableTools
        BY <3>1 DEF PassGuard, MoveCall, TypeOK, CallsOK
      <4>. QED  BY <4>1, <4>2, <4>3
    <3>2. CASE DowngradeTool(c) \/ DowngradeToolEnd(c)
      <4>1. callPc[c] \in P /\ todo'[c] \subseteq todo[c]
        BY <3>2 DEF DowngradeTool, Planning, DowngradeToolEnd, MoveCall, TypeOK, CallsOK
      <4>2. todo[c] \subseteq Nodes  BY <4>1 DEF TypeOK, CallsOK, TodoOK
      <4>. QED  BY <4>1, <4>2 DEF PlansAlive
    <3>3. CASE ~(PassGuard(c) \/ DowngradeTool(c) \/ DowngradeToolEnd(c))
      <4>1. callPc'[c] \notin P
        BY <1>2, <3>3 DEF RunTask, RunSteps, TimerFires, RunRequested, Poll, EnterRun,
           ExpireClaim, RecoverNode, RequeueDueJob, MarkRequeued, FailExpiredTask,
           FailExpiredClaims, FailExpiredEnd, Dispatch, ReconcileRun, FollowUp, FinishRun,
           MoveCall, TypeOK, CallsOK
      <4>. QED  BY <4>1
    <3>. QED  BY <3>1, <3>2, <3>3
  <2>4. ASSUME NEW d \in Callers, callPc'[d] \in P, NEW n \in todo'[d]  PROVE ~Dead(n)'
    <3>1. n \in Nodes /\ ~Dead(n)
      <4>1. CASE d = c  BY <2>3, <2>4, <4>1
      <4>2. CASE d # c  BY <2>2, <2>4, <4>2 DEF PlansAlive, TypeOK, CallsOK, TodoOK
      <4>. QED  BY <4>1, <4>2
    <3>. QED  BY <2>1, <3>1
  <2>. QED  BY <2>4 DEF PlansAlive
<1>3. CASE UserRequests \/ UserSteps \/ Time \/ UNCHANGED vars
  <2>1. UNCHANGED <<callPc, todo, flowPc>>  BY <1>3, WorldShape
  <2>2. UNCHANGED deadLetters
    BY <1>3, TimeMoves DEF UserRequests, UserSteps, CancelStart, ApproveNode, ApproveTask,
       CancelNode, CancelJobs, CancelPendingRetryJobs, CancelClaims, ReleaseActiveClaims,
       DropClaims, CancelTask, substrateVars, vars
  <2>. QED  BY <2>1, <2>2 DEF PlansAlive, Dead
<1>4. CASE Crash
  BY <1>4 DEF Crash, PlansAlive
<1>. QED  BY <1>1, <1>2, <1>3, <1>4 DEF Next

-----------------------------------------------------------------------------
(* Claims *)

\* A claim is taken and given back by the flow it is for; all the others only take
\* claims away, while flows go on.
LEMMA NextClaimsHeld ==
  ASSUME TypeOK, Owned, FlowAttempts, ClaimsHeld, [Next]_vars
  PROVE  ClaimsHeld'
<1>. USE DEF ClaimsHeld
<1>0. executionClaims \subseteq Claim /\ epoch \in Nat  BY DEF TypeOK, SubstrateTypeOK, WorldOK
<1>1. ASSUME NEW n \in Nodes, ExecuteNode(n), epoch' = 0,
             NEW claim \in executionClaims'
      PROVE  /\ flowPc'[claim.node] \in UnderClaim \cup {"start"}
             /\ target'[claim.node] = claim.attempt /\ claim.epoch = 0
  <2>0. epoch = 0  BY <1>1, FlowFrame DEF worldVars
  <2>1. CASE ClaimUnit(n)
    <3>1. CASE claim = [node |-> n, attempt |-> target[n], epoch |-> epoch]
      BY <2>0, <2>1, <3>1 DEF ClaimUnit, Goto, TypeOK, FlowsOK
    <3>2. CASE claim \in executionClaims
      <4>1. claim.node \in Nodes /\ claim.node # n
        BY <1>0, <2>0, <2>1, <3>2 DEF ClaimUnit, UnderClaim, Claim
      <4>2. flowPc'[claim.node] = flowPc[claim.node] /\ target'[claim.node] = target[claim.node]
        BY <1>1, <4>1, FlowShape
      <4>. QED  BY <2>0, <3>2, <4>2
    <3>. QED  BY <1>1, <2>1, <3>1, <3>2 DEF ClaimUnit, ClaimExecutionUnit
  <2>2. CASE Release(n)
    <3>1. claim \in executionClaims /\ claim # [node |-> n, attempt |-> target[n], epoch |-> epoch]
      BY <1>1, <2>2 DEF Release, ReleaseClaim
    <3>2. claim.node # n
      BY <1>0, <2>0, <3>1 DEF Claim
    <3>3. claim.node \in Nodes  BY <1>0, <3>1 DEF Claim
    <3>4. flowPc'[claim.node] = flowPc[claim.node] /\ target'[claim.node] = target[claim.node]
      BY <1>1, <3>2, <3>3, FlowShape
    <3>. QED  BY <2>0, <3>1, <3>4
  <2>3. CASE ~ClaimUnit(n) /\ ~Release(n)
    <3>1. /\ UNCHANGED executionClaims
          /\ flowPc[n] \in UnderClaim \cup {"start"} =>
               flowPc'[n] \in UnderClaim \cup {"start"} /\ target'[n] = target[n]
      <4>1. CASE \/ ExecSkip(n) \/ ExecOverBudget(n) \/ ExecPrepare(n) \/ GateDenies(n)
                 \/ GateDowngrades(n) \/ GateAsksUser(n) \/ ClaimRefused(n)
        BY <4>1 DEF ExecSkip, ExecOverBudget, ExecPrepare, GateDenies, GateDowngrades,
             GateAsksUser, ClaimRefused, WritesNode, substrateVars, UnderClaim
      <4>2. CASE \/ StartNode(n) \/ ConsumeRetryJob(n) \/ WorkDowngraded(n) \/ WorkAsksUser(n)
                 \/ Invoke(n) \/ ReturnOk(n) \/ ReturnNeedsUser(n) \/ ReturnRetryable(n)
                 \/ ReturnExhausted(n) \/ ReturnFatal(n)
        BY <4>2 DEF StartNode, ConsumeRetryJob, MarkRetryJobCompleted, SetJob, WorkDowngraded,
             WorkAsksUser, Invoke, ReturnOk, ReturnNeedsUser, ReturnRetryable, ReturnExhausted,
             ReturnFatal, Goto, WritesNode, substrateVars, UnderClaim, TypeOK, FlowsOK
      <4>3. CASE \/ ScheduleRetry(n) \/ DeadLetter(n) \/ TaskWaits(n) \/ TaskRuns(n)
                 \/ Commit(n) \/ WakeForRetry(n) \/ ReconcileFailure(n)
        BY <4>3 DEF ScheduleRetry, ScheduleRetryJob, SetJob, DeadLetter, RecordDeadLetter,
           TaskWaits, TaskRuns, Commit, WakeForRetry, ReconcileFailure, Goto, substrateVars,
           UnderClaim, TypeOK, FlowsOK
      <4>. QED  BY <1>1, <2>3, <4>1, <4>2, <4>3 DEF ExecuteNode
    <3>2. claim \in executionClaims /\ claim.node \in Nodes  BY <1>0, <1>1, <3>1 DEF Claim
    <3>3. CASE claim.node = n  BY <2>0, <3>1, <3>2, <3>3
    <3>4. CASE claim.node # n
      <4>1. flowPc'[claim.node] = flowPc[claim.node] /\ target'[claim.node] = target[claim.node]
        BY <1>1, <3>2, <3>4, FlowShape
      <4>. QED  BY <2>0, <3>2, <4>1
    <3>. QED  BY <3>3, <3>4
  <2>. QED  BY <2>1, <2>2, <2>3
<1>2. ASSUME NEW c \in Callers, RunTask(c), epoch' = 0, NEW claim \in executionClaims'
      PROVE  /\ flowPc'[claim.node] \in UnderClaim \cup {"start"}
             /\ target'[claim.node] = claim.attempt /\ claim.epoch = 0
  <2>1. executionClaims' \subseteq executionClaims
    BY <1>2 DEF RunTask, RunSteps, TimerFires, RunRequested, Poll, EnterRun, ExpireClaim,
       RecoverStaleClaim, DropClaims, RecoverNode, RequeueDueJob, SetJob, MarkRequeued,
       PassGuard, FailExpiredTask, CancelPendingRetryJobs, FailExpiredClaims,
       ReleaseActiveClaims, FailExpiredEnd, DowngradeTool, DowngradeToolEnd, Dispatch,
       ReconcileRun, FollowUp, FinishRun, substrateVars
  <2>2. claim \in executionClaims /\ claim.node \in Nodes  BY <1>0, <1>2, <2>1 DEF Claim
  <2>3. /\ UNCHANGED <<target, epoch>>
        /\ UNCHANGED flowPc \/ Dispatch(c)
    BY <1>2, <2>2, RunMoves DEF worldVars
  <2>4. flowPc[claim.node] # "idle"  BY <1>2, <2>2, <2>3 DEF UnderClaim
  <2>5. ~Dispatch(c)  BY <2>2, <2>4, NoFlows DEF Dispatch, Planning, Guarded, FlowsIdle
  <2>. QED  BY <1>2, <2>2, <2>3, <2>5
<1>3. CASE UserRequests \/ UserSteps \/ Time \/ UNCHANGED vars
  <2>1. UNCHANGED <<flowPc, target>>  BY <1>3, WorldShape
  <2>2. executionClaims' \subseteq executionClaims /\ UNCHANGED epoch
    BY <1>3, TimeMoves DEF UserRequests, UserSteps, CancelStart, ApproveNode, ApproveTask,
       CancelNode, CancelJobs, CancelPendingRetryJobs, CancelClaims, ReleaseActiveClaims,
       DropClaims, CancelTask, KeepsRun, substrateVars, worldVars, vars
  <2>. QED  BY <2>1, <2>2
<1>4. CASE Crash
  BY <1>0, <1>4 DEF Crash
<1>. QED  BY <1>1, <1>2, <1>3, <1>4 DEF Next

-----------------------------------------------------------------------------
(* The end of a task *)

\* reconcileTaskTerminalState ends a task as DONE only when no node is open, waiting
\* or failed and no claim is held.
LEMMA ReconciledDone ==
  ASSUME TypeOK, ReconcileTask, taskStatus' = "DONE"
  PROVE  executionClaims = {} /\ \A n \in Nodes : nodeStatus[n] \in {"SUCCEEDED", "CANCELLED"}
<1>1. /\ executionClaims = {}
      /\ \A n \in Nodes : nodeStatus[n] \notin {"WAITING_USER", "PENDING", "RUNNING", "FAILED"}
  BY DEF ReconcileTask, SetTask
<1>2. \A n \in Nodes : nodeStatus[n] \in NodeStatus  BY DEF TypeOK, NodesOK
<1>. QED  BY <1>1, <1>2 DEF NodeStatus

\* A task becomes DONE only when everything is settled, and from then on, unless a user
\* cancels it, nothing is unsettled again.
LEMMA NextDoneMeansSettled ==
  ASSUME TypeOK, Owned, Safe, [Next]_vars
  PROVE  DoneMeansSettled'
<1>. USE DEF Safe
<1>. DEFINE Settled == FlowsIdle /\ executionClaims = {} /\ \A n \in Nodes : nodeStatus[n] = "SUCCEEDED"
<1>s. SUFFICES ASSUME taskStatus' = "DONE", cancels' = 0  PROVE Settled'
  BY DEF DoneMeansSettled
<1>d. taskStatus = "DONE" /\ cancels = 0 => Settled  BY DEF DoneMeansSettled
<1>. HIDE DEF Settled
<1>1. ASSUME NEW n \in Nodes, ExecuteNode(n)  PROVE FALSE
  <2>1. flowPc[n] # "idle" /\ cancels = 0  BY <1>s, <1>1, FlowShape, FlowFrame DEF userVars
  <2>2. taskStatus # "DONE"  BY <1>d, <2>1 DEF Settled, FlowsIdle
  <2>3. ReconcileFailure(n)
    <3>1. SUFFICES ASSUME ~ReconcileFailure(n)  PROVE FALSE
      OBVIOUS
    <3>2. taskStatus' = taskStatus \/ taskStatus' \in {"RUNNING", "WAITING_USER"}
      BY <1>1, <3>1 DEF ExecuteNode, ExecSkip, ExecOverBudget, ExecPrepare, GateDenies,
           GateDowngrades, GateAsksUser, ClaimRefused, ClaimUnit, StartNode, ConsumeRetryJob,
           WorkDowngraded, WorkAsksUser, Invoke, ReturnOk, ReturnNeedsUser, ReturnRetryable,
           ReturnExhausted, ReturnFatal, ScheduleRetry, DeadLetter, TaskWaits, TaskRuns, Commit,
           Release, WakeForRetry, SetTask, KeepsStates, WritesNode, storeVars, taskVars
    <3>. QED  BY <1>s, <2>2, <3>2
  <2>4. nodeStatus[n] \in {"SUCCEEDED", "CANCELLED"}
    BY <1>s, <2>3, ReconciledDone DEF ReconcileFailure
  <2>5. nodeStatus[n] \in {"FAILED", "PENDING"}
    BY <2>1, <2>3 DEF ReconcileFailure, NodeSafe, StatusFits
  <2>. QED  BY <2>4, <2>5
<1>2. ASSUME NEW c \in Callers, RunTask(c)  PROVE Settled'
  <2>0. cancels = 0
    <3>1. CASE Nodes = {}
      BY <1>s, <1>2 DEF RunTask, RunSteps, TimerFires, RunRequested, Poll, EnterRun,
         ExpireClaim, RecoverNode, RequeueDueJob, MarkRequeued, PassGuard, FailExpiredTask,
         FailExpiredClaims, FailExpiredEnd, DowngradeTool, DowngradeToolEnd, Dispatch,
         ReconcileRun, FollowUp, FinishRun, userVars
    <3>2. CASE Nodes # {}
      BY <1>s, <1>2, <3>2, RunMoves DEF userVars
    <3>. QED  BY <3>1, <3>2
  <2>1. CASE ReconcileRun(c)
    <3>1. FlowsIdle
      <4>1. callPc[c] \in Guarded /\ (callPc[c] = "wait" => \A n \in todo[c] : flowPc[n] = "idle")
        BY <2>1 DEF ReconcileRun, NothingRunnable, BatchDone, Planning, Guarded
      <4>. QED  BY <4>1, NoFlows
    <3>2. executionClaims = {} /\ \A n \in Nodes : nodeStatus[n] \in {"SUCCEEDED", "CANCELLED"}
      BY <1>s, <2>1, ReconciledDone DEF ReconcileRun
    <3>3. \A n \in Nodes : nodeStatus[n] # "CANCELLED"  BY <2>0 DEF NodeSafe, StatusFits
    <3>4. UNCHANGED <<flowPc, executionClaims, nodeStatus>>
      BY <2>1 DEF ReconcileRun, flowVars, substrateVars
    <3>. QED  BY <3>1, <3>2, <3>3, <3>4 DEF Settled, FlowsIdle
  <2>2. CASE ~ReconcileRun(c)
    <3>1. /\ taskStatus = "DONE" /\ UNCHANGED flowPc
          /\ executionClaims' \subseteq executionClaims
      BY <1>s, <1>2, <2>2
      DEF RunTask, RunSteps, TimerFires, RunRequested, Poll, EnterRun, ExpireClaim,
          RecoverStaleClaim, DropClaims, RecoverNode, RequeueDueJob, SetJob, MarkRequeued,
          PassGuard, FailExpiredTask, CancelPendingRetryJobs, FailExpiredClaims,
          ReleaseActiveClaims, FailExpiredEnd, DowngradeTool, DowngradeToolEnd, Dispatch,
          FollowUp, FinishRun, SetTask, substrateVars, flowVars, storeVars, taskVars
    <3>2. Settled  BY <1>d, <2>0, <3>1
    <3>3. \A n \in Nodes : nodeStatus'[n] = "SUCCEEDED"
      BY <1>2, <3>2, RunMoves DEF Settled
    <3>. QED  BY <3>1, <3>2, <3>3 DEF Settled, FlowsIdle
  <2>. QED  BY <2>1, <2>2
<1>3. CASE UserRequests \/ UserSteps
  <2>1. UNCHANGED flowPc  BY <1>3, WorldShape
  <2>2. cancels = 0 /\ taskStatus = "DONE" /\ UNCHANGED executionClaims
    BY <1>3, <1>s DEF UsersKnown, UserRequests, UserSteps, CancelStart, ApproveNode,
       ApproveTask, CancelNode, CancelJobs, CancelClaims, CancelTask, SetTask, KeepsRun,
       substrateVars, storeVars, taskVars, TypeOK, UsersOK
  <2>3. \A n \in Nodes : nodeStatus'[n] = "SUCCEEDED"
    BY <1>3, <1>s, <1>d, <2>2, UserMoves DEF Settled
  <2>. QED  BY <1>d, <2>1, <2>2, <2>3 DEF Settled, FlowsIdle
<1>4. CASE Time \/ UNCHANGED vars
  <2>1. UNCHANGED <<taskStatus, cancels, flowPc, executionClaims, nodeStatus>>
    BY <1>4, TimeMoves
    DEF vars, storeVars, taskVars, nodeVars, flowVars, userVars, substrateVars
  <2>. QED  BY <1>s, <1>d, <2>1 DEF Settled, FlowsIdle
<1>5. CASE Crash
  <2>1. /\ UNCHANGED <<taskStatus, cancels, executionClaims, nodeStatus>>
        /\ \A n \in Nodes : flowPc'[n] = "idle"
    BY <1>5 DEF Crash, storeVars, taskVars, nodeVars, substrateVars
  <2>. QED  BY <1>s, <1>d, <2>1 DEF Settled, FlowsIdle
<1>. QED  BY <1>1, <1>2, <1>3, <1>4, <1>5 DEF Next

-----------------------------------------------------------------------------
(* The theorems *)

\* A new task is safe: it has no flow, no job, no dead letter and no claim.
LEMMA InitSafe == ASSUME Init  PROVE Safe
<1>. USE DEF Init, SubstrateInit
<1>1. UsersKnown /\ PlansAlive /\ ClaimsHeld /\ DoneMeansSettled
  BY DEF UsersKnown, PlansAlive, ClaimsHeld, DoneMeansSettled
<1>2. \A n \in Nodes : NodeSafe(n)
  BY DEF NodeSafe, StatusFits, RetryAhead, DeadClosed, Dead
<1>3. JobsAllowed  BY DEF JobsAllowed, Allowed
<1>. QED  BY <1>1, <1>2, <1>3 DEF Safe

\* Both inductive invariants hold in every state of the runtime.
THEOREM SafeHolds == Spec => [](Inductive /\ Safe)
<1>1. Init => Inductive /\ Safe
  BY InitTypes, InitOwned, InitNumbered, InitSafe DEF Inductive, Owned, Numbered
<1>2. ASSUME Inductive, Safe, [Next]_vars  PROVE Inductive' /\ Safe'
  <2>1. TypeOK /\ FlowAttempts /\ Owned /\ Numbered  BY <1>2 DEF Inductive, Owned, Numbered
  <2>2. Inductive'
    BY <1>2, <2>1, NextTypes, NextOwned, NextNumbered DEF Inductive, Owned, Numbered
  <2>3. UsersKnown'  BY <1>2, <2>1, NextUsersKnown DEF Safe
  <2>4. \A n \in Nodes : NodeSafe(n)'  BY <1>2, <2>1, NextNodeSafe
  <2>5. JobsAllowed'  BY <1>2, <2>1, NextJobsAllowed DEF Safe
  <2>6. PlansAlive'  BY <1>2, <2>1, NextPlansAlive
  <2>7. ClaimsHeld'  BY <1>2, <2>1, NextClaimsHeld DEF Safe
  <2>8. DoneMeansSettled'  BY <1>2, <2>1, NextDoneMeansSettled
  <2>9. (\A n \in Nodes : NodeSafe(n))'  BY <2>4
  <2>. QED  BY <2>2, <2>3, <2>5, <2>6, <2>7, <2>8, <2>9 DEF Safe
<1>. QED  BY <1>1, <1>2, PTL DEF Spec

\* A node that failed retryably has its retry ahead of it, in every order of runs,
\* recoveries and approvals, for every retry limit.
THEOREM RetriesKept == Spec => []NoLostRetry
<1>1. Safe => NoLostRetry
  BY DEF Safe, NodeSafe, RetryAhead, Undisturbed, NoLostRetry
<1>. QED  BY <1>1, SafeHolds, PTL

\* A task that is DONE left no flow, no claim and no node that did not succeed.
THEOREM DoneIsSettled == Spec => []DoneMeansSettled
<1>1. Safe => DoneMeansSettled  BY DEF Safe
<1>. QED  BY <1>1, SafeHolds, PTL

\* Without crashes no path through executeNode keeps its claim.
THEOREM LeasesReleased == Spec => []ClaimsReleased
<1>1. TypeOK /\ Safe => ClaimsReleased
  BY DEF Safe, ClaimsHeld, ClaimsReleased, Quiet, FlowsIdle, UnderClaim, TypeOK, SubstrateTypeOK,
     Claim
<1>2. Inductive => TypeOK  BY DEF Inductive
<1>. QED  BY <1>1, <1>2, SafeHolds, PTL

\* A node that SUCCEEDED stays so, unless a user cancels.
LEMMA NextResultKept ==
  ASSUME Inductive, Safe, [Next]_vars, NEW n \in Nodes, nodeStatus[n] = "SUCCEEDED", cancels' = 0
  PROVE  nodeStatus'[n] = "SUCCEEDED"
<1>0. TypeOK /\ Owned  BY DEF Inductive, Owned
<1>1. CASE ExecuteNode(n)
  <2>1. StatusFits(n) /\ StatusFits(n)'
    <3>1. cancels = 0  BY <1>0, <1>1, FlowFrame DEF userVars
    <3>. QED  BY <1>0, <1>1, <3>1, FlowStatusFits DEF Safe, NodeSafe
  <2>2. /\ flowPc[n] \notin {"check", "gate", "start", "consume", "work", "executing"}
        /\ flowPc[n] \notin {"deadletter", "releaseFail", "reconcile"}
    BY <2>1 DEF StatusFits
  <2>3. UNCHANGED nodeStatus
    BY <1>1, <2>2 DEF ExecuteNode, ExecSkip, ExecOverBudget, ExecPrepare, GateDenies,
       GateDowngrades, GateAsksUser, ClaimRefused, ClaimUnit, StartNode, ConsumeRetryJob,
       WorkDowngraded, WorkAsksUser, Invoke, ReturnOk, ReturnNeedsUser, ReturnRetryable,
       ReturnExhausted, ReturnFatal, ScheduleRetry, DeadLetter, TaskWaits, TaskRuns, Commit,
       Release, WakeForRetry, ReconcileFailure, KeepsStates, storeVars, nodeVars
  <2>. QED  BY <2>3
<1>2. ASSUME NEW m \in Nodes, m # n, ExecuteNode(m)  PROVE nodeStatus'[n] = "SUCCEEDED"
  BY <1>0, <1>2, FlowFrame
<1>3. ASSUME NEW c \in Callers, RunTask(c)  PROVE nodeStatus'[n] = "SUCCEEDED"
  BY <1>0, <1>3, RunMoves
<1>4. CASE UserRequests \/ UserSteps
  BY <1>0, <1>4, UserMoves DEF Safe
<1>5. CASE Time \/ Crash \/ UNCHANGED vars
  <2>1. UNCHANGED nodeStatus
    BY <1>0, <1>5, TimeMoves DEF Crash, vars, storeVars, nodeVars
  <2>. QED  BY <2>1
<1>. QED  BY <1>1, <1>2, <1>3, <1>4, <1>5 DEF Next

\* Unless a user cancels, no recovery, retry or overlapping run takes back a result.
THEOREM ResultsKept == Spec => SucceededIsFinal
<1>1. ASSUME Inductive, Safe, [Next]_vars
      PROVE  [\A n \in Nodes : nodeStatus[n] = "SUCCEEDED" /\ cancels' = 0
                                 => nodeStatus'[n] = "SUCCEEDED"]_vars
  BY <1>1, NextResultKept
<1>. QED  BY <1>1, SafeHolds, PTL DEF Spec, SucceededIsFinal

\* A dead-lettered node never reaches its executor again, whatever cancellations,
\* downgrades, crashes and late retries follow.
THEOREM DeadLettersFinal == Spec => DeadLetterIsFinal
<1>1. ASSUME Inductive, Safe, [Next]_vars
      PROVE  [\A n \in Nodes : (\E a \in Attempts : <<n, a>> \in deadLetters)
                                 => invoked'[n] = invoked[n]]_vars
  <2>0. TypeOK /\ Owned  BY <1>1 DEF Inductive, Owned
  <2>1. SUFFICES ASSUME NEW n \in Nodes, \E a \in Attempts : <<n, a>> \in deadLetters
                 PROVE  invoked'[n] = invoked[n]
    OBVIOUS
  <2>2. flowPc[n] \in {"deadletter", "releaseFail", "reconcile", "idle"}
    BY <1>1, <2>1 DEF Safe, NodeSafe, DeadClosed, Dead
  <2>3. CASE ExecuteNode(n)
    <3>1. ~Invoke(n)  BY <2>2 DEF Invoke
    <3>2. UNCHANGED invoked
      BY <2>3, <3>1 DEF ExecuteNode, ExecSkip, ExecOverBudget, ExecPrepare, GateDenies,
         GateDowngrades, GateAsksUser, ClaimRefused, ClaimUnit, StartNode, ConsumeRetryJob,
         WorkDowngraded, WorkAsksUser, ReturnOk, ReturnNeedsUser, ReturnRetryable,
         ReturnExhausted, ReturnFatal, ScheduleRetry, DeadLetter, TaskWaits, TaskRuns, Commit,
         Release, WakeForRetry, ReconcileFailure
    <3>. QED  BY <3>2
  <2>4. ASSUME NEW m \in Nodes, m # n, ExecuteNode(m)  PROVE invoked'[n] = invoked[n]
    BY <2>0, <2>4, FlowShape
  <2>5. ASSUME NEW c \in Callers, RunTask(c)  PROVE invoked'[n] = invoked[n]
    BY <2>0, <2>5, RunMoves
  <2>6. CASE UserRequests \/ UserSteps \/ Time \/ UNCHANGED vars
    BY <2>6, WorldShape
  <2>7. CASE Crash
    BY <2>7 DEF Crash
  <2>. QED  BY <1>1, <2>3, <2>4, <2>5, <2>6, <2>7 DEF Next
<1>. QED  BY <1>1, SafeHolds, PTL DEF Spec, DeadLetterIsFinal

\* A flow on its way to a dead letter belongs to a node that has none yet.
Lettered ==
  \A n \in Nodes :
    /\ flowPc[n] = "deadletter" => \A a \in Attempts : <<n, a>> \notin deadLetters
    /\ \A a, b \in Attempts : <<n, a>> \in deadLetters /\ <<n, b>> \in deadLetters => a = b

\* Only a flow that executes its node reaches a dead letter, which a dead node's never
\* does again; and from there it records one and goes on.
LEMMA NextLettered ==
  ASSUME Inductive, Safe, Lettered, [Next]_vars
  PROVE  Lettered'
<1>. USE DEF Lettered
<1>0. TypeOK /\ Owned  BY DEF Inductive, Owned
<1>s. SUFFICES ASSUME NEW n \in Nodes
               PROVE  /\ flowPc'[n] = "deadletter" =>
                            \A a \in Attempts : <<n, a>> \notin deadLetters'
                      /\ \A a, b \in Attempts :
                           <<n, a>> \in deadLetters' /\ <<n, b>> \in deadLetters' => a = b
  OBVIOUS
<1>1. CASE ReturnExhausted(n)
  <2>1. flowPc[n] = "executing" /\ UNCHANGED deadLetters
    BY <1>1 DEF ReturnExhausted, WritesNode, substrateVars
  <2>2. \A a \in Attempts : <<n, a>> \notin deadLetters
    BY <2>1 DEF Safe, NodeSafe, DeadClosed, Dead
  <2>. QED  BY <2>1, <2>2
<1>2. CASE DeadLetter(n)
  <2>1. flowPc[n] = "deadletter" /\ flowPc'[n] = "releaseFail"
        /\ deadLetters' = deadLetters \cup {<<n, target[n]>>}
    BY <1>0, <1>2 DEF DeadLetter, Goto, RecordDeadLetter, TypeOK, FlowsOK
  <2>. QED  BY <2>1
<1>3. ASSUME ExecuteNode(n), ~ReturnExhausted(n), ~DeadLetter(n)
      PROVE  UNCHANGED deadLetters /\ flowPc'[n] # "deadletter"
  <2>. USE DEF Goto, WritesNode, substrateVars, TypeOK, FlowsOK
  <2>1. CASE \/ ExecSkip(n) \/ ExecOverBudget(n) \/ ExecPrepare(n) \/ GateDenies(n)
             \/ GateDowngrades(n) \/ GateAsksUser(n) \/ ClaimRefused(n)
    BY <1>0, <2>1 DEF ExecSkip, ExecOverBudget, ExecPrepare, GateDenies, GateDowngrades,
       GateAsksUser, ClaimRefused
  <2>2. CASE \/ ClaimUnit(n) \/ StartNode(n) \/ ConsumeRetryJob(n) \/ WorkDowngraded(n)
             \/ WorkAsksUser(n) \/ Invoke(n)
    BY <1>0, <2>2 DEF ClaimUnit, ClaimExecutionUnit, StartNode, ConsumeRetryJob,
       MarkRetryJobCompleted, SetJob, WorkDowngraded, WorkAsksUser, Invoke
  <2>3. CASE ReturnOk(n) \/ ReturnNeedsUser(n) \/ ReturnRetryable(n) \/ ReturnFatal(n)
    BY <1>0, <2>3 DEF ReturnOk, ReturnNeedsUser, ReturnRetryable, ReturnFatal
  <2>4. CASE \/ ScheduleRetry(n) \/ TaskWaits(n) \/ TaskRuns(n) \/ Commit(n) \/ Release(n)
             \/ WakeForRetry(n) \/ ReconcileFailure(n)
    BY <1>0, <2>4 DEF ScheduleRetry, ScheduleRetryJob, SetJob, TaskWaits, TaskRuns, Commit,
       Release, AfterRelease, ReleaseClaim, WakeForRetry, ReconcileFailure
  <2>. QED  BY <1>3, <2>1, <2>2, <2>3, <2>4 DEF ExecuteNode
<1>4. ASSUME NEW m \in Nodes, m # n, ExecuteNode(m)
      PROVE  /\ flowPc'[n] = flowPc[n]
             /\ \A a \in Attempts : <<n, a>> \in deadLetters' <=> <<n, a>> \in deadLetters
  BY <1>0, <1>4, FlowFrame, FlowShape
<1>5. ASSUME NEW c \in Callers, RunTask(c)
      PROVE  UNCHANGED deadLetters /\ (flowPc'[n] = "deadletter" => flowPc[n] = "deadletter")
  BY <1>0, <1>5, RunMoves
<1>6. CASE UserRequests \/ UserSteps \/ Time \/ UNCHANGED vars
  <2>1. UNCHANGED flowPc  BY <1>6, WorldShape
  <2>2. UNCHANGED deadLetters
    BY <1>0, <1>6, UserMoves, TimeMoves DEF Safe, vars, substrateVars
  <2>. QED  BY <2>1, <2>2
<1>7. CASE Crash
  BY <1>7 DEF Crash, substrateVars
<1>. QED  BY <1>1, <1>2, <1>3, <1>4, <1>5, <1>6, <1>7 DEF Next

\* Exhausted retries leave at most one dead letter per node, for every retry limit and however
\* often the process stops between the failure and its dead letter.
THEOREM DeadLettersSingle == Spec => []OneDeadLetter
<1>1. Init => Lettered  BY DEF Init, SubstrateInit, Lettered
<1>2. Inductive /\ Safe /\ Lettered /\ [Next]_vars => Lettered'  BY NextLettered
<1>3. Lettered => OneDeadLetter  BY DEF Lettered, OneDeadLetter
<1>. QED  BY <1>1, <1>2, <1>3, SafeHolds, PTL DEF Spec

\* Once cancelTask has finished and no run is in progress, neither timers, due
\* retries, expired leases, approvals nor requests start the task again.
THEOREM CancelledStays == Spec => CancelledIsFinal
<1>1. ASSUME Inductive, Safe, [Next]_vars
      PROVE  [taskStatus = "CANCELLED" /\ ~runningTask
                => taskStatus' = "CANCELLED" /\ ~runningTask']_vars
  <2>0. TypeOK /\ Owned /\ UsersKnown  BY <1>1 DEF Inductive, Owned, Safe
  <2>1. SUFFICES ASSUME taskStatus = "CANCELLED", ~runningTask
                 PROVE  taskStatus' = "CANCELLED" /\ ~runningTask'
    OBVIOUS
  <2>2. FlowsIdle /\ \A c \in Callers : callPc[c] \notin Guarded
    BY <2>0, <2>1 DEF Owned, RunExclusive
  <2>3. ASSUME NEW n \in Nodes, ExecuteNode(n)  PROVE FALSE
    BY <2>0, <2>2, <2>3, FlowShape DEF FlowsIdle
  <2>4. ASSUME NEW c \in Callers, RunTask(c)
        PROVE  taskStatus' = "CANCELLED" /\ ~runningTask'
    <3>1. \/ TimerFires(c) \/ RunRequested(c) \/ Poll(c) \/ ExpireClaim(c) \/ RecoverNode(c)
          \/ RequeueDueJob(c) \/ MarkRequeued(c) \/ PassGuard(c)
      BY <2>2, <2>4 DEF RunTask, RunSteps, FailExpiredTask, FailExpiredClaims, FailExpiredEnd,
         DowngradeTool, DowngradeToolEnd, Dispatch, ReconcileRun, NothingRunnable, BatchDone,
         FollowUp, FinishRun, Planning, Guarded
    <3>. QED
      BY <2>1, <3>1 DEF TimerFires, RunRequested, Poll, EnterRun, ExpireClaim, RecoverNode,
         RequeueDueJob, MarkRequeued, PassGuard, TerminalTask, storeVars, taskVars
  <2>5. CASE UserRequests
    BY <2>1, <2>5 DEF UserRequests, CancelStart, ApproveNode, KeepsRun, storeVars, taskVars,
       callVars
  <2>6. CASE UserSteps
    <3>1. CASE ApproveTask
      <4>1. currentWait # approved  BY <2>0, <2>1, <3>1, GraphAssumption DEF ApproveTask,
             UsersKnown
      <4>. QED  BY <2>1, <3>1, <4>1 DEF ApproveTask, taskVars
    <3>2. CASE CancelNode \/ CancelJobs \/ CancelClaims \/ CancelTask
      BY <2>1, <3>2 DEF CancelNode, CancelJobs, CancelClaims, CancelTask, SetTask, KeepsRun,
         storeVars, taskVars, callVars
    <3>. QED  BY <2>6, <3>1, <3>2 DEF UserSteps
  <2>7. CASE Time \/ UNCHANGED vars
    BY <2>0, <2>1, <2>7, TimeMoves DEF vars, storeVars, taskVars, callVars
  <2>8. CASE Crash
    BY <2>1, <2>8 DEF Crash, storeVars, taskVars
  <2>. QED  BY <1>1, <2>3, <2>4, <2>5, <2>6, <2>7, <2>8 DEF Next
<1>. QED  BY <1>1, SafeHolds, PTL DEF Spec, CancelledIsFinal
=============================================================================
