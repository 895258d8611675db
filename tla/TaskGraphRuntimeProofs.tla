---------------------- MODULE TaskGraphRuntimeProofs ----------------------
(***************************************************************************)
(* The type invariant, the exclusion of overlapping runs and the "one      *)
(* invocation per attempt" of a task graph, for every graph, every number  *)
(* of concurrent invocations of runTask and every bound.                   *)
(***************************************************************************)
EXTENDS TaskGraphProperties, ExecutionSubstrateProofs

-----------------------------------------------------------------------------
(* What a step leaves alone keeps its type *)

\* A step that keeps some variables keeps what only they bear on.
LEMMA KeptTypes ==
  ASSUME TypeOK
  PROVE  /\ UNCHANGED taskVars => TasksOK'
         /\ UNCHANGED nodeVars => NodesOK'
         /\ UNCHANGED <<runningTask, callPc, todo, marking>> => CallsOK'
         /\ UNCHANGED timer => (timer \in Timer)'
         /\ UNCHANGED flowVars => FlowsOK'
         /\ UNCHANGED userVars => UsersOK'
         /\ UNCHANGED worldVars => WorldOK'
         /\ UNCHANGED invoked => InvokedOK'
         /\ UNCHANGED substrateVars => SubstrateTypeOK'
<1>1. UNCHANGED <<runningTask, callPc, todo, marking>> => CallsOK'
  BY DEF TypeOK, CallsOK, TodoOK
<1>2. UNCHANGED substrateVars => SubstrateTypeOK'
  BY DEF TypeOK, substrateVars, SubstrateTypeOK
<1>. QED
  BY <1>1, <1>2 DEF TypeOK, TasksOK, NodesOK, FlowsOK, UsersOK, WorldOK, InvokedOK,
       taskVars, nodeVars, flowVars, userVars, worldVars

\* scheduleTask leaves a timer: the earlier one or the new one.
LEMMA WakeAtType ==
  ASSUME timer \in Timer, NEW jobs \in SUBSET (Nodes \X Attempts), NEW claims \in SUBSET Claim
  PROVE  WakeAt(jobs, claims) \in Timer
BY DEF WakeAt, Timer

\* No timer, and one that is due at once, are timers.
LEMMA ConstantTimers == NoTimer \in Timer /\ Soon \in Timer
BY DEF NoTimer, Soon, Timer

\* reconcileTaskTerminalState writes a task status and at most one waiting node.
LEMMA ReconcileTaskTypes ==
  ASSUME TypeOK, ReconcileTask  PROVE TasksOK'
BY DEF TypeOK, TasksOK, ReconcileTask, SetTask, TaskStatus

-----------------------------------------------------------------------------
(* executeNode *)

\* A step of a flow that writes its node and moves on.
LEMMA NodeWriteTypes ==
  ASSUME TypeOK, NEW n \in Nodes, NEW s \in NodeStatus, NEW r \in BOOLEAN,
         NEW g \in BOOLEAN, NEW a \in 0..MaxAttempt,
         nodeStatus' = [nodeStatus EXCEPT ![n] = s],
         retryable' = [retryable EXCEPT ![n] = r] \/ UNCHANGED retryable,
         approvalGranted' = [approvalGranted EXCEPT ![n] = g] \/ UNCHANGED approvalGranted,
         attempt' = [attempt EXCEPT ![n] = a] \/ UNCHANGED attempt
  PROVE  NodesOK'
BY DEF TypeOK, NodesOK

\* Where a flow may go.
LEMMA FlowMoveTypes ==
  ASSUME TypeOK, NEW n \in Nodes, NEW pc \in FlowPc, NEW a \in 0..MaxAttempt, NEW k \in Nat,
         Goto(n, pc),
         target' = [target EXCEPT ![n] = a] \/ UNCHANGED target,
         spentSeen' = [spentSeen EXCEPT ![n] = k] \/ UNCHANGED spentSeen
  PROVE  FlowsOK'
BY DEF TypeOK, FlowsOK, Goto

\* Every step of executeNode and handleNodeFailure keeps the types.
LEMMA FlowTypes ==
  ASSUME TypeOK, FlowAttempts, NEW n \in Nodes, ExecuteNode(n)
  PROVE  TypeOK'
<1>. USE AttemptBound
<1>0. /\ attempt[n] \in 0..MaxAttempt /\ target[n] \in 0..MaxAttempt
      /\ spentSeen[n] \in Nat /\ toolCalls \in Nat /\ epoch \in Nat
      /\ flowPc[n] \in UnderClaim \cup {"start"} => target[n] \in Attempts
  BY DEF TypeOK, NodesOK, FlowsOK, TasksOK, WorldOK, FlowAttempts, Attempts, UnderClaim
<1>. DEFINE Kept == /\ UNCHANGED taskVars => TasksOK'
                    /\ UNCHANGED nodeVars => NodesOK'
                    /\ UNCHANGED <<runningTask, callPc, todo, marking>> => CallsOK'
                    /\ UNCHANGED timer => (timer \in Timer)'
                    /\ UNCHANGED flowVars => FlowsOK'
                    /\ UNCHANGED userVars => UsersOK'
                    /\ UNCHANGED worldVars => WorldOK'
                    /\ UNCHANGED invoked => InvokedOK'
                    /\ UNCHANGED substrateVars => SubstrateTypeOK'
<1>k. Kept  BY KeptTypes
<1>. HIDE DEF Kept
<1>f. ASSUME NEW pc \in FlowPc, Goto(n, pc), UNCHANGED <<target, spentSeen>>
      PROVE  FlowsOK'
  BY <1>f, <1>0, FlowMoveTypes
<1>w. ASSUME NEW s \in NodeStatus, ClosedNode(n, s) \/ (SetNode(n, s) /\ UNCHANGED retryable),
             UNCHANGED <<attempt, approvalGranted>>
      PROVE  NodesOK'
  BY <1>w, <1>0, NodeWriteTypes DEF ClosedNode, SetNode
<1>1. ASSUME /\ ExecSkip(n) \/ ClaimRefused(n)
      PROVE  TypeOK'
  <2>1. FlowsOK'  BY <1>1, <1>f DEF ExecSkip, ClaimRefused, FlowPc
  <2>. QED  BY <1>1, <1>k, <2>1 DEF Kept, TypeOK, ExecSkip, ClaimRefused, KeepsStates,
         storeVars, callVars
<1>2. CASE ExecOverBudget(n)
  <2>1. FlowsOK'  BY <1>2, <1>f DEF ExecOverBudget, FlowPc
  <2>2. NodesOK'
    <3>1. CASE Kind[n] = "tool"
      <4>1. attempt[n] + 1 \in 0..MaxAttempt  BY <1>2, <1>0, <3>1 DEF ExecOverBudget
      <4>. QED  BY <1>2, <3>1, <4>1, NodeWriteTypes DEF ExecOverBudget, ClosedNode, SetNode,
             NodeStatus
    <3>2. CASE Kind[n] # "tool"
      BY <1>2, <3>2, <1>w DEF ExecOverBudget, NodeStatus
    <3>. QED  BY <3>1, <3>2
  <2>. QED  BY <1>2, <1>k, <2>1, <2>2 DEF Kept, TypeOK, ExecOverBudget, WritesNode, callVars
<1>3. CASE ExecPrepare(n)
  <2>1. attempt[n] + 1 \in 0..MaxAttempt  BY <1>3, <1>0 DEF ExecPrepare
  <2>2. FlowsOK'  BY <1>3, <1>0, <2>1, FlowMoveTypes DEF ExecPrepare, FlowPc
  <2>. QED  BY <1>3, <1>k, <2>2 DEF Kept, TypeOK, ExecPrepare, KeepsStates, storeVars, callVars
<1>4. ASSUME GateDenies(n) \/ GateAsksUser(n) \/ WorkDowngraded(n) \/ WorkAsksUser(n)
             \/ ReturnNeedsUser(n) \/ ReturnExhausted(n) \/ ReturnFatal(n)
      PROVE  TypeOK'
  <2>. USE DEF GateDenies, GateAsksUser, WorkDowngraded, WorkAsksUser, ReturnNeedsUser,
               ReturnExhausted, ReturnFatal
  <2>1. FlowsOK'  BY <1>4, <1>f DEF FlowPc
  <2>2. NodesOK'  BY <1>4, <1>w DEF NodeStatus
  <2>. QED  BY <1>4, <1>k, <2>1, <2>2 DEF Kept, TypeOK, WritesNode, callVars
<1>5. ASSUME GateDowngrades(n) \/ StartNode(n)
      PROVE  TypeOK'
  <2>1. FlowsOK'  BY <1>5, <1>f DEF GateDowngrades, StartNode, FlowPc
  <2>2. NodesOK'
    BY <1>5, <1>0, NodeWriteTypes DEF GateDowngrades, StartNode, ClosedNode, SetNode, NodeStatus
  <2>. QED
    BY <1>5, <1>k, <2>1, <2>2 DEF Kept, TypeOK, GateDowngrades, StartNode, WritesNode, callVars
<1>6. CASE ClaimUnit(n)
  <2>1. target[n] \in Attempts
    BY <1>6, <1>0 DEF ClaimUnit, FlowAttempts, Attempts, TypeOK, NodesOK
  <2>2. SubstrateTypeOK'  BY <1>6, <1>0, <2>1, ClaimExecutionUnitType DEF ClaimUnit, TypeOK
  <2>3. FlowsOK'  BY <1>6, <1>f DEF ClaimUnit, FlowPc
  <2>. QED  BY <1>6, <1>k, <2>2, <2>3 DEF Kept, TypeOK, ClaimUnit, KeepsStates, storeVars, callVars
<1>7. CASE ConsumeRetryJob(n)
  <2>1. target[n] \in Attempts  BY <1>7, <1>0 DEF ConsumeRetryJob, UnderClaim
  <2>2. SubstrateTypeOK'  BY <1>7, <2>1, MarkRetryJobCompletedType DEF ConsumeRetryJob, TypeOK
  <2>3. FlowsOK'  BY <1>7, <1>f DEF ConsumeRetryJob, FlowPc
  <2>. QED  BY <1>7, <1>k, <2>2, <2>3 DEF Kept, TypeOK, ConsumeRetryJob, KeepsStates, storeVars,
         callVars
<1>8. CASE Invoke(n)
  <2>1. target[n] \in Attempts  BY <1>8, <1>0 DEF Invoke, UnderClaim
  <2>2. InvokedOK'  BY <1>8, <2>1 DEF Invoke, InvokedOK, TypeOK
  <2>3. FlowsOK'  BY <1>8, <1>f DEF Invoke, FlowPc
  <2>. QED  BY <1>8, <1>k, <2>2, <2>3 DEF Kept, TypeOK, Invoke, KeepsStates, storeVars, callVars
<1>9. CASE ReturnOk(n)
  <2>1. FlowsOK'  BY <1>9, <1>0, FlowMoveTypes DEF ReturnOk, FlowPc
  <2>2. NodesOK'  BY <1>9, <1>0, NodeWriteTypes DEF ReturnOk, ClosedNode, SetNode, NodeStatus
  <2>. QED  BY <1>9, <1>k, <2>1, <2>2 DEF Kept, TypeOK, ReturnOk, WritesNode, callVars
<1>10. CASE ReturnRetryable(n)
  <2>1. FlowsOK'  BY <1>10, <1>f DEF ReturnRetryable, FlowPc
  <2>2. NodesOK'  BY <1>10, <1>0, NodeWriteTypes DEF ReturnRetryable, SetNode, NodeStatus
  <2>. QED  BY <1>10, <1>k, <2>1, <2>2 DEF Kept, TypeOK, ReturnRetryable, WritesNode, callVars
<1>11. CASE ScheduleRetry(n)
  <2>1. target[n] + 1 \in Attempts
    BY <1>11, <1>0, LimitAssumption DEF ScheduleRetry, FlowAttempts, Attempts
  <2>2. SubstrateTypeOK'
    BY <1>11, <2>1, SetJobType DEF ScheduleRetry, ScheduleRetryJob, JobStatus, TypeOK
  <2>3. FlowsOK'  BY <1>11, <1>f DEF ScheduleRetry, FlowPc
  <2>. QED  BY <1>11, <1>k, <2>2, <2>3 DEF Kept, TypeOK, ScheduleRetry, KeepsStates, storeVars,
         callVars
<1>12. CASE DeadLetter(n)
  <2>1. target[n] \in Attempts  BY <1>12, <1>0 DEF DeadLetter, UnderClaim
  <2>2. SubstrateTypeOK'  BY <1>12, <2>1, RecordDeadLetterType DEF DeadLetter, TypeOK
  <2>3. FlowsOK'  BY <1>12, <1>f DEF DeadLetter, FlowPc
  <2>. QED  BY <1>12, <1>k, <2>2, <2>3 DEF Kept, TypeOK, DeadLetter, KeepsStates, storeVars,
         callVars
<1>13. ASSUME TaskWaits(n) \/ TaskRuns(n)
       PROVE  TypeOK'
  <2>1. FlowsOK'  BY <1>13, <1>f DEF TaskWaits, TaskRuns, FlowPc
  <2>2. TasksOK'  BY <1>13 DEF TaskWaits, TaskRuns, SetTask, TypeOK, TasksOK, TaskStatus
  <2>. QED  BY <1>13, <1>k, <2>1, <2>2 DEF Kept, TypeOK, TaskWaits, TaskRuns, callVars
<1>14. CASE Commit(n)
  <2>1. FlowsOK'  BY <1>14, <1>0, FlowMoveTypes DEF Commit, FlowPc
  <2>2. TasksOK'  BY <1>14, <1>0 DEF Commit, TypeOK, TasksOK, TaskStatus
  <2>. QED  BY <1>14, <1>k, <2>1, <2>2 DEF Kept, TypeOK, Commit, callVars
<1>15. CASE Release(n)
  <2>1. target[n] \in Attempts  BY <1>15, <1>0 DEF Release, UnderClaim
  <2>2. SubstrateTypeOK'  BY <1>15, <1>0, <2>1, ReleaseClaimType DEF Release, TypeOK
  <2>3. FlowsOK'  BY <1>15, <1>f DEF Release, AfterRelease, FlowPc
  <2>. QED  BY <1>15, <1>k, <2>2, <2>3 DEF Kept, TypeOK, Release, KeepsStates, storeVars, callVars
<1>17. CASE WakeForRetry(n)
  <2>1. target[n] + 1 \in Attempts
    BY <1>17, <1>0, LimitAssumption DEF WakeForRetry, FlowAttempts, Attempts
  <2>2. (timer \in Timer)'  BY <1>17, <2>1, WakeAtType DEF WakeForRetry, TypeOK
  <2>3. FlowsOK'  BY <1>17, <1>f DEF WakeForRetry, FlowPc
  <2>. QED  BY <1>17, <1>k, <2>2, <2>3 DEF Kept, TypeOK, WakeForRetry, KeepsStates, storeVars
<1>16. CASE ReconcileFailure(n)
  <2>1. FlowsOK'  BY <1>16, <1>f DEF ReconcileFailure, FlowPc
  <2>2. TasksOK'  BY <1>16, ReconcileTaskTypes DEF ReconcileFailure
  <2>. QED  BY <1>16, <1>k, <2>1, <2>2 DEF Kept, TypeOK, ReconcileFailure, callVars
<1>. QED
  BY <1>1, <1>2, <1>3, <1>4, <1>5, <1>6, <1>7, <1>8, <1>9, <1>10, <1>11, <1>12, <1>13,
     <1>14, <1>15, <1>16, <1>17 DEF ExecuteNode

-----------------------------------------------------------------------------
(* runTask *)

\* An invocation moves on with what it has left to do.
LEMMA MoveCallTypes ==
  ASSUME TypeOK, NEW c \in Callers, NEW pc \in CallPc, NEW left, MoveCall(c, pc, left),
         pc = "expire" => left \subseteq Claim,
         pc \in {"renode", "jobs", "remark"} => left \subseteq Nodes \X Attempts,
         pc \in {"plan", "downgrade", "downgraded", "wait"} => left \subseteq Nodes,
         runningTask' \in BOOLEAN,
         UNCHANGED marking \/ \E m \in SUBSET (Nodes \X Attempts) : marking' = [marking EXCEPT ![c] = m]
  PROVE  CallsOK'
<1>. USE DEF TypeOK, CallsOK, MoveCall
<1>1. /\ callPc' \in [Callers -> CallPc]
      /\ todo' = [d \in Callers |-> todo'[d]]
      /\ marking' \in [Callers -> SUBSET (Nodes \X Attempts)]
  OBVIOUS
<1>2. ASSUME NEW d \in Callers  PROVE TodoOK(d)'
  <2>1. CASE d = c   BY <2>1 DEF TodoOK
  <2>2. CASE d # c
    <3>1. callPc'[d] = callPc[d] /\ todo'[d] = todo[d]  BY <2>2
    <3>. QED  BY <3>1 DEF TodoOK
  <2>. QED  BY <2>1, <2>2
<1>. QED  BY <1>1, <1>2

\* Every step of runTask, its recovery, its requeueing and its timers keeps the types.
LEMMA RunTypes ==
  ASSUME TypeOK, NEW c \in Callers, RunTask(c)
  PROVE  TypeOK'
<1>. DEFINE Kept == /\ UNCHANGED taskVars => TasksOK'
                    /\ UNCHANGED nodeVars => NodesOK'
                    /\ UNCHANGED timer => (timer \in Timer)'
                    /\ UNCHANGED flowVars => FlowsOK'
                    /\ UNCHANGED userVars => UsersOK'
                    /\ UNCHANGED worldVars => WorldOK'
                    /\ UNCHANGED invoked => InvokedOK'
                    /\ UNCHANGED substrateVars => SubstrateTypeOK'
<1>k. Kept  BY KeptTypes
<1>. HIDE DEF Kept
<1>0. /\ runningTask \in BOOLEAN /\ (UNCHANGED runningTask => runningTask' \in BOOLEAN)
      /\ todo[c] \subseteq todo[c] /\ TodoOK(c) /\ callPc[c] \in CallPc
      /\ marking[c] \subseteq Nodes \X Attempts
      /\ staleClaims \subseteq Claim /\ executionClaims \subseteq Claim
  BY DEF TypeOK, CallsOK, SubstrateTypeOK
<1>r. \A s \in SUBSET JobStatus : JobsWith(s) \subseteq Nodes \X Attempts
  BY DEF JobsWith
<1>j. callPc[c] \in {"requeue", "jobs"} => JobsLeft(c) \subseteq Nodes \X Attempts
  BY <1>0, <1>r DEF JobsLeft, DueRetryJobs, TodoOK, JobStatus
<1>p. callPc[c] \in {"plan", "downgrade", "downgraded"} => todo[c] \subseteq Nodes
  BY <1>0 DEF TodoOK
<1>1. CASE TimerFires(c) \/ RunRequested(c) \/ Poll(c)
  <2>1. EnterRun(c) /\ (timer' = NoTimer \/ UNCHANGED timer)
    BY <1>1 DEF TimerFires, RunRequested, Poll
  <2>2. (timer \in Timer)'  BY <2>1, ConstantTimers DEF TypeOK
  <2>3. CallsOK'            BY <2>1, <1>0, MoveCallTypes DEF EnterRun, CallPc
  <2>. QED  BY <2>1, <2>2, <2>3, <1>k DEF Kept, EnterRun, TypeOK, storeVars
<1>13. CASE ExpireClaim(c)
  <2>1. PICK claim \in todo[c] :
          /\ RecoverStaleClaim(claim)
          /\ \/ /\ MoveCall(c, "renode", marking[c] \cup UnitsOf({claim}))
                /\ marking' = [marking EXCEPT ![c] = {}]
             \/ /\ MoveCall(c, "expire", todo[c] \ {claim})
                /\ marking' = [marking EXCEPT ![c] = marking[c] \cup UnitsOf({claim})]
    BY <1>13 DEF ExpireClaim
  <2>2. todo[c] \subseteq Claim  BY <1>13, <1>0 DEF ExpireClaim, TodoOK
  <2>3. marking[c] \cup UnitsOf({claim}) \in SUBSET (Nodes \X Attempts)
    BY <2>1, <2>2, <1>0 DEF UnitsOf, Claim
  <2>4. CallsOK'
    <3>1. {} \in SUBSET (Nodes \X Attempts) /\ todo[c] \ {claim} \subseteq Claim  BY <2>2
    <3>. QED  BY <1>13, <2>1, <2>3, <3>1, <1>0, MoveCallTypes DEF ExpireClaim, CallPc
  <2>5. SubstrateTypeOK'  BY <2>1, RecoverStaleClaimType DEF TypeOK
  <2>. QED  BY <1>13, <2>4, <2>5, <1>k DEF Kept, ExpireClaim, TypeOK, storeVars
<1>2. CASE RecoverNode(c)
  <2>1. PICK unit \in todo[c] :
          /\ IF nodeStatus[unit[1]] \in {"RUNNING", "PENDING"}
               THEN ClosedNode(unit[1], "PENDING")
               ELSE UNCHANGED <<nodeStatus, retryable>>
          /\ MoveCall(c, IF todo[c] = {unit} THEN "requeue" ELSE "renode", todo[c] \ {unit})
    BY <1>2 DEF RecoverNode
  <2>2. CallsOK'
    BY <1>2, <2>1, <1>0, MoveCallTypes DEF RecoverNode, TodoOK, CallPc
  <2>3. NodesOK'
    <3>1. unit[1] \in Nodes  BY <1>2, <2>1, <1>0 DEF RecoverNode, TodoOK
    <3>. QED
      BY <1>2, <2>1, <3>1 DEF RecoverNode, ClosedNode, SetNode, TypeOK, NodesOK, NodeStatus
  <2>. QED  BY <1>2, <2>2, <2>3, <1>k DEF Kept, RecoverNode, TypeOK, taskVars
<1>3. CASE RequeueDueJob(c)
  <2>1. PICK job \in JobsLeft(c) :
          \/ /\ SetNode(job[1], "PENDING")
             /\ retryable' = [retryable EXCEPT ![job[1]] = FALSE]
             /\ MoveCall(c, "remark", JobsLeft(c) \ {job})
             /\ marking' = [marking EXCEPT ![c] = {job}]
             /\ UNCHANGED substrateVars
          \/ /\ SetJob(job[1], job[2], "COMPLETED") \/ UNCHANGED substrateVars
             /\ MoveCall(c, "jobs", JobsLeft(c) \ {job})
             /\ UNCHANGED <<nodeStatus, retryable, marking>>
    BY <1>3 DEF RequeueDueJob
  <2>2. job \in Nodes \X Attempts  BY <1>3, <1>j DEF RequeueDueJob
  <2>3. job[1] \in Nodes /\ job[2] \in Attempts  BY <2>2
  <2>4. CallsOK'
    <3>1. JobsLeft(c) \ {job} \subseteq Nodes \X Attempts  BY <1>3, <1>j DEF RequeueDueJob
    <3>2. {job} \in SUBSET (Nodes \X Attempts)  BY <2>2
    <3>. QED  BY <1>3, <2>1, <3>1, <3>2, <1>0, MoveCallTypes DEF RequeueDueJob, CallPc
  <2>5. NodesOK'
    BY <1>3, <2>1, <2>3 DEF RequeueDueJob, SetNode, TypeOK, NodesOK, NodeStatus
  <2>6. SubstrateTypeOK'
    <3>1. CASE UNCHANGED substrateVars  BY <3>1, <1>k DEF Kept
    <3>2. CASE SetJob(job[1], job[2], "COMPLETED")
      BY <3>2, <2>3, SetJobType DEF TypeOK, JobStatus
    <3>. QED  BY <2>1, <3>1, <3>2
  <2>. QED  BY <1>3, <2>4, <2>5, <2>6, <1>k DEF Kept, RequeueDueJob, TypeOK, taskVars
<1>4. CASE MarkRequeued(c)
  <2>1. PICK job \in marking[c] : SetJob(job[1], job[2], "REQUEUED")
    BY <1>4 DEF MarkRequeued
  <2>2. job[1] \in Nodes /\ job[2] \in Attempts  BY <1>0
  <2>3. SubstrateTypeOK'  BY <2>1, <2>2, SetJobType DEF TypeOK, JobStatus
  <2>4. CallsOK'
    <3>1. marking' = [marking EXCEPT ![c] = {}] /\ {} \in SUBSET (Nodes \X Attempts)
      BY <1>4 DEF MarkRequeued
    <3>. QED  BY <1>4, <3>1, <1>0, MoveCallTypes DEF MarkRequeued, TodoOK, CallPc
  <2>. QED  BY <1>4, <2>3, <2>4, <1>k DEF Kept, MarkRequeued, TypeOK, storeVars
<1>5. CASE PassGuard(c)
  <2>1. DowngradableTools \subseteq Nodes  BY DEF DowngradableTools, Runnable
  <2>2. CallsOK'  BY <1>5, <2>1, <1>0, MoveCallTypes DEF PassGuard, CallPc
  <2>3. (timer \in Timer)'  BY <1>5, ConstantTimers DEF PassGuard, TypeOK
  <2>. QED  BY <1>5, <2>2, <2>3, <1>k DEF Kept, PassGuard, TypeOK, storeVars
<1>6. CASE FailExpiredTask(c) \/ FailExpiredClaims(c)
  <2>1. CallsOK'
    BY <1>6, <1>0, MoveCallTypes DEF FailExpiredTask, FailExpiredClaims, CallPc
  <2>2. SubstrateTypeOK'
    BY <1>6, CancelPendingRetryJobsType, ReleaseActiveClaimsType
    DEF FailExpiredTask, FailExpiredClaims, TypeOK
  <2>. QED
    BY <1>6, <2>1, <2>2, <1>k DEF Kept, FailExpiredTask, FailExpiredClaims, TypeOK, storeVars
<1>7. CASE FailExpiredEnd(c) \/ DowngradeToolEnd(c)
  <2>. USE DEF FailExpiredEnd, DowngradeToolEnd
  <2>1. CallsOK'  BY <1>7, <1>0, <1>p, MoveCallTypes DEF CallPc
  <2>2. TasksOK'  BY <1>7 DEF SetTask, TypeOK, TasksOK, TaskStatus
  <2>. QED  BY <1>7, <2>1, <2>2, <1>k DEF Kept, TypeOK, nodeVars
<1>8. CASE DowngradeTool(c)
  <2>1. PICK n \in todo[c] :
          /\ attempt[n] < MaxAttempt
          /\ SetNode(n, "SUCCEEDED")
          /\ attempt' = [attempt EXCEPT ![n] = @ + 1]
          /\ retryable' = [retryable EXCEPT ![n] = FALSE]
          /\ MoveCall(c, "downgraded", todo[c] \ {n})
    BY <1>8 DEF DowngradeTool
  <2>2. todo[c] \subseteq Nodes  BY <1>8, <1>p DEF DowngradeTool, Planning
  <2>3. CallsOK'  BY <1>8, <2>1, <2>2, <1>0, MoveCallTypes DEF DowngradeTool, CallPc
  <2>4. NodesOK'
    <3>1. n \in Nodes /\ attempt[n] \in 0..MaxAttempt  BY <2>2 DEF TypeOK, NodesOK
    <3>2. attempt[n] + 1 \in 0..MaxAttempt  BY <2>1, <3>1, AttemptBound
    <3>. QED  BY <1>8, <2>1, <3>1, <3>2, NodeWriteTypes DEF DowngradeTool, SetNode, NodeStatus
  <2>. QED  BY <1>8, <2>3, <2>4, <1>k DEF Kept, DowngradeTool, TypeOK, taskVars
<1>9. CASE Dispatch(c)
  <2>1. PICK batch \in SUBSET Runnable :
          /\ MoveCall(c, "wait", batch)
          /\ flowPc' = [n \in Nodes |-> IF n \in batch THEN "check" ELSE flowPc[n]]
    BY <1>9 DEF Dispatch
  <2>2. CallsOK'
    <3>1. batch \subseteq Nodes  BY <2>1 DEF Runnable
    <3>. QED  BY <1>9, <2>1, <3>1, <1>0, MoveCallTypes DEF Dispatch, CallPc
  <2>3. TasksOK'  BY <1>9 DEF Dispatch, SetTask, TypeOK, TasksOK, TaskStatus
  <2>4. FlowsOK'  BY <1>9, <2>1 DEF Dispatch, TypeOK, FlowsOK, FlowPc
  <2>. QED  BY <1>9, <2>2, <2>3, <2>4, <1>k DEF Kept, Dispatch, TypeOK, nodeVars
<1>10. CASE ReconcileRun(c)
  <2>1. CallsOK'  BY <1>10, <1>0, MoveCallTypes DEF ReconcileRun, CallPc
  <2>2. TasksOK'  BY <1>10, ReconcileTaskTypes DEF ReconcileRun
  <2>. QED  BY <1>10, <2>1, <2>2, <1>k DEF Kept, ReconcileRun, TypeOK, nodeVars
<1>11. CASE FollowUp(c)
  <2>1. CallsOK'  BY <1>11, <1>0, MoveCallTypes DEF FollowUp, CallPc
  <2>2. (timer \in Timer)'
    <3>1. WakeAt(JobsWith({"SCHEDULED"}), executionClaims \ staleClaims) \in Timer
      BY <1>0, <1>r, WakeAtType DEF TypeOK, JobStatus
    <3>. QED  BY <1>11, <3>1, ConstantTimers DEF FollowUp, TypeOK
  <2>. QED  BY <1>11, <2>1, <2>2, <1>k DEF Kept, FollowUp, TypeOK, storeVars
<1>12. CASE FinishRun(c)
  <2>1. CallsOK'  BY <1>12, <1>0, MoveCallTypes DEF FinishRun, CallPc
  <2>. QED  BY <1>12, <2>1, <1>k DEF Kept, FinishRun, TypeOK, storeVars
<1>. QED
  BY <1>1, <1>2, <1>3, <1>4, <1>5, <1>6, <1>7, <1>8, <1>9, <1>10, <1>11, <1>12, <1>13
  DEF RunTask, RunSteps

-----------------------------------------------------------------------------
(* The user, time and crashes *)

\* Approvals, cancellations, crashes, heartbeats and time keep the types.
LEMMA WorldTypes ==
  ASSUME TypeOK, UserRequests \/ UserSteps \/ Time \/ Crash
  PROVE  TypeOK'
<1>. DEFINE Kept == /\ UNCHANGED taskVars => TasksOK'
                    /\ UNCHANGED nodeVars => NodesOK'
                    /\ UNCHANGED <<runningTask, callPc, todo, marking>> => CallsOK'
                    /\ UNCHANGED timer => (timer \in Timer)'
                    /\ UNCHANGED flowVars => FlowsOK'
                    /\ UNCHANGED userVars => UsersOK'
                    /\ UNCHANGED worldVars => WorldOK'
                    /\ UNCHANGED invoked => InvokedOK'
                    /\ UNCHANGED substrateVars => SubstrateTypeOK'
<1>k. Kept  BY KeptTypes
<1>. HIDE DEF Kept
<1>u. UsersOK /\ TasksOK  BY DEF TypeOK
<1>1. ASSUME NEW n \in Nodes, NEW g \in BOOLEAN, ApproveNode(n, g)
      PROVE  TypeOK'
  <2>1. NodesOK'
    <3>1. attempt[n] \in 0..MaxAttempt  BY DEF TypeOK, NodesOK
    <3>. QED  BY <1>1, <3>1, NodeWriteTypes DEF ApproveNode, ClosedNode, SetNode, NodeStatus
  <2>2. UsersOK'  BY <1>1, <1>u DEF ApproveNode, UsersOK
  <2>. QED  BY <1>1, <2>1, <2>2, <1>k DEF Kept, ApproveNode, KeepsRun, TypeOK, callVars
<1>2. CASE ApproveTask
  <2>1. TasksOK'  BY <1>2, <1>u DEF ApproveTask, SetTask, TasksOK, TaskStatus, taskVars
  <2>2. UsersOK'  BY <1>2, <1>u DEF ApproveTask, UsersOK
  <2>3. (timer \in Timer)'  BY <1>2, ConstantTimers DEF ApproveTask
  <2>. QED  BY <1>2, <2>1, <2>2, <2>3, <1>k DEF Kept, ApproveTask, TypeOK
<1>3. CASE CancelStart
  <2>1. UsersOK'  BY <1>3, <1>u DEF CancelStart, UsersOK
  <2>. QED  BY <1>3, <2>1, <1>k DEF Kept, CancelStart, KeepsRun, TypeOK, storeVars, callVars
<1>4. CASE CancelNode
  <2>1. PICK n \in toCancel : ClosedNode(n, "CANCELLED") /\ toCancel' = toCancel \ {n}
    BY <1>4 DEF CancelNode
  <2>2. n \in Nodes  BY <2>1, <1>u DEF UsersOK
  <2>3. NodesOK'
    BY <1>4, <2>1, <2>2 DEF CancelNode, ClosedNode, SetNode, TypeOK, NodesOK, NodeStatus
  <2>4. UsersOK'  BY <1>4, <2>1, <1>u DEF CancelNode, UsersOK
  <2>. QED  BY <1>4, <2>3, <2>4, <1>k DEF Kept, CancelNode, KeepsRun, TypeOK, callVars
<1>5. CASE CancelJobs \/ CancelClaims
  <2>1. UsersOK'  BY <1>5, <1>u DEF CancelJobs, CancelClaims, UsersOK
  <2>2. SubstrateTypeOK'
    BY <1>5, CancelPendingRetryJobsType, ReleaseActiveClaimsType
    DEF CancelJobs, CancelClaims, TypeOK
  <2>. QED
    BY <1>5, <2>1, <2>2, <1>k
    DEF Kept, CancelJobs, CancelClaims, KeepsRun, TypeOK, storeVars, callVars
<1>6. CASE CancelTask
  <2>1. UsersOK'  BY <1>6, <1>u DEF CancelTask, UsersOK
  <2>2. TasksOK'  BY <1>6, <1>u DEF CancelTask, SetTask, TasksOK, TaskStatus
  <2>. QED  BY <1>6, <2>1, <2>2, <1>k DEF Kept, CancelTask, KeepsRun, TypeOK, callVars
<1>7. CASE Time
  <2>1. /\ KeepsProgram
        /\ \/ /\ \/ \E n \in Nodes, a \in Attempts : BackoffElapses(n, a)
                 \/ \E c \in executionClaims : LeaseExpires(c) \/ HeartbeatClaim(c)
              /\ UNCHANGED worldVars
           \/ UNCHANGED <<epoch, substrateVars>> /\ \E d \in Deadlines : elapsed' = elapsed \cup {d}
    BY <1>7 DEF Time, Backoff, Lease, Heartbeat, DeadlinePasses
  <2>2. SubstrateTypeOK'  BY <2>1, <1>k, TimeType DEF Kept, TypeOK
  <2>3. WorldOK'  BY <2>1, <1>k DEF Kept, TypeOK, WorldOK
  <2>. QED  BY <2>1, <2>2, <2>3, <1>k DEF Kept, KeepsProgram, TypeOK, storeVars, callVars
<1>8. CASE Crash
  <2>1. CallsOK'  BY <1>8 DEF Crash, CallsOK, TodoOK, CallPc
  <2>2. FlowsOK'  BY <1>8 DEF Crash, TypeOK, FlowsOK, FlowPc
  <2>3. UsersOK'  BY <1>8, <1>u DEF Crash, UsersOK
  <2>4. WorldOK'  BY <1>8 DEF Crash, TypeOK, WorldOK
  <2>5. (timer \in Timer)'  BY <1>8, ConstantTimers DEF Crash
  <2>. QED  BY <1>8, <2>1, <2>2, <2>3, <2>4, <2>5, <1>k DEF Kept, Crash, TypeOK, storeVars
<1>. QED
  BY <1>1, <1>2, <1>3, <1>4, <1>5, <1>6, <1>7, <1>8 DEF UserRequests, UserSteps

\* A task just created by createTask is well typed.
LEMMA InitTypes == ASSUME Init  PROVE TypeOK
<1>. USE DEF Init
<1>1. TasksOK     BY DEF TasksOK, TaskStatus
<1>2. NodesOK     BY AttemptBound DEF NodesOK, NodeStatus
<1>3. CallsOK     BY DEF CallsOK, TodoOK, CallPc
<1>4. timer \in Timer  BY ConstantTimers
<1>5. FlowsOK     BY AttemptBound DEF FlowsOK, FlowPc
<1>6. UsersOK /\ WorldOK /\ InvokedOK  BY DEF UsersOK, WorldOK, InvokedOK
<1>7. SubstrateTypeOK  BY DEF SubstrateInit, SubstrateTypeOK, JobStatus, UnitStatus
<1>. QED  BY <1>1, <1>2, <1>3, <1>4, <1>5, <1>6, <1>7 DEF TypeOK

\* No step of the runtime leaves the types.
LEMMA NextTypes ==
  ASSUME TypeOK, FlowAttempts, [Next]_vars
  PROVE  TypeOK'
<1>1. CASE UNCHANGED vars
  BY <1>1, KeptTypes DEF TypeOK, vars, storeVars, callVars
<1>. QED  BY <1>1, FlowTypes, RunTypes, WorldTypes DEF Next

-----------------------------------------------------------------------------
(* What a flow touches *)

\* A step of executeNode belongs to a flow in progress, and moves no other flow,
\* no other node's attempt and no invocation of runTask.
LEMMA FlowShape ==
  ASSUME TypeOK, NEW n \in Nodes, ExecuteNode(n)
  PROVE  /\ flowPc[n] # "idle"
         /\ UNCHANGED <<runningTask, callPc, todo>>
         /\ \A m \in Nodes \ {n} :
              /\ flowPc'[m] = flowPc[m] /\ target'[m] = target[m]
              /\ attempt'[m] = attempt[m] /\ invoked'[m] = invoked[m]
<1>. USE DEF TypeOK, NodesOK, FlowsOK, InvokedOK, Goto, KeepsStates, WritesNode,
             storeVars, nodeVars, callVars
<1>1. CASE \/ ExecSkip(n) \/ ExecOverBudget(n) \/ ExecPrepare(n) \/ GateDenies(n)
           \/ GateDowngrades(n) \/ GateAsksUser(n) \/ ClaimRefused(n)
  BY <1>1 DEF ExecSkip, ExecOverBudget, ExecPrepare, GateDenies, GateDowngrades, GateAsksUser,
       ClaimRefused
<1>2. CASE \/ ClaimUnit(n) \/ StartNode(n) \/ ConsumeRetryJob(n) \/ WorkDowngraded(n)
           \/ WorkAsksUser(n) \/ Invoke(n)
  BY <1>2 DEF ClaimUnit, StartNode, ConsumeRetryJob, WorkDowngraded, WorkAsksUser, Invoke
<1>3. CASE \/ ReturnOk(n) \/ ReturnNeedsUser(n) \/ ReturnRetryable(n) \/ ReturnExhausted(n)
           \/ ReturnFatal(n)
  BY <1>3 DEF ReturnOk, ReturnNeedsUser, ReturnRetryable, ReturnExhausted, ReturnFatal
<1>4. CASE \/ ScheduleRetry(n) \/ DeadLetter(n) \/ TaskWaits(n) \/ TaskRuns(n)
           \/ Commit(n) \/ Release(n) \/ WakeForRetry(n) \/ ReconcileFailure(n)
  BY <1>4 DEF ScheduleRetry, DeadLetter, TaskWaits, TaskRuns, Commit, Release, WakeForRetry,
       ReconcileFailure
<1>. QED  BY <1>1, <1>2, <1>3, <1>4 DEF ExecuteNode

\* The user, time and a stutter move neither flows nor invocations.
LEMMA WorldShape ==
  ASSUME UserRequests \/ UserSteps \/ Time \/ UNCHANGED vars
  PROVE  UNCHANGED <<runningTask, callPc, todo, flowPc, target, attempt, invoked>>
<1>. USE DEF KeepsRun, KeepsProgram, callVars, flowVars, nodeVars, storeVars
<1>1. CASE UserRequests  BY <1>1 DEF UserRequests, CancelStart, ApproveNode
<1>2. CASE UserSteps
  BY <1>2 DEF UserSteps, ApproveTask, CancelNode, CancelJobs, CancelClaims, CancelTask
<1>3. CASE Time  BY <1>3 DEF Time, Backoff, Lease, Heartbeat, DeadlinePasses
<1>4. CASE UNCHANGED vars  BY <1>4 DEF vars
<1>. QED  BY <1>1, <1>2, <1>3, <1>4

-----------------------------------------------------------------------------
(* Overlapping runs *)

Owned == RunExclusive /\ FlowOwned

\* The four ways an invocation moves with respect to runningTaskIds: within the
\* guarded part, outside of it, through the test, out of the finally block.
LEMMA MoveKeepsOwned ==
  ASSUME TypeOK, Owned, NEW c \in Callers, NEW pc, NEW left, MoveCall(c, pc, left),
         UNCHANGED flowPc,
         callPc[c] = "wait" => \A n \in todo[c] : flowPc[n] = "idle",
         \/ callPc[c] \in Guarded /\ pc \in Guarded /\ UNCHANGED runningTask
         \/ callPc[c] \notin Guarded /\ pc \notin Guarded /\ UNCHANGED runningTask
         \/ callPc[c] \notin Guarded /\ pc \in Guarded /\ ~runningTask /\ runningTask' = TRUE
         \/ callPc[c] \in Guarded /\ pc \notin Guarded /\ runningTask' = FALSE
  PROVE  Owned'
<1>1. /\ callPc'[c] = pc
      /\ \A d \in Callers \ {c} : callPc'[d] = callPc[d] /\ todo'[d] = todo[d]
  BY DEF MoveCall, TypeOK, CallsOK
<1>2. FlowOwned'
  <2>1. SUFFICES ASSUME NEW n \in Nodes, flowPc[n] # "idle"
                 PROVE  \E d \in Callers : callPc'[d] = "wait" /\ n \in todo'[d]
    BY DEF FlowOwned
  <2>2. PICK d \in Callers : callPc[d] = "wait" /\ n \in todo[d]
    BY <2>1 DEF Owned, FlowOwned
  <2>3. d # c  BY <2>1, <2>2
  <2>. QED  BY <1>1, <2>2, <2>3
<1>3. \A d \in Callers : callPc[d] = "wait" => callPc[d] \in Guarded
  BY DEF Guarded
<1>4. RunExclusive'
  <2>1. CASE UNCHANGED runningTask /\ (callPc[c] \in Guarded <=> pc \in Guarded)
    <3>1. \A d \in Callers : callPc'[d] \in Guarded <=> callPc[d] \in Guarded
      BY <2>1, <1>1
    <3>. QED  BY <2>1, <3>1 DEF Owned, RunExclusive, FlowsIdle
  <2>2. CASE callPc[c] \notin Guarded /\ pc \in Guarded /\ ~runningTask /\ runningTask' = TRUE
    BY <2>2, <1>1 DEF Owned, RunExclusive, FlowsIdle
  <2>3. CASE callPc[c] \in Guarded /\ pc \notin Guarded /\ runningTask' = FALSE
    <3>1. FlowsIdle
      <4>1. SUFFICES ASSUME NEW n \in Nodes, flowPc[n] # "idle"  PROVE FALSE
        BY DEF FlowsIdle
      <4>2. PICK d \in Callers : callPc[d] = "wait" /\ n \in todo[d]
        BY <4>1 DEF Owned, FlowOwned
      <4>3. d = c  BY <4>2, <2>3, <1>3 DEF Owned, RunExclusive
      <4>. QED  BY <4>1, <4>2, <4>3
    <3>. QED  BY <2>3, <3>1, <1>1 DEF Owned, RunExclusive, FlowsIdle
  <2>. QED  BY <2>1, <2>2, <2>3
<1>. QED  BY <1>2, <1>4 DEF Owned

\* Every step of runTask keeps the exclusion and each flow under its invocation.
LEMMA RunOwned ==
  ASSUME TypeOK, Owned, NEW c \in Callers, RunTask(c)
  PROVE  Owned'
<1>. USE DEF Guarded, flowVars
<1>1. CASE \/ TimerFires(c) \/ RunRequested(c) \/ Poll(c) \/ MarkRequeued(c)
           \/ FailExpiredTask(c) \/ FailExpiredClaims(c) \/ FailExpiredEnd(c)
           \/ DowngradeToolEnd(c) \/ FollowUp(c) \/ FinishRun(c)
  <2>1. \E pc, left :
          /\ MoveCall(c, pc, left) /\ UNCHANGED flowPc /\ callPc[c] # "wait"
          /\ \/ callPc[c] \in Guarded /\ pc \in Guarded /\ UNCHANGED runningTask
             \/ callPc[c] \notin Guarded /\ pc \notin Guarded /\ UNCHANGED runningTask
             \/ callPc[c] \in Guarded /\ pc \notin Guarded /\ runningTask' = FALSE
    <3>1. CASE TimerFires(c) \/ RunRequested(c) \/ Poll(c)
      BY <3>1 DEF TimerFires, RunRequested, Poll, EnterRun
    <3>2. CASE MarkRequeued(c)       BY <3>2 DEF MarkRequeued
    <3>3. CASE FailExpiredTask(c)    BY <3>3 DEF FailExpiredTask
    <3>4. CASE FailExpiredClaims(c)  BY <3>4 DEF FailExpiredClaims
    <3>5. CASE FailExpiredEnd(c)     BY <3>5 DEF FailExpiredEnd
    <3>6. CASE DowngradeToolEnd(c)   BY <3>6 DEF DowngradeToolEnd
    <3>7. CASE FollowUp(c)           BY <3>7 DEF FollowUp
    <3>8. CASE FinishRun(c)          BY <3>8 DEF FinishRun
    <3>. QED  BY <1>1, <3>1, <3>2, <3>3, <3>4, <3>5, <3>6, <3>7, <3>8
  <2>. QED  BY <2>1, MoveKeepsOwned
<1>8. CASE ExpireClaim(c)
  <2>1. PICK claim \in todo[c] : \/ MoveCall(c, "renode", marking[c] \cup UnitsOf({claim}))
                                \/ MoveCall(c, "expire", todo[c] \ {claim})
    BY <1>8 DEF ExpireClaim
  <2>. QED  BY <1>8, <2>1, MoveKeepsOwned DEF ExpireClaim
<1>2. CASE RecoverNode(c)
  <2>1. PICK unit \in todo[c] :
          MoveCall(c, IF todo[c] = {unit} THEN "requeue" ELSE "renode", todo[c] \ {unit})
    BY <1>2 DEF RecoverNode
  <2>. QED  BY <1>2, <2>1, MoveKeepsOwned DEF RecoverNode
<1>3. CASE RequeueDueJob(c)
  <2>1. PICK job \in JobsLeft(c) :
          MoveCall(c, "remark", JobsLeft(c) \ {job}) \/ MoveCall(c, "jobs", JobsLeft(c) \ {job})
    BY <1>3 DEF RequeueDueJob
  <2>. QED  BY <1>3, <2>1, MoveKeepsOwned DEF RequeueDueJob
<1>4. CASE PassGuard(c)
  <2>1. CASE MoveCall(c, "idle", {}) /\ UNCHANGED runningTask
    BY <1>4, <2>1, MoveKeepsOwned DEF PassGuard
  <2>2. CASE ~runningTask /\ runningTask' = TRUE /\ MoveCall(c, "plan", DowngradableTools)
    BY <1>4, <2>2, MoveKeepsOwned DEF PassGuard
  <2>. QED  BY <1>4, <2>1, <2>2 DEF PassGuard
<1>5. CASE DowngradeTool(c)
  <2>1. PICK n \in todo[c] : MoveCall(c, "downgraded", todo[c] \ {n})
    BY <1>5 DEF DowngradeTool
  <2>. QED  BY <1>5, <2>1, MoveKeepsOwned DEF DowngradeTool, Planning
<1>6. CASE Dispatch(c)
  <2>1. PICK batch \in SUBSET Runnable :
          /\ MoveCall(c, "wait", batch)
          /\ flowPc' = [n \in Nodes |-> IF n \in batch THEN "check" ELSE flowPc[n]]
    BY <1>6 DEF Dispatch
  <2>2. callPc[c] \in {"plan", "downgrade"} /\ UNCHANGED runningTask
    BY <1>6 DEF Dispatch, Planning
  <2>3. FlowsIdle
    <3>1. SUFFICES ASSUME NEW n \in Nodes, flowPc[n] # "idle"  PROVE FALSE
      BY DEF FlowsIdle
    <3>2. PICK d \in Callers : callPc[d] = "wait" /\ n \in todo[d]
      BY <3>1 DEF Owned, FlowOwned
    <3>. QED  BY <2>2, <3>2 DEF Owned, RunExclusive
  <2>4. /\ callPc'[c] = "wait" /\ todo'[c] = batch
        /\ \A d \in Callers : callPc'[d] \in Guarded <=> callPc[d] \in Guarded
    BY <2>1, <2>2 DEF MoveCall, TypeOK, CallsOK
  <2>5. FlowOwned'
    <3>1. \A n \in Nodes : flowPc'[n] # "idle" => n \in batch
      BY <2>1, <2>3 DEF FlowsIdle
    <3>. QED  BY <2>4, <3>1 DEF FlowOwned
  <2>6. RunExclusive'
    <3>1. runningTask  BY <2>2 DEF Owned, RunExclusive
    <3>. QED  BY <2>2, <2>4, <3>1 DEF Owned, RunExclusive
  <2>. QED  BY <2>5, <2>6 DEF Owned
<1>7. CASE ReconcileRun(c)
  <2>1. /\ callPc[c] \in Guarded
        /\ callPc[c] = "wait" => \A n \in todo[c] : flowPc[n] = "idle"
    BY <1>7 DEF ReconcileRun, NothingRunnable, BatchDone, Planning
  <2>. QED  BY <1>7, <2>1, MoveKeepsOwned DEF ReconcileRun
<1>. QED  BY <1>1, <1>2, <1>3, <1>4, <1>5, <1>6, <1>7, <1>8 DEF RunTask, RunSteps

\* A new task has no invocation and no flow.
LEMMA InitOwned == ASSUME Init  PROVE Owned
BY DEF Init, Owned, RunExclusive, FlowOwned, FlowsIdle, Guarded

\* No step of the runtime breaks the exclusion or leaves a flow without its invocation.
LEMMA NextOwned ==
  ASSUME TypeOK, Owned, [Next]_vars
  PROVE  Owned'
<1>1. ASSUME NEW n \in Nodes, ExecuteNode(n)  PROVE Owned'
  <2>1. \A m \in Nodes : flowPc'[m] # "idle" => flowPc[m] # "idle"
    BY <1>1, FlowShape
  <2>2. UNCHANGED <<runningTask, callPc, todo>>  BY <1>1, FlowShape
  <2>. QED  BY <2>1, <2>2 DEF Owned, RunExclusive, FlowOwned, FlowsIdle
<1>2. CASE UserRequests \/ UserSteps \/ Time \/ UNCHANGED vars
  BY <1>2, WorldShape DEF Owned, RunExclusive, FlowOwned, FlowsIdle
<1>3. CASE Crash
  <2>1. /\ runningTask' = FALSE /\ \A c \in Callers : callPc'[c] = "idle"
        /\ \A n \in Nodes : flowPc'[n] = "idle"
    BY <1>3 DEF Crash
  <2>. QED  BY <2>1 DEF Owned, RunExclusive, FlowOwned, FlowsIdle, Guarded
<1>. QED  BY <1>1, <1>2, <1>3, RunOwned DEF Next

-----------------------------------------------------------------------------
(* One invocation per attempt *)

Numbered == FlowAttempts /\ InvokedPast /\ ToolOncePerAttempt

NumberedAt(n) ==
  /\ flowPc[n] \in {"gate", "start"} => target[n] = attempt[n] + 1
  /\ flowPc[n] \in UnderClaim => target[n] = attempt[n] /\ target[n] > 0
  /\ flowPc[n] \in {"schedule", "releaseRetry", "wake"} => target[n] <= MaxRetries
  /\ \A a \in Attempts : invoked[n][a] > 0 => a <= attempt[n]
  /\ flowPc[n] \in {"consume", "work"} => invoked[n][target[n]] = 0
  /\ \A a \in Attempts : invoked[n][a] <= 1

\* The numbering of attempts is a property of each node by itself.
LEMMA NumberedByNode == Numbered <=> \A n \in Nodes : NumberedAt(n)
BY DEF Numbered, NumberedAt, FlowAttempts, InvokedPast, ToolOncePerAttempt

\* The flow of one node keeps its numbering.
LEMMA FlowNumberedAt ==
  ASSUME TypeOK, NEW n \in Nodes, NumberedAt(n), ExecuteNode(n)
  PROVE  NumberedAt(n)'
<1>. USE AttemptBound DEF NumberedAt, UnderClaim, Goto, KeepsStates, WritesNode,
                         storeVars, nodeVars, callVars
<1>0. /\ attempt[n] \in 0..MaxAttempt /\ target[n] \in 0..MaxAttempt
      /\ flowPc \in [Nodes -> FlowPc] /\ attempt \in [Nodes -> 0..MaxAttempt]
      /\ target \in [Nodes -> 0..MaxAttempt]
      /\ invoked[n] \in [Attempts -> Nat] /\ invoked \in [Nodes -> [Attempts -> Nat]]
      /\ Attempts = 1..MaxAttempt
  BY DEF TypeOK, NodesOK, FlowsOK, InvokedOK, Attempts
<1>1. CASE \/ ExecSkip(n) \/ GateDenies(n) \/ GateAsksUser(n) \/ ClaimRefused(n)
  BY <1>0, <1>1 DEF ExecSkip, GateDenies, GateAsksUser, ClaimRefused
<1>2. CASE ExecOverBudget(n)
  <2>1. /\ flowPc'[n] \in {"gaterun", "idle"} /\ UNCHANGED invoked
        /\ attempt'[n] \in {attempt[n], attempt[n] + 1}
    BY <1>0, <1>2 DEF ExecOverBudget
  <2>. QED  BY <1>0, <2>1
<1>3. CASE ExecPrepare(n)
  BY <1>0, <1>3 DEF ExecPrepare
<1>4. CASE GateDowngrades(n)
  BY <1>0, <1>4 DEF GateDowngrades
<1>5. CASE ClaimUnit(n)
  BY <1>0, <1>5 DEF ClaimUnit
<1>6. CASE StartNode(n)
  <2>1. /\ flowPc'[n] = "consume" /\ UNCHANGED <<target, invoked>>
        /\ attempt'[n] = target[n] /\ target[n] = attempt[n] + 1
    BY <1>0, <1>6 DEF StartNode
  <2>2. target[n] \in Attempts  BY <1>0, <2>1
  <2>3. invoked[n][target[n]] = 0
    <3>1. invoked[n][target[n]] > 0 => target[n] <= attempt[n]  BY <2>2
    <3>2. invoked[n][target[n]] \in Nat  BY <1>0, <2>2
    <3>. QED  BY <1>0, <2>1, <3>1, <3>2
  <2>. QED  BY <1>0, <2>1, <2>3
<1>7. CASE \/ ConsumeRetryJob(n) \/ WorkDowngraded(n) \/ WorkAsksUser(n)
  BY <1>0, <1>7 DEF ConsumeRetryJob, WorkDowngraded, WorkAsksUser
<1>8. CASE Invoke(n)
  <2>1. /\ flowPc[n] = "work" /\ flowPc'[n] = "executing" /\ UNCHANGED <<target, attempt>>
        /\ target[n] \in Attempts /\ target[n] = attempt[n] /\ invoked[n][target[n]] = 0
    BY <1>0, <1>8 DEF Invoke
  <2>2. /\ invoked'[n][target[n]] = 1
        /\ \A a \in Attempts \ {target[n]} : invoked'[n][a] = invoked[n][a]
    BY <1>0, <1>8, <2>1 DEF Invoke
  <2>3. \A a \in Attempts : invoked'[n][a] > 0 => a <= attempt[n]
    <3>1. ASSUME NEW a \in Attempts, a # target[n], invoked'[n][a] > 0  PROVE a <= attempt[n]
      BY <2>2, <3>1
    <3>. QED  BY <1>0, <2>1, <3>1
  <2>4. \A a \in Attempts : invoked'[n][a] <= 1
    <3>1. ASSUME NEW a \in Attempts, a # target[n]  PROVE invoked'[n][a] <= 1
      BY <2>2, <3>1
    <3>. QED  BY <2>2, <3>1
  <2>. QED  BY <2>1, <2>3, <2>4
<1>9. CASE \/ ReturnOk(n) \/ ReturnNeedsUser(n) \/ ReturnExhausted(n) \/ ReturnFatal(n)
  BY <1>0, <1>9 DEF ReturnOk, ReturnNeedsUser, ReturnExhausted, ReturnFatal
<1>10. CASE ReturnRetryable(n)
  BY <1>0, <1>10, LimitAssumption DEF ReturnRetryable, CanRetry
<1>11. CASE \/ ScheduleRetry(n) \/ DeadLetter(n) \/ TaskWaits(n) \/ TaskRuns(n)
            \/ Commit(n) \/ Release(n) \/ WakeForRetry(n) \/ ReconcileFailure(n)
  BY <1>0, <1>11
  DEF ScheduleRetry, DeadLetter, TaskWaits, TaskRuns, Commit, Release, AfterRelease,
      WakeForRetry, ReconcileFailure
<1>. QED
  BY <1>1, <1>2, <1>3, <1>4, <1>5, <1>6, <1>7, <1>8, <1>9, <1>10, <1>11 DEF ExecuteNode

\* A tool node is downgraded by the run itself only while no node is executed.
LEMMA RunNumbered ==
  ASSUME TypeOK, Owned, Numbered, NEW c \in Callers, RunTask(c)
  PROVE  Numbered'
<1>1. CASE DowngradeTool(c)
  <2>1. FlowsIdle
    <3>1. SUFFICES ASSUME NEW n \in Nodes, flowPc[n] # "idle"  PROVE FALSE
      BY DEF FlowsIdle
    <3>2. PICK d \in Callers : callPc[d] = "wait"
      BY <3>1 DEF Owned, FlowOwned
    <3>. QED  BY <1>1, <3>2 DEF DowngradeTool, Planning, Owned, RunExclusive, Guarded
  <2>2. UNCHANGED <<flowPc, target, invoked>>  BY <1>1 DEF DowngradeTool, flowVars
  <2>3. \A n \in Nodes : attempt'[n] \in {attempt[n], attempt[n] + 1} /\ attempt[n] \in Nat
    BY <1>1, AttemptBound DEF DowngradeTool, TypeOK, NodesOK
  <2>4. \A n \in Nodes, a \in Attempts : a <= attempt[n] => a <= attempt'[n]
    BY <2>3 DEF Attempts
  <2>. QED
    BY <2>1, <2>2, <2>4
    DEF Numbered, FlowAttempts, InvokedPast, ToolOncePerAttempt, FlowsIdle, UnderClaim
<1>2. CASE Dispatch(c)
  <2>1. /\ UNCHANGED <<target, attempt, invoked>>
        /\ \A n \in Nodes : flowPc'[n] \in {"check", flowPc[n]}
    BY <1>2 DEF Dispatch
  <2>. QED
    BY <2>1 DEF Numbered, FlowAttempts, InvokedPast, ToolOncePerAttempt, UnderClaim
<1>3. CASE ~DowngradeTool(c) /\ ~Dispatch(c)
  <2>1. UNCHANGED <<flowPc, target, attempt, invoked>>
    BY <1>3 DEF RunTask, RunSteps, TimerFires, RunRequested, Poll, EnterRun, ExpireClaim,
         RecoverNode, RequeueDueJob, MarkRequeued, PassGuard, FailExpiredTask, FailExpiredClaims,
         FailExpiredEnd, DowngradeToolEnd, ReconcileRun, FollowUp, FinishRun,
         storeVars, nodeVars, flowVars
  <2>. QED  BY <2>1 DEF Numbered, FlowAttempts, InvokedPast, ToolOncePerAttempt
<1>. QED  BY <1>1, <1>2, <1>3

\* A new task has begun no attempt.
LEMMA InitNumbered == ASSUME Init  PROVE Numbered
BY DEF Init, Numbered, FlowAttempts, InvokedPast, ToolOncePerAttempt, UnderClaim

\* No step of the runtime breaks the numbering of attempts.
LEMMA NextNumbered ==
  ASSUME TypeOK, Owned, Numbered, [Next]_vars
  PROVE  Numbered'
<1>1. ASSUME NEW n \in Nodes, ExecuteNode(n)  PROVE Numbered'
  <2>1. ASSUME NEW m \in Nodes \ {n}  PROVE NumberedAt(m)'
    <3>1. /\ flowPc'[m] = flowPc[m] /\ target'[m] = target[m]
          /\ attempt'[m] = attempt[m] /\ invoked'[m] = invoked[m]
      BY <1>1, FlowShape
    <3>. QED  BY <3>1, NumberedByNode DEF NumberedAt
  <2>2. NumberedAt(n)'  BY <1>1, NumberedByNode, FlowNumberedAt
  <2>3. \A m \in Nodes : NumberedAt(m)'  BY <2>1, <2>2
  <2>. QED
    BY <2>3 DEF NumberedAt, Numbered, FlowAttempts, InvokedPast, ToolOncePerAttempt
<1>2. CASE UserRequests \/ UserSteps \/ Time \/ UNCHANGED vars
  BY <1>2, WorldShape DEF Numbered, FlowAttempts, InvokedPast, ToolOncePerAttempt
<1>3. CASE Crash
  <2>1. UNCHANGED <<target, attempt, invoked>> /\ \A n \in Nodes : flowPc'[n] = "idle"
    BY <1>3 DEF Crash, storeVars, nodeVars
  <2>. QED
    BY <2>1 DEF Numbered, FlowAttempts, InvokedPast, ToolOncePerAttempt, UnderClaim
<1>. QED  BY <1>1, <1>2, <1>3, RunNumbered DEF Next

-----------------------------------------------------------------------------
(* The theorems *)

\* The inductive invariant holds in every state of the runtime.
THEOREM InductiveHolds == Spec => []Inductive
<1>1. Init => Inductive
  BY InitTypes, InitOwned, InitNumbered DEF Inductive, Owned, Numbered
<1>2. Inductive /\ [Next]_vars => Inductive'
  BY NextTypes, NextOwned, NextNumbered DEF Inductive, Owned, Numbered
<1>. QED  BY <1>1, <1>2, PTL DEF Spec

\* Every variable of the runtime and of its records stays within its type.
THEOREM TypeCorrect == Spec => []TypeOK
<1>1. Inductive => TypeOK  BY DEF Inductive
<1>. QED  BY <1>1, InductiveHolds, PTL

\* However many invocations of runTask overlap, one at a time is past the
\* runningTaskIds test, and nodes are executed only for that one.
THEOREM RunsExclude == Spec => []RunExclusive
<1>1. Inductive => RunExclusive  BY DEF Inductive
<1>. QED  BY <1>1, InductiveHolds, PTL

\* For every graph, retry limit, number of crashes, approvals and cancellations, no
\* attempt of a node reaches its executor twice.
THEOREM OneInvocationPerAttempt == Spec => []ToolOncePerAttempt
<1>1. Inductive => ToolOncePerAttempt  BY DEF Inductive
<1>. QED  BY <1>1, InductiveHolds, PTL
=============================================================================
