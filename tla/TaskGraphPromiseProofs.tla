----------------------- MODULE TaskGraphPromiseProofs -----------------------
(***************************************************************************)
(* What holds of a task's own record and of its client's view, and under   *)
(* which conditions: the status at rest, the leases of RUNNING nodes, the  *)
(* tool budget, the end of a task, and that the runtime implements         *)
(* TaskExecution.                                                          *)
(***************************************************************************)
EXTENDS TaskGraphSafetyProofs, FiniteSetTheorems

-----------------------------------------------------------------------------
(* Conditions *)

OneCaller == \A c, d \in Callers : c = d

OneAtATime == \A m, n \in Nodes : flowPc[m] # "idle" /\ flowPc[n] # "idle" => m = n

\* No node downgraded before its claim has its second write still to come when the
\* failure of another node is reconciled.
StandInsAlone == \A m, n \in Nodes : ~(flowPc[m] = "gaterun" /\ flowPc[n] = "reconcile")

-----------------------------------------------------------------------------
(* The status at rest *)

\* Nobody is about to reconcile the task.
Settling ==
  \/ epoch # 0 \/ taskStatus \in TerminalTask \/ timer.soon
  \/ approvePc # "idle" \/ cancelPc # "idle"
  \/ \E c \in Callers : callPc[c] \notin {"idle", "follow", "finish"}

StatusFollows ==
  Settling \/ (taskStatus = "WAITING_USER" <=> \E n \in Nodes : nodeStatus[n] = "WAITING_USER")

-----------------------------------------------------------------------------
(* Leases *)

\* Only the leases of an earlier incarnation run out, or are listed as run out, and a
\* flow holds the live claim on its attempt.
Leased ==
  /\ \A claim \in staleClaims : claim.epoch < epoch
  /\ \A c \in Callers : callPc[c] = "expire" => \A claim \in todo[c] : claim.epoch < epoch
  /\ cancels = 0 => \A n \in Nodes : flowPc[n] \in UnderClaim \cup {"start"} =>
       [node |-> n, attempt |-> target[n], epoch |-> epoch] \in executionClaims

\* A flow past its executor has written another status than RUNNING.
RunningFits ==
  \A n \in Nodes : nodeStatus[n] = "RUNNING" =>
    /\ flowPc[n] \in {"idle", "consume", "work", "executing"}
    /\ epoch = 0 => flowPc[n] # "idle"

-----------------------------------------------------------------------------
(* The tool budget *)

RanTools == {n \in Nodes : Kind[n] = "tool" /\ nodeStatus[n] = "SUCCEEDED" /\ ToolRan(n)}

Admitted == {"gate", "start", "consume", "work", "executing"}

\* A flow that was admitted has room for its call, until it charges it.
HasRoom(n) ==
  /\ flowPc[n] \in Admitted \cup {"check"} => nodeStatus[n] \notin {"SUCCEEDED", "WAITING_USER"}
  /\ flowPc[n] \in Admitted /\ Kind[n] = "tool" => toolCalls < MaxToolCalls
  /\ flowPc[n] = "commit" =>
       /\ spentSeen[n] = toolCalls
       /\ Kind[n] = "tool" => toolCalls < MaxToolCalls

\* The call of a flow about to charge it is counted already.
Charging == \E n \in Nodes : flowPc[n] = "commit" /\ Kind[n] = "tool"

Charged ==
  /\ \A n \in Nodes : HasRoom(n)
  /\ toolCalls <= MaxToolCalls
  /\ Cardinality(RanTools) <= toolCalls + (IF Charging THEN 1 ELSE 0)

-----------------------------------------------------------------------------
(* The end of a task *)

Ended == taskStatus \in {"DONE", "FAILED"}

\* What reconcileTaskTerminalState looks for before it ends a task.
Over ==
  /\ \A n \in Nodes : /\ nodeStatus[n] \in {"SUCCEEDED", "FAILED", "CANCELLED"}
                      /\ nodeStatus[n] = "FAILED" => ~retryable[n]
  /\ JobsWith(ActiveJob) = {} /\ executionClaims = {}

\* An ended task is left by all its flows but those that reconcile it once more, with
\* the same result; its run has no more to plan.
EndHolds ==
  Ended =>
    /\ \A n \in Nodes : flowPc[n] \in {"idle", "reconcile"}
    /\ \A c \in Callers :
         /\ callPc[c] \notin {"plan", "downgrade", "downgraded", "failclaims", "failtask"}
         /\ callPc[c] = "wait" =>
              taskStatus = "FAILED" /\ Over /\ \E n \in Nodes : nodeStatus[n] = "FAILED"
    /\ ~Expired => \A n \in Nodes : nodeStatus[n] # "WAITING_USER"

EndKnown ==
  /\ \A n \in Nodes : flowPc[n] = "gatewait" =>
       nodeStatus[n] \in {"WAITING_USER", "PENDING"} /\ Kind[n] # "approval"
  /\ taskStatus # "CANCELLED"

Ending == cancels = 0 => EndHolds /\ EndKnown

-----------------------------------------------------------------------------
(* The promise *)

Results == {n \in Nodes : nodeStatus[n] = "SUCCEEDED"}
Supplied(n) == Cardinality(Deps[n] \cap Results) >= LeastInputs(n)

\* Whoever is about to give a node a result, or to call for it, has its inputs.
InputsThere ==
  /\ \A n \in Nodes : flowPc[n] \in Admitted \/ nodeStatus[n] = "WAITING_USER" => Supplied(n)
  /\ \A c \in Callers : callPc[c] \in {"plan", "downgrade", "downgraded"} =>
       \A n \in todo[c] : Supplied(n)

\* A dead letter is made after a call.
CalledFirst ==
  \A n \in Nodes : flowPc[n] \in {"executing", "deadletter"} => invoked[n][target[n]] > 0

\* Crashes, cancellations and approvals keep to their bounds, and a run fails its task
\* for the deadline only once that has passed.
Bounded ==
  /\ cancels <= MaxCancels /\ epoch <= MaxCrashes
  /\ approvePc = "task" => MaxApprovals > 0
  /\ \A c \in Callers : callPc[c] \in {"failclaims", "failtask"} => Expired

-----------------------------------------------------------------------------
(* The status at rest *)

\* Between the reconciliation of one run and whatever asks for the next one, the task
\* shows whether a node waits: every other write of the status, and every change of a
\* waiting node, leaves a run, a timer or a cancellation that is still to come.
LEMMA NextStatusFollows ==
  ASSUME TypeOK, Owned, StatusFollows, [Next]_vars
  PROVE  StatusFollows'
<1>. USE DEF StatusFollows, Settling
<1>s. SUFFICES ASSUME ~Settling'
               PROVE  (taskStatus = "WAITING_USER" <=>
                         \E n \in Nodes : nodeStatus[n] = "WAITING_USER")'
  OBVIOUS
<1>0. epoch' = 0 /\ approvePc' = "idle" /\ cancelPc' = "idle" /\ taskStatus' \notin TerminalTask
      /\ ~timer'.soon /\ \A c \in Callers : callPc'[c] \in {"idle", "follow", "finish"}
  BY <1>s
<1>1. ASSUME NEW n \in Nodes, ExecuteNode(n)  PROVE FALSE
  <2>1. flowPc[n] # "idle" /\ UNCHANGED callPc  BY <1>1, FlowShape
  <2>2. PICK c \in Callers : callPc[c] = "wait"  BY <2>1 DEF Owned, FlowOwned
  <2>. QED  BY <1>0, <2>1, <2>2
<1>2. ASSUME NEW c \in Callers, RunTask(c)
      PROVE  (taskStatus = "WAITING_USER" <=>
                \E n \in Nodes : nodeStatus[n] = "WAITING_USER")'
  <2>1. CASE ReconcileRun(c)
    BY <2>1 DEF ReconcileRun, ReconcileTask, SetTask
  <2>2. CASE FollowUp(c) \/ FinishRun(c)
    <3>1. /\ UNCHANGED <<taskStatus, nodeStatus, epoch, approvePc, cancelPc>>
          /\ callPc[c] \in {"follow", "finish"}
          /\ \A d \in Callers \ {c} : callPc'[d] = callPc[d]
      BY <2>2 DEF FollowUp, FinishRun, MoveCall, TypeOK, CallsOK, storeVars, taskVars, nodeVars,
         worldVars, userVars
    <3>2. ~timer.soon
      BY <2>2, <1>0 DEF FollowUp, FinishRun, Soon, WakeAt
    <3>3. ~Settling  BY <1>0, <3>1, <3>2
    <3>. QED  BY <3>1, <3>3
  <2>3. CASE PassGuard(c)
    BY <2>3, <1>0 DEF PassGuard, MoveCall, Soon, TypeOK, CallsOK, storeVars, taskVars
  <2>4. CASE FailExpiredEnd(c)
    BY <2>4, <1>0 DEF FailExpiredEnd, SetTask, TerminalTask
  <2>5. CASE RequeueDueJob(c)
    <3>1. callPc'[c] \in {"remark", "jobs"}  BY <2>5 DEF RequeueDueJob, MoveCall, TypeOK, CallsOK
    <3>. QED  BY <1>0, <3>1
  <2>6. CASE TimerFires(c) \/ RunRequested(c) \/ Poll(c) \/ ExpireClaim(c) \/ RecoverNode(c)
    <3>1. callPc'[c] \in {"expire", "renode", "requeue"}
      BY <2>6 DEF TimerFires, RunRequested, Poll, EnterRun, ExpireClaim, RecoverNode, MoveCall,
         TypeOK, CallsOK
    <3>. QED  BY <1>0, <3>1
  <2>7. CASE \/ MarkRequeued(c) \/ FailExpiredTask(c) \/ FailExpiredClaims(c) \/ DowngradeTool(c)
             \/ DowngradeToolEnd(c) \/ Dispatch(c)
    <3>1. callPc'[c] \in {"jobs", "failclaims", "failtask", "downgraded", "downgrade", "wait"}
      BY <2>7 DEF MarkRequeued, FailExpiredTask, FailExpiredClaims, DowngradeTool,
         DowngradeToolEnd, Dispatch, MoveCall, TypeOK, CallsOK
    <3>. QED  BY <1>0, <3>1
  <2>. QED
    BY <1>2, <2>1, <2>2, <2>3, <2>4, <2>5, <2>6, <2>7 DEF RunTask, RunSteps
<1>3. CASE UserRequests \/ UserSteps
  BY <1>3, <1>0 DEF UserRequests, UserSteps, CancelStart, ApproveNode, ApproveTask, CancelNode,
     CancelJobs, CancelClaims, CancelTask, SetTask, Soon, TerminalTask, TypeOK, UsersOK
<1>4. CASE Time \/ UNCHANGED vars
  <2>1. UNCHANGED <<taskStatus, nodeStatus, epoch, approvePc, cancelPc, timer, callPc>>
    BY <1>4, TimeMoves DEF vars, storeVars, taskVars, nodeVars, callVars, userVars, worldVars
  <2>. QED  BY <1>0, <2>1
<1>5. CASE Crash
  BY <1>5, <1>0 DEF Crash, TypeOK, WorldOK
<1>. QED  BY <1>1, <1>2, <1>3, <1>4, <1>5 DEF Next

\* At rest, with no run about to start, a task that has not ended shows WAITING_USER
\* exactly when one of its nodes waits, for every graph, policy and order of approvals.
THEOREM StatusFollowsNodes == Spec => []StatusAgrees
<1>1. Init => StatusFollows
  BY DEF Init, StatusFollows, Settling
<1>2. Inductive /\ StatusFollows /\ [Next]_vars => StatusFollows'
  BY NextStatusFollows DEF Inductive, Owned
<1>3. StatusFollows => StatusAgrees
  BY DEF StatusFollows, Settling, StatusAgrees, Quiet
<1>. QED  BY <1>1, <1>2, <1>3, InductiveHolds, PTL DEF Spec

-----------------------------------------------------------------------------
(* What a step leaves alone *)

\* Five steps of a flow write the task or the claims.
LEMMA FlowWrites ==
  ASSUME NEW n \in Nodes, ExecuteNode(n)
  PROVE  /\ \/ UNCHANGED <<taskStatus, currentWait, toolCalls>>
            \/ TaskWaits(n) \/ TaskRuns(n) \/ Commit(n) \/ ReconcileFailure(n)
         /\ \/ UNCHANGED <<executionClaims, staleClaims>>
            \/ ClaimUnit(n) \/ Release(n)
<1>. USE DEF KeepsStates, WritesNode, storeVars, taskVars, substrateVars
<1>1. CASE \/ ExecSkip(n) \/ ExecOverBudget(n) \/ ExecPrepare(n) \/ GateDenies(n)
           \/ GateDowngrades(n) \/ GateAsksUser(n) \/ ClaimRefused(n)
  BY <1>1 DEF ExecSkip, ExecOverBudget, ExecPrepare, GateDenies, GateDowngrades, GateAsksUser,
       ClaimRefused
<1>2. CASE \/ ClaimUnit(n) \/ StartNode(n) \/ ConsumeRetryJob(n) \/ WorkDowngraded(n)
           \/ WorkAsksUser(n) \/ Invoke(n)
  BY <1>2 DEF ClaimUnit, StartNode, ConsumeRetryJob, MarkRetryJobCompleted, SetJob, WorkDowngraded,
       WorkAsksUser, Invoke
<1>3. CASE \/ ReturnOk(n) \/ ReturnNeedsUser(n) \/ ReturnRetryable(n) \/ ReturnExhausted(n)
           \/ ReturnFatal(n)
  BY <1>3 DEF ReturnOk, ReturnNeedsUser, ReturnRetryable, ReturnExhausted, ReturnFatal
<1>4. CASE \/ ScheduleRetry(n) \/ DeadLetter(n) \/ TaskWaits(n) \/ TaskRuns(n)
           \/ Commit(n) \/ Release(n) \/ WakeForRetry(n) \/ ReconcileFailure(n)
  BY <1>4 DEF ScheduleRetry, ScheduleRetryJob, SetJob, DeadLetter, RecordDeadLetter, TaskWaits,
       TaskRuns, Commit, Release, AfterRelease, WakeForRetry, ReconcileFailure
<1>. QED  BY <1>1, <1>2, <1>3, <1>4 DEF ExecuteNode

\* Four steps of a run write the task, two take claims away.
LEMMA RunWrites ==
  ASSUME NEW c \in Callers, RunTask(c)
  PROVE  /\ \/ UNCHANGED <<taskStatus, currentWait, toolCalls>>
            \/ FailExpiredEnd(c) \/ DowngradeToolEnd(c) \/ Dispatch(c) \/ ReconcileRun(c)
         /\ \/ UNCHANGED <<executionClaims, staleClaims>>
            \/ ExpireClaim(c) \/ FailExpiredClaims(c)
<1>. USE DEF storeVars, taskVars, substrateVars
<1>1. CASE TimerFires(c) \/ RunRequested(c) \/ Poll(c) \/ ExpireClaim(c)
  BY <1>1 DEF TimerFires, RunRequested, Poll, EnterRun, ExpireClaim
<1>2. CASE RecoverNode(c) \/ PassGuard(c) \/ MarkRequeued(c) \/ RequeueDueJob(c)
  BY <1>2 DEF RecoverNode, PassGuard, MarkRequeued, RequeueDueJob, SetJob
<1>3. CASE \/ FailExpiredTask(c) \/ FailExpiredClaims(c) \/ FailExpiredEnd(c) \/ DowngradeTool(c)
           \/ DowngradeToolEnd(c) \/ Dispatch(c) \/ ReconcileRun(c) \/ FollowUp(c) \/ FinishRun(c)
  BY <1>3 DEF FailExpiredTask, CancelPendingRetryJobs, FailExpiredClaims, FailExpiredEnd,
     DowngradeTool, DowngradeToolEnd, Dispatch, ReconcileRun, FollowUp, FinishRun
<1>. QED  BY <1>1, <1>2, <1>3 DEF RunTask, RunSteps

\* Of the user's steps only a cancellation takes claims away; an approval may set the
\* task RUNNING.
LEMMA UserWrites ==
  ASSUME UserRequests \/ UserSteps
  PROVE  /\ UNCHANGED <<taskStatus, currentWait, toolCalls>> \/ ApproveTask \/ CancelTask
         /\ UNCHANGED <<executionClaims, staleClaims>> \/ CancelClaims
BY DEF UserRequests, UserSteps, CancelStart, ApproveNode, ApproveTask, CancelNode, CancelJobs,
   CancelPendingRetryJobs, CancelClaims, CancelTask, SetTask, storeVars, taskVars, substrateVars

\* The bounds of the environment are kept, and the deadline is not unpassed.
LEMMA NextBounded ==
  ASSUME TypeOK, Bounded, [Next]_vars
  PROVE  Bounded'
<1>. USE DEF Bounded
<1>0. cancels \in Nat /\ epoch \in Nat /\ approvals \in Nat /\ MaxCancels \in Nat
      /\ MaxCrashes \in Nat /\ MaxApprovals \in Nat
  BY LimitAssumption DEF TypeOK, UsersOK, WorldOK
<1>1. ASSUME NEW n \in Nodes, ExecuteNode(n)  PROVE Bounded'
  BY <1>1, FlowFrame DEF userVars, worldVars, Expired
<1>2. ASSUME NEW c \in Callers, RunTask(c)  PROVE Bounded'
  <2>1. UNCHANGED <<cancels, epoch, approvePc, elapsed>>
    BY <1>2 DEF RunTask, RunSteps, TimerFires, RunRequested, Poll, EnterRun, ExpireClaim,
       RecoverNode, RequeueDueJob, MarkRequeued, PassGuard, FailExpiredTask, FailExpiredClaims,
       FailExpiredEnd, DowngradeTool, DowngradeToolEnd, Dispatch, ReconcileRun, FollowUp,
       FinishRun, userVars, worldVars
  <2>2. \A d \in Callers \ {c} : callPc'[d] = callPc[d]
    BY <1>2 DEF RunTask, RunSteps, TimerFires, RunRequested, Poll, EnterRun, ExpireClaim,
       RecoverNode, RequeueDueJob, MarkRequeued, PassGuard, FailExpiredTask, FailExpiredClaims,
       FailExpiredEnd, DowngradeTool, DowngradeToolEnd, Dispatch, ReconcileRun, FollowUp,
       FinishRun, MoveCall, TypeOK, CallsOK
  <2>3. CASE FailExpiredTask(c) \/ FailExpiredClaims(c)
    BY <2>1, <2>2, <2>3 DEF FailExpiredTask, FailExpiredClaims, Expired
  <2>4. CASE ~(FailExpiredTask(c) \/ FailExpiredClaims(c))
    <3>1. callPc'[c] \notin {"failclaims", "failtask"}
      BY <1>2, <2>4 DEF RunTask, RunSteps, TimerFires, RunRequested, Poll, EnterRun,
         ExpireClaim, RecoverNode, RequeueDueJob, MarkRequeued, PassGuard, FailExpiredEnd,
         DowngradeTool, DowngradeToolEnd, Dispatch, ReconcileRun, FollowUp, FinishRun, MoveCall,
         TypeOK, CallsOK
    <3>. QED  BY <2>1, <2>2, <3>1 DEF Expired
  <2>. QED  BY <2>3, <2>4
<1>3. CASE UserRequests \/ UserSteps
  <2>1. UNCHANGED <<callPc, epoch, elapsed>>
    BY <1>3, WorldShape DEF UserRequests, UserSteps, CancelStart, ApproveNode, ApproveTask,
       CancelNode, CancelJobs, CancelClaims, CancelTask, KeepsRun, worldVars
  <2>2. /\ cancels' = cancels \/ (cancels' = cancels + 1 /\ cancels < MaxCancels)
        /\ approvePc' = "task" => approvePc = "task" \/ approvals < MaxApprovals
    BY <1>3 DEF UserRequests, UserSteps, CancelStart, ApproveNode, ApproveTask, CancelNode,
       CancelJobs, CancelClaims, CancelTask
  <2>. QED  BY <1>0, <2>1, <2>2 DEF Expired
<1>4. CASE Time \/ UNCHANGED vars
  BY <1>4, TimeMoves DEF vars, userVars, worldVars, callVars, Expired
<1>5. CASE Crash
  BY <1>0, <1>5 DEF Crash
<1>. QED  BY <1>1, <1>2, <1>3, <1>4, <1>5 DEF Next

-----------------------------------------------------------------------------
(* Leases *)

\* A flow comes under a claim by taking it, and leaves it for good when it releases it.
LEMMA FlowClaims ==
  ASSUME TypeOK, NEW n \in Nodes, ExecuteNode(n), flowPc'[n] \in UnderClaim \cup {"start"}
  PROVE  \/ ClaimUnit(n) /\ target'[n] = target[n]
         \/ flowPc[n] \in UnderClaim \cup {"start"} /\ target'[n] = target[n] /\ ~Release(n)
<1>. USE DEF UnderClaim, TypeOK, FlowsOK, Goto
<1>1. CASE \/ ExecSkip(n) \/ ExecOverBudget(n) \/ ExecPrepare(n) \/ GateDenies(n)
           \/ GateDowngrades(n) \/ GateAsksUser(n) \/ ClaimRefused(n) \/ ReconcileFailure(n)
           \/ Release(n) \/ WakeForRetry(n)
  BY <1>1 DEF ExecSkip, ExecOverBudget, ExecPrepare, GateDenies, GateDowngrades, GateAsksUser,
       ClaimRefused, ReconcileFailure, Release, AfterRelease, WakeForRetry
<1>2. CASE ClaimUnit(n)  BY <1>2 DEF ClaimUnit
<1>3. CASE \/ StartNode(n) \/ ConsumeRetryJob(n) \/ WorkDowngraded(n) \/ WorkAsksUser(n) \/ Invoke(n)
           \/ ReturnOk(n) \/ ReturnNeedsUser(n) \/ ReturnRetryable(n) \/ ReturnExhausted(n)
           \/ ReturnFatal(n) \/ ScheduleRetry(n) \/ DeadLetter(n) \/ Commit(n)
  BY <1>3 DEF StartNode, ConsumeRetryJob, WorkDowngraded, WorkAsksUser, Invoke, ReturnOk,
       ReturnNeedsUser, ReturnRetryable, ReturnExhausted, ReturnFatal, ScheduleRetry, DeadLetter,
       Commit, Release
<1>4. CASE TaskWaits(n) \/ TaskRuns(n)
  BY <1>4 DEF TaskWaits, TaskRuns, Release
<1>. QED  BY <1>1, <1>2, <1>3, <1>4 DEF ExecuteNode

\* No step but a release by its own flow, or a cancellation, takes the claim of a flow
\* away, when only leases without a holder run out.
LEMMA NextLeased ==
  ASSUME TypeOK, Owned, UsersKnown, Leased, ~Stalls, [Next]_vars
  PROVE  Leased'
<1>. USE DEF Leased
<1>. DEFINE Held(n) == [node |-> n, attempt |-> target[n], epoch |-> epoch]
            Under(n) == flowPc[n] \in UnderClaim \cup {"start"}
<1>. DEFINE Listed == \A c \in Callers : callPc[c] = "expire" =>
                        \A claim \in todo[c] : claim.epoch < epoch
<1>0. /\ (\A claim \in staleClaims : claim.epoch < epoch) /\ Listed
      /\ cancels = 0 => \A n \in Nodes : Under(n) => Held(n) \in executionClaims
      /\ epoch \in Nat /\ executionClaims \subseteq Claim
      /\ staleClaims \subseteq executionClaims
  BY DEF TypeOK, WorldOK, SubstrateTypeOK
<1>. HIDE DEF Leased
<1>1. ASSUME NEW n \in Nodes, ExecuteNode(n)  PROVE Leased'
  <2>1. UNCHANGED <<epoch, cancels, callPc, todo>>
    BY <1>1, FlowFrame DEF userVars, worldVars
  <2>2. staleClaims' \subseteq staleClaims
    BY <1>1, FlowWrites DEF ClaimUnit, ClaimExecutionUnit, Release, ReleaseClaim
  <2>3. ASSUME cancels = 0, NEW m \in Nodes, flowPc'[m] \in UnderClaim \cup {"start"}
        PROVE  [node |-> m, attempt |-> target'[m], epoch |-> epoch] \in executionClaims'
    <3>1. CASE m = n
      <4>1. CASE ClaimUnit(n) /\ target'[n] = target[n]
        BY <3>1, <4>1 DEF ClaimUnit, ClaimExecutionUnit
      <4>2. CASE Under(n) /\ target'[n] = target[n] /\ ~Release(n)
        <5>1. executionClaims \subseteq executionClaims'
          BY <1>1, <4>2, FlowWrites DEF ClaimUnit, ClaimExecutionUnit
        <5>. QED  BY <1>0, <2>3, <3>1, <4>2, <5>1
      <4>. QED  BY <1>1, <2>3, <3>1, <4>1, <4>2, FlowClaims
    <3>2. CASE m # n
      <4>1. flowPc'[m] = flowPc[m] /\ target'[m] = target[m]  BY <1>1, <3>2, FlowShape
      <4>2. Held(m) \in executionClaims  BY <1>0, <2>3, <4>1
      <4>3. CASE Release(n)
        BY <3>2, <4>1, <4>2, <4>3 DEF Release, ReleaseClaim
      <4>4. CASE ~Release(n)
        BY <1>1, <4>1, <4>2, <4>4, FlowWrites DEF ClaimUnit, ClaimExecutionUnit
      <4>. QED  BY <4>3, <4>4
    <3>. QED  BY <3>1, <3>2
  <2>. QED  BY <1>0, <2>1, <2>2, <2>3 DEF Leased
<1>2. ASSUME NEW c \in Callers, RunTask(c)  PROVE Leased'
  <2>1. \A n \in Nodes : UNCHANGED <<target, epoch, cancels>>
    BY <1>2, RunMoves DEF userVars, worldVars
  <2>2. staleClaims' \subseteq staleClaims
    BY <1>2, RunWrites DEF ExpireClaim, RecoverStaleClaim, FailExpiredClaims,
       ReleaseActiveClaims, DropClaims
  <2>3. ASSUME cancels' = 0, NEW m \in Nodes, flowPc'[m] \in UnderClaim \cup {"start"}
        PROVE  [node |-> m, attempt |-> target'[m], epoch |-> epoch'] \in executionClaims'
    <3>1. flowPc[m] = flowPc'[m]  BY <1>2, <2>3, RunMoves DEF UnderClaim
    <3>2. Held(m) \in executionClaims
      BY <1>0, <2>1, <2>3, <3>1
    <3>3. ~FailExpiredClaims(c)
      <4>1. flowPc[m] # "idle"  BY <2>3, <3>1 DEF UnderClaim
      <4>. QED  BY <4>1, NoFlows DEF FailExpiredClaims, Guarded, FlowsIdle
    <3>4. Held(m) \in executionClaims'
      <4>1. CASE ExpireClaim(c)
        BY <1>0, <3>2, <4>1 DEF ExpireClaim, RecoverStaleClaim, DropClaims
      <4>2. CASE ~ExpireClaim(c)
        BY <1>2, <3>2, <3>3, <4>2, RunWrites
      <4>. QED  BY <4>1, <4>2
    <3>. QED  BY <2>1, <3>4
  <2>4. epoch' = epoch
    BY <1>2 DEF RunTask, RunSteps, TimerFires, RunRequested, Poll, EnterRun, ExpireClaim,
       RecoverNode, RequeueDueJob, MarkRequeued, PassGuard, FailExpiredTask, FailExpiredClaims,
       FailExpiredEnd, DowngradeTool, DowngradeToolEnd, Dispatch, ReconcileRun, FollowUp,
       FinishRun, worldVars
  <2>5. ASSUME NEW d \in Callers, callPc'[d] = "expire", NEW claim \in todo'[d]
        PROVE  claim \in staleClaims \/ (callPc[d] = "expire" /\ claim \in todo[d])
    BY <1>2, <2>5
    DEF RunTask, RunSteps, TimerFires, RunRequested, Poll, EnterRun, ExpireClaim, RecoverNode,
        RequeueDueJob, MarkRequeued, PassGuard, FailExpiredTask, FailExpiredClaims,
        FailExpiredEnd, DowngradeTool, DowngradeToolEnd, Dispatch, ReconcileRun, FollowUp,
        FinishRun, MoveCall, TypeOK, CallsOK
  <2>. QED  BY <1>0, <2>2, <2>3, <2>4, <2>5 DEF Leased
<1>3. CASE UserRequests \/ UserSteps
  <2>1. UNCHANGED <<flowPc, target, callPc, todo>>  BY <1>3, WorldShape
  <2>2. /\ UNCHANGED epoch /\ staleClaims' \subseteq staleClaims
        /\ cancels' = 0 => cancels = 0 /\ UNCHANGED executionClaims
    BY <1>3 DEF UserRequests, UserSteps, CancelStart, ApproveNode, ApproveTask, CancelNode,
       CancelJobs, CancelPendingRetryJobs, CancelClaims, ReleaseActiveClaims, DropClaims,
       CancelTask, KeepsRun, UsersKnown, substrateVars, worldVars, TypeOK, UsersOK
  <2>. QED  BY <1>0, <2>1, <2>2 DEF Leased
<1>4. CASE Time
  <2>1. UNCHANGED <<flowPc, target, epoch, cancels, executionClaims, callPc, todo>>
    BY <1>4, TimeMoves DEF flowVars, userVars, callVars
  <2>2. \A claim \in staleClaims' : claim \in staleClaims \/ claim.epoch < epoch
    BY <1>4 DEF Time, Backoff, BackoffElapses, SetJob, Lease, LeaseExpires, Orphan, Heartbeat,
       HeartbeatClaim, DeadlinePasses, substrateVars
  <2>. QED  BY <1>0, <2>1, <2>2 DEF Leased
<1>5. CASE UNCHANGED vars
  BY <1>0, <1>5 DEF Leased, vars, callVars, flowVars, userVars, worldVars, substrateVars
<1>6. CASE Crash
  <2>1. /\ epoch' = epoch + 1 /\ UNCHANGED staleClaims
        /\ (\A n \in Nodes : flowPc'[n] = "idle") /\ \A c \in Callers : callPc'[c] = "idle"
    BY <1>6 DEF Crash, substrateVars
  <2>2. \A claim \in staleClaims : claim.epoch < epoch'
    BY <1>0, <2>1 DEF Claim
  <2>. QED  BY <2>1, <2>2 DEF Leased, UnderClaim
<1>. QED  BY <1>1, <1>2, <1>3, <1>4, <1>5, <1>6 DEF Next

\* Only a flow between the start of its node and the end of its executor leaves the
\* node RUNNING.
LEMMA FlowRunning ==
  ASSUME TypeOK, RunningFits, NEW n \in Nodes, ExecuteNode(n), nodeStatus'[n] = "RUNNING"
  PROVE  flowPc'[n] \in {"consume", "work", "executing"}
<1>. USE DEF RunningFits, TypeOK, NodesOK, FlowsOK, Goto, KeepsStates, WritesNode, ClosedNode,
             SetNode, storeVars, nodeVars
<1>1. CASE \/ ExecSkip(n) \/ ExecOverBudget(n) \/ ExecPrepare(n) \/ GateDenies(n)
           \/ GateDowngrades(n) \/ GateAsksUser(n) \/ ClaimRefused(n)
  BY <1>1 DEF ExecSkip, ExecOverBudget, ExecPrepare, GateDenies, GateDowngrades, GateAsksUser,
       ClaimRefused
<1>2. CASE \/ ClaimUnit(n) \/ StartNode(n) \/ ConsumeRetryJob(n) \/ WorkDowngraded(n)
           \/ WorkAsksUser(n) \/ Invoke(n)
  BY <1>2 DEF ClaimUnit, StartNode, ConsumeRetryJob, WorkDowngraded, WorkAsksUser, Invoke
<1>3. CASE \/ ReturnOk(n) \/ ReturnNeedsUser(n) \/ ReturnRetryable(n) \/ ReturnExhausted(n)
           \/ ReturnFatal(n)
  BY <1>3 DEF ReturnOk, ReturnNeedsUser, ReturnRetryable, ReturnExhausted, ReturnFatal
<1>4. CASE \/ ScheduleRetry(n) \/ DeadLetter(n) \/ TaskWaits(n) \/ TaskRuns(n)
           \/ Commit(n) \/ Release(n) \/ WakeForRetry(n) \/ ReconcileFailure(n)
  BY <1>4 DEF ScheduleRetry, DeadLetter, TaskWaits, TaskRuns, Commit, Release, AfterRelease,
       WakeForRetry, ReconcileFailure
<1>. QED  BY <1>1, <1>2, <1>3, <1>4 DEF ExecuteNode

\* A RUNNING node is being executed, or was when the process stopped.
LEMMA NextRunningFits ==
  ASSUME TypeOK, UsersKnown, RunningFits, [Next]_vars
  PROVE  RunningFits'
<1>1. SUFFICES ASSUME NEW n \in Nodes, nodeStatus'[n] = "RUNNING"
               PROVE  /\ flowPc'[n] \in {"idle", "consume", "work", "executing"}
                      /\ epoch' = 0 => flowPc'[n] # "idle"
  BY DEF RunningFits
<1>2. CASE ExecuteNode(n)
  BY <1>1, <1>2, FlowRunning
<1>3. ASSUME NEW m \in Nodes, m # n, ExecuteNode(m)
      PROVE  UNCHANGED epoch /\ nodeStatus'[n] = nodeStatus[n] /\ flowPc'[n] = flowPc[n]
  BY <1>3, FlowFrame, FlowShape DEF worldVars
<1>4. ASSUME NEW c \in Callers, RunTask(c)
      PROVE  UNCHANGED epoch /\ nodeStatus'[n] = nodeStatus[n] /\ flowPc'[n] = flowPc[n]
  BY <1>1, <1>4, RunMoves DEF worldVars
<1>5. CASE UserRequests \/ UserSteps \/ Time \/ UNCHANGED vars
  <2>1. UNCHANGED epoch /\ nodeStatus'[n] = nodeStatus[n] /\ flowPc'[n] = flowPc[n]
    BY <1>1, <1>5, UserMoves, TimeMoves DEF worldVars, flowVars, vars, storeVars, nodeVars
  <2>. QED  BY <1>1, <2>1 DEF RunningFits
<1>6. CASE Crash
  BY <1>6 DEF Crash, TypeOK, WorldOK
<1>. QED  BY <1>1, <1>2, <1>3, <1>4, <1>5, <1>6 DEF Next, RunningFits

\* While no cancellation or deadline drops claims and at most one process stops, a
\* RUNNING node keeps the claim it runs under, or the run that took the claim away
\* when it ran out reopens the node.
LEMMA NextRunningIsLeased ==
  ASSUME TypeOK, FlowAttempts, UsersKnown, Leased, RunningFits, Bounded, Bounded',
         RunningIsLeased, [Next]_vars,
         MaxCrashes <= 1, MaxCancels = 0, "latency" \notin Deadlines
  PROVE  RunningIsLeased'
<1>. DEFINE Recovering(n) ==
       \E c \in Callers : \E unit \in Lost(c) : unit[1] = n
<1>0. /\ cancels = 0 /\ cancels' = 0 /\ ~Expired /\ epoch' \in {0, 1} /\ epoch \in Nat
    BY NextTypes, LimitAssumption DEF Bounded, Expired, TypeOK, UsersOK, WorldOK
<1>1. SUFFICES ASSUME NEW n \in Nodes, nodeStatus'[n] = "RUNNING", flowPc'[n] = "idle"
               PROVE  ClaimsOn(n, attempt[n])' # {} \/ Recovering(n)'
  BY DEF RunningIsLeased
<1>2. ASSUME nodeStatus[n] = "RUNNING", flowPc[n] = "idle"
      PROVE  ClaimsOn(n, attempt[n]) # {} \/ Recovering(n)
  BY <1>2 DEF RunningIsLeased
<1>3. CASE ExecuteNode(n)
  BY <1>1, <1>3, FlowRunning
<1>4. ASSUME NEW m \in Nodes, m # n, ExecuteNode(m)
      PROVE  ClaimsOn(n, attempt[n])' # {} \/ Recovering(n)'
  <2>1. /\ UNCHANGED <<callPc, todo, marking>> /\ nodeStatus[n] = "RUNNING"
        /\ flowPc[n] = "idle" /\ attempt'[n] = attempt[n]
    BY <1>1, <1>4, FlowFrame, FlowShape
  <2>2. \A claim \in executionClaims : claim.node = n => claim \in executionClaims'
    <3>1. CASE Release(m)
      BY <1>4, <3>1 DEF Release, ReleaseClaim
    <3>2. CASE ~Release(m)
      BY <1>4, <3>2, FlowWrites DEF ClaimUnit, ClaimExecutionUnit
    <3>. QED  BY <3>1, <3>2
  <2>. QED  BY <1>2, <2>1, <2>2 DEF ClaimsOn, Lost
<1>5. ASSUME NEW c \in Callers, RunTask(c)
      PROVE  ClaimsOn(n, attempt[n])' # {} \/ Recovering(n)'
  <2>1. nodeStatus[n] = "RUNNING" /\ flowPc[n] = "idle" /\ attempt'[n] = attempt[n]
    BY <1>1, <1>5, RunMoves
  <2>2. ASSUME NEW claim \in ClaimsOn(n, attempt[n])
        PROVE  ClaimsOn(n, attempt[n])' # {} \/ Recovering(n)'
    <3>1. ~FailExpiredClaims(c)  BY <1>0 DEF Bounded, FailExpiredClaims
    <3>2. CASE ExpireClaim(c)
      <4>1. PICK gone \in todo[c] :
              /\ RecoverStaleClaim(gone)
              /\ UnitsOf({gone}) \subseteq Lost(c)'
        BY <3>2 DEF ExpireClaim, MoveCall, Lost, TypeOK, CallsOK
      <4>2. CASE claim = gone
        <5>1. <<n, attempt[n]>> \in Lost(c)'  BY <2>2, <4>1, <4>2 DEF ClaimsOn, UnitsOf
        <5>. QED  BY <5>1
      <4>3. CASE claim # gone
        BY <2>1, <2>2, <4>1, <4>3 DEF RecoverStaleClaim, DropClaims, ClaimsOn
      <4>. QED  BY <4>2, <4>3
    <3>3. CASE UNCHANGED <<executionClaims, staleClaims>>
      BY <2>1, <2>2, <3>3 DEF ClaimsOn
    <3>. QED  BY <1>5, <3>1, <3>2, <3>3, RunWrites
  <2>3. ASSUME NEW d \in Callers, NEW unit \in Lost(d), unit[1] = n
        PROVE  Recovering(n)'
    <3>0. callPc[d] \in {"expire", "renode"}  BY <2>3 DEF Lost
    <3>1. CASE RecoverNode(c) /\ d = c
      <4>1. PICK done \in todo[c] :
              /\ IF nodeStatus[done[1]] \in {"RUNNING", "PENDING"}
                   THEN SetNode(done[1], "PENDING") ELSE UNCHANGED nodeStatus
              /\ MoveCall(c, IF todo[c] = {done} THEN "requeue" ELSE "renode", todo[c] \ {done})
        BY <3>1 DEF RecoverNode, ClosedNode
      <4>2. done[1] # n  BY <1>1, <2>1, <4>1 DEF SetNode, TypeOK, NodesOK
      <4>3. unit \in todo[c] \ {done}
        BY <2>3, <3>1, <4>2 DEF RecoverNode, Lost
      <4>4. callPc'[c] = "renode" /\ todo'[c] = todo[c] \ {done}
        BY <4>1, <4>3 DEF MoveCall, TypeOK, CallsOK
      <4>5. unit \in Lost(c)'  BY <4>3, <4>4 DEF Lost
      <4>. QED  BY <2>3, <4>5
    <3>2. CASE ExpireClaim(c) /\ d = c
      <4>1. Lost(c) \subseteq Lost(c)'
        BY <3>2 DEF ExpireClaim, MoveCall, Lost, TypeOK, CallsOK
      <4>. QED  BY <2>3, <3>2, <4>1
    <3>3. CASE d # c
      <4>1. callPc'[d] = callPc[d] /\ todo'[d] = todo[d] /\ marking'[d] = marking[d]
        BY <1>5, <3>3
        DEF RunTask, RunSteps, TimerFires, RunRequested, Poll, EnterRun, ExpireClaim, RecoverNode,
            RequeueDueJob, MarkRequeued, PassGuard, FailExpiredTask, FailExpiredClaims,
            FailExpiredEnd, DowngradeTool, DowngradeToolEnd, Dispatch, ReconcileRun, FollowUp,
            FinishRun, MoveCall, TypeOK, CallsOK
      <4>2. Lost(d)' = Lost(d)  BY <4>1 DEF Lost
      <4>. QED  BY <2>3, <4>2
    <3>4. CASE ~RecoverNode(c) /\ ~ExpireClaim(c) /\ d = c
      BY <1>5, <3>0, <3>4
      DEF RunTask, RunSteps, TimerFires, RunRequested, Poll, EnterRun, RequeueDueJob,
          MarkRequeued, PassGuard, FailExpiredTask, FailExpiredClaims, FailExpiredEnd,
          DowngradeTool, DowngradeToolEnd, Dispatch, ReconcileRun, NothingRunnable, BatchDone,
          Planning, FollowUp, FinishRun
    <3>. QED  BY <3>1, <3>2, <3>3, <3>4
  <2>. QED  BY <1>2, <2>1, <2>2, <2>3
<1>6. CASE UserRequests \/ UserSteps \/ Time \/ UNCHANGED vars
  <2>1. UNCHANGED <<callPc, todo, marking, flowPc, attempt>>
    BY <1>6, WorldShape, UserMoves, TimeMoves DEF vars, callVars
  <2>2. nodeStatus[n] = "RUNNING"
    BY <1>1, <1>6, UserMoves, TimeMoves DEF vars, storeVars, nodeVars
  <2>3. UNCHANGED executionClaims
    BY <1>0, <1>6, TimeMoves, UserWrites DEF CancelClaims, UsersKnown, vars, substrateVars
  <2>. QED  BY <1>1, <1>2, <2>1, <2>2, <2>3 DEF ClaimsOn, Lost
<1>7. CASE Crash
  <2>1. epoch = 0 /\ nodeStatus[n] = "RUNNING" /\ UNCHANGED <<attempt, executionClaims>>
    BY <1>0, <1>1, <1>7 DEF Crash, storeVars, nodeVars, substrateVars
  <2>2. flowPc[n] \in UnderClaim  BY <2>1 DEF RunningFits, UnderClaim
  <2>3. [node |-> n, attempt |-> attempt[n], epoch |-> epoch] \in executionClaims
    BY <1>0, <2>2 DEF Leased, FlowAttempts
  <2>. QED  BY <2>1, <2>3 DEF ClaimsOn
<1>. QED  BY <1>3, <1>4, <1>5, <1>6, <1>7 DEF Next

\* A RUNNING node is never lost: without a crash it is being executed; after one, if no
\* deadline or cancellation drops claims, its claim is there to run out.
THEOREM RunningNodesLeased ==
  ASSUME \/ MaxCrashes = 0
         \/ MaxCrashes <= 1 /\ ~Stalls /\ MaxCancels = 0 /\ "latency" \notin Deadlines
  PROVE  Spec => []RunningIsLeased
<1>. DEFINE Leases == ~Stalls => Leased
            IInv == /\ RunningFits /\ Bounded /\ Leases
                    /\ MaxCrashes # 0 => RunningIsLeased
<1>1. Init => IInv
  BY LimitAssumption DEF Init, SubstrateInit, RunningFits, Bounded, Leased, UnderClaim,
     RunningIsLeased
<1>2. ASSUME Inductive, Safe, IInv, [Next]_vars  PROVE IInv'
  <2>1. TypeOK /\ Owned /\ FlowAttempts /\ UsersKnown  BY <1>2 DEF Inductive, Owned, Safe
  <2>2. RunningFits' /\ Bounded'  BY <1>2, <2>1, NextRunningFits, NextBounded
  <2>3. Leases'  BY <1>2, <2>1, NextLeased
  <2>4. MaxCrashes # 0 => RunningIsLeased'
    BY <1>2, <2>1, <2>2, NextRunningIsLeased
  <2>. QED  BY <2>2, <2>3, <2>4
<1>3. ASSUME TypeOK, IInv  PROVE RunningIsLeased
  <2>1. CASE MaxCrashes = 0
    <3>1. epoch = 0  BY <1>3, <2>1 DEF Bounded, TypeOK, WorldOK
    <3>. QED  BY <1>3, <3>1 DEF RunningFits, RunningIsLeased
  <2>. QED  BY <1>3, <2>1
<1>4. Inductive => TypeOK  BY DEF Inductive
<1>. QED  BY <1>1, <1>2, <1>3, <1>4, SafeHolds, PTL DEF Spec

-----------------------------------------------------------------------------
(* The tool budget *)

\* Of the steps of its flow only a successful return makes a tool node one that ran:
\* a downgraded one is at an attempt nobody invoked.
LEMMA FlowRanTools ==
  ASSUME TypeOK, FlowAttempts, InvokedPast, NEW n \in Nodes, HasRoom(n), ExecuteNode(n),
         n \in RanTools', n \notin RanTools
  PROVE  ReturnOk(n)
<1>. USE DEF RanTools, ToolRan, TypeOK, NodesOK, FlowsOK, InvokedOK, Goto, KeepsStates, WritesNode,
             ClosedNode, SetNode, storeVars, nodeVars
<1>0. /\ attempt[n] \in 0..MaxAttempt /\ target[n] \in 0..MaxAttempt /\ Attempts = 1..MaxAttempt
      /\ MaxAttempt \in Nat /\ \A a \in Attempts : invoked[n][a] > 0 => a <= attempt[n]
  BY AttemptBound DEF InvokedPast, Attempts
<1>s. SUFFICES ASSUME ~ReturnOk(n)  PROVE FALSE
  OBVIOUS
<1>1. CASE ExecOverBudget(n)
  <2>1. CASE Kind[n] = "tool"
    <3>1. attempt'[n] = attempt[n] + 1 /\ invoked'[n] = invoked[n] /\ attempt[n] < MaxAttempt
      BY <1>1, <2>1 DEF ExecOverBudget
    <3>2. invoked[n][attempt[n] + 1] > 0  BY <3>1
    <3>. QED  BY <1>0, <3>1, <3>2
  <2>. QED  BY <2>1
<1>2. CASE GateDowngrades(n)
  <2>1. /\ attempt'[n] = target[n] /\ target[n] = attempt[n] + 1 /\ invoked'[n] = invoked[n]
    BY <1>2 DEF GateDowngrades, FlowAttempts
  <2>2. invoked[n][target[n]] > 0  BY <2>1
  <2>. QED  BY <1>0, <2>1, <2>2
<1>3. CASE WorkDowngraded(n)
  <2>1. attempt'[n] = target[n] /\ invoked'[n] = invoked[n] /\ invoked[n][target[n]] = 0
    BY <1>3 DEF WorkDowngraded, FlowAttempts, InvokedPast, UnderClaim
  <2>. QED  BY <2>1
<1>4. CASE Invoke(n)
  BY <1>4 DEF Invoke, HasRoom, Admitted
<1>5. CASE \/ ExecSkip(n) \/ ExecPrepare(n) \/ ClaimRefused(n) \/ ClaimUnit(n) \/ ConsumeRetryJob(n)
           \/ ScheduleRetry(n) \/ DeadLetter(n) \/ TaskWaits(n) \/ TaskRuns(n) \/ Commit(n)
           \/ Release(n) \/ WakeForRetry(n) \/ ReconcileFailure(n)
  <2>1. UNCHANGED <<nodeStatus, attempt, invoked>>
    BY <1>5 DEF ExecSkip, ExecPrepare, ClaimRefused, ClaimUnit, ConsumeRetryJob, ScheduleRetry,
       DeadLetter, TaskWaits, TaskRuns, Commit, Release, AfterRelease, WakeForRetry,
       ReconcileFailure
  <2>. QED  BY <2>1
<1>6. CASE \/ GateDenies(n) \/ GateAsksUser(n) \/ StartNode(n) \/ WorkAsksUser(n)
           \/ ReturnNeedsUser(n) \/ ReturnRetryable(n) \/ ReturnExhausted(n) \/ ReturnFatal(n)
  <2>1. nodeStatus'[n] \in {"FAILED", "WAITING_USER", "RUNNING"}
    BY <1>6 DEF GateDenies, GateAsksUser, StartNode, WorkAsksUser, ReturnNeedsUser,
       ReturnRetryable, ReturnExhausted, ReturnFatal
  <2>. QED  BY <2>1
<1>. QED  BY <1>s, <1>1, <1>2, <1>3, <1>4, <1>5, <1>6 DEF ExecuteNode

\* Nobody but a flow makes a tool node one that ran.
LEMMA NextRanTools ==
  ASSUME TypeOK, Owned, FlowAttempts, InvokedPast, UsersKnown, \A n \in Nodes : HasRoom(n),
         [Next]_vars, NEW n \in Nodes, n \in RanTools', n \notin RanTools
  PROVE  ReturnOk(n)
<1>. USE DEF RanTools, ToolRan
<1>1. ASSUME NEW m \in Nodes, m # n, ExecuteNode(m)  PROVE FALSE
  <2>1. nodeStatus'[n] = nodeStatus[n] /\ attempt'[n] = attempt[n] /\ invoked'[n] = invoked[n]
    BY <1>1, FlowFrame, FlowShape
  <2>. QED  BY <2>1
<1>2. ASSUME NEW c \in Callers, RunTask(c)  PROVE FALSE
  <2>1. CASE DowngradeTool(c)
    <3>1. PICK m \in todo[c] : /\ attempt[m] < MaxAttempt /\ SetNode(m, "SUCCEEDED")
                               /\ attempt' = [attempt EXCEPT ![m] = @ + 1]
      BY <2>1 DEF DowngradeTool
    <3>2. UNCHANGED invoked  BY <1>2, RunMoves
    <3>3. attempt[n] \in 0..MaxAttempt /\ MaxAttempt \in Nat
      BY AttemptBound DEF TypeOK, NodesOK
    <3>4. CASE m # n
      <4>1. nodeStatus'[n] = nodeStatus[n] /\ attempt'[n] = attempt[n]
        BY <3>1, <3>4 DEF SetNode, TypeOK, NodesOK
      <4>. QED  BY <3>2, <4>1
    <3>5. CASE m = n
      <4>1. attempt'[n] = attempt[n] + 1 /\ attempt[n] + 1 \in Attempts
        BY <3>1, <3>3, <3>5 DEF TypeOK, NodesOK, Attempts
      <4>2. invoked[n][attempt[n] + 1] > 0  BY <3>2, <4>1
      <4>3. attempt[n] + 1 <= attempt[n]  BY <4>1, <4>2 DEF InvokedPast
      <4>. QED  BY <3>3, <4>3
    <3>. QED  BY <3>4, <3>5
  <2>2. CASE ~DowngradeTool(c)
    <3>1. UNCHANGED attempt /\ UNCHANGED invoked
      BY <1>2, <2>2 DEF RunTask, RunSteps, TimerFires, RunRequested, Poll, EnterRun,
         ExpireClaim, RecoverNode, RequeueDueJob, MarkRequeued, PassGuard, FailExpiredTask,
         FailExpiredClaims, FailExpiredEnd, DowngradeToolEnd, Dispatch, ReconcileRun, FollowUp,
         FinishRun, storeVars, nodeVars
    <3>2. nodeStatus'[n] \in {nodeStatus[n], "PENDING"}
      <4>1. \/ UNCHANGED nodeStatus
            \/ \E m : SetNode(m, "PENDING")
        BY <1>2, <2>2 DEF ClosedNode, RunTask, RunSteps, TimerFires, RunRequested, Poll,
           EnterRun, ExpireClaim, RecoverNode, RequeueDueJob, MarkRequeued, PassGuard,
           FailExpiredTask, FailExpiredClaims, FailExpiredEnd, DowngradeToolEnd, Dispatch,
           ReconcileRun, FollowUp, FinishRun, storeVars, nodeVars
      <4>. QED  BY <4>1 DEF SetNode, TypeOK, NodesOK
    <3>. QED  BY <3>1, <3>2
  <2>. QED  BY <2>1, <2>2
<1>3. CASE UserRequests \/ UserSteps
  <2>1. UNCHANGED <<attempt, invoked>>  BY <1>3, WorldShape
  <2>2. \/ nodeStatus'[n] = nodeStatus[n] \/ nodeStatus'[n] = "CANCELLED"
        \/ \E g \in BOOLEAN : ApproveNode(n, g)
    BY <1>3 DEF UserRequests, UserSteps, CancelStart, ApproveNode, ApproveTask, CancelNode,
       CancelJobs, CancelClaims, CancelTask, ClosedNode, SetNode, storeVars, nodeVars, TypeOK,
       NodesOK
  <2>3. nodeStatus'[n] # "SUCCEEDED" \/ nodeStatus'[n] = nodeStatus[n]
    BY <2>2 DEF ApproveNode, ClosedNode, SetNode, TypeOK, NodesOK
  <2>. QED  BY <2>1, <2>3
<1>4. CASE Time \/ Crash \/ UNCHANGED vars
  <2>1. UNCHANGED <<nodeStatus, attempt, invoked>>
    BY <1>4, TimeMoves DEF Crash, vars, storeVars, nodeVars
  <2>. QED  BY <2>1
<1>. QED  BY <1>1, <1>2, <1>3, <1>4, FlowRanTools DEF Next

\* A flow is admitted to a tool call only when the budget has room for it.
LEMMA FlowHasRoom ==
  ASSUME TypeOK, NEW n \in Nodes, HasRoom(n), toolCalls <= MaxToolCalls, ExecuteNode(n)
  PROVE  HasRoom(n)' /\ toolCalls' <= MaxToolCalls
<1>. USE DEF HasRoom, Admitted, TypeOK, TasksOK, NodesOK, FlowsOK, Goto, KeepsStates, WritesNode,
             ClosedNode, SetNode, SetTask, storeVars, taskVars, nodeVars
<1>1. CASE ExecSkip(n) \/ ExecOverBudget(n) \/ GateDenies(n) \/ GateDowngrades(n) \/ GateAsksUser(n)
           \/ ClaimRefused(n)
  BY <1>1 DEF ExecSkip, ExecOverBudget, GateDenies, GateDowngrades, GateAsksUser, ClaimRefused
<1>2. CASE ExecPrepare(n)
  <2>1. Kind[n] = "tool" => toolCalls < MaxToolCalls
    BY <1>2, LimitAssumption DEF ExecPrepare, WillExceedBudget
  <2>. QED  BY <1>2, <2>1 DEF ExecPrepare
<1>3. CASE ClaimUnit(n) \/ StartNode(n) \/ ConsumeRetryJob(n) \/ WorkDowngraded(n) \/ WorkAsksUser(n)
           \/ Invoke(n)
  BY <1>3 DEF ClaimUnit, StartNode, ConsumeRetryJob, WorkDowngraded, WorkAsksUser, Invoke
<1>4. CASE \/ ReturnOk(n) \/ ReturnNeedsUser(n) \/ ReturnRetryable(n) \/ ReturnExhausted(n)
           \/ ReturnFatal(n)
  BY <1>4 DEF ReturnOk, ReturnNeedsUser, ReturnRetryable, ReturnExhausted, ReturnFatal
<1>5. CASE \/ ScheduleRetry(n) \/ DeadLetter(n) \/ TaskWaits(n) \/ TaskRuns(n) \/ Release(n)
           \/ WakeForRetry(n)
  BY <1>5 DEF ScheduleRetry, DeadLetter, TaskWaits, TaskRuns, Release, AfterRelease, WakeForRetry
<1>6. CASE Commit(n)
  <2>1. flowPc'[n] = "release"  BY <1>6 DEF Commit
  <2>2. toolCalls' <= MaxToolCalls  BY <1>6, LimitAssumption DEF Commit
  <2>. QED  BY <2>1, <2>2
<1>7. CASE ReconcileFailure(n)
  <2>1. flowPc'[n] = "idle" /\ UNCHANGED toolCalls  BY <1>7 DEF ReconcileFailure, ReconcileTask
  <2>. QED  BY <2>1
<1>. QED  BY <1>1, <1>2, <1>3, <1>4, <1>5, <1>6, <1>7 DEF ExecuteNode

\* Between admission and charge the budget moves for no other node, while one node is
\* executed at a time.
LEMMA NextHasRoom ==
  ASSUME TypeOK, Owned, UsersKnown, OneAtATime, \A n \in Nodes : HasRoom(n),
         toolCalls <= MaxToolCalls, [Next]_vars
  PROVE  (\A n \in Nodes : HasRoom(n)') /\ toolCalls' <= MaxToolCalls
<1>1. ASSUME NEW m \in Nodes, ExecuteNode(m)
      PROVE  (\A n \in Nodes : HasRoom(n)') /\ toolCalls' <= MaxToolCalls
  <2>1. ASSUME NEW n \in Nodes, n # m  PROVE HasRoom(n)'
    <3>1. flowPc'[n] = "idle"
      <4>1. flowPc[m] # "idle" /\ flowPc'[n] = flowPc[n]  BY <1>1, <2>1, FlowShape
      <4>. QED  BY <2>1, <4>1 DEF OneAtATime
    <3>. QED  BY <3>1 DEF HasRoom, Admitted
  <2>. QED  BY <1>1, <2>1, FlowHasRoom
<1>2. ASSUME NEW c \in Callers, RunTask(c)
      PROVE  (\A n \in Nodes : HasRoom(n)') /\ toolCalls' <= MaxToolCalls
  <2>1. UNCHANGED toolCalls
    BY <1>2, RunWrites DEF FailExpiredEnd, DowngradeToolEnd, Dispatch, ReconcileRun,
       ReconcileTask, SetTask
  <2>2. UNCHANGED spentSeen
    BY <1>2 DEF RunTask, RunSteps, TimerFires, RunRequested, Poll, EnterRun, ExpireClaim,
       RecoverNode, RequeueDueJob, MarkRequeued, PassGuard, FailExpiredTask, FailExpiredClaims,
       FailExpiredEnd, DowngradeTool, DowngradeToolEnd, Dispatch, ReconcileRun, FollowUp,
       FinishRun, flowVars
  <2>3. ASSUME NEW n \in Nodes  PROVE HasRoom(n)'
    <3>1. Planning(c) => flowPc[n] = "idle"  BY NoFlows DEF Planning, Guarded, FlowsIdle
    <3>2. \/ UNCHANGED flowPc
          \/ UNCHANGED nodeStatus
             /\ (flowPc'[n] = flowPc[n] \/ (flowPc'[n] = "check" /\ nodeStatus[n] = "PENDING"))
      BY <1>2, RunMoves
    <3>3. \/ nodeStatus'[n] = nodeStatus[n] \/ nodeStatus'[n] = "PENDING" \/ Planning(c)
      BY <1>2, RunMoves
    <3>4. CASE UNCHANGED flowPc
      BY <2>1, <2>2, <3>1, <3>3, <3>4 DEF HasRoom, Admitted
    <3>5. CASE ~UNCHANGED flowPc
      BY <2>1, <2>2, <3>2, <3>5 DEF HasRoom, Admitted
    <3>. QED  BY <3>4, <3>5
  <2>. QED  BY <2>1, <2>3
<1>3. CASE UserRequests \/ UserSteps
  <2>1. UNCHANGED <<toolCalls, flowPc, spentSeen>>
    BY <1>3, UserMoves, UserWrites DEF ApproveTask, CancelTask, SetTask, taskVars, flowVars,
       UserRequests, UserSteps, CancelStart, ApproveNode, CancelNode, CancelJobs, CancelClaims,
       KeepsRun
  <2>2. \A n \in Nodes : nodeStatus'[n] \in {nodeStatus[n], "CANCELLED"}
                         \/ nodeStatus[n] = "WAITING_USER"
    BY <1>3, UserMoves
  <2>. QED  BY <2>1, <2>2 DEF HasRoom, Admitted
<1>4. CASE Time \/ UNCHANGED vars
  <2>1. UNCHANGED <<toolCalls, flowPc, spentSeen, nodeStatus>>
    BY <1>4, TimeMoves DEF vars, storeVars, taskVars, nodeVars, flowVars
  <2>. QED  BY <2>1 DEF HasRoom
<1>5. CASE Crash
  <2>1. UNCHANGED toolCalls /\ \A n \in Nodes : flowPc'[n] = "idle"
    BY <1>5 DEF Crash, storeVars, taskVars
  <2>. QED  BY <2>1 DEF HasRoom, Admitted
<1>. QED  BY <1>1, <1>2, <1>3, <1>4, <1>5 DEF Next

\* Without a crash, every tool that ran is charged, or about to be.
LEMMA NextCharged ==
  ASSUME TypeOK, Owned, FlowAttempts, InvokedPast, UsersKnown, OneAtATime, Charged, IsFiniteSet(Nodes),
         [Next]_vars, ~Crash
  PROVE  Charged'
<1>. USE DEF Charged
<1>0. /\ toolCalls \in Nat /\ IsFiniteSet(RanTools) /\ Cardinality(RanTools) \in Nat
      /\ RanTools' \subseteq Nodes
      /\ \A n \in Nodes : spentSeen[n] \in Nat
  <2>1. IsFiniteSet(RanTools)
    BY FS_Subset DEF RanTools
  <2>. QED  BY <2>1, FS_CardinalityType DEF TypeOK, TasksOK, FlowsOK, RanTools
<1>1. (\A n \in Nodes : HasRoom(n)') /\ toolCalls' <= MaxToolCalls
  BY NextHasRoom
<1>2. Cardinality(RanTools') <= toolCalls' + (IF Charging' THEN 1 ELSE 0)
  <2>1. CASE RanTools' \subseteq RanTools
    <3>1. Cardinality(RanTools') <= Cardinality(RanTools) /\ Cardinality(RanTools') \in Nat
      BY <1>0, <2>1, FS_Subset, FS_CardinalityType
    <3>2. ASSUME NEW n \in Nodes, Commit(n)
          PROVE  toolCalls + (IF Charging THEN 1 ELSE 0) <= toolCalls' /\ toolCalls' \in Nat
      <4>1. flowPc[n] = "commit" /\ spentSeen[n] = toolCalls
        BY <3>2 DEF Commit, HasRoom
      <4>2. toolCalls' = toolCalls + (IF Kind[n] = "tool" THEN 1 ELSE 0)
        BY <3>2, <4>1 DEF Commit
      <4>3. Charging => Kind[n] = "tool"  BY <4>1 DEF Charging, OneAtATime
      <4>. QED  BY <1>0, <4>2, <4>3
    <3>3. ASSUME \A n \in Nodes : ~Commit(n)
          PROVE  toolCalls' = toolCalls /\ (Charging => Charging')
      <4>1. ASSUME NEW m \in Nodes, ExecuteNode(m)  PROVE UNCHANGED toolCalls
        BY <3>3, <4>1, FlowWrites DEF TaskWaits, TaskRuns, ReconcileFailure, ReconcileTask, SetTask
      <4>2. ASSUME NEW c \in Callers, RunTask(c)  PROVE UNCHANGED toolCalls
        BY <4>2, RunWrites DEF FailExpiredEnd, DowngradeToolEnd, Dispatch, ReconcileRun,
           ReconcileTask, SetTask
      <4>3. ASSUME UserRequests \/ UserSteps  PROVE UNCHANGED toolCalls
        BY <4>3, UserWrites DEF ApproveTask, CancelTask, SetTask, taskVars
      <4>4. ASSUME Time \/ UNCHANGED vars  PROVE UNCHANGED toolCalls
        BY <4>4, TimeMoves DEF vars, storeVars, taskVars
      <4>5. ASSUME NEW n \in Nodes, flowPc[n] = "commit"  PROVE flowPc'[n] = "commit"
        <5>1. ~ExecuteNode(n)
          BY <3>3, <4>5 DEF ExecuteNode, ExecSkip, ExecOverBudget, ExecPrepare, GateDenies,
             GateDowngrades, GateAsksUser, ClaimRefused, ClaimUnit, StartNode, ConsumeRetryJob,
             WorkDowngraded, WorkAsksUser, Invoke, ReturnOk, ReturnNeedsUser, ReturnRetryable,
             ReturnExhausted, ReturnFatal, ScheduleRetry, DeadLetter, TaskWaits, TaskRuns,
             Release, AfterRelease, WakeForRetry, ReconcileFailure
        <5>2. ASSUME NEW c \in Callers, RunTask(c)  PROVE flowPc'[n] = "commit"
          BY <4>5, <5>2, RunMoves, NoFlows DEF Dispatch, Planning, Guarded, FlowsIdle
        <5>. QED  BY <4>5, <5>1, <5>2, FlowShape, WorldShape DEF Next
      <4>6. toolCalls' = toolCalls  BY <4>1, <4>2, <4>3, <4>4 DEF Next
      <4>7. Charging => Charging'  BY <4>5 DEF Charging
      <4>. QED  BY <4>6, <4>7
    <3>4. CASE \E n \in Nodes : Commit(n)
      <4>1. toolCalls + (IF Charging THEN 1 ELSE 0) <= toolCalls' /\ toolCalls' \in Nat
        BY <3>2, <3>4
      <4>. QED  BY <1>0, <3>1, <4>1
    <3>5. CASE \A n \in Nodes : ~Commit(n)
      BY <1>0, <3>1, <3>3, <3>5
    <3>. QED  BY <3>4, <3>5
  <2>2. ASSUME NEW n \in RanTools', n \notin RanTools
        PROVE  Cardinality(RanTools') <= toolCalls' + (IF Charging' THEN 1 ELSE 0)
    <3>1. n \in Nodes /\ Kind[n] = "tool"  BY <2>2 DEF RanTools
    <3>2. ReturnOk(n)  BY <2>2, <3>1, NextRanTools
    <3>3. flowPc[n] = "executing" /\ toolCalls' = toolCalls /\ flowPc'[n] = "commit"
      BY <3>1, <3>2 DEF ReturnOk, Goto, WritesNode, taskVars, TypeOK, FlowsOK
    <3>4. \A m \in RanTools' : m \in RanTools \/ m = n
      BY <1>0, <3>1, <3>3, NextRanTools DEF ReturnOk, OneAtATime
    <3>5. RanTools' \subseteq RanTools \cup {n}  BY <3>4
    <3>6. Cardinality(RanTools') <= Cardinality(RanTools) + 1 /\ Cardinality(RanTools') \in Nat
      <4>1. IsFiniteSet(RanTools \cup {n}) /\ Cardinality(RanTools \cup {n}) = Cardinality(RanTools) + 1
        BY <1>0, <2>2, FS_AddElement
      <4>. QED  BY <3>5, <4>1, FS_Subset, FS_CardinalityType
    <3>7. ~Charging  BY <3>1, <3>3 DEF Charging, OneAtATime
    <3>8. Charging'  BY <3>1, <3>3 DEF Charging
    <3>. QED  BY <1>0, <3>3, <3>6, <3>7, <3>8
  <2>. QED  BY <2>1, <2>2
<1>. QED  BY <1>1, <1>2

\* The batches of one node of a run without parallelism.
OneInBatch ==
  \A c \in Callers : callPc[c] = "wait" => \A m, n \in todo[c] : m = n

\* With max_parallel_nodes at 1 a batch is one node, and no second run adds another.
LEMMA NextOneInBatch ==
  ASSUME TypeOK, Owned, OneInBatch, MaxParallel = 1, IsFiniteSet(Nodes), [Next]_vars
  PROVE  OneInBatch'
<1>. USE DEF OneInBatch
<1>1. ASSUME NEW c \in Callers, RunTask(c)  PROVE OneInBatch'
  <2>1. \A d \in Callers \ {c} : callPc'[d] = callPc[d] /\ todo'[d] = todo[d]
    BY <1>1 DEF RunTask, RunSteps, TimerFires, RunRequested, Poll, EnterRun, ExpireClaim,
       RecoverNode, RequeueDueJob, MarkRequeued, PassGuard, FailExpiredTask, FailExpiredClaims,
       FailExpiredEnd, DowngradeTool, DowngradeToolEnd, Dispatch, ReconcileRun, FollowUp,
       FinishRun, MoveCall, TypeOK, CallsOK
  <2>2. CASE Dispatch(c)
    <3>1. PICK batch \in SUBSET Runnable : IsBatch(batch) /\ MoveCall(c, "wait", batch)
      BY <2>2 DEF Dispatch
    <3>2. todo'[c] = batch  BY <3>1 DEF MoveCall, TypeOK, CallsOK
    <3>3. ASSUME NEW m \in batch, NEW n \in batch, m # n  PROVE FALSE
      <4>1. IsFiniteSet(batch) /\ {m, n} \in SUBSET batch
        BY <3>1, FS_Subset DEF Runnable
      <4>2. Cardinality({m}) = 1 /\ IsFiniteSet({m})  BY FS_Singleton
      <4>3. Cardinality({m} \cup {n}) = 2
        <5>1. n \notin {m}  BY <3>3
        <5>2. Cardinality({m} \cup {n}) = IF n \in {m} THEN Cardinality({m}) ELSE Cardinality({m}) + 1
          BY <4>2, FS_AddElement
        <5>. QED  BY <4>2, <5>1, <5>2
      <4>4. {m} \cup {n} = {m, n}  OBVIOUS
      <4>5. Cardinality({m, n}) <= Cardinality(batch) /\ Cardinality(batch) \in Nat
        BY <4>1, FS_Subset, FS_CardinalityType
      <4>. QED  BY <3>1, <4>3, <4>4, <4>5 DEF IsBatch
    <3>. QED  BY <2>1, <3>2, <3>3
  <2>3. CASE ~Dispatch(c)
    <3>1. callPc'[c] # "wait"
      BY <1>1, <2>3 DEF RunTask, RunSteps, TimerFires, RunRequested, Poll, EnterRun,
         ExpireClaim, RecoverNode, RequeueDueJob, MarkRequeued, PassGuard, FailExpiredTask,
         FailExpiredClaims, FailExpiredEnd, DowngradeTool, DowngradeToolEnd, ReconcileRun,
         FollowUp, FinishRun, MoveCall, TypeOK, CallsOK
    <3>. QED  BY <2>1, <3>1
  <2>. QED  BY <2>2, <2>3
<1>2. ASSUME NEW n \in Nodes, ExecuteNode(n)  PROVE OneInBatch'
  BY <1>2, FlowShape
<1>3. CASE UserRequests \/ UserSteps \/ Time \/ UNCHANGED vars
  BY <1>3, WorldShape
<1>4. CASE Crash
  BY <1>4 DEF Crash
<1>. QED  BY <1>1, <1>2, <1>3, <1>4 DEF Next

\* One node at a time is executed when max_parallel_nodes is 1, however many
\* invocations of runTask overlap.
THEOREM OneNodeAtATime ==
  ASSUME MaxParallel = 1, IsFiniteSet(Nodes)
  PROVE  Spec => []OneAtATime
<1>1. Init => OneInBatch  BY DEF Init, OneInBatch
<1>2. Inductive /\ OneInBatch /\ [Next]_vars => OneInBatch'
  BY NextOneInBatch DEF Inductive, Owned
<1>3. Inductive /\ OneInBatch => OneAtATime
  <2>1. SUFFICES ASSUME Inductive, OneInBatch, NEW m \in Nodes, NEW n \in Nodes,
                        flowPc[m] # "idle", flowPc[n] # "idle"
                 PROVE  m = n
    BY DEF OneAtATime
  <2>2. PICK c \in Callers : callPc[c] = "wait" /\ m \in todo[c]
    BY <2>1 DEF Inductive, FlowOwned
  <2>3. PICK d \in Callers : callPc[d] = "wait" /\ n \in todo[d]
    BY <2>1 DEF Inductive, FlowOwned
  <2>4. c = d  BY <2>1, <2>2, <2>3 DEF Inductive, RunExclusive, Guarded
  <2>. QED  BY <2>1, <2>2, <2>3, <2>4 DEF OneInBatch
<1>. QED  BY <1>1, <1>2, <1>3, InductiveHolds, PTL DEF Spec

\* While nodes are executed one at a time and no process stops, the results tools have
\* given and the tool being executed never exceed max_tool_calls, whatever the approvals,
\* cancellations, retries and overlapping runs.
THEOREM BudgetKept ==
  ASSUME MaxCrashes = 0, IsFiniteSet(Nodes)
  PROVE  Spec /\ []OneAtATime => []ToolsWithinBudget
<1>1. Init => Bounded /\ Charged
  <2>1. ASSUME Init  PROVE RanTools = {}  BY <2>1 DEF Init, RanTools
  <2>2. Init => Bounded  BY LimitAssumption DEF Init, Bounded
  <2>3. Init => (\A n \in Nodes : HasRoom(n)) /\ toolCalls = 0 /\ ~Charging
    BY DEF Init, HasRoom, Admitted, Charging
  <2>4. Cardinality({}) = 0  BY FS_EmptySet
  <2>. QED  BY <2>1, <2>2, <2>3, <2>4, LimitAssumption DEF Charged
<1>2. ASSUME Inductive, Safe, OneAtATime, Bounded, Charged, [Next]_vars
      PROVE  Bounded' /\ Charged'
  <2>1. TypeOK /\ Owned /\ FlowAttempts /\ InvokedPast /\ UsersKnown
    BY <1>2 DEF Inductive, Owned, Safe
  <2>2. ~Crash  BY <1>2, <2>1 DEF Bounded, Crash, TypeOK, WorldOK
  <2>. QED  BY <1>2, <2>1, <2>2, NextBounded, NextCharged
<1>3. Inductive /\ OneAtATime /\ Charged => ToolsWithinBudget
  <2>1. SUFFICES ASSUME Inductive, OneAtATime, Charged  PROVE ToolsWithinBudget
    OBVIOUS
  <2>. DEFINE Counted == {n \in Nodes : /\ Kind[n] = "tool"
                                        /\ \/ nodeStatus[n] = "SUCCEEDED" /\ ToolRan(n)
                                           \/ flowPc[n] = "executing"}
  <2>2. /\ toolCalls \in Nat /\ toolCalls <= MaxToolCalls /\ MaxToolCalls \in Nat
        /\ IsFiniteSet(RanTools)
    BY <2>1, FS_Subset, LimitAssumption DEF Inductive, TypeOK, TasksOK, RanTools, Charged
  <2>3. Cardinality(RanTools) \in Nat  BY <2>2, FS_CardinalityType
  <2>4. CASE \E n \in Counted : flowPc[n] = "executing"
    <3>1. PICK n \in Nodes : Kind[n] = "tool" /\ flowPc[n] = "executing"  BY <2>4
    <3>2. toolCalls < MaxToolCalls  BY <2>1, <3>1 DEF Charged, HasRoom, Admitted
    <3>3. ~Charging  BY <2>1, <3>1 DEF Charging, OneAtATime
    <3>4. Cardinality(RanTools) <= toolCalls  BY <2>1, <2>2, <3>3 DEF Charged
    <3>5. Counted \subseteq RanTools \cup {n}  BY <2>1, <3>1 DEF OneAtATime, RanTools
    <3>6. /\ IsFiniteSet(RanTools \cup {n})
          /\ Cardinality(RanTools \cup {n}) =
               IF n \in RanTools THEN Cardinality(RanTools) ELSE Cardinality(RanTools) + 1
      BY <2>2, FS_AddElement
    <3>7. Cardinality(Counted) <= Cardinality(RanTools \cup {n}) /\ Cardinality(Counted) \in Nat
      BY <3>5, <3>6, FS_Subset, FS_CardinalityType
    <3>8. Cardinality(RanTools \cup {n}) <= MaxToolCalls  BY <2>2, <2>3, <3>2, <3>4, <3>6
    <3>9. Cardinality(RanTools \cup {n}) \in Nat  BY <3>6, FS_CardinalityType
    <3>10. Cardinality(Counted) <= MaxToolCalls  BY <2>2, <3>7, <3>8, <3>9
    <3>. QED  BY <3>10 DEF ToolsWithinBudget
  <2>5. CASE \A n \in Counted : flowPc[n] # "executing"
    <3>1. Counted \subseteq RanTools  BY <2>5 DEF RanTools
    <3>2. Cardinality(Counted) <= Cardinality(RanTools) /\ Cardinality(Counted) \in Nat
      BY <2>2, <3>1, FS_Subset, FS_CardinalityType
    <3>3. Charging => toolCalls < MaxToolCalls
      BY <2>1 DEF Charged, Charging, HasRoom
    <3>4. Cardinality(RanTools) <= MaxToolCalls
      BY <2>1, <2>2, <2>3, <3>3 DEF Charged
    <3>5. Cardinality(Counted) <= MaxToolCalls  BY <2>2, <2>3, <3>2, <3>4
    <3>. QED  BY <3>5 DEF ToolsWithinBudget
  <2>. QED  BY <2>4, <2>5
<1>. QED  BY <1>1, <1>2, <1>3, SafeHolds, PTL DEF Spec

\* In particular when max_parallel_nodes is 1.
THEOREM BudgetKeptOneByOne ==
  ASSUME MaxCrashes = 0, MaxParallel = 1, IsFiniteSet(Nodes)
  PROVE  Spec => []ToolsWithinBudget
<1>1. Spec => []OneAtATime  BY OneNodeAtATime
<1>2. Spec /\ []OneAtATime => []ToolsWithinBudget  BY BudgetKept
<1>. QED  BY <1>1, <1>2

-----------------------------------------------------------------------------
(* The end of a task *)

\* What reconcileTaskTerminalState finds when it ends a task.
LEMMA ReconciledOver ==
  ASSUME TypeOK, ReconcileTask, taskStatus' \in {"DONE", "FAILED"}
  PROVE  Over
<1>1. /\ executionClaims = {} /\ JobsWith(ActiveJob) = {}
      /\ \A n \in Nodes : nodeStatus[n] \notin {"WAITING_USER", "PENDING", "RUNNING"}
      /\ \A n \in Nodes : nodeStatus[n] = "FAILED" => ~retryable[n]
  BY DEF ReconcileTask, SetTask, HasPendingRetryJobs
<1>2. \A n \in Nodes : nodeStatus[n] \in NodeStatus  BY DEF TypeOK, NodesOK
<1>. QED  BY <1>1, <1>2 DEF Over, NodeStatus

\* Reconciling it once more gives the same result when a node has failed.
LEMMA ReconciledAgain ==
  ASSUME ReconcileTask, Over, \E n \in Nodes : nodeStatus[n] = "FAILED"
  PROVE  taskStatus' = "FAILED"
<1>1. /\ executionClaims = {} /\ ~HasPendingRetryJobs
      /\ \A n \in Nodes : nodeStatus[n] \notin {"WAITING_USER", "PENDING", "RUNNING"}
      /\ \A n \in Nodes : nodeStatus[n] = "FAILED" => ~retryable[n]
  BY DEF Over, HasPendingRetryJobs
<1>. QED  BY <1>1 DEF ReconcileTask, SetTask

\* Where a node that waits before its claim, for an approval the policy asks for, may be.
LEMMA FlowGateWaits ==
  ASSUME TypeOK, NEW n \in Nodes, ExecuteNode(n), flowPc'[n] = "gatewait"
  PROVE  nodeStatus'[n] = "WAITING_USER" /\ Kind[n] # "approval"
<1>. USE DEF TypeOK, NodesOK, FlowsOK, Goto, SetNode
<1>1. CASE GateAsksUser(n)
  BY <1>1 DEF GateAsksUser, Holds
<1>2. CASE ~GateAsksUser(n)
  <2>1. CASE \/ ExecSkip(n) \/ ExecOverBudget(n) \/ ExecPrepare(n) \/ GateDenies(n)
             \/ GateDowngrades(n) \/ ClaimRefused(n) \/ ClaimUnit(n) \/ StartNode(n)
             \/ ConsumeRetryJob(n) \/ WorkDowngraded(n) \/ WorkAsksUser(n) \/ Invoke(n)
    BY <2>1 DEF ExecSkip, ExecOverBudget, ExecPrepare, GateDenies, GateDowngrades, ClaimRefused,
         ClaimUnit, StartNode, ConsumeRetryJob, WorkDowngraded, WorkAsksUser, Invoke
  <2>2. CASE \/ ReturnOk(n) \/ ReturnNeedsUser(n) \/ ReturnRetryable(n) \/ ReturnExhausted(n)
             \/ ReturnFatal(n) \/ ScheduleRetry(n) \/ DeadLetter(n) \/ TaskWaits(n) \/ TaskRuns(n)
             \/ Commit(n) \/ Release(n) \/ WakeForRetry(n) \/ ReconcileFailure(n)
    BY <2>2 DEF ReturnOk, ReturnNeedsUser, ReturnRetryable, ReturnExhausted, ReturnFatal,
       ScheduleRetry, DeadLetter, TaskWaits, TaskRuns, Commit, Release, AfterRelease,
       WakeForRetry, ReconcileFailure
  <2>. QED  BY <1>2, <2>1, <2>2 DEF ExecuteNode
<1>. QED  BY <1>1, <1>2

\* A flow that ends its task finds no other in progress but those that will reconcile
\* it too, because all others leave a trace in what it looks at: a node that is not
\* closed, or a claim.
LEMMA FlowEnds ==
  ASSUME TypeOK, Owned, Safe, Leased, OneCaller, StandInsAlone, cancels = 0, EndHolds, EndKnown,
         NEW n \in Nodes, ExecuteNode(n)
  PROVE  /\ EndHolds' /\ EndKnown'
         /\ Ended => taskStatus' = taskStatus
<1>0. /\ flowPc[n] # "idle" /\ UNCHANGED <<callPc, todo, elapsed, cancels>>
      /\ \A m \in Nodes \ {n} : flowPc'[m] = flowPc[m] /\ nodeStatus'[m] = nodeStatus[m]
  BY FlowShape, FlowFrame DEF userVars, worldVars
<1>w. \A c \in Callers : callPc[c] = "wait"
  BY <1>0 DEF Owned, FlowOwned, OneCaller
<1>f. \A m \in Nodes : StatusFits(m)  BY DEF Safe, NodeSafe
<1>1. CASE Ended
  <2>1. ReconcileFailure(n)
    <3>1. flowPc[n] = "reconcile"  BY <1>0, <1>1 DEF EndHolds
    <3>. QED
      BY <3>1 DEF ExecuteNode, ExecSkip, ExecOverBudget, ExecPrepare, GateDenies,
         GateDowngrades, GateAsksUser, ClaimRefused, ClaimUnit, StartNode, ConsumeRetryJob,
         WorkDowngraded, WorkAsksUser, Invoke, ReturnOk, ReturnNeedsUser, ReturnRetryable,
         ReturnExhausted, ReturnFatal, ScheduleRetry, DeadLetter, TaskWaits, TaskRuns, Commit,
         Release, AfterRelease, WakeForRetry
  <2>2. taskStatus = "FAILED" /\ Over /\ \E m \in Nodes : nodeStatus[m] = "FAILED"
    <3>1. \E c \in Callers : TRUE  BY <1>0 DEF Owned, FlowOwned
    <3>. QED  BY <1>1, <1>w, <3>1 DEF EndHolds
  <2>3. taskStatus' = "FAILED"  BY <2>1, <2>2, ReconciledAgain DEF ReconcileFailure
  <2>4. /\ UNCHANGED <<nodeStatus, retryable, retryJobs, executionClaims>>
        /\ flowPc'[n] = "idle"
    BY <2>1 DEF ReconcileFailure, Goto, nodeVars, substrateVars, TypeOK, FlowsOK
  <2>5. Over'  BY <2>2, <2>4 DEF Over, JobsWith
  <2>6. EndHolds'
    BY <1>0, <1>1, <1>w, <2>2, <2>3, <2>4, <2>5 DEF EndHolds, Expired
  <2>7. EndKnown'
    BY <1>0, <2>3, <2>4 DEF EndKnown
  <2>. QED  BY <2>2, <2>3, <2>6, <2>7
<1>2. CASE ~Ended
  <2>1. EndKnown'
    <3>1. taskStatus' # "CANCELLED"
      BY FlowWrites DEF EndKnown, TaskWaits, TaskRuns, Commit, ReconcileFailure, ReconcileTask,
         SetTask
    <3>2. \A m \in Nodes : flowPc'[m] = "gatewait" =>
            nodeStatus'[m] \in {"WAITING_USER", "PENDING"} /\ Kind[m] # "approval"
      BY <1>0, FlowGateWaits DEF EndKnown
    <3>. QED  BY <3>1, <3>2 DEF EndKnown
  <2>2. ASSUME Ended'  PROVE EndHolds'
    <3>1. ReconcileFailure(n)
      BY <1>2, <2>2, FlowWrites DEF Ended, TaskWaits, TaskRuns, Commit, SetTask
    <3>2. Over  BY <2>2, <3>1, ReconciledOver DEF Ended, ReconcileFailure
    <3>3. nodeStatus[n] = "FAILED"
      BY <1>f, <3>1, <3>2 DEF ReconcileFailure, StatusFits, Over
    <3>4. taskStatus' = "FAILED"  BY <3>1, <3>2, <3>3, ReconciledAgain DEF ReconcileFailure
    <3>5. ASSUME NEW m \in Nodes  PROVE flowPc[m] \in {"idle", "reconcile"}
      <4>1. nodeStatus[m] \notin {"PENDING", "RUNNING", "WAITING_USER"}  BY <3>2 DEF Over
      <4>2. flowPc[m] \notin UnderClaim \cup {"start"}
        BY <3>2 DEF Leased, Over
      <4>3. flowPc[m] # "gatewait"  BY <4>1 DEF EndKnown
      <4>4. flowPc[m] # "gaterun"  BY <3>1 DEF StandInsAlone, ReconcileFailure
      <4>5. flowPc[m] \notin {"check", "gate"}  BY <1>f, <4>1 DEF StatusFits
      <4>6. flowPc[m] # "wake"  BY <1>f, <3>2, <4>1 DEF StatusFits, Over
      <4>7. flowPc[m] \in FlowPc  BY DEF TypeOK, FlowsOK
      <4>. QED  BY <4>2, <4>3, <4>4, <4>5, <4>6, <4>7 DEF FlowPc, UnderClaim
    <3>6. /\ UNCHANGED <<nodeStatus, retryable, retryJobs, executionClaims>>
          /\ flowPc'[n] = "idle"
      BY <3>1 DEF ReconcileFailure, Goto, nodeVars, substrateVars, TypeOK, FlowsOK
    <3>7. Over'  BY <3>2, <3>6 DEF Over, JobsWith
    <3>. QED
      BY <1>0, <1>w, <3>2, <3>3, <3>4, <3>5, <3>6, <3>7 DEF EndHolds, Over
  <2>. QED  BY <1>2, <2>1, <2>2 DEF EndHolds
<1>. QED  BY <1>1, <1>2

\* An ended task is not executed any more: the run that ended it leaves, and no other
\* passes the guard.
LEMMA RunEnds ==
  ASSUME TypeOK, Owned, OneCaller, Bounded, cancels = 0, EndHolds, EndKnown, NEW c \in Callers, RunTask(c)
  PROVE  /\ EndHolds' /\ EndKnown'
         /\ Ended => taskStatus' = taskStatus
<1>. USE DEF Ended
<1>c. Callers = {c}  BY DEF OneCaller
<1>e. UNCHANGED elapsed
  BY DEF RunTask, RunSteps, TimerFires, RunRequested, Poll, EnterRun, ExpireClaim, RecoverNode,
     RequeueDueJob, MarkRequeued, PassGuard, FailExpiredTask, FailExpiredClaims, FailExpiredEnd,
     DowngradeTool, DowngradeToolEnd, Dispatch, ReconcileRun, FollowUp, FinishRun, worldVars
<1>k. callPc \in [Callers -> CallPc] /\ DOMAIN todo = Callers  BY DEF TypeOK, CallsOK
<1>1. EndKnown'
  <2>1. taskStatus' # "CANCELLED"
    BY RunWrites DEF EndKnown, FailExpiredEnd, DowngradeToolEnd, Dispatch, ReconcileRun,
       ReconcileTask, SetTask
  <2>2. ASSUME NEW n \in Nodes, flowPc'[n] = "gatewait"
        PROVE  nodeStatus'[n] \in {"WAITING_USER", "PENDING"} /\ Kind[n] # "approval"
    <3>1. flowPc[n] = "gatewait"  BY <2>2, RunMoves
    <3>2. ~Planning(c)  BY <3>1, NoFlows DEF Planning, Guarded, FlowsIdle
    <3>. QED  BY <3>1, <3>2, RunMoves DEF EndKnown
  <2>. QED  BY <2>1, <2>2 DEF EndKnown
<1>2. ASSUME Ended, callPc[c] = "wait"  PROVE EndHolds' /\ taskStatus' = taskStatus
  <2>1. ReconcileRun(c)
    BY <1>2 DEF RunTask, RunSteps, TimerFires, RunRequested, Poll, EnterRun, ExpireClaim,
       RecoverNode, RequeueDueJob, MarkRequeued, PassGuard, FailExpiredTask, FailExpiredClaims,
       FailExpiredEnd, DowngradeTool, DowngradeToolEnd, Dispatch, FollowUp, FinishRun, Planning
  <2>2. taskStatus = "FAILED" /\ taskStatus' = "FAILED"
    BY <1>2, <2>1, ReconciledAgain DEF EndHolds, ReconcileRun
  <2>3. callPc'[c] = "follow" /\ UNCHANGED <<flowPc, nodeStatus>>
    BY <1>k, <2>1 DEF ReconcileRun, MoveCall, flowVars
  <2>. QED  BY <1>c, <1>e, <1>2, <2>2, <2>3 DEF EndHolds, Expired
<1>3. ASSUME Ended, callPc[c] # "wait"  PROVE EndHolds' /\ taskStatus' = taskStatus
  <2>1. callPc[c] \notin {"plan", "downgrade", "downgraded", "failclaims", "failtask"}
    BY <1>3 DEF EndHolds
  <2>2. /\ callPc'[c] \notin {"wait", "plan", "downgrade", "downgraded", "failclaims", "failtask"}
        /\ UNCHANGED taskStatus /\ UNCHANGED flowPc
    BY <1>k, <1>3, <2>1
    DEF RunTask, RunSteps, TimerFires, RunRequested, Poll, EnterRun, ExpireClaim, RecoverNode,
        RequeueDueJob, MarkRequeued, PassGuard, FailExpiredTask, FailExpiredClaims,
        FailExpiredEnd, DowngradeTool, DowngradeToolEnd, Dispatch, ReconcileRun,
        NothingRunnable, BatchDone, FollowUp, FinishRun, Planning, MoveCall, storeVars,
        taskVars, flowVars, TerminalTask
  <2>3. \A n \in Nodes : nodeStatus'[n] = "WAITING_USER" => nodeStatus[n] = "WAITING_USER"
    BY RunMoves
  <2>. QED  BY <1>c, <1>e, <1>3, <2>2, <2>3 DEF EndHolds, Expired
<1>4. ASSUME ~Ended, Ended'  PROVE EndHolds'
  <2>1. ReconcileRun(c) \/ FailExpiredEnd(c)
    BY <1>4, RunWrites DEF DowngradeToolEnd, Dispatch, SetTask
  <2>2. /\ callPc[c] \in Guarded
        /\ callPc[c] = "wait" => \A n \in todo[c] : flowPc[n] = "idle"
    BY <2>1 DEF ReconcileRun, NothingRunnable, BatchDone, FailExpiredEnd, Planning, Guarded
  <2>3. FlowsIdle  BY <2>2, NoFlows
  <2>4. callPc'[c] \in {"follow", "finish"} /\ UNCHANGED <<flowPc, nodeStatus>>
    BY <1>k, <2>1 DEF ReconcileRun, FailExpiredEnd, MoveCall, flowVars
  <2>5. ~Expired => \A n \in Nodes : nodeStatus[n] # "WAITING_USER"
    <3>1. CASE FailExpiredEnd(c)  BY <3>1 DEF FailExpiredEnd, Bounded
    <3>2. CASE ReconcileRun(c)
      BY <1>4, <3>2, ReconciledOver DEF ReconcileRun, Over
    <3>. QED  BY <2>1, <3>1, <3>2
  <2>. QED  BY <1>c, <1>e, <2>3, <2>4, <2>5 DEF EndHolds, FlowsIdle, Expired
<1>. QED  BY <1>1, <1>2, <1>3, <1>4 DEF EndHolds

\* A cancellation stays counted.
LEMMA CancelsCounted ==
  ASSUME TypeOK, [Next]_vars, cancels' = 0
  PROVE  cancels = 0
<1>1. ASSUME NEW n \in Nodes, ExecuteNode(n)  PROVE cancels = 0
  BY <1>1, FlowFrame DEF userVars
<1>2. ASSUME NEW c \in Callers, RunTask(c)  PROVE cancels = 0
  BY <1>2 DEF RunTask, RunSteps, TimerFires, RunRequested, Poll, EnterRun, ExpireClaim,
     RecoverNode, RequeueDueJob, MarkRequeued, PassGuard, FailExpiredTask, FailExpiredClaims,
     FailExpiredEnd, DowngradeTool, DowngradeToolEnd, Dispatch, ReconcileRun, FollowUp,
     FinishRun, userVars
<1>3. CASE UserRequests \/ UserSteps
  BY <1>3 DEF UserRequests, UserSteps, CancelStart, ApproveNode, ApproveTask, CancelNode,
     CancelJobs, CancelClaims, CancelTask, TypeOK, UsersOK
<1>4. CASE Time \/ Crash \/ UNCHANGED vars
  BY <1>4, TimeMoves DEF Crash, vars, userVars
<1>. QED  BY <1>1, <1>2, <1>3, <1>4 DEF Next

\* Nor do users, time and crashes set an ended task going, but for an approval that is
\* being recorded.
LEMMA WorldEnds ==
  ASSUME TypeOK, UsersKnown, cancels = 0, cancels' = 0, EndHolds, EndKnown,
         UserRequests \/ UserSteps \/ Time \/ Crash \/ UNCHANGED vars
  PROVE  /\ EndHolds' /\ EndKnown'
         /\ Ended => taskStatus' = taskStatus \/ ApproveTask
<1>1. CASE UserRequests \/ UserSteps
  <2>1. UNCHANGED <<flowPc, callPc, elapsed>>
    <3>1. UNCHANGED elapsed
      BY <1>1 DEF UserRequests, UserSteps, CancelStart, ApproveNode, ApproveTask, CancelNode,
         CancelJobs, CancelClaims, CancelTask, KeepsRun, worldVars
    <3>. QED  BY <1>1, <3>1, WorldShape
  <2>2. taskStatus' = taskStatus \/ (ApproveTask /\ taskStatus' = "RUNNING")
    BY <1>1, UserWrites DEF ApproveTask, CancelTask, SetTask, UsersKnown, taskVars
  <2>3. \A n \in Nodes :
          \/ nodeStatus'[n] = nodeStatus[n] /\ retryable'[n] = retryable[n]
          \/ /\ nodeStatus[n] = "WAITING_USER" /\ nodeStatus'[n] \in {"SUCCEEDED", "PENDING"}
             /\ Kind[n] # "approval" => nodeStatus'[n] = "PENDING"
    <3>1. ASSUME NEW n \in Nodes, NEW m \in Nodes, NEW g \in BOOLEAN, ApproveNode(m, g)
          PROVE  \/ nodeStatus'[n] = nodeStatus[n] /\ retryable'[n] = retryable[n]
                 \/ /\ nodeStatus[n] = "WAITING_USER" /\ nodeStatus'[n] \in {"SUCCEEDED", "PENDING"}
                    /\ Kind[n] # "approval" => nodeStatus'[n] = "PENDING"
      <4>1. CASE m = n
        BY <3>1, <4>1 DEF ApproveNode, ClosedNode, SetNode, TypeOK, NodesOK
      <4>2. CASE m # n
        BY <3>1, <4>2 DEF ApproveNode, ClosedNode, SetNode, TypeOK, NodesOK
      <4>. QED  BY <4>1, <4>2
    <3>2. ASSUME \A m \in Nodes, g \in BOOLEAN : ~ApproveNode(m, g)
          PROVE  UNCHANGED <<nodeStatus, retryable>>
      BY <1>1, <3>2 DEF UserRequests, UserSteps, CancelStart, ApproveTask, CancelNode, CancelJobs,
         CancelClaims, CancelTask, UsersKnown, storeVars, nodeVars
    <3>. QED  BY <3>1, <3>2
  <2>4. EndKnown'
    <3>1. taskStatus' # "CANCELLED"  BY <2>2 DEF EndKnown
    <3>. QED  BY <2>1, <2>3, <3>1 DEF EndKnown
  <2>5. ASSUME Ended'  PROVE EndHolds'
    <3>1. Ended /\ taskStatus' = taskStatus  BY <2>2, <2>5 DEF Ended
    <3>2. ASSUME NEW c \in Callers, callPc[c] = "wait"
          PROVE  Over' /\ \E n \in Nodes : nodeStatus'[n] = "FAILED"
      <4>1. Over /\ \E n \in Nodes : nodeStatus[n] = "FAILED"
        BY <3>1, <3>2 DEF EndHolds
      <4>2. \A n \in Nodes : nodeStatus'[n] = nodeStatus[n] /\ retryable'[n] = retryable[n]
        BY <2>3, <4>1 DEF Over
      <4>3. UNCHANGED <<retryJobs, executionClaims>>
        BY <1>1 DEF UserRequests, UserSteps, CancelStart, ApproveNode, ApproveTask, CancelNode,
           CancelJobs, CancelClaims, CancelTask, UsersKnown, substrateVars
      <4>. QED  BY <4>1, <4>2, <4>3 DEF Over, JobsWith
    <3>. QED  BY <2>1, <2>3, <3>1, <3>2 DEF EndHolds, Expired
  <2>. QED  BY <2>2, <2>4, <2>5 DEF EndHolds
<1>2. CASE Time
  <2>1. /\ UNCHANGED <<taskStatus, nodeStatus, retryable, flowPc, callPc, executionClaims>>
        /\ Expired => Expired'
        /\ \A n \in Nodes, a \in Attempts :
              \/ retryJobs'[n][a] = retryJobs[n][a]
              \/ retryJobs[n][a] = "SCHEDULED" /\ retryJobs'[n][a] = "DUE"
    BY <1>2, TimeMoves DEF storeVars, taskVars, nodeVars, flowVars, callVars
  <2>2. EndKnown'  BY <2>1 DEF EndKnown
  <2>3. Over => Over'
    <3>1. ASSUME NEW n \in Nodes, NEW a \in Attempts, retryJobs'[n][a] \in ActiveJob
          PROVE  retryJobs[n][a] \in ActiveJob
      BY <2>1, <3>1 DEF ActiveJob
    <3>2. JobsWith(ActiveJob)' \subseteq JobsWith(ActiveJob)
      BY <3>1 DEF JobsWith
    <3>. QED  BY <2>1, <3>2 DEF Over
  <2>4. EndHolds'  BY <2>1, <2>3 DEF EndHolds, Ended
  <2>. QED  BY <2>1, <2>2, <2>4
<1>3. CASE Crash
  <2>1. /\ UNCHANGED <<taskStatus, nodeStatus, elapsed>>
        /\ (\A n \in Nodes : flowPc'[n] = "idle") /\ \A c \in Callers : callPc'[c] = "idle"
    BY <1>3 DEF Crash, storeVars, taskVars, nodeVars
  <2>. QED  BY <2>1 DEF EndHolds, EndKnown, Ended, Expired
<1>4. CASE UNCHANGED vars
  BY <1>4 DEF EndHolds, EndKnown, Ended, Expired, Over, JobsWith, vars, storeVars, taskVars,
     nodeVars, callVars, flowVars, worldVars, substrateVars
<1>. QED  BY <1>1, <1>2, <1>3, <1>4

\* What an ended task is left with is what every step keeps.
LEMMA NextEnding ==
  ASSUME TypeOK, Owned, Safe, Leased, OneCaller, StandInsAlone, Bounded, Ending, [Next]_vars
  PROVE  /\ Ending'
         /\ cancels' = 0 /\ Ended => taskStatus' = taskStatus \/ ApproveTask
<1>s. SUFFICES ASSUME cancels' = 0
               PROVE  /\ EndHolds' /\ EndKnown'
                      /\ Ended => taskStatus' = taskStatus \/ ApproveTask
  BY DEF Ending
<1>0. cancels = 0 /\ EndHolds /\ EndKnown  BY <1>s, CancelsCounted DEF Ending
<1>. QED  BY <1>s, <1>0, FlowEnds, RunEnds, WorldEnds DEF Next, Safe

\* With one invocation of runTask at a time and no lease that runs out under its
\* holder, a task that ended keeps its end, as long as no stand-in for a node is still
\* to be written when the failure of another ends the task.
THEOREM EndIsFinal ==
  ASSUME OneCaller, ~Stalls
  PROVE  Spec /\ []StandInsAlone => TerminalIsFinal
<1>. DEFINE IInv == Leased /\ Bounded /\ Ending
<1>1. Init => IInv
  BY LimitAssumption DEF Init, SubstrateInit, Leased, UnderClaim, Bounded, Ending, EndHolds,
     EndKnown, Ended
<1>2. ASSUME Inductive, Safe, StandInsAlone, IInv, [Next]_vars
      PROVE  /\ IInv'
             /\ approvePc = "idle" /\ cancels' = 0 /\ taskStatus \in TerminalTask
                  => taskStatus' = taskStatus
  <2>1. TypeOK /\ Owned /\ UsersKnown  BY <1>2 DEF Inductive, Owned, Safe
  <2>2. Leased' /\ Bounded'  BY <1>2, <2>1, NextLeased, NextBounded
  <2>3. /\ Ending'
        /\ cancels' = 0 /\ Ended => taskStatus' = taskStatus \/ ApproveTask
    BY <1>2, <2>1, NextEnding
  <2>4. cancels' = 0 /\ taskStatus \in TerminalTask => Ended
    BY <1>2, <2>1, CancelsCounted DEF Ending, EndKnown, Ended, TerminalTask
  <2>5. ApproveTask => approvePc # "idle"  BY DEF ApproveTask
  <2>. QED  BY <2>2, <2>3, <2>4, <2>5
<1>. QED  BY <1>1, <1>2, SafeHolds, PTL DEF Spec, TerminalIsFinal

-----------------------------------------------------------------------------
(* The promise *)

\* A node that is ready has the inputs it cannot do without.
LEMMA ReadySupplied ==
  ASSUME IsFiniteSet(Nodes), NEW n \in Nodes, Ready(n)
  PROVE  Supplied(n)
<1>. DEFINE Succeeded == {d \in Deps[n] : nodeStatus[d] = "SUCCEEDED"}
<1>1. Deps[n] \subseteq Nodes /\ Quorum[n] \in Nat /\ Kind[n] \in {"tool", "approval", "llm", "merge"}
      /\ Merge[n] \in {"ALL", "ANY_K", "BEST_EFFORT"}
  BY GraphAssumption
<1>2. Succeeded = Deps[n] \cap Results  BY <1>1 DEF Results
<1>3. IsFiniteSet(Deps[n] \cap Results)  BY <1>1, FS_Subset
<1>4. Cardinality(Deps[n] \cap Results) \in Nat  BY <1>3, FS_CardinalityType
<1>5. CASE Deps[n] = {}
  BY <1>4, <1>5 DEF Supplied, LeastInputs
<1>6. CASE Deps[n] # {} /\ (Kind[n] # "merge" \/ Merge[n] = "ALL")
  <2>1. Succeeded = Deps[n]  BY <1>6 DEF Ready
  <2>2. Cardinality(Deps[n] \cap Results) = Cardinality(Deps[n])  BY <1>2, <2>1
  <2>3. LeastInputs(n) = Cardinality(Deps[n])  BY <1>6 DEF LeastInputs
  <2>. QED  BY <1>4, <2>2, <2>3 DEF Supplied
<1>7. CASE Deps[n] # {} /\ Kind[n] = "merge" /\ Merge[n] = "ANY_K"
  <2>1. Cardinality(Succeeded) >= (IF Quorum[n] = 0 THEN 1 ELSE Quorum[n])
    BY <1>7 DEF Ready
  <2>2. LeastInputs(n) = IF Quorum[n] = 0 THEN 1 ELSE Quorum[n]  BY <1>7 DEF LeastInputs
  <2>. QED  BY <1>2, <2>1, <2>2 DEF Supplied
<1>8. CASE Deps[n] # {} /\ Kind[n] = "merge" /\ Merge[n] = "BEST_EFFORT"
  <2>1. LeastInputs(n) = 0  BY <1>8 DEF LeastInputs
  <2>. QED  BY <1>4, <2>1 DEF Supplied
<1>. QED  BY <1>1, <1>5, <1>6, <1>7, <1>8

\* More results supply no fewer nodes.
LEMMA SuppliedStays ==
  ASSUME IsFiniteSet(Nodes), NEW n \in Nodes, Supplied(n), Results \subseteq Results'
  PROVE  Supplied(n)'
<1>1. IsFiniteSet(Deps[n] \cap Results') /\ Deps[n] \cap Results \subseteq Deps[n] \cap Results'
  BY GraphAssumption, FS_Subset
<1>2. Cardinality(Deps[n] \cap Results) <= Cardinality(Deps[n] \cap Results')
  BY <1>1, FS_Subset
<1>3. /\ Cardinality(Deps[n] \cap Results) \in Nat /\ Cardinality(Deps[n] \cap Results') \in Nat
      /\ Cardinality(Deps[n]) \in Nat
  BY <1>1, GraphAssumption, FS_Subset, FS_CardinalityType
<1>4. LeastInputs(n) \in Nat  BY <1>3, GraphAssumption DEF LeastInputs
<1>. QED  BY <1>2, <1>3, <1>4 DEF Supplied, LeastInputs

\* A flow is admitted, and waits, only for a node that was ready.
LEMMA FlowAdmits ==
  ASSUME TypeOK, NEW n \in Nodes, ExecuteNode(n),
         flowPc'[n] \in Admitted \/ nodeStatus'[n] = "WAITING_USER"
  PROVE  n \in Runnable \/ flowPc[n] \in Admitted \/ nodeStatus[n] = "WAITING_USER"
<1>. USE DEF Admitted, TypeOK, NodesOK, FlowsOK, Goto, KeepsStates, WritesNode, ClosedNode,
             SetNode, storeVars, nodeVars
<1>1. CASE \/ ExecSkip(n) \/ ExecOverBudget(n) \/ ExecPrepare(n) \/ GateDenies(n)
           \/ GateDowngrades(n) \/ GateAsksUser(n) \/ ClaimRefused(n)
  BY <1>1 DEF ExecSkip, ExecOverBudget, ExecPrepare, GateDenies, GateDowngrades, GateAsksUser,
       ClaimRefused
<1>2. CASE \/ ClaimUnit(n) \/ StartNode(n) \/ ConsumeRetryJob(n) \/ WorkDowngraded(n)
           \/ WorkAsksUser(n) \/ Invoke(n)
  BY <1>2 DEF ClaimUnit, StartNode, ConsumeRetryJob, WorkDowngraded, WorkAsksUser, Invoke
<1>3. CASE \/ ReturnOk(n) \/ ReturnNeedsUser(n) \/ ReturnRetryable(n) \/ ReturnExhausted(n)
           \/ ReturnFatal(n)
  BY <1>3 DEF ReturnOk, ReturnNeedsUser, ReturnRetryable, ReturnExhausted, ReturnFatal
<1>4. CASE \/ ScheduleRetry(n) \/ DeadLetter(n) \/ TaskWaits(n) \/ TaskRuns(n)
           \/ Commit(n) \/ Release(n) \/ WakeForRetry(n) \/ ReconcileFailure(n)
  BY <1>4 DEF ScheduleRetry, DeadLetter, TaskWaits, TaskRuns, Commit, Release, AfterRelease,
     WakeForRetry, ReconcileFailure
<1>. QED  BY <1>1, <1>2, <1>3, <1>4 DEF ExecuteNode

\* A flow comes to a dead letter by an exhausted call.
LEMMA FlowCalledFirst ==
  ASSUME TypeOK, FlowAttempts, NEW n \in Nodes, ExecuteNode(n),
         flowPc[n] \in {"executing", "deadletter"} => invoked[n][target[n]] > 0,
         flowPc'[n] \in {"executing", "deadletter"}
  PROVE  invoked'[n][target'[n]] > 0
<1>. USE DEF TypeOK, FlowsOK, InvokedOK, Goto
<1>1. CASE Invoke(n)
  <2>1. target[n] \in Attempts
    BY <1>1, AttemptBound DEF Invoke, FlowAttempts, UnderClaim, Attempts
  <2>2. invoked[n][target[n]] \in Nat  BY <2>1
  <2>3. invoked'[n][target[n]] = invoked[n][target[n]] + 1 /\ target' = target
    BY <1>1, <2>1 DEF Invoke
  <2>. QED  BY <2>2, <2>3
<1>2. CASE ReturnExhausted(n)
  BY <1>2 DEF ReturnExhausted
<1>3. CASE \/ ExecSkip(n) \/ ExecOverBudget(n) \/ ExecPrepare(n) \/ GateDenies(n)
           \/ GateDowngrades(n) \/ GateAsksUser(n) \/ ClaimRefused(n) \/ ClaimUnit(n)
           \/ StartNode(n) \/ ConsumeRetryJob(n) \/ WorkDowngraded(n) \/ WorkAsksUser(n)
  BY <1>3 DEF ExecSkip, ExecOverBudget, ExecPrepare, GateDenies, GateDowngrades, GateAsksUser,
       ClaimRefused, ClaimUnit, StartNode, ConsumeRetryJob, WorkDowngraded, WorkAsksUser
<1>4. CASE \/ ReturnOk(n) \/ ReturnNeedsUser(n) \/ ReturnRetryable(n) \/ ReturnFatal(n)
           \/ ScheduleRetry(n) \/ DeadLetter(n) \/ TaskWaits(n) \/ TaskRuns(n)
           \/ Commit(n) \/ Release(n) \/ WakeForRetry(n) \/ ReconcileFailure(n)
  BY <1>4 DEF ReturnOk, ReturnNeedsUser, ReturnRetryable, ReturnFatal, ScheduleRetry, DeadLetter,
       TaskWaits, TaskRuns, Commit, Release, AfterRelease, WakeForRetry, ReconcileFailure
<1>. QED  BY <1>1, <1>2, <1>3, <1>4 DEF ExecuteNode

\* A dead letter is made after a call, by every step.
LEMMA NextCalledFirst ==
  ASSUME TypeOK, FlowAttempts, CalledFirst, [Next]_vars
  PROVE  CalledFirst'
<1>. SUFFICES ASSUME NEW n \in Nodes, flowPc'[n] \in {"executing", "deadletter"}
              PROVE  invoked'[n][target'[n]] > 0
  BY DEF CalledFirst
<1>1. CASE ExecuteNode(n)
  BY <1>1, FlowCalledFirst DEF CalledFirst
<1>2. ASSUME NEW m \in Nodes, m # n, ExecuteNode(m)  PROVE invoked'[n][target'[n]] > 0
  BY <1>2, FlowShape DEF CalledFirst
<1>3. ASSUME NEW c \in Callers, RunTask(c)  PROVE invoked'[n][target'[n]] > 0
  <2>1. UNCHANGED <<target, invoked>> /\ flowPc[n] \in {"executing", "deadletter"}
    BY <1>3, RunMoves
  <2>. QED  BY <2>1 DEF CalledFirst
<1>4. CASE UserRequests \/ UserSteps \/ Time \/ UNCHANGED vars
  BY <1>4, WorldShape DEF CalledFirst
<1>5. CASE Crash
  BY <1>5 DEF Crash
<1>. QED  BY <1>1, <1>2, <1>3, <1>4, <1>5 DEF Next

\* Nothing is given a result, or called for one, before its inputs are there: a node is
\* ready when its flow or the run that closes it looks, and results stay.
LEMMA NextInputsThere ==
  ASSUME Inductive, Safe, InputsThere, IsFiniteSet(Nodes), [Next]_vars, cancels' = 0
  PROVE  InputsThere' /\ Results \subseteq Results'
<1>0. TypeOK /\ Owned /\ UsersKnown  BY DEF Inductive, Owned, Safe
<1>1. Results \subseteq Results'
  BY NextResultKept DEF Results
<1>2. \A n \in Nodes : Supplied(n) \/ n \in Runnable => Supplied(n)'
  BY <1>1, ReadySupplied, SuppliedStays DEF Runnable
<1>. DEFINE P == {"plan", "downgrade", "downgraded"}
            Due(n) == flowPc[n] \in Admitted \/ nodeStatus[n] = "WAITING_USER"
<1>n. SUFFICES /\ \A n \in Nodes : Due(n)' => Due(n) \/ n \in Runnable
               /\ \A c \in Callers : callPc'[c] \in P =>
                    \A n \in todo'[c] : n \in Nodes /\
                      (n \in Runnable \/ (callPc[c] \in P /\ n \in todo[c]))
  <2>1. \A n \in Nodes : Due(n) => Supplied(n)  BY DEF InputsThere
  <2>2. \A c \in Callers : callPc[c] \in P => \A n \in todo[c] : Supplied(n)  BY DEF InputsThere
  <2>. QED  BY <1>1, <1>2, <1>n, <2>1, <2>2 DEF InputsThere
<1>p. \A c \in Callers : callPc[c] \in P => todo[c] \subseteq Nodes
  BY <1>0 DEF TypeOK, CallsOK, TodoOK
<1>3. ASSUME NEW m \in Nodes, ExecuteNode(m)
      PROVE  /\ \A n \in Nodes : Due(n)' => Due(n) \/ n \in Runnable
             /\ UNCHANGED <<callPc, todo>>
  <2>1. Due(m)' => Due(m) \/ m \in Runnable  BY <1>0, <1>3, FlowAdmits
  <2>2. \A n \in Nodes \ {m} : flowPc'[n] = flowPc[n] /\ nodeStatus'[n] = nodeStatus[n]
    BY <1>0, <1>3, FlowShape, FlowFrame
  <2>3. UNCHANGED <<callPc, todo>>  BY <1>0, <1>3, FlowShape
  <2>. QED  BY <2>1, <2>2, <2>3
<1>4. ASSUME NEW c \in Callers, RunTask(c)
      PROVE  /\ \A n \in Nodes : Due(n)' => Due(n)
             /\ \A d \in Callers : callPc'[d] \in P =>
                  \A n \in todo'[d] : n \in Nodes /\
                    (n \in Runnable \/ (callPc[d] \in P /\ n \in todo[d]))
  <2>1. ASSUME NEW n \in Nodes, Due(n)'  PROVE Due(n)
    BY <1>0, <1>4, <2>1, RunMoves DEF Admitted
  <2>2. \A d \in Callers \ {c} : callPc'[d] = callPc[d] /\ todo'[d] = todo[d]
    BY <1>0, <1>4 DEF RunTask, RunSteps, TimerFires, RunRequested, Poll, EnterRun, ExpireClaim,
       RecoverNode, RequeueDueJob, MarkRequeued, PassGuard, FailExpiredTask, FailExpiredClaims,
       FailExpiredEnd, DowngradeTool, DowngradeToolEnd, Dispatch, ReconcileRun, FollowUp,
       FinishRun, MoveCall, TypeOK, CallsOK
  <2>3. CASE PassGuard(c)
    <3>1. callPc'[c] \in P => todo'[c] = DowngradableTools
      BY <1>0, <2>3 DEF PassGuard, MoveCall, TypeOK, CallsOK
    <3>2. DowngradableTools \subseteq Runnable /\ Runnable \subseteq Nodes
      BY DEF DowngradableTools, Runnable
    <3>. QED  BY <1>p, <2>1, <2>2, <3>1, <3>2
  <2>4. CASE DowngradeTool(c) \/ DowngradeToolEnd(c)
    <3>1. callPc[c] \in P /\ todo'[c] \subseteq todo[c]
      BY <1>0, <2>4 DEF DowngradeTool, Planning, DowngradeToolEnd, MoveCall, TypeOK, CallsOK
    <3>. QED  BY <1>p, <2>1, <2>2, <3>1
  <2>5. CASE ~(PassGuard(c) \/ DowngradeTool(c) \/ DowngradeToolEnd(c))
    <3>1. callPc'[c] \notin P
      BY <1>0, <1>4, <2>5 DEF RunTask, RunSteps, TimerFires, RunRequested, Poll, EnterRun,
         ExpireClaim, RecoverNode, RequeueDueJob, MarkRequeued, FailExpiredTask,
         FailExpiredClaims, FailExpiredEnd, Dispatch, ReconcileRun, FollowUp, FinishRun,
         MoveCall, TypeOK, CallsOK
    <3>. QED  BY <1>p, <2>1, <2>2, <3>1
  <2>. QED  BY <2>3, <2>4, <2>5
<1>5. CASE UserRequests \/ UserSteps
  <2>1. UNCHANGED <<flowPc, callPc, todo>>  BY <1>5, WorldShape
  <2>2. ASSUME NEW n \in Nodes, nodeStatus'[n] = "WAITING_USER"  PROVE nodeStatus[n] = "WAITING_USER"
    BY <1>0, <1>5, <2>2, UserMoves
  <2>. QED  BY <1>p, <2>1, <2>2
<1>6. CASE Time \/ UNCHANGED vars
  <2>1. UNCHANGED <<flowPc, callPc, todo, nodeStatus>>
    BY <1>0, <1>6, TimeMoves DEF vars, storeVars, nodeVars, callVars, flowVars
  <2>. QED  BY <1>p, <2>1
<1>7. CASE Crash
  <2>1. /\ UNCHANGED nodeStatus
        /\ (\A n \in Nodes : flowPc'[n] = "idle") /\ \A c \in Callers : callPc'[c] = "idle"
    BY <1>7 DEF Crash, storeVars, nodeVars
  <2>. QED  BY <2>1 DEF Admitted
<1>. QED  BY <1>p, <1>3, <1>4, <1>5, <1>6, <1>7 DEF Next

\* What a client sees of a state.
Abandoned == {n \in Nodes : \E a \in Attempts : <<n, a>> \in deadLetters}
ClientSees ==
  CASE taskStatus = "DONE" -> "done" [] taskStatus = "FAILED" -> "failed" [] OTHER -> "open"

\* The steps of TaskExecution, by what they change of that.
LEMMA PromiseSteps ==
  ASSUME \/ /\ UNCHANGED <<invoked, Results, Abandoned, ClientSees>>
         \/ /\ MaxApprovals > 0 /\ ClientSees # "open" /\ ClientSees' = "open"
            /\ UNCHANGED <<invoked, Results, Abandoned>>
         \/ \E n \in Nodes :
              /\ n \notin Results \cup Abandoned /\ ClientSees = "open" /\ Supplied(n)
              /\ Results' = Results \cup {n}
              /\ UNCHANGED <<invoked, Abandoned, ClientSees>>
         \/ \E n \in Nodes :
              /\ n \notin Results \cup Abandoned /\ ClientSees = "open"
              /\ \E a \in Attempts : invoked[n][a] > 0
              /\ Abandoned' = Abandoned \cup {n}
              /\ UNCHANGED <<invoked, Results, ClientSees>>
         \/ \E n \in Nodes, a \in Attempts :
              /\ n \notin Results \cup Abandoned /\ ClientSees = "open" /\ Supplied(n)
              /\ \A b \in Attempts : b >= a => invoked[n][b] = 0
              /\ invoked' = [invoked EXCEPT ![n][a] = 1]
              /\ UNCHANGED <<Results, Abandoned, ClientSees>>
         \/ /\ ClientSees = "open" /\ ClientSees' \in {"done", "failed"}
            /\ ClientSees' = "done" => Results = Nodes
            /\ UNCHANGED <<invoked, Results, Abandoned>>
  PROVE  [Promise!Next]_(Promise!vars)
<1>. USE DEF Results, Abandoned, ClientSees, Promise!vars
<1>1. CASE UNCHANGED <<invoked, Results, Abandoned, ClientSees>>
  BY <1>1
<1>2. CASE /\ MaxApprovals > 0 /\ ClientSees # "open" /\ ClientSees' = "open"
           /\ UNCHANGED <<invoked, Results, Abandoned>>
  BY <1>2 DEF Promise!Next, Promise!Reopen
<1>3. ASSUME NEW n \in Nodes,
             n \notin Results \cup Abandoned, ClientSees = "open", Supplied(n),
             Results' = Results \cup {n},
             UNCHANGED <<invoked, Abandoned, ClientSees>>
      PROVE  Promise!Next
  <2>1. Promise!Supplied(n)  BY <1>3 DEF Supplied, Promise!Supplied, Cardinality,
         Promise!Cardinality
  <2>2. Promise!Answer(n)  BY <1>3, <2>1 DEF Promise!Answer
  <2>. QED  BY <2>2 DEF Promise!Next
<1>4. ASSUME NEW n \in Nodes,
             n \notin Results \cup Abandoned, ClientSees = "open",
             \E a \in Attempts : invoked[n][a] > 0,
             Abandoned' = Abandoned \cup {n},
             UNCHANGED <<invoked, Results, ClientSees>>
      PROVE  Promise!Next
  <2>1. Promise!GiveUp(n)  BY <1>4 DEF Promise!GiveUp
  <2>. QED  BY <2>1 DEF Promise!Next
<1>5. ASSUME NEW n \in Nodes, NEW a \in Attempts,
             n \notin Results \cup Abandoned, ClientSees = "open", Supplied(n),
             \A b \in Attempts : b >= a => invoked[n][b] = 0,
             invoked' = [invoked EXCEPT ![n][a] = 1],
             UNCHANGED <<Results, Abandoned, ClientSees>>
      PROVE  Promise!Next
  <2>1. Promise!Supplied(n)  BY <1>5 DEF Supplied, Promise!Supplied, Cardinality,
         Promise!Cardinality
  <2>2. Promise!Call(n, a)  BY <1>5, <2>1 DEF Promise!Call
  <2>. QED  BY <2>2 DEF Promise!Next
<1>6. CASE /\ ClientSees = "open" /\ ClientSees' \in {"done", "failed"}
           /\ ClientSees' = "done" => Results = Nodes
           /\ UNCHANGED <<invoked, Results, Abandoned>>
  <2>1. Promise!End(ClientSees')  BY <1>6 DEF Promise!End
  <2>. QED  BY <1>6, <2>1 DEF Promise!Next
<1>. QED  BY <1>1, <1>2, <1>3, <1>4, <1>5, <1>6

\* What of that the steps of a flow change.
LEMMA FlowAnswers ==
  ASSUME TypeOK, NEW n \in Nodes, ExecuteNode(n)
  PROVE  /\ \/ UNCHANGED invoked
            \/ Invoke(n)
         /\ \/ UNCHANGED deadLetters
            \/ DeadLetter(n)
         /\ nodeStatus'[n] = "SUCCEEDED" /\ nodeStatus[n] # "SUCCEEDED" =>
              /\ flowPc[n] \in Admitted \cup {"check"} /\ (flowPc[n] = "check" => n \in Runnable)
              /\ UNCHANGED <<invoked, deadLetters, taskStatus>>
<1>. USE DEF Admitted, TypeOK, NodesOK, KeepsStates, WritesNode, ClosedNode, SetNode,
             storeVars, taskVars, nodeVars, substrateVars
<1>1. CASE \/ ExecSkip(n) \/ ExecPrepare(n) \/ GateDenies(n) \/ GateAsksUser(n) \/ ClaimRefused(n)
           \/ StartNode(n) \/ WorkAsksUser(n)
  BY <1>1 DEF ExecSkip, ExecPrepare, GateDenies, GateAsksUser, ClaimRefused, StartNode,
     WorkAsksUser
<1>2. CASE ExecOverBudget(n) \/ GateDowngrades(n) \/ WorkDowngraded(n) \/ ReturnOk(n)
  BY <1>2 DEF ExecOverBudget, GateDowngrades, WorkDowngraded, ReturnOk
<1>3. CASE ClaimUnit(n) \/ ConsumeRetryJob(n) \/ ScheduleRetry(n) \/ Release(n) \/ WakeForRetry(n)
  BY <1>3 DEF ClaimUnit, ClaimExecutionUnit, ConsumeRetryJob, MarkRetryJobCompleted, ScheduleRetry,
       ScheduleRetryJob, SetJob, Release, AfterRelease, WakeForRetry, ReleaseClaim
<1>4. CASE ReturnNeedsUser(n) \/ ReturnRetryable(n) \/ ReturnExhausted(n) \/ ReturnFatal(n)
  BY <1>4 DEF ReturnNeedsUser, ReturnRetryable, ReturnExhausted, ReturnFatal
<1>5. CASE TaskWaits(n) \/ TaskRuns(n) \/ Commit(n) \/ ReconcileFailure(n)
  BY <1>5 DEF TaskWaits, TaskRuns, Commit, ReconcileFailure
<1>6. CASE Invoke(n) \/ DeadLetter(n)
  BY <1>6 DEF Invoke, DeadLetter, RecordDeadLetter
<1>. QED  BY <1>1, <1>2, <1>3, <1>4, <1>5, <1>6 DEF ExecuteNode

\* A flow calls, answers and gives up as it is promised to.
LEMMA FlowPromise ==
  ASSUME Inductive, Safe, Safe', [Next]_vars, InputsThere, CalledFirst, EndHolds, IsFiniteSet(Nodes),
         cancels = 0, cancels' = 0, Ended => taskStatus' = taskStatus, NEW n \in Nodes, ExecuteNode(n)
  PROVE  [Promise!Next]_(Promise!vars)
<1>0. /\ TypeOK /\ Owned
      /\ StatusFits(n) /\ DeadClosed(n)
      /\ \A m \in Nodes \ {n} :
           /\ nodeStatus'[m] = nodeStatus[m]
           /\ \A a \in Attempts : <<m, a>> \in deadLetters' <=> <<m, a>> \in deadLetters
  BY FlowFrame DEF Inductive, Owned, Safe, NodeSafe
<1>1. /\ Results' \subseteq Results \cup {n} /\ Results \subseteq Results'
      /\ nodeStatus'[n] # "SUCCEEDED" => Results' = Results
  BY <1>0, NextResultKept DEF Results
<1>2. ASSUME flowPc[n] \notin {"idle", "reconcile"}
      PROVE  /\ ClientSees = "open"
             /\ ClientSees' = "open"
  <2>1. ~Ended  BY <1>2 DEF EndHolds
  <2>2. \/ UNCHANGED taskStatus
        \/ taskStatus' \in {"RUNNING", "WAITING_USER"}
    BY <1>2, FlowWrites DEF TaskWaits, TaskRuns, Commit, SetTask, ReconcileFailure
  <2>3. ~Ended'  BY <2>1, <2>2 DEF Ended
  <2>. QED  BY <2>1, <2>3 DEF Ended, ClientSees
<1>3. CASE nodeStatus'[n] = "SUCCEEDED" /\ nodeStatus[n] # "SUCCEEDED"
  <2>1. /\ flowPc[n] \in Admitted \cup {"check"} /\ (flowPc[n] = "check" => n \in Runnable)
        /\ UNCHANGED <<invoked, deadLetters, taskStatus>>
    BY <1>0, <1>3, FlowAnswers
  <2>2. Supplied(n)  BY <2>1, ReadySupplied DEF InputsThere, Runnable
  <2>3. n \notin Results \cup Abandoned
    BY <1>0, <1>3, <2>1 DEF Results, Abandoned, DeadClosed, Dead, Admitted
  <2>4. Results' = Results \cup {n}  BY <1>1, <1>3 DEF Results
  <2>5. UNCHANGED <<invoked, Abandoned, ClientSees>>
    BY <2>1 DEF Abandoned, ClientSees
  <2>6. ClientSees = "open"  BY <1>2, <2>1 DEF Admitted
  <2>. QED  BY <2>2, <2>3, <2>4, <2>5, <2>6, PromiseSteps
<1>4. CASE ~(nodeStatus'[n] = "SUCCEEDED" /\ nodeStatus[n] # "SUCCEEDED")
  <2>0. UNCHANGED Results  BY <1>1, <1>4 DEF Results
  <2>1. CASE Invoke(n)
    <3>1. flowPc[n] = "work" /\ UNCHANGED <<deadLetters, taskStatus>>
      BY <2>1 DEF Invoke, KeepsStates, storeVars, taskVars, substrateVars
    <3>2. target[n] \in Attempts /\ target[n] = attempt[n] /\ invoked[n][target[n]] = 0
          /\ target[n] \in Nat
      BY <3>1, AttemptBound DEF Inductive, FlowAttempts, InvokedPast, UnderClaim, TypeOK,
         FlowsOK, Attempts
    <3>3. invoked' = [invoked EXCEPT ![n][target[n]] = 1]
      <4>1. invoked' = [invoked EXCEPT ![n][target[n]] = invoked[n][target[n]] + 1]
        BY <2>1 DEF Invoke
      <4>. QED  BY <3>2, <4>1
    <3>4. \A b \in Attempts : b >= target[n] => invoked[n][b] = 0
      <4>1. ASSUME NEW b \in Attempts, b >= target[n], invoked[n][b] # 0  PROVE FALSE
        <5>1. invoked[n][b] > 0  BY <1>0, <4>1 DEF TypeOK, InvokedOK
        <5>2. b <= attempt[n]  BY <5>1 DEF Inductive, InvokedPast
        <5>3. b = target[n]  BY <3>2, <4>1, <5>2 DEF Attempts
        <5>. QED  BY <3>2, <4>1, <5>3
      <4>. QED  BY <4>1
    <3>5. n \notin Results \cup Abandoned
      BY <1>0, <3>1 DEF Results, Abandoned, StatusFits, DeadClosed, Dead
    <3>6. Supplied(n)  BY <3>1 DEF InputsThere, Admitted
    <3>7. ClientSees = "open"  BY <1>2, <3>1
    <3>8. UNCHANGED <<Results, Abandoned, ClientSees>>
      BY <2>0, <3>1 DEF Abandoned, ClientSees
    <3>. QED  BY <3>2, <3>3, <3>4, <3>5, <3>6, <3>7, <3>8, PromiseSteps
  <2>2. CASE DeadLetter(n)
    <3>1. flowPc[n] = "deadletter" /\ UNCHANGED <<invoked, taskStatus>>
          /\ deadLetters' = deadLetters \cup {<<n, target[n]>>}
      BY <2>2 DEF DeadLetter, RecordDeadLetter, KeepsStates, storeVars, taskVars
    <3>2. target[n] \in Attempts
      BY <1>0, <3>1, AttemptBound DEF Inductive, FlowAttempts, UnderClaim, TypeOK, FlowsOK,
         Attempts
    <3>3. Abandoned' = Abandoned \cup {n}
      <4>1. \A m \in Nodes : m \in Abandoned' <=> m \in Abandoned \/ m = n
        BY <1>0, <3>1, <3>2 DEF Abandoned
      <4>2. Abandoned' \subseteq Nodes /\ Abandoned \subseteq Nodes  BY DEF Abandoned
      <4>. QED  BY <4>1, <4>2
    <3>4. n \notin Results  BY <1>0, <3>1 DEF Results, DeadClosed, Dead
    <3>5. UNCHANGED ClientSees  BY <3>1 DEF ClientSees
    <3>6. CASE n \in Abandoned
      BY <2>0, <3>1, <3>3, <3>5, <3>6, PromiseSteps
    <3>7. CASE n \notin Abandoned
      <4>1. \E a \in Attempts : invoked[n][a] > 0  BY <3>1, <3>2 DEF CalledFirst
      <4>2. ClientSees = "open"  BY <1>2, <3>1
      <4>. QED  BY <2>0, <3>1, <3>3, <3>4, <3>5, <3>7, <4>1, <4>2, PromiseSteps
    <3>. QED  BY <3>6, <3>7
  <2>3. CASE ReconcileFailure(n)
    <3>1. UNCHANGED <<invoked, Results, Abandoned>>
      BY <2>0, <2>3 DEF ReconcileFailure, Abandoned, substrateVars
    <3>2. CASE ClientSees' = ClientSees
      BY <3>1, <3>2, PromiseSteps
    <3>3. CASE ClientSees' # ClientSees
      <4>1. ClientSees = "open" /\ ClientSees' \in {"done", "failed"}
        BY <3>3 DEF ClientSees, Ended
      <4>2. ClientSees' = "done" => Results = Nodes
        <5>1. SUFFICES ASSUME taskStatus' = "DONE"  PROVE Results = Nodes
          BY DEF ClientSees
        <5>2. \A m \in Nodes : nodeStatus'[m] = "SUCCEEDED"
          BY <5>1 DEF Safe, DoneMeansSettled
        <5>. QED  BY <2>0, <5>2 DEF Results
      <4>. QED  BY <3>1, <4>1, <4>2, PromiseSteps
    <3>. QED  BY <3>2, <3>3
  <2>4. CASE ~(Invoke(n) \/ DeadLetter(n) \/ ReconcileFailure(n))
    <3>1. UNCHANGED <<invoked, deadLetters>>  BY <1>0, <2>4, FlowAnswers
    <3>2. UNCHANGED ClientSees
      <4>1. flowPc[n] \notin {"idle", "reconcile"}
        BY <2>4 DEF ExecuteNode, ExecSkip, ExecOverBudget, ExecPrepare, GateDenies, GateDowngrades,
           GateAsksUser, ClaimRefused, ClaimUnit, StartNode, ConsumeRetryJob, WorkDowngraded,
           WorkAsksUser, ReturnOk, ReturnNeedsUser, ReturnRetryable, ReturnExhausted, ReturnFatal,
           ScheduleRetry, TaskWaits, TaskRuns, Commit, Release, AfterRelease, WakeForRetry
      <4>. QED  BY <1>2, <4>1
    <3>3. UNCHANGED Abandoned  BY <3>1 DEF Abandoned
    <3>. QED  BY <2>0, <3>1, <3>2, <3>3, PromiseSteps
  <2>. QED  BY <2>1, <2>2, <2>3, <2>4
<1>. QED  BY <1>3, <1>4

\* A run answers for the nodes the budget has no room for, and ends the task.
LEMMA RunPromise ==
  ASSUME Inductive, Safe, Safe', [Next]_vars, InputsThere, EndHolds, IsFiniteSet(Nodes),
         cancels = 0, cancels' = 0, Ended => taskStatus' = taskStatus, NEW c \in Callers, RunTask(c)
  PROVE  [Promise!Next]_(Promise!vars)
<1>0. TypeOK /\ Owned  BY DEF Inductive, Owned
<1>1. UNCHANGED <<invoked, Abandoned>>
  <2>1. UNCHANGED invoked
    BY DEF RunTask, RunSteps, TimerFires, RunRequested, Poll, EnterRun, ExpireClaim,
       RecoverNode, RequeueDueJob, MarkRequeued, PassGuard, FailExpiredTask, FailExpiredClaims,
       FailExpiredEnd, DowngradeTool, DowngradeToolEnd, Dispatch, ReconcileRun, FollowUp,
       FinishRun
  <2>2. \A n \in Nodes : UNCHANGED deadLetters  BY <1>0, RunMoves
  <2>3. UNCHANGED Abandoned  BY <2>2 DEF Abandoned
  <2>. QED  BY <2>1, <2>3
<1>2. Results \subseteq Results' /\ Results' \subseteq Nodes
  BY NextResultKept DEF Results
<1>3. CASE DowngradeTool(c)
  <2>1. PICK n \in todo[c] : SetNode(n, "SUCCEEDED")  BY <1>3 DEF DowngradeTool
  <2>2. callPc[c] \in {"plan", "downgrade", "downgraded"} /\ UNCHANGED taskStatus
    BY <1>3 DEF DowngradeTool, Planning
  <2>3. n \in Nodes  BY <1>0, <2>2 DEF TypeOK, CallsOK, TodoOK
  <2>4. Supplied(n) /\ ~Dead(n) /\ ClientSees = "open"
    BY <2>2, <2>3 DEF InputsThere, Safe, PlansAlive, EndHolds, Ended, ClientSees
  <2>5. Results' = Results \cup {n}
    <3>1. \A m \in Nodes : nodeStatus'[m] = "SUCCEEDED" <=> nodeStatus[m] = "SUCCEEDED" \/ m = n
      BY <1>0, <2>1, <2>3 DEF SetNode, TypeOK, NodesOK
    <3>. QED  BY <2>3, <3>1 DEF Results
  <2>6. UNCHANGED ClientSees  BY <2>2 DEF ClientSees
  <2>7. n \notin Abandoned  BY <2>4 DEF Abandoned, Dead
  <2>8. CASE n \in Results
    <3>1. Results' = Results  BY <2>5, <2>8
    <3>. QED  BY <1>1, <2>6, <3>1, PromiseSteps
  <2>9. CASE n \notin Results
    BY <1>1, <2>3, <2>4, <2>5, <2>6, <2>7, <2>9, PromiseSteps
  <2>. QED  BY <2>8, <2>9
<1>4. CASE ~DowngradeTool(c)
  <2>1. UNCHANGED Results
    <3>1. \/ UNCHANGED nodeStatus
          \/ \E m : SetNode(m, "PENDING")
      BY <1>4 DEF ClosedNode, RunTask, RunSteps, TimerFires, RunRequested, Poll, EnterRun,
         ExpireClaim, RecoverNode, RequeueDueJob, MarkRequeued, PassGuard, FailExpiredTask,
         FailExpiredClaims, FailExpiredEnd, DowngradeToolEnd, Dispatch, ReconcileRun, FollowUp,
         FinishRun, storeVars, nodeVars
    <3>2. \A m \in Nodes : nodeStatus'[m] = "SUCCEEDED" => nodeStatus[m] = "SUCCEEDED"
      BY <1>0, <3>1 DEF SetNode, TypeOK, NodesOK
    <3>. QED  BY <1>2, <3>2 DEF Results
  <2>2. CASE ClientSees' = ClientSees
    BY <1>1, <2>1, <2>2, PromiseSteps
  <2>3. CASE ClientSees' # ClientSees
    <3>1. ClientSees = "open" /\ ClientSees' \in {"done", "failed"}
      BY <2>3 DEF ClientSees, Ended
    <3>2. ClientSees' = "done" => Results = Nodes
      <4>1. SUFFICES ASSUME taskStatus' = "DONE"  PROVE Results = Nodes
        BY DEF ClientSees
      <4>2. \A m \in Nodes : nodeStatus'[m] = "SUCCEEDED"
        BY <4>1 DEF Safe, DoneMeansSettled
      <4>. QED  BY <2>1, <4>2 DEF Results
    <3>. QED  BY <1>1, <2>1, <3>1, <3>2, PromiseSteps
  <2>. QED  BY <2>2, <2>3
<1>. QED  BY <1>3, <1>4

\* An approval answers for its node, or may set an ended task going; nothing else that
\* users, time and crashes do is seen.
LEMMA WorldPromise ==
  ASSUME TypeOK, Safe, InputsThere, EndHolds, Bounded, cancels = 0, cancels' = 0,
         "latency" \notin Deadlines \/ \A n \in Nodes : Kind[n] # "approval",
         UserRequests \/ UserSteps \/ Time \/ Crash \/ UNCHANGED vars
  PROVE  [Promise!Next]_(Promise!vars)
<1>0. /\ UsersKnown
      /\ UNCHANGED <<invoked, deadLetters>>
  BY TimeMoves DEF Safe, UserRequests, UserSteps, CancelStart, ApproveNode, ApproveTask,
     CancelNode, CancelJobs, CancelPendingRetryJobs, CancelClaims, ReleaseActiveClaims,
     DropClaims, CancelTask, KeepsRun, Crash, vars, substrateVars
<1>1. UNCHANGED Abandoned  BY <1>0 DEF Abandoned
<1>2. ASSUME NEW n \in Nodes, NEW g \in BOOLEAN, ApproveNode(n, g)
      PROVE  [Promise!Next]_(Promise!vars)
  <2>1. nodeStatus[n] = "WAITING_USER" /\ UNCHANGED taskStatus
    BY <1>2 DEF ApproveNode, taskVars
  <2>2. \A m \in Nodes \ {n} : nodeStatus'[m] = nodeStatus[m]
    BY <1>2 DEF ApproveNode, ClosedNode, SetNode, TypeOK, NodesOK
  <2>3. nodeStatus'[n] = IF Kind[n] = "approval" THEN "SUCCEEDED" ELSE "PENDING"
    BY <1>2 DEF ApproveNode, ClosedNode, SetNode, TypeOK, NodesOK
  <2>4. UNCHANGED ClientSees  BY <2>1 DEF ClientSees
  <2>5. CASE Kind[n] = "approval"
    <3>1. ~Expired  BY <2>5 DEF Expired, TypeOK, WorldOK
    <3>2. ClientSees = "open"  BY <2>1, <3>1 DEF EndHolds, Ended, ClientSees
    <3>3. n \notin Results \cup Abandoned
      BY <2>1 DEF Results, Abandoned, Safe, NodeSafe, DeadClosed, Dead
    <3>4. Results' = Results \cup {n}
      <4>1. \A m \in Nodes : nodeStatus'[m] = "SUCCEEDED" <=> nodeStatus[m] = "SUCCEEDED" \/ m = n
        BY <2>2, <2>3, <2>5
      <4>. QED  BY <4>1 DEF Results
    <3>5. Supplied(n)  BY <2>1 DEF InputsThere
    <3>. QED  BY <1>0, <1>1, <2>4, <3>2, <3>3, <3>4, <3>5, PromiseSteps
  <2>6. CASE Kind[n] # "approval"
    <3>1. Results' = Results  BY <2>1, <2>2, <2>3, <2>6 DEF Results
    <3>. QED  BY <1>0, <1>1, <2>4, <3>1, PromiseSteps
  <2>. QED  BY <2>5, <2>6
<1>3. CASE ApproveTask
  <2>1. UNCHANGED Results  BY <1>3 DEF ApproveTask, nodeVars, Results
  <2>2. MaxApprovals > 0  BY <1>3 DEF ApproveTask, Bounded
  <2>3. taskStatus' = taskStatus \/ taskStatus' = "RUNNING"
    BY <1>3 DEF ApproveTask, SetTask, taskVars
  <2>4. ClientSees' = ClientSees \/ (ClientSees # "open" /\ ClientSees' = "open")
    BY <2>3 DEF ClientSees
  <2>. QED  BY <1>0, <1>1, <2>1, <2>2, <2>4, PromiseSteps
<1>4. CASE /\ ~ApproveTask /\ \A n \in Nodes, g \in BOOLEAN : ~ApproveNode(n, g)
  <2>1. UNCHANGED <<nodeStatus, taskStatus>>
    <3>1. CASE UserRequests \/ UserSteps
      BY <1>0, <1>4, <3>1 DEF UserRequests, UserSteps, CancelStart, CancelNode, CancelJobs,
         CancelClaims, CancelTask, UsersKnown, TypeOK, UsersOK, storeVars, nodeVars, taskVars
    <3>2. CASE Time \/ Crash \/ UNCHANGED vars
      BY <3>2, TimeMoves DEF Crash, vars, storeVars, nodeVars, taskVars
    <3>. QED  BY <3>1, <3>2
  <2>2. UNCHANGED <<Results, ClientSees>>  BY <2>1 DEF Results, ClientSees
  <2>. QED  BY <1>0, <1>1, <2>2, PromiseSteps
<1>. QED  BY <1>2, <1>3, <1>4

\* The runtime implements TaskExecution for a client who does not cancel, while one
\* invocation of runTask runs at a time and leases run out only with their process:
\* with every graph, policy, retry, approval, downgrade and any number of crashes.
THEOREM RuntimeKeepsPromise ==
  ASSUME OneCaller, ~Stalls, MaxCancels = 0, IsFiniteSet(Nodes),
         "latency" \notin Deadlines \/ \A n \in Nodes : Kind[n] # "approval"
  PROVE  Spec /\ []StandInsAlone => KeepsPromise
<1>. DEFINE IInv == Leased /\ Bounded /\ Ending /\ InputsThere /\ CalledFirst
<1>1. Init => IInv
  BY LimitAssumption DEF Init, SubstrateInit, Leased, UnderClaim, Bounded, Ending, EndHolds,
     EndKnown, Ended, InputsThere, CalledFirst, Admitted
<1>2. Init => Promise!Init
  BY DEF Init, SubstrateInit, Promise!Init
<1>3. ASSUME Inductive, Safe, Safe', TypeOK', StandInsAlone, IInv, [Next]_vars
      PROVE  IInv' /\ [Promise!Next]_(Promise!vars)
  <2>1. TypeOK /\ Owned /\ UsersKnown /\ FlowAttempts  BY <1>3 DEF Inductive, Owned, Safe
  <2>2. Leased' /\ Bounded'  BY <1>3, <2>1, NextLeased, NextBounded
  <2>3. cancels = 0 /\ cancels' = 0
    BY <1>3, <2>1, <2>2 DEF Bounded, TypeOK, UsersOK
  <2>4. /\ Ending'
        /\ Ended => taskStatus' = taskStatus \/ ApproveTask
    BY <1>3, <2>1, <2>3, NextEnding
  <2>5. InputsThere'  BY <1>3, <2>3, NextInputsThere
  <2>6. CalledFirst'  BY <1>3, <2>1, NextCalledFirst
  <2>7. EndHolds  BY <1>3, <2>3 DEF Ending
  <2>8. ASSUME NEW n \in Nodes, ExecuteNode(n)  PROVE [Promise!Next]_(Promise!vars)
    <3>1. Ended => taskStatus' = taskStatus
      BY <1>3, <2>1, <2>3, <2>8, FlowEnds DEF Ending
    <3>. QED  BY <1>3, <2>3, <2>7, <2>8, <3>1, FlowPromise
  <2>9. ASSUME NEW c \in Callers, RunTask(c)  PROVE [Promise!Next]_(Promise!vars)
    <3>1. Ended => taskStatus' = taskStatus
      BY <1>3, <2>1, <2>3, <2>9, RunEnds DEF Ending
    <3>. QED  BY <1>3, <2>3, <2>7, <2>9, <3>1, RunPromise
  <2>10. ASSUME UserRequests \/ UserSteps \/ Time \/ Crash \/ UNCHANGED vars
         PROVE  [Promise!Next]_(Promise!vars)
    BY <1>3, <2>1, <2>3, <2>7, <2>10, WorldPromise
  <2>11. [Promise!Next]_(Promise!vars)
    BY <1>3, <2>8, <2>9, <2>10 DEF Next
  <2>. QED  BY <2>2, <2>4, <2>5, <2>6, <2>11
<1>4. Inductive => TypeOK  BY DEF Inductive
<1>. QED  BY <1>1, <1>2, <1>3, <1>4, SafeHolds, PTL DEF Spec, KeepsPromise, Promise!Spec

\* With max_parallel_nodes at 1 no stand-in is ever beside another node.
LEMMA OneByOneStandsAlone == OneAtATime => StandInsAlone
<1>1. SUFFICES ASSUME OneAtATime, NEW m \in Nodes, NEW n \in Nodes,
                      flowPc[m] = "gaterun", flowPc[n] = "reconcile"
               PROVE  FALSE
  BY DEF StandInsAlone
<1>2. m = n  BY <1>1 DEF OneAtATime
<1>. QED  BY <1>1, <1>2

\* So with max_parallel_nodes at 1 nothing else is asked of the behaviour.
THEOREM PromiseKeptOneByOne ==
  ASSUME OneCaller, ~Stalls, MaxCancels = 0, MaxParallel = 1, IsFiniteSet(Nodes),
         "latency" \notin Deadlines \/ \A n \in Nodes : Kind[n] # "approval"
  PROVE  Spec => KeepsPromise
<1>1. Spec => []OneAtATime  BY OneNodeAtATime
<1>2. Spec /\ []StandInsAlone => KeepsPromise  BY RuntimeKeepsPromise
<1>. QED  BY <1>1, <1>2, OneByOneStandsAlone, PTL

\* And with max_parallel_nodes at 1 a task that ended keeps its end.
THEOREM EndIsFinalOneByOne ==
  ASSUME OneCaller, ~Stalls, MaxParallel = 1, IsFiniteSet(Nodes)
  PROVE  Spec => TerminalIsFinal
<1>1. Spec => []OneAtATime  BY OneNodeAtATime
<1>2. Spec /\ []StandInsAlone => TerminalIsFinal  BY EndIsFinal
<1>. QED  BY <1>1, <1>2, OneByOneStandsAlone, PTL
=============================================================================
