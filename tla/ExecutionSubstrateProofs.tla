--------------------- MODULE ExecutionSubstrateProofs ---------------------
(***************************************************************************)
(* The operations of the execution substrate keep its records well typed.  *)
(***************************************************************************)
EXTENDS ExecutionSubstrate, TLAPS

\* Rewriting the status of one retry job (schedule, requeue, complete).
LEMMA SetJobType ==
  ASSUME SubstrateTypeOK, NEW n \in Nodes, NEW a \in Attempts, NEW s \in JobStatus,
         SetJob(n, a, s)
  PROVE  SubstrateTypeOK'
BY DEF SubstrateTypeOK, SetJob

\* markRetryJobCompleted closes an active job or changes nothing.
LEMMA MarkRetryJobCompletedType ==
  ASSUME SubstrateTypeOK, NEW n \in Nodes, NEW a \in Attempts, MarkRetryJobCompleted(n, a)
  PROVE  SubstrateTypeOK'
<1>1. CASE retryJobs[n][a] \in ActiveJob
  <2>1. SetJob(n, a, "COMPLETED")  BY <1>1 DEF MarkRetryJobCompleted
  <2>. QED  BY <2>1, SetJobType DEF JobStatus
<1>2. CASE retryJobs[n][a] \notin ActiveJob
  BY <1>2 DEF MarkRetryJobCompleted, SubstrateTypeOK, substrateVars
<1>. QED  BY <1>1, <1>2

\* cancelPendingRetryJobs, of a cancelled or failed task.
LEMMA CancelPendingRetryJobsType ==
  ASSUME SubstrateTypeOK, CancelPendingRetryJobs
  PROVE  SubstrateTypeOK'
BY DEF SubstrateTypeOK, CancelPendingRetryJobs, JobStatus

\* recordDeadLetter.
LEMMA RecordDeadLetterType ==
  ASSUME SubstrateTypeOK, NEW n \in Nodes, NEW a \in Attempts, RecordDeadLetter(n, a)
  PROVE  SubstrateTypeOK'
BY DEF SubstrateTypeOK, RecordDeadLetter

\* claimExecutionUnit, when it grants the claim.
LEMMA ClaimExecutionUnitType ==
  ASSUME SubstrateTypeOK, NEW n \in Nodes, NEW a \in Attempts, NEW e \in Nat,
         ClaimExecutionUnit(n, a, e)
  PROVE  SubstrateTypeOK'
BY DEF SubstrateTypeOK, ClaimExecutionUnit, UnitStatus, Claim

\* releaseClaim.
LEMMA ReleaseClaimType ==
  ASSUME SubstrateTypeOK, NEW n \in Nodes, NEW a \in Attempts, NEW e \in Nat,
         ReleaseClaim(n, a, e)
  PROVE  SubstrateTypeOK'
BY DEF SubstrateTypeOK, ReleaseClaim, UnitStatus

\* Taking away a set of claims: recovery of stale claims, release of all of them.
LEMMA DropClaimsType ==
  ASSUME SubstrateTypeOK, NEW gone, NEW s \in UnitStatus, DropClaims(gone, s)
  PROVE  SubstrateTypeOK'
BY DEF SubstrateTypeOK, DropClaims, UnitStatus

\* recoverStaleClaims takes away one claim of its list at a time, and keeps the types.
LEMMA RecoverStaleClaimType ==
  ASSUME SubstrateTypeOK, NEW claim, RecoverStaleClaim(claim)  PROVE SubstrateTypeOK'
BY DropClaimsType DEF RecoverStaleClaim, UnitStatus

\* releaseActiveClaims, of a cancelled or failed task, keeps the types.
LEMMA ReleaseActiveClaimsType ==
  ASSUME SubstrateTypeOK, ReleaseActiveClaims  PROVE SubstrateTypeOK'
BY DropClaimsType DEF ReleaseActiveClaims, UnitStatus

\* Time: a backoff ends, a lease runs out, a heartbeat renews it.
LEMMA TimeType ==
  ASSUME SubstrateTypeOK,
         \/ \E n \in Nodes, a \in Attempts : BackoffElapses(n, a)
         \/ \E c \in executionClaims : LeaseExpires(c) \/ HeartbeatClaim(c)
  PROVE  SubstrateTypeOK'
<1>1. ASSUME NEW n \in Nodes, NEW a \in Attempts, BackoffElapses(n, a)
      PROVE  SubstrateTypeOK'
  BY <1>1, SetJobType DEF BackoffElapses, JobStatus
<1>2. ASSUME NEW c \in executionClaims, LeaseExpires(c) \/ HeartbeatClaim(c)
      PROVE  SubstrateTypeOK'
  BY <1>2 DEF SubstrateTypeOK, LeaseExpires, HeartbeatClaim
<1>. QED  BY <1>1, <1>2
=============================================================================
