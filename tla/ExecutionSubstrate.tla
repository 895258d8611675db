------------------------- MODULE ExecutionSubstrate -------------------------
(***************************************************************************)
(* The records a task's execution leaves in the store beside the task and  *)
(* node states: retry jobs, dead letters, execution units and the claims   *)
(* (leases) on them, with the operations LocalFirstExecutionSubstrate      *)
(* offers on them.  Each operation below is an action on these variables   *)
(* that TaskGraphRuntime uses as part of a handler's step.                 *)
(*                                                                         *)
(* A claim is identified by what its id hashes: the unit (node, attempt)   *)
(* and the moment it was taken, here the incarnation (epoch) of the        *)
(* process that took it.  Only ACTIVE claims are kept: no decision of the  *)
(* code reads a claim that is RELEASED, COMPLETED or EXPIRED.  Time is     *)
(* abstracted to two events per record: a backoff has elapsed              *)
(* (available_at <= now, job SCHEDULED becomes DUE) and a lease has run    *)
(* out (lease_expires_at <= now, the claim joins staleClaims).             *)
(***************************************************************************)
EXTENDS Naturals, FiniteSets

CONSTANTS
  Nodes,        \* node ids of the task graph
  MaxAttempt    \* bound: highest attempt number the model lets a node reach

ASSUME AttemptBound == MaxAttempt \in Nat \ {0}

VARIABLES
  retryJobs,        \* [node][target attempt] -> job status
  deadLetters,      \* set of <<node, attempt>>
  executionUnits,   \* [node][target attempt] -> unit status
  executionClaims,  \* set of ACTIVE claims
  staleClaims       \* the ACTIVE claims whose lease has run out

substrateVars ==
  <<retryJobs, deadLetters, executionUnits, executionClaims, staleClaims>>

Attempts == 1..MaxAttempt

\* SCHEDULED: available_at still ahead;  DUE: SCHEDULED with available_at past.
JobStatus  == {"NONE", "SCHEDULED", "DUE", "REQUEUED", "COMPLETED", "CANCELLED"}
ActiveJob  == {"SCHEDULED", "DUE", "REQUEUED"}
UnitStatus == {"NONE", "RUNNABLE", "CLAIMED", "COMPLETED", "CANCELLED"}
Claim      == [node : Nodes, attempt : Attempts, epoch : Nat]

SubstrateTypeOK ==
  /\ retryJobs \in [Nodes -> [Attempts -> JobStatus]]
  /\ deadLetters \subseteq Nodes \X Attempts
  /\ executionUnits \in [Nodes -> [Attempts -> UnitStatus]]
  /\ executionClaims \subseteq Claim
  /\ staleClaims \subseteq executionClaims

SubstrateInit ==
  /\ retryJobs = [n \in Nodes |-> [a \in Attempts |-> "NONE"]]
  /\ deadLetters = {}
  /\ executionUnits = [n \in Nodes |-> [a \in Attempts |-> "NONE"]]
  /\ executionClaims = {}
  /\ staleClaims = {}

-----------------------------------------------------------------------------
(* Retry jobs and dead letters *)

JobsWith(statuses) ==
  {j \in Nodes \X Attempts : retryJobs[j[1]][j[2]] \in statuses}

HasPendingRetryJobs == JobsWith(ActiveJob) # {}

\* getDueRetryJobs: SCHEDULED with available_at <= now (a REQUEUED job is not due).
DueRetryJobs == JobsWith({"DUE"})

SetJob(n, a, s) ==
  /\ retryJobs' = [retryJobs EXCEPT ![n][a] = s]
  /\ UNCHANGED <<deadLetters, executionUnits, executionClaims, staleClaims>>

ScheduleRetryJob(n, a) == SetJob(n, a, "SCHEDULED")

\* Variant: a job that was requeued no longer counts as active.
MarkScheduledJobCompleted(n, a) ==
  IF retryJobs[n][a] \in {"SCHEDULED", "DUE"}
    THEN SetJob(n, a, "COMPLETED")
    ELSE UNCHANGED substrateVars

\* The job is looked up by node and attempt and only an active one is closed.
MarkRetryJobCompleted(n, a) ==
  IF retryJobs[n][a] \in ActiveJob
    THEN SetJob(n, a, "COMPLETED")
    ELSE UNCHANGED substrateVars

CancelPendingRetryJobs ==
  /\ retryJobs' = [n \in Nodes |-> [a \in Attempts |->
                     IF retryJobs[n][a] \in ActiveJob
                       THEN "CANCELLED" ELSE retryJobs[n][a]]]
  /\ UNCHANGED <<deadLetters, executionUnits, executionClaims, staleClaims>>

\* The id is a hash of node and attempt, so recording twice is recording once.
RecordDeadLetter(n, a) ==
  /\ deadLetters' = deadLetters \cup {<<n, a>>}
  /\ UNCHANGED <<retryJobs, executionUnits, executionClaims, staleClaims>>

-----------------------------------------------------------------------------
(* Execution units and claims *)

ClaimsOn(n, a) == {c \in executionClaims : c.node = n /\ c.attempt = a}

\* claimExecutionUnit refuses a unit under a live lease and a finished one.
UnitRefused(n, a) ==
  \/ executionUnits[n][a] = "CLAIMED" /\ ClaimsOn(n, a) \ staleClaims # {}
  \/ executionUnits[n][a] \in {"COMPLETED", "CANCELLED"}

ClaimExecutionUnit(n, a, e) ==
  /\ ~UnitRefused(n, a)
  /\ executionClaims' = executionClaims \cup {[node |-> n, attempt |-> a, epoch |-> e]}
  /\ executionUnits' = [executionUnits EXCEPT ![n][a] = "CLAIMED"]
  /\ UNCHANGED <<retryJobs, deadLetters, staleClaims>>

\* Variant: the release forgets that the lease had run out.
ReleaseClaimKeepingStale(n, a, e) ==
  /\ executionClaims' = executionClaims \ {[node |-> n, attempt |-> a, epoch |-> e]}
  /\ executionUnits' = [executionUnits EXCEPT ![n][a] = "COMPLETED"]
  /\ UNCHANGED <<retryJobs, deadLetters, staleClaims>>

\* releaseClaim looks at no status: a claim that recovery or a cancellation has
\* already taken away is "released" again, and its unit marked COMPLETED.
ReleaseClaim(n, a, e) ==
  LET released == [node |-> n, attempt |-> a, epoch |-> e]
  IN /\ executionClaims' = executionClaims \ {released}
     /\ staleClaims' = staleClaims \ {released}
     /\ executionUnits' = [executionUnits EXCEPT ![n][a] = "COMPLETED"]
     /\ UNCHANGED <<retryJobs, deadLetters>>

UnitsOf(claims) == {<<c.node, c.attempt>> : c \in claims}

\* Every unit of the claims in `gone` gets status s, whatever claim it names now.
DropClaims(gone, s) ==
  /\ executionClaims' = executionClaims \ gone
  /\ staleClaims' = staleClaims \ gone
  /\ executionUnits' = [n \in Nodes |-> [a \in Attempts |->
                          IF <<n, a>> \in UnitsOf(gone) THEN s ELSE executionUnits[n][a]]]
  /\ UNCHANGED <<retryJobs, deadLetters>>

\* recoverStaleClaims for one claim of its list: whether the claim has been renewed
\* or released since the list was made is not looked at again.
RecoverStaleClaim(claim) == DropClaims({claim}, "RUNNABLE")
ReleaseActiveClaims      == DropClaims(executionClaims, "CANCELLED")

\* heartbeatClaim renews any claim that is still ACTIVE, run out or not.
HeartbeatClaim(c) ==
  /\ c \in staleClaims
  /\ staleClaims' = staleClaims \ {c}
  /\ UNCHANGED <<retryJobs, deadLetters, executionUnits, executionClaims>>

-----------------------------------------------------------------------------
(* Time *)

BackoffElapses(n, a) ==
  /\ retryJobs[n][a] = "SCHEDULED"
  /\ SetJob(n, a, "DUE")

LeaseExpires(c) ==
  /\ c \in executionClaims \ staleClaims
  /\ staleClaims' = staleClaims \cup {c}
  /\ UNCHANGED <<retryJobs, deadLetters, executionUnits, executionClaims>>

=============================================================================
