-------------------------- MODULE ConnectorDelivery --------------------------
(***************************************************************************)
(* The webhook connector of the agent kernel: ConnectorPlatformService     *)
(* dispatches a payload in a few attempts, each through                    *)
(* VaultBackedWebhookService, which materializes the credential from Vault *)
(* and posts to the endpoint, while administrators renew, revoke, rotate   *)
(* and inspect the credential.  All of them read the credential's record,  *)
(* wait for Vault or the endpoint, and write the whole record back from    *)
(* the copy they read.                                                     *)
(*                                                                         *)
(* A step ends where a handler awaits Vault, the endpoint or a store       *)
(* write; reads are served from memory, where a write is seen even if it   *)
(* fails to be persisted.  A lease's time is not modelled: a stored status *)
(* is never revised, so only answers of Vault bring it in.  Of the two     *)
(* adapters, which count their own records, there is one.                  *)
(***************************************************************************)
EXTENDS Integers, Sequences, FiniteSets

CONSTANTS
  Dispatches, Admins,   \* callers of dispatchWithAdapter and of the credential's handlers
  Leases,               \* lease ids Vault can give out
  MaxAttempts,          \* max_attempts of the adapter
  RateLimit,            \* rate_limit_max_deliveries of the adapter
  SharedStore,          \* whether both services were given one store
  MaxCalls,             \* bound on the environment
  None

ASSUME ConnectorAssumption ==
  /\ Dispatches \cap Admins = {} /\ None \notin Leases
  /\ {MaxAttempts, RateLimit} \subseteq Nat \ {0} /\ MaxCalls \in Nat
  /\ SharedStore \in BOOLEAN

Callers == Dispatches \cup Admins

VARIABLES
  record,               \* the credential's record in the store
  live, dead,           \* Vault: leases in force, leases revoked
  op, at,               \* what a caller is doing, and what it waits for
  copy,                 \* the record in its hands, none if a sync failed
  offer,                \* the lease that a sync is about to renew
  attempt, result,      \* of a dispatch
  log,                  \* delivery records of the last rate_limit_window_ms, by kind
  calls,
  sealed                \* history: revoked since the last rotation, by a caller alone

callVars  == <<op, at, copy, offer>>
vaultVars == <<live, dead>>
tryVars   == <<attempt, result>>
vars == <<record, vaultVars, callVars, tryVars, log, calls, sealed>>

Inspections == {"admit", "bury", "report", "inspect"}   \* inspectCredentialHealth
Requests    == {"renew", "revoke", "compromise", "rotate"}
Waits       == {"start", "vault", "autorenew", "judge", "block", "post", "close", "failed",
                "lease", "revoked"}
LeaseStatus == {"ACTIVE", "UNHEALTHY"}   \* EXPIRING is as good as ACTIVE, EXPIRED as bad as
                                         \* a lease without a duration
Answered    == {"DELIVERED", "UNAUTHORIZED", "FAILED"}   \* RATE_LIMITED is as final as DELIVERED
Results     == Answered \cup {"THROWN"}

\* status, compromise_status = CONFIRMED, lease_id
Credentials == [status : LeaseStatus \cup {"REVOKED", "COMPROMISED"}, confirmed : BOOLEAN,
                lease : Leases \cup {None}]
NoRecord == [status |-> "none", confirmed |-> FALSE, lease |-> None]

\* The kinds of delivery records: deliver makes the "post" and the "block" ones, the
\* "platform" ones are synthetic.  Dead letters are never counted, and left out.
Kinds == {"post", "block", "platform"}

Init ==
  /\ record = NoRecord
  /\ live = {} /\ dead = {}
  /\ op = [c \in Callers |-> "idle"] /\ at = [c \in Callers |-> "idle"]
  /\ copy = [c \in Callers |-> NoRecord]
  /\ offer = [c \in Callers |-> None]
  /\ attempt = [d \in Dispatches |-> 0] /\ result = [d \in Dispatches |-> None]
  /\ log = [k \in Kinds |-> 0]
  /\ calls = 0
  /\ sealed = FALSE

-----------------------------------------------------------------------------
(* The credential's record *)

\* Variant: a compromised credential is told by its status alone.
RevokedStatus(r) == r.status = "REVOKED"

\* What inspectCredentialHealth, deliver and syncCredentialFromVault test before Vault is read.
RouteBlocked(r) == r.status = "REVOKED" \/ r.confirmed

RouteEligible(r) == ~r.confirmed /\ r.status = "ACTIVE"

\* Vault answers with a lease, old or new, or without one.
Answers == {[status |-> s, confirmed |-> FALSE, lease |-> l] :
              s \in LeaseStatus, l \in Leases \ dead}
             \cup {[status |-> "UNHEALTHY", confirmed |-> FALSE, lease |-> None]}

Issue(l) == live' = live \cup ({l} \ {None}) /\ UNCHANGED dead

\* RateLimit records refuse a dispatch as well as more would; only posts are all counted.
Logged(kind) ==
  log' = [log EXCEPT ![kind] = IF kind # "post" /\ @ = RateLimit THEN @ ELSE @ + 1]

\* listAdapterAttempts reads the store of the platform; unless it is shared, nothing that
\* deliver recorded is there.
Counted == log["platform"] + (IF SharedStore THEN log["post"] + log["block"] ELSE 0)

-----------------------------------------------------------------------------
(* Calls.  One that goes on takes nothing along but what it reads next.     *)

Becomes(c, o, w, r) ==
  /\ op' = [op EXCEPT ![c] = o] /\ at' = [at EXCEPT ![c] = w]
  /\ copy' = [copy EXCEPT ![c] = r]
  /\ offer' = [offer EXCEPT ![c] = None]

GoesOn(c, o) == Becomes(c, o, "start", NoRecord)

Ends(c) == Becomes(c, "idle", "idle", NoRecord)

Awaits(c, w) == at' = [at EXCEPT ![c] = w] /\ UNCHANGED <<op, copy, offer>>

\* inspectCredentialHealth: a blocked record is judged as it is, any other is synced.
Inspects(c, o) ==
  IF ~RouteBlocked(record) THEN Becomes(c, o, "vault", record)
  ELSE IF o \in {"report", "inspect"} THEN Ends(c)
  ELSE Becomes(c, o, "judge", IF o = "admit" THEN record ELSE NoRecord)

\* Nothing is done with the health that a dispatch, or a health request, ends with; a dead
\* letter only quotes it.
Synced(c, r) ==
  IF op[c] \in {"report", "inspect"} THEN Ends(c)
  ELSE Becomes(c, op[c], "judge", IF op[c] = "bury" THEN NoRecord ELSE r)

StartInspect(c) ==
  /\ at[c] = "start" /\ op[c] \in Inspections
  /\ Inspects(c, op[c])
  /\ UNCHANGED <<record, vaultVars, tryVars, log, calls, sealed>>

\* syncCredentialFromVault: the record is written from the copy read before, CLEAR again.
VaultReads(c) ==
  /\ at[c] = "vault"
  /\ \E a \in Answers :
       /\ Issue(a.lease)
       /\ record' = a /\ Synced(c, a)
  /\ UNCHANGED <<tryVars, log, calls, sealed>>

\* deliver renews a lease about to expire, if it is renewable.
VaultReadsExpiring(c) ==
  /\ at[c] = "vault" /\ op[c] = "deliver"
  /\ \E l \in Leases \ dead :
       /\ Issue(l)
       /\ at' = [at EXCEPT ![c] = "autorenew"] /\ offer' = [offer EXCEPT ![c] = l]
  /\ UNCHANGED <<op, copy, record, tryVars, log, calls, sealed>>

AutoRenews(c) ==
  /\ at[c] = "autorenew" /\ offer[c] \in live
  /\ \E s \in LeaseStatus :
       LET renewed == [status |-> s, confirmed |-> FALSE, lease |-> offer[c]]
       IN record' = renewed /\ Synced(c, renewed)
  /\ UNCHANGED <<vaultVars, tryVars, log, calls, sealed>>

\* Vault fails: what was read is written back as UNHEALTHY.
SyncFails(c) ==
  /\ at[c] \in {"vault", "autorenew"}
  /\ record' = [copy[c] EXCEPT !.status = "UNHEALTHY"]
  /\ Synced(c, NoRecord)
  /\ UNCHANGED <<vaultVars, tryVars, log, calls, sealed>>

\* What a caller judges by after its inspection or sync: a failed one looks into the store.
Judged(c) == IF copy[c] = NoRecord THEN record ELSE copy[c]

KeepsCredential == UNCHANGED <<record, vaultVars, sealed>>

\* A dispatch ends with one more inspection.
Reports(d) ==
  /\ GoesOn(d, "report")
  /\ attempt' = [attempt EXCEPT ![d] = 0] /\ result' = [result EXCEPT ![d] = None]

-----------------------------------------------------------------------------
(* dispatchWithAdapter *)

Dispatch(d) ==
  /\ op[d] = "idle" /\ calls < MaxCalls
  /\ calls' = calls + 1
  /\ Inspects(d, "admit")
  /\ attempt' = [attempt EXCEPT ![d] = 1]
  /\ KeepsCredential /\ UNCHANGED <<result, log>>

BelowRate == Counted < RateLimit

\* A refusal, for the credential or for the rate, is a record and counts.
Refuse(d) ==
  /\ at[d] = "judge" /\ op[d] = "admit"
  /\ ~(RouteEligible(Judged(d)) /\ BelowRate)
  /\ Logged("platform") /\ Reports(d)
  /\ KeepsCredential /\ UNCHANGED calls

\* deliver reads the record once more.
Delivers(d) ==
  IF RouteBlocked(record) THEN Becomes(d, "deliver", "block", record) /\ Logged("block")
                          ELSE Becomes(d, "deliver", "vault", record) /\ UNCHANGED log

Admit(d) ==
  /\ at[d] = "judge" /\ op[d] = "admit"
  /\ RouteEligible(Judged(d)) /\ BelowRate
  /\ Delivers(d)
  /\ KeepsCredential /\ UNCHANGED <<tryVars, calls>>

Retry(d) ==
  /\ at[d] = "start" /\ op[d] = "deliver"
  /\ Delivers(d)
  /\ KeepsCredential /\ UNCHANGED <<tryVars, calls>>

\* After the sync of deliver.  When it failed, nothing more is written to the credential.
JudgeDelivery(d) ==
  /\ at[d] = "judge" /\ op[d] = "deliver"
  /\ \/ RouteEligible(copy[d]) /\ Awaits(d, "post") /\ UNCHANGED <<tryVars, log>>
     \/ /\ copy[d] # NoRecord /\ ~RouteEligible(copy[d])
        /\ Awaits(d, "block") /\ Logged("block") /\ UNCHANGED tryVars
     \/ copy[d] = NoRecord /\ Reports(d) /\ Logged("block")
  /\ KeepsCredential /\ UNCHANGED calls

\* The copy goes back into the store, with last_delivery_status.
Block(d) ==
  /\ at[d] = "block"
  /\ record' = copy[d] /\ Reports(d)
  /\ UNCHANGED <<vaultVars, sealed, log, calls>>

\* Variant: a post without an answer is repeated at once, within the attempt.
PostRepeats(d) ==
  /\ at[d] = "post"
  /\ \E r \in Results :
       /\ result' = [result EXCEPT ![d] = r]
       /\ Awaits(d, IF r = "THROWN" THEN "post" ELSE "close")
  /\ Logged("post")
  /\ KeepsCredential /\ UNCHANGED <<attempt, calls>>

\* The endpoint's answer, or none: then it may have taken the payload all the same.
PostEnds(d) ==
  /\ at[d] = "post"
  /\ \E r \in Results : result' = [result EXCEPT ![d] = r]
  /\ Logged("post") /\ Awaits(d, "close")
  /\ KeepsCredential /\ UNCHANGED <<attempt, calls>>

\* isRetryableStatus
Retryable(r) == r \in {"FAILED", "UNAUTHORIZED", "THROWN"}

\* Variant: one attempt too many.
HasAttemptsAndOne(d) == attempt[d] <= MaxAttempts

HasAttempts(d) == attempt[d] < MaxAttempts

\* The copy goes back into the store with the delivery's status.
Written(d) ==
  IF result[d] = "UNAUTHORIZED" THEN [copy[d] EXCEPT !.status = "UNHEALTHY"] ELSE copy[d]

Close(d) ==
  /\ at[d] = "close"
  /\ record' = Written(d)
  /\ \/ ~Retryable(result[d]) /\ Reports(d)
     \/ /\ Retryable(result[d])
        /\ result' = [result EXCEPT ![d] = None]
        /\ IF HasAttempts(d)
             THEN GoesOn(d, "deliver") /\ attempt' = [attempt EXCEPT ![d] = @ + 1]
             ELSE GoesOn(d, "bury") /\ UNCHANGED attempt
  /\ UNCHANGED <<vaultVars, sealed, log, calls>>

\* The credential's record is written, and not persisted.
CloseFails(d) ==
  /\ at[d] = "close" /\ result[d] \in Answered
  /\ record' = Written(d) /\ Awaits(d, "failed")
  /\ result' = [result EXCEPT ![d] = "THROWN"]
  /\ UNCHANGED <<vaultVars, sealed, attempt, log, calls>>

\* That, or a delivery record that is not persisted: a second record, of a failure, is
\* written, whatever the endpoint had answered.
RecordFailure(d) ==
  /\ at[d] = "failed" \/ (at[d] = "close" /\ result[d] \in Answered)
  /\ result' = [result EXCEPT ![d] = "THROWN"] /\ Logged("block") /\ Awaits(d, "close")
  /\ KeepsCredential /\ UNCHANGED <<attempt, calls>>

\* When what is written of a failure is not persisted either, the dispatch throws.
Throws(d) ==
  /\ at[d] = "close" /\ result[d] = "THROWN"
  /\ record' \in {record, Written(d)} /\ Ends(d)
  /\ attempt' = [attempt EXCEPT ![d] = 0] /\ result' = [result EXCEPT ![d] = None]
  /\ UNCHANGED <<vaultVars, sealed, log, calls>>

\* After the last attempt, and one more look at the credential.
DeadLetter(d) ==
  /\ at[d] = "judge" /\ op[d] = "bury"
  /\ Reports(d)
  /\ KeepsCredential /\ UNCHANGED <<log, calls>>

DispatchSteps(d) ==
  \/ Dispatch(d) \/ Refuse(d) \/ Admit(d) \/ Retry(d) \/ JudgeDelivery(d) \/ Block(d)
  \/ PostEnds(d) \/ Close(d) \/ CloseFails(d) \/ RecordFailure(d) \/ Throws(d) \/ DeadLetter(d)

-----------------------------------------------------------------------------
(* The administrator's calls *)

KeepsDispatches == UNCHANGED <<tryVars, log>>

InspectHealth(a) ==
  /\ op[a] = "idle" /\ calls < MaxCalls /\ calls' = calls + 1
  /\ Inspects(a, "inspect")
  /\ KeepsCredential /\ UNCHANGED <<tryVars, log>>

\* renewCredentialLease syncs if no lease is known, revokeCredential if no record is;
\* without a lease they throw.  rotateCredential asks Vault at once.
SyncsFirst(o) == \/ o = "renew" /\ record.lease = None
                 \/ o \in {"revoke", "compromise"} /\ record = NoRecord

Request(a, o) ==
  /\ op[a] = "idle" /\ calls < MaxCalls /\ calls' = calls + 1
  /\ IF SyncsFirst(o) THEN ~RouteBlocked(record) /\ Becomes(a, o, "vault", record)
                      ELSE (o = "rotate" \/ record.lease # None) /\ Becomes(a, o, "lease", record)
  /\ KeepsDispatches /\ UNCHANGED <<record, vaultVars, sealed>>

\* After such a sync, which throws when Vault failed.
JudgeRequest(a) ==
  /\ at[a] = "judge" /\ op[a] \in Requests
  /\ IF copy[a].lease # None THEN Awaits(a, "lease") ELSE Ends(a)
  /\ KeepsCredential /\ UNCHANGED <<tryVars, log, calls>>

\* Vault refuses, or the lease is not renewable, or no rotate_path is configured; or the
\* lease is revoked and the answer is lost.
RequestFails(a) ==
  /\ at[a] \in {"lease", "revoked"} /\ Ends(a)
  /\ KeepsCredential /\ UNCHANGED <<tryVars, log, calls>>

\* No status is looked at: only Vault keeps a revoked lease from being renewed.
Renews(a) ==
  /\ at[a] = "lease" /\ op[a] = "renew" /\ copy[a].lease \in live
  /\ \E s \in LeaseStatus : record' = [copy[a] EXCEPT !.status = s]
  /\ Ends(a)
  /\ KeepsDispatches /\ UNCHANGED <<vaultVars, sealed, calls>>

Alone(a) == \A c \in Callers \ {a} : at[c] \in {"idle", "start"}

VaultRevokes(a) ==
  /\ at[a] = "lease" /\ op[a] \in {"revoke", "compromise"}
  /\ live' = live \ {copy[a].lease} /\ dead' = dead \cup {copy[a].lease}
  /\ Awaits(a, "revoked")
  /\ KeepsDispatches /\ UNCHANGED <<record, sealed, calls>>

Revokes(a) ==
  /\ at[a] = "revoked"
  /\ LET compromised == op[a] = "compromise"
     IN record' = [copy[a] EXCEPT !.status = IF compromised THEN "COMPROMISED" ELSE "REVOKED",
                                  !.confirmed = compromised \/ @]
  /\ sealed' = (sealed \/ Alone(a))
  /\ Ends(a)
  /\ KeepsDispatches /\ UNCHANGED <<vaultVars, calls>>

Rotates(a) ==
  /\ at[a] = "lease" /\ op[a] = "rotate"
  /\ \E n \in Answers : Issue(n.lease) /\ record' = n
  /\ sealed' = FALSE
  /\ Ends(a)
  /\ KeepsDispatches /\ UNCHANGED calls

AdminSteps(a) ==
  \/ InspectHealth(a) \/ \E o \in Requests : Request(a, o)
  \/ JudgeRequest(a) \/ RequestFails(a) \/ Renews(a) \/ VaultRevokes(a) \/ Revokes(a)
  \/ Rotates(a)

-----------------------------------------------------------------------------
\* A record leaves the window.
Ages ==
  /\ \E k \in Kinds : log[k] > 0 /\ log' = [log EXCEPT ![k] = @ - 1]
  /\ KeepsCredential /\ UNCHANGED <<callVars, tryVars, calls>>

SyncSteps(c) ==
  \/ StartInspect(c) \/ VaultReads(c) \/ VaultReadsExpiring(c) \/ AutoRenews(c) \/ SyncFails(c)

Next ==
  \/ \E c \in Callers : SyncSteps(c)
  \/ \E d \in Dispatches : DispatchSteps(d)
  \/ \E a \in Admins : AdminSteps(a)
  \/ Ages

Spec == Init /\ [][Next]_vars

-----------------------------------------------------------------------------
\* Every variable stays within its type.
TypeOK ==
  /\ record \in Credentials \cup {NoRecord}
  /\ live \subseteq Leases /\ dead \subseteq Leases \ live
  /\ op \in [Callers -> Inspections \cup Requests \cup {"deliver", "idle"}]
  /\ at \in [Callers -> Waits \cup {"idle"}]
  /\ copy \in [Callers -> Credentials \cup {NoRecord}]
  /\ offer \in [Callers -> Leases \cup {None}]
  /\ attempt \in [Dispatches -> 0..MaxAttempts]
  /\ result \in [Dispatches -> Results \cup {None}]
  /\ log \in [Kinds -> Nat] /\ calls \in 0..MaxCalls
  /\ sealed \in BOOLEAN

\* A credential that was revoked, or declared compromised, while no other call held a copy
\* of its record is not used again before a rotation, whatever deliveries, inspections,
\* renewals and revocations start afterwards.
RevocationHolds ==
  sealed => RouteBlocked(record) /\ \A d \in Dispatches : at[d] # "post"

Overrun == RateLimit - 1 + MaxAttempts * Cardinality(Dispatches)

\* If both services were given one store, a window holds the posts that filled it and those
\* of the dispatches admitted by then, no more: the count is read long before it grows.
WindowKept == log["post"] <= Overrun
=============================================================================
