----------------------- MODULE ConnectorDeliveryProofs -----------------------
(***************************************************************************)
(* A revocation that met no other call holds, and a shared window is kept, *)
(* for any number of dispatches, administrators, leases and attempts.      *)
(***************************************************************************)
EXTENDS ConnectorDelivery, FiniteSetTheorems, TLAPS

Records == Credentials \cup {NoRecord}
Ops     == Inspections \cup Requests \cup {"deliver", "idle"}

CallTypes ==
  /\ op \in [Callers -> Ops] /\ at \in [Callers -> Waits \cup {"idle"}]
  /\ copy \in [Callers -> Records] /\ offer \in [Callers -> Leases \cup {None}]

CredentialTypes ==
  /\ record \in Records
  /\ live \subseteq Leases /\ dead \subseteq Leases \ live
  /\ sealed \in BOOLEAN

TryTypes ==
  /\ attempt \in [Dispatches -> 0..MaxAttempts]
  /\ result \in [Dispatches -> Results \cup {None}]

LogTypes == log \in [Kinds -> Nat] /\ calls \in 0..MaxCalls

\* A payload is posted by deliver only; a call that asks Vault for more than a new lease
\* knows a lease, and what it revoked stays revoked.
Sound(c) ==
  /\ at[c] \in {"post", "close", "failed"} => op[c] = "deliver"
  /\ at[c] = "lease" /\ op[c] # "rotate" => copy[c].lease # None
  /\ at[c] = "revoked" => op[c] \in Requests /\ copy[c].lease \in dead

WellFormed ==
  /\ CallTypes /\ CredentialTypes /\ TryTypes /\ LogTypes
  /\ \A c \in Callers : Sound(c)

\* A credential nobody can use again: Vault renews its lease no more.
Void(r) == RouteBlocked(r) /\ r.lease \in dead

\* What a call may be at after a revocation that met no other.
Halted(c) ==
  \/ at[c] \in {"idle", "start"}
  \/ at[c] = "judge" /\ (op[c] = "bury" \/ (op[c] = "admit" /\ RouteBlocked(copy[c])))
  \/ at[c] = "block" /\ Void(copy[c])
  \/ at[c] = "lease" /\ (op[c] = "rotate" \/ copy[c].lease \in dead)
  \/ at[c] = "revoked"

SealHolds == sealed => Void(record) /\ \A c \in Callers : Halted(c)

-----------------------------------------------------------------------------
(* The helpers *)

\* Every other call is where it was.
Others(c) ==
  \A x \in Callers \ {c} : op'[x] = op[x] /\ at'[x] = at[x] /\ copy'[x] = copy[x]

\* What a record, and one that is changed, is made of.
LEMMA RecordTypes ==
  /\ NoRecord \in Records /\ NoRecord.lease = None
  /\ \A r \in Records : r.lease \in Leases \cup {None}
BY DEF Records, Credentials, NoRecord

\* Setting the status makes a credential of any record.
LEMMA StatusSet ==
  ASSUME NEW r \in Records, NEW s \in LeaseStatus \cup {"REVOKED", "COMPROMISED"}
  PROVE  [r EXCEPT !.status = s] \in Credentials /\ [r EXCEPT !.status = s].lease = r.lease
<1>1. CASE r = NoRecord
  BY <1>1 DEF Credentials, NoRecord
<1>2. CASE r \in Credentials
  BY <1>2 DEF Credentials
<1>. QED  BY <1>1, <1>2 DEF Records

\* What revokeCredential writes is a credential.
LEMMA RevokedRecord ==
  ASSUME NEW r \in Records, NEW compromised \in BOOLEAN, NEW n,
         n = [r EXCEPT !.status = IF compromised THEN "COMPROMISED" ELSE "REVOKED",
                       !.confirmed = compromised \/ @]
  PROVE  n \in Credentials
<1>1. CASE r = NoRecord
  BY <1>1 DEF Credentials, NoRecord
<1>2. CASE r \in Credentials
  BY <1>2 DEF Credentials
<1>. QED  BY <1>1, <1>2 DEF Records

\* Vault answers with no lease that was revoked.
LEMMA AnswerTypes ==
  ASSUME NEW a \in Answers
  PROVE  a \in Credentials /\ a.lease \in (Leases \ dead) \cup {None}
<1>1. CASE \E l \in Leases \ dead, s \in LeaseStatus :
             a = [status |-> s, confirmed |-> FALSE, lease |-> l]
  BY <1>1 DEF Credentials, LeaseStatus
<1>2. CASE a = [status |-> "UNHEALTHY", confirmed |-> FALSE, lease |-> None]
  BY <1>2 DEF Credentials, LeaseStatus
<1>. QED  BY <1>1, <1>2 DEF Answers

\* Becomes moves one call.
LEMMA BecomesStep ==
  ASSUME CallTypes, NEW c \in Callers, NEW o \in Ops, NEW w \in Waits \cup {"idle"},
         NEW r \in Records, Becomes(c, o, w, r)
  PROVE  CallTypes' /\ Others(c) /\ op'[c] = o /\ at'[c] = w /\ copy'[c] = r
BY DEF CallTypes, Becomes, Others

\* Awaits moves one call and leaves what it holds.
LEMMA AwaitsStep ==
  ASSUME CallTypes, NEW c \in Callers, NEW w \in Waits, Awaits(c, w)
  PROVE  /\ CallTypes' /\ Others(c)
         /\ op'[c] = op[c] /\ at'[c] = w /\ copy'[c] = copy[c]
BY DEF CallTypes, Awaits, Others

\* A call ends.
LEMMA EndsStep ==
  ASSUME CallTypes, NEW c \in Callers, Ends(c)
  PROVE  CallTypes' /\ Others(c) /\ op'[c] = "idle" /\ at'[c] = "idle"
BY BecomesStep, RecordTypes DEF Ends, Ops

\* A call goes on with another part of it.
LEMMA GoesOnStep ==
  ASSUME CallTypes, NEW c \in Callers, NEW o \in Ops, GoesOn(c, o)
  PROVE  CallTypes' /\ Others(c) /\ op'[c] = o /\ at'[c] = "start"
BY BecomesStep, RecordTypes DEF GoesOn, Waits

\* inspectCredentialHealth syncs a record that is not blocked and no other.
LEMMA InspectsStep ==
  ASSUME CallTypes, record \in Records, NEW c \in Callers, NEW o \in Inspections,
         Inspects(c, o)
  PROVE  /\ CallTypes' /\ Others(c)
         /\ \/ ~RouteBlocked(record) /\ at'[c] = "vault"
            \/ at'[c] = "idle"
            \/ /\ RouteBlocked(record) /\ at'[c] = "judge"
               /\ \/ op'[c] = "bury"
                  \/ op'[c] = "admit" /\ copy'[c] = record
<1>1. CASE ~RouteBlocked(record)
  BY <1>1, BecomesStep DEF Inspects, Ops, Waits
<1>2. CASE RouteBlocked(record) /\ o \in {"report", "inspect"}
  BY <1>2, EndsStep DEF Inspects
<1>3. CASE RouteBlocked(record) /\ o \in {"admit", "bury"}
  <2>. DEFINE r == IF o = "admit" THEN record ELSE NoRecord
  <2>1. Becomes(c, o, "judge", r) /\ r \in Records  BY <1>3, RecordTypes DEF Inspects
  <2>. HIDE DEF r
  <2>2. /\ CallTypes' /\ Others(c) /\ op'[c] = o /\ at'[c] = "judge" /\ copy'[c] = r
    BY <2>1, BecomesStep DEF Ops, Waits
  <2>. QED  BY <1>3, <2>2 DEF r
<1>. QED  BY <1>1, <1>2, <1>3 DEF Inspections

\* The end of a sync.
LEMMA SyncedStep ==
  ASSUME CallTypes, NEW c \in Callers, NEW r \in Records, Synced(c, r)
  PROVE  CallTypes' /\ Others(c) /\ at'[c] \in {"idle", "judge"}
<1>1. CASE op[c] \in {"report", "inspect"}
  BY <1>1, EndsStep DEF Synced
<1>2. CASE op[c] \notin {"report", "inspect"}
  <2>. DEFINE s == IF op[c] = "bury" THEN NoRecord ELSE r
  <2>1. Becomes(c, op[c], "judge", s) /\ s \in Records /\ op[c] \in Ops
    BY <1>2, RecordTypes DEF Synced, CallTypes
  <2>. HIDE DEF s
  <2>. QED  BY <2>1, BecomesStep DEF Waits
<1>. QED  BY <1>1, <1>2

\* The beginning of deliver.
LEMMA DeliversStep ==
  ASSUME CallTypes, LogTypes, record \in Records, NEW d \in Dispatches, Delivers(d)
  PROVE  /\ CallTypes' /\ Others(d) /\ log' \in [Kinds -> Nat] /\ op'[d] = "deliver"
         /\ \/ ~RouteBlocked(record) /\ at'[d] = "vault"
            \/ RouteBlocked(record) /\ at'[d] = "block" /\ copy'[d] = record
<1>. d \in Callers /\ "deliver" \in Ops /\ {"vault", "block"} \subseteq Waits
  BY DEF Callers, Ops, Waits
<1>1. CASE RouteBlocked(record)
  <2>1. Becomes(d, "deliver", "block", record) /\ Logged("block")  BY <1>1 DEF Delivers
  <2>2. log' \in [Kinds -> Nat]
    BY <2>1, ConnectorAssumption DEF Logged, LogTypes, Kinds
  <2>. QED  BY <1>1, <2>1, <2>2, BecomesStep
<1>2. CASE ~RouteBlocked(record)
  BY <1>2, BecomesStep DEF Delivers, LogTypes
<1>. QED  BY <1>1, <1>2

\* recordDelivery and recordSyntheticAttempt.
LEMMA LoggedType ==
  ASSUME LogTypes, NEW k \in Kinds, Logged(k), UNCHANGED calls
  PROVE  LogTypes'
BY ConnectorAssumption DEF Logged, LogTypes

\* The last inspection of a dispatch begins; its attempts are over.
LEMMA ReportsStep ==
  ASSUME CallTypes, TryTypes, NEW d \in Dispatches, Reports(d)
  PROVE  CallTypes' /\ TryTypes' /\ Others(d) /\ op'[d] = "report" /\ at'[d] = "start"
<1>1. CallTypes' /\ Others(d) /\ op'[d] = "report" /\ at'[d] = "start"
  BY GoesOnStep DEF Reports, Callers, Ops, Inspections
<1>2. TryTypes'  BY ConnectorAssumption DEF Reports, TryTypes
<1>. QED  BY <1>1, <1>2

\* Enough for a call's step to keep everything well formed.
LEMMA Assemble ==
  ASSUME WellFormed, NEW c \in Callers, dead \subseteq dead',
         CallTypes', CredentialTypes', TryTypes', LogTypes', Others(c), Sound(c)'
  PROVE  WellFormed'
<1>1. \A x \in Callers : Sound(x)'  BY DEF WellFormed, Others, Sound
<1>. QED  BY <1>1 DEF WellFormed

\* A step that changes no attempt.
LEMMA SameTries == ASSUME WellFormed, UNCHANGED tryVars PROVE TryTypes'
BY DEF WellFormed, TryTypes, tryVars

-----------------------------------------------------------------------------
(* Inspections and syncs keep everything well formed *)

\* The step of a sync: its outcome, and how the credential stays well typed.
LEMMA SyncForm ==
  ASSUME WellFormed, NEW c \in Callers, SyncSteps(c)
  PROVE  WellFormed'
<1>0. dead \subseteq dead'
  BY DEF SyncSteps, StartInspect, VaultReads, VaultReadsExpiring, AutoRenews, SyncFails, Issue,
         vaultVars
<1>. USE DEF WellFormed
<1>1. CASE StartInspect(c)
  <2>1. /\ CallTypes' /\ Others(c) /\ at'[c] \in {"vault", "idle", "judge"}
        /\ UNCHANGED tryVars /\ CredentialTypes' /\ LogTypes'
    BY <1>1, InspectsStep DEF StartInspect, CredentialTypes, LogTypes, vaultVars
  <2>2. at[c] = "start"  BY <1>1 DEF StartInspect
  <2>. QED  BY <1>0, <2>1, <2>2, SameTries, Assemble DEF Sound
<1>2. CASE VaultReads(c)
  <2>1. PICK a \in Answers : Issue(a.lease) /\ record' = a /\ Synced(c, a)
    BY <1>2 DEF VaultReads
  <2>2. /\ at[c] = "vault" /\ UNCHANGED tryVars /\ UNCHANGED <<log, calls, sealed>>
    BY <1>2 DEF VaultReads
  <2>3. a \in Credentials /\ a.lease \in (Leases \ dead) \cup {None}  BY AnswerTypes
  <2>4. CredentialTypes'
    BY <2>1, <2>2, <2>3 DEF CredentialTypes, Records, Issue
  <2>5. CallTypes' /\ Others(c) /\ at'[c] \in {"idle", "judge"}
    BY <2>1, <2>3, SyncedStep DEF Records
  <2>6. LogTypes'  BY <2>2 DEF LogTypes
  <2>. QED  BY <1>0, <2>2, <2>4, <2>5, <2>6, SameTries, Assemble DEF Sound
<1>3. CASE VaultReadsExpiring(c)
  <2>1. PICK l \in Leases \ dead :
          /\ Issue(l)
          /\ at' = [at EXCEPT ![c] = "autorenew"] /\ offer' = [offer EXCEPT ![c] = l]
    BY <1>3 DEF VaultReadsExpiring
  <2>2. /\ at[c] = "vault" /\ UNCHANGED tryVars
        /\ UNCHANGED <<op, copy, record, log, calls, sealed>>
    BY <1>3 DEF VaultReadsExpiring
  <2>3. CredentialTypes'  BY <2>1, <2>2, ConnectorAssumption DEF CredentialTypes, Issue
  <2>4. CallTypes' /\ Others(c) /\ at'[c] = "autorenew"
    BY <2>1, <2>2 DEF CallTypes, Others, Waits
  <2>5. LogTypes'  BY <2>2 DEF LogTypes
  <2>. QED  BY <1>0, <2>2, <2>3, <2>4, <2>5, SameTries, Assemble DEF Sound
<1>4. CASE AutoRenews(c)
  <2>1. PICK s \in LeaseStatus :
          LET renewed == [status |-> s, confirmed |-> FALSE, lease |-> offer[c]]
          IN record' = renewed /\ Synced(c, renewed)
    BY <1>4 DEF AutoRenews
  <2>2. /\ at[c] = "autorenew" /\ UNCHANGED tryVars
        /\ UNCHANGED <<live, dead, log, calls, sealed>>
    BY <1>4 DEF AutoRenews, vaultVars
  <2>3. record' \in Credentials /\ Synced(c, record')
    BY <2>1 DEF Credentials, CallTypes
  <2>4. CredentialTypes'  BY <2>2, <2>3 DEF CredentialTypes, Records
  <2>5. CallTypes' /\ Others(c) /\ at'[c] \in {"idle", "judge"}
    BY <2>3, SyncedStep DEF Records
  <2>6. LogTypes'  BY <2>2 DEF LogTypes
  <2>. QED  BY <1>0, <2>2, <2>4, <2>5, <2>6, SameTries, Assemble DEF Sound
<1>5. CASE SyncFails(c)
  <2>1. /\ record' = [copy[c] EXCEPT !.status = "UNHEALTHY"] /\ Synced(c, NoRecord)
        /\ at[c] \in {"vault", "autorenew"} /\ UNCHANGED tryVars
        /\ UNCHANGED <<live, dead, log, calls, sealed>>
    BY <1>5 DEF SyncFails, vaultVars
  <2>2. record' \in Records
    BY <2>1, StatusSet DEF CallTypes, LeaseStatus, Records
  <2>3. CredentialTypes'  BY <2>1, <2>2 DEF CredentialTypes
  <2>4. CallTypes' /\ Others(c) /\ at'[c] \in {"idle", "judge"}
    BY <2>1, SyncedStep, RecordTypes
  <2>5. LogTypes'  BY <2>1 DEF LogTypes
  <2>. QED  BY <1>0, <2>1, <2>3, <2>4, <2>5, SameTries, Assemble DEF Sound
<1>. QED  BY <1>1, <1>2, <1>3, <1>4, <1>5 DEF SyncSteps

-----------------------------------------------------------------------------
(* So do dispatches *)

\* What deliver writes back is a record.
LEMMA WrittenForm ==
  ASSUME CallTypes, NEW d \in Dispatches
  PROVE  Written(d) \in Records
<1>1. d \in Callers  BY DEF Callers
<1>. QED  BY <1>1, StatusSet DEF Written, CallTypes, LeaseStatus, Records

\* Every step of a dispatch keeps the records well formed.
LEMMA DispatchForm ==
  ASSUME WellFormed, NEW d \in Dispatches, DispatchSteps(d)
  PROVE  WellFormed'
<1>. d \in Callers  BY DEF Callers
<1>0. dead' = dead
  BY DEF DispatchSteps, Dispatch, Refuse, Admit, Retry, JudgeDelivery, Block, PostEnds, Close,
         CloseFails, RecordFailure, Throws, DeadLetter, KeepsCredential, vaultVars
<1>. USE DEF WellFormed
<1>1. CASE Dispatch(d)
  <2>1. /\ Inspects(d, "admit") /\ op[d] = "idle" /\ calls < MaxCalls /\ calls' = calls + 1
        /\ attempt' = [attempt EXCEPT ![d] = 1]
        /\ UNCHANGED <<result, log, record, live, dead, sealed>>
    BY <1>1 DEF Dispatch, KeepsCredential, vaultVars
  <2>2. CallTypes' /\ Others(d) /\ at'[d] \in {"vault", "idle", "judge"}
    BY <2>1, InspectsStep DEF Inspections, CredentialTypes
  <2>3. CredentialTypes'  BY <2>1 DEF CredentialTypes
  <2>4. LogTypes'  BY <2>1, ConnectorAssumption DEF LogTypes
  <2>5. TryTypes'  BY <2>1, ConnectorAssumption DEF TryTypes
  <2>. QED  BY <1>0, <2>2, <2>3, <2>4, <2>5, Assemble DEF Sound
<1>2. CASE Refuse(d)
  <2>1. /\ Logged("platform") /\ Reports(d) /\ UNCHANGED <<record, live, dead, sealed, calls>>
    BY <1>2 DEF Refuse, KeepsCredential, vaultVars
  <2>2. LogTypes'  BY <2>1, LoggedType DEF Kinds
  <2>3. CredentialTypes'  BY <2>1 DEF CredentialTypes
  <2>. QED  BY <1>0, <2>1, <2>2, <2>3, ReportsStep, Assemble DEF Sound
<1>3. CASE Admit(d) \/ Retry(d)
  <2>1. /\ Delivers(d)
        /\ UNCHANGED tryVars /\ UNCHANGED <<record, live, dead, sealed, calls>>
    BY <1>3 DEF Admit, Retry, KeepsCredential, vaultVars
  <2>2. /\ CallTypes' /\ Others(d) /\ log' \in [Kinds -> Nat]
        /\ at'[d] \in {"vault", "block"}
    BY <2>1, DeliversStep DEF CredentialTypes
  <2>3. CredentialTypes' /\ LogTypes'  BY <2>1, <2>2 DEF CredentialTypes, LogTypes
  <2>. QED  BY <1>0, <2>1, <2>2, <2>3, SameTries, Assemble DEF Sound
<1>4. CASE JudgeDelivery(d)
  <2>1. /\ at[d] = "judge" /\ op[d] = "deliver"
        /\ UNCHANGED <<record, live, dead, sealed, calls>>
    BY <1>4 DEF JudgeDelivery, KeepsCredential, vaultVars
  <2>2. CredentialTypes'  BY <2>1 DEF CredentialTypes
  <2>3. CASE Awaits(d, "post") /\ UNCHANGED tryVars /\ UNCHANGED log
    <3>1. LogTypes'  BY <2>1, <2>3 DEF LogTypes
    <3>2. /\ CallTypes' /\ Others(d) /\ op'[d] = "deliver" /\ at'[d] = "post"
      BY <2>1, <2>3, AwaitsStep DEF Waits
    <3>. QED  BY <1>0, <2>1, <2>2, <2>3, <3>1, <3>2, SameTries, Assemble DEF Sound
  <2>4. CASE Awaits(d, "block") /\ Logged("block") /\ UNCHANGED tryVars
    <3>1. LogTypes'  BY <2>1, <2>4, LoggedType DEF Kinds
    <3>2. /\ CallTypes' /\ Others(d) /\ at'[d] = "block"
      BY <2>1, <2>4, AwaitsStep DEF Waits
    <3>. QED  BY <1>0, <2>1, <2>2, <2>4, <3>1, <3>2, SameTries, Assemble DEF Sound
  <2>5. CASE Reports(d) /\ Logged("block")
    <3>1. LogTypes'  BY <2>1, <2>5, LoggedType DEF Kinds
    <3>. QED  BY <1>0, <2>2, <2>5, <3>1, ReportsStep, Assemble DEF Sound
  <2>. QED  BY <1>4, <2>3, <2>4, <2>5 DEF JudgeDelivery
<1>5. CASE Block(d)
  <2>1. /\ record' = copy[d] /\ Reports(d) /\ UNCHANGED <<live, dead, sealed, log, calls>>
    BY <1>5 DEF Block, vaultVars
  <2>2. CredentialTypes' /\ LogTypes'
    BY <2>1 DEF CredentialTypes, LogTypes, CallTypes
  <2>. QED  BY <1>0, <2>1, <2>2, ReportsStep, Assemble DEF Sound
<1>6. CASE PostEnds(d)
  <2>1. PICK r \in Results : result' = [result EXCEPT ![d] = r]  BY <1>6 DEF PostEnds
  <2>2. /\ at[d] = "post" /\ Logged("post") /\ Awaits(d, "close")
        /\ UNCHANGED <<record, live, dead, sealed, attempt, calls>>
    BY <1>6 DEF PostEnds, KeepsCredential, vaultVars
  <2>3. CredentialTypes' /\ LogTypes'
    BY <2>2, LoggedType DEF CredentialTypes, Kinds
  <2>4. CallTypes' /\ Others(d) /\ op'[d] = "deliver" /\ at'[d] = "close"
    BY <2>2, AwaitsStep DEF Waits, Sound
  <2>5. TryTypes'  BY <2>1, <2>2 DEF TryTypes
  <2>. QED  BY <1>0, <2>3, <2>4, <2>5, Assemble DEF Sound
<1>7. CASE Close(d)
  <2>1. /\ at[d] = "close" /\ UNCHANGED <<live, dead, sealed, log, calls>>
        /\ record' = Written(d)
    BY <1>7 DEF Close, vaultVars
  <2>2. record' \in Records  BY <2>1, WrittenForm
  <2>3. CredentialTypes' /\ LogTypes'  BY <2>1, <2>2 DEF CredentialTypes, LogTypes
  <2>4. CASE Reports(d)
    BY <1>0, <2>3, <2>4, ReportsStep, Assemble DEF Sound
  <2>5. CASE /\ result' = [result EXCEPT ![d] = None]
             /\ IF HasAttempts(d)
                  THEN GoesOn(d, "deliver") /\ attempt' = [attempt EXCEPT ![d] = @ + 1]
                  ELSE GoesOn(d, "bury") /\ UNCHANGED attempt
    <3>1. CallTypes' /\ Others(d) /\ at'[d] = "start"
      BY <2>5, GoesOnStep DEF Ops, Inspections
    <3>2. attempt' \in [Dispatches -> 0..MaxAttempts]
      BY <2>5, ConnectorAssumption DEF TryTypes, HasAttempts
    <3>3. TryTypes'  BY <2>5, <3>2 DEF TryTypes
    <3>. QED  BY <1>0, <2>3, <3>1, <3>3, Assemble DEF Sound
  <2>. QED  BY <1>7, <2>4, <2>5 DEF Close
<1>8. CASE CloseFails(d)
  <2>1. /\ at[d] = "close" /\ record' = Written(d) /\ Awaits(d, "failed")
        /\ result' = [result EXCEPT ![d] = "THROWN"]
        /\ UNCHANGED <<live, dead, sealed, attempt, log, calls>>
    BY <1>8 DEF CloseFails, vaultVars
  <2>2. CredentialTypes' /\ LogTypes' /\ TryTypes'
    BY <2>1, WrittenForm DEF CredentialTypes, LogTypes, TryTypes, Results
  <2>3. CallTypes' /\ Others(d) /\ op'[d] = "deliver" /\ at'[d] = "failed"
    BY <2>1, AwaitsStep DEF Waits, Sound
  <2>. QED  BY <1>0, <2>2, <2>3, Assemble DEF Sound
<1>9. CASE RecordFailure(d)
  <2>1. /\ at[d] \in {"failed", "close"} /\ Awaits(d, "close")
        /\ result' = [result EXCEPT ![d] = "THROWN"] /\ Logged("block")
        /\ UNCHANGED <<record, live, dead, sealed, attempt, calls>>
    BY <1>9 DEF RecordFailure, KeepsCredential, vaultVars
  <2>2. CredentialTypes' /\ LogTypes' /\ TryTypes'
    BY <2>1, LoggedType DEF CredentialTypes, Kinds, TryTypes, Results
  <2>3. CallTypes' /\ Others(d) /\ op'[d] = "deliver" /\ at'[d] = "close"
    BY <2>1, AwaitsStep DEF Waits, Sound
  <2>. QED  BY <1>0, <2>2, <2>3, Assemble DEF Sound
<1>10. CASE Throws(d)
  <2>1. /\ record' \in {record, Written(d)} /\ Ends(d)
        /\ attempt' = [attempt EXCEPT ![d] = 0] /\ result' = [result EXCEPT ![d] = None]
        /\ UNCHANGED <<live, dead, sealed, log, calls>>
    BY <1>10 DEF Throws, vaultVars
  <2>2. CredentialTypes' /\ LogTypes'
    BY <2>1, WrittenForm DEF CredentialTypes, LogTypes
  <2>3. TryTypes'  BY <2>1, ConnectorAssumption DEF TryTypes
  <2>4. CallTypes' /\ Others(d) /\ at'[d] = "idle"  BY <2>1, EndsStep
  <2>. QED  BY <1>0, <2>2, <2>3, <2>4, Assemble DEF Sound
<1>11. CASE DeadLetter(d)
  <2>1. Reports(d) /\ UNCHANGED <<record, live, dead, sealed, log, calls>>
    BY <1>11 DEF DeadLetter, KeepsCredential, vaultVars
  <2>2. CredentialTypes' /\ LogTypes'  BY <2>1 DEF CredentialTypes, LogTypes
  <2>. QED  BY <1>0, <2>1, <2>2, ReportsStep, Assemble DEF Sound
<1>. QED  BY <1>1, <1>2, <1>3, <1>4, <1>5, <1>6, <1>7, <1>8, <1>9, <1>10, <1>11
   DEF DispatchSteps

-----------------------------------------------------------------------------
(* So do administrators *)

\* So does every operation of the administration.
LEMMA AdminForm ==
  ASSUME WellFormed, NEW a \in Admins, AdminSteps(a)
  PROVE  WellFormed'
<1>. a \in Callers /\ a \notin Dispatches  BY ConnectorAssumption DEF Callers
<1>. USE DEF WellFormed
<1>0. dead \subseteq dead'
  BY DEF AdminSteps, InspectHealth, Request, JudgeRequest, RequestFails, Renews, VaultRevokes,
         Revokes, Rotates, KeepsCredential, vaultVars, Issue
<1>. DEFINE Tried == UNCHANGED <<attempt, result>>
<1>1. ASSUME Tried  PROVE TryTypes'
  BY <1>1 DEF TryTypes
<1>2. CASE InspectHealth(a)
  <2>1. /\ Inspects(a, "inspect") /\ Tried /\ calls < MaxCalls /\ calls' = calls + 1
        /\ UNCHANGED <<log, record, live, dead, sealed>>
    BY <1>2 DEF InspectHealth, KeepsCredential, vaultVars, tryVars
  <2>2. CallTypes' /\ Others(a) /\ at'[a] \in {"vault", "idle", "judge"}
    BY <2>1, InspectsStep DEF Inspections, CredentialTypes
  <2>3. CredentialTypes' /\ LogTypes'
    BY <2>1, ConnectorAssumption DEF CredentialTypes, LogTypes
  <2>. QED  BY <1>0, <1>1, <2>1, <2>2, <2>3, Assemble DEF Sound
<1>3. ASSUME NEW o \in Requests, Request(a, o)  PROVE WellFormed'
  <2>1. /\ calls < MaxCalls /\ calls' = calls + 1 /\ Tried
        /\ UNCHANGED <<log, record, live, dead, sealed>>
    BY <1>3 DEF Request, KeepsDispatches, vaultVars, tryVars
  <2>2. CredentialTypes' /\ LogTypes'
    BY <2>1, ConnectorAssumption DEF CredentialTypes, LogTypes
  <2>3. CASE SyncsFirst(o)
    <3>1. CallTypes' /\ Others(a) /\ at'[a] = "vault"
      BY <1>3, <2>3, BecomesStep DEF Request, CredentialTypes, Ops, Waits
    <3>. QED  BY <1>0, <1>1, <2>1, <2>2, <3>1, Assemble DEF Sound
  <2>4. CASE ~SyncsFirst(o)
    <3>1. /\ o = "rotate" \/ record.lease # None
          /\ Becomes(a, o, "lease", record)
      BY <1>3, <2>4 DEF Request
    <3>2. /\ CallTypes' /\ Others(a)
          /\ at'[a] = "lease" /\ op'[a] = o /\ copy'[a] = record
      BY <3>1, BecomesStep DEF CredentialTypes, Ops, Waits
    <3>. QED  BY <1>0, <1>1, <2>1, <2>2, <3>1, <3>2, Assemble DEF Sound
  <2>. QED  BY <2>3, <2>4
<1>4. CASE JudgeRequest(a)
  <2>1. Tried /\ UNCHANGED <<record, live, dead, sealed, log, calls>>
    BY <1>4 DEF JudgeRequest, KeepsCredential, vaultVars, tryVars
  <2>2. CredentialTypes' /\ LogTypes'  BY <2>1 DEF CredentialTypes, LogTypes
  <2>3. CASE copy[a].lease # None
    <3>1. /\ CallTypes' /\ Others(a) /\ at'[a] = "lease" /\ copy'[a] = copy[a]
      BY <1>4, <2>3, AwaitsStep DEF JudgeRequest, Waits
    <3>. QED  BY <1>0, <1>1, <2>1, <2>2, <2>3, <3>1, Assemble DEF Sound
  <2>4. CASE copy[a].lease = None
    <3>1. CallTypes' /\ Others(a) /\ at'[a] = "idle"
      BY <1>4, <2>4, EndsStep DEF JudgeRequest
    <3>. QED  BY <1>0, <1>1, <2>1, <2>2, <3>1, Assemble DEF Sound
  <2>. QED  BY <2>3, <2>4
<1>5. CASE RequestFails(a)
  <2>1. Tried /\ Ends(a) /\ UNCHANGED <<record, live, dead, sealed, log, calls>>
    BY <1>5 DEF RequestFails, KeepsCredential, vaultVars, tryVars
  <2>2. CredentialTypes' /\ LogTypes'  BY <2>1 DEF CredentialTypes, LogTypes
  <2>. QED  BY <1>0, <1>1, <2>1, <2>2, EndsStep, Assemble DEF Sound
<1>6. CASE Renews(a)
  <2>1. /\ Tried /\ Ends(a) /\ UNCHANGED <<live, dead, sealed, log, calls>>
        /\ \E s \in LeaseStatus : record' = [copy[a] EXCEPT !.status = s]
    BY <1>6 DEF Renews, KeepsDispatches, vaultVars, tryVars
  <2>2. record' \in Records  BY <2>1, StatusSet DEF CallTypes, Records
  <2>3. CredentialTypes' /\ LogTypes'  BY <2>1, <2>2 DEF CredentialTypes, LogTypes
  <2>. QED  BY <1>0, <1>1, <2>1, <2>3, EndsStep, Assemble DEF Sound
<1>7. CASE VaultRevokes(a)
  <2>1. /\ Tried /\ Awaits(a, "revoked") /\ UNCHANGED <<record, sealed, log, calls>>
        /\ at[a] = "lease" /\ op[a] \in Requests /\ op[a] # "rotate"
        /\ live' = live \ {copy[a].lease} /\ dead' = dead \cup {copy[a].lease}
    BY <1>7 DEF VaultRevokes, KeepsDispatches, tryVars, Requests
  <2>2. copy[a].lease \in Leases
    BY <2>1, RecordTypes DEF Sound, CallTypes
  <2>3. CredentialTypes' /\ LogTypes'  BY <2>1, <2>2 DEF CredentialTypes, LogTypes
  <2>4. /\ CallTypes' /\ Others(a)
        /\ op'[a] = op[a] /\ at'[a] = "revoked" /\ copy'[a] = copy[a]
    BY <2>1, AwaitsStep DEF Waits
  <2>5. Sound(a)'  BY <2>1, <2>4 DEF Sound
  <2>. QED  BY <1>0, <1>1, <2>1, <2>3, <2>4, <2>5, Assemble
<1>8. CASE Revokes(a)
  <2>. DEFINE compromised == op[a] = "compromise"
  <2>1. /\ Tried /\ Ends(a) /\ UNCHANGED <<live, dead, log, calls>>
        /\ sealed' = (sealed \/ Alone(a))
        /\ record' = [copy[a] EXCEPT !.status = IF compromised THEN "COMPROMISED" ELSE "REVOKED",
                                     !.confirmed = compromised \/ @]
    BY <1>8 DEF Revokes, KeepsDispatches, tryVars, vaultVars
  <2>2. record' \in Records  BY <2>1, RevokedRecord DEF Records, CallTypes
  <2>3. CredentialTypes'  BY <2>1, <2>2 DEF CredentialTypes, Alone
  <2>4. LogTypes'  BY <2>1 DEF LogTypes
  <2>. QED  BY <1>0, <1>1, <2>1, <2>3, <2>4, EndsStep, Assemble DEF Sound
<1>9. CASE Rotates(a)
  <2>1. /\ Tried /\ Ends(a) /\ UNCHANGED <<log, calls>> /\ sealed' = FALSE
    BY <1>9 DEF Rotates, KeepsDispatches, tryVars
  <2>2. PICK n \in Answers : Issue(n.lease) /\ record' = n
    BY <1>9 DEF Rotates
  <2>3. CredentialTypes'
    BY <2>1, <2>2, AnswerTypes DEF CredentialTypes, Records, Issue
  <2>4. LogTypes'  BY <2>1 DEF LogTypes
  <2>. QED  BY <1>0, <1>1, <2>1, <2>3, <2>4, EndsStep, Assemble DEF Sound
<1>. QED  BY <1>2, <1>3, <1>4, <1>5, <1>6, <1>7, <1>8, <1>9 DEF AdminSteps

\* Every step keeps everything well formed.
LEMMA NextForm ==
  ASSUME WellFormed, Next  PROVE WellFormed'
<1>1. CASE Ages
  <2>1. /\ \E k \in Kinds : log[k] > 0 /\ log' = [log EXCEPT ![k] = @ - 1]
        /\ UNCHANGED <<record, live, dead, sealed, op, at, copy, offer,
                       attempt, result, calls>>
    BY <1>1 DEF Ages, KeepsCredential, vaultVars, callVars, tryVars
  <2>2. LogTypes'  BY <2>1 DEF WellFormed, LogTypes
  <2>. QED
    BY <2>1, <2>2 DEF WellFormed, CallTypes, CredentialTypes, TryTypes, Sound
<1>. QED  BY <1>1, SyncForm, DispatchForm, AdminForm DEF Next, Callers

\* The invariant at the start,
LEMMA InitForm == Init => WellFormed
<1>. SUFFICES ASSUME Init  PROVE WellFormed
  OBVIOUS
<1>1. CallTypes  BY RecordTypes DEF Init, CallTypes, Ops
<1>2. CredentialTypes  BY RecordTypes DEF Init, CredentialTypes
<1>3. TryTypes /\ LogTypes
  BY ConnectorAssumption DEF Init, TryTypes, LogTypes
<1>4. \A c \in Callers : Sound(c)  BY DEF Init, Sound
<1>. QED  BY <1>1, <1>2, <1>3, <1>4 DEF WellFormed

\* and so in every reachable state.
LEMMA FormHolds == Spec => []WellFormed
<1>1. WellFormed /\ UNCHANGED vars => WellFormed'
  BY DEF WellFormed, vars, vaultVars, callVars, tryVars, CallTypes, CredentialTypes,
         TryTypes, LogTypes, Sound
<1>. QED  BY <1>1, InitForm, NextForm, PTL DEF Spec

\* The variables stay within their types.
THEOREM TypeCorrect == Spec => []TypeOK
<1>1. WellFormed => TypeOK
  BY DEF WellFormed, TypeOK, CallTypes, CredentialTypes, TryTypes, LogTypes, Records, Ops
<1>. QED  BY <1>1, FormHolds, PTL

-----------------------------------------------------------------------------
(* A revocation that met no other call holds *)

\* A step of one call of a sealed credential, which keeps it void and comes to a halt.
LEMMA KeepsSeal ==
  ASSUME WellFormed, SealHolds, NEW c \in Callers, Others(c), sealed' => sealed,
         dead \subseteq dead',
         sealed => Void(record)' /\ Halted(c)'
  PROVE  SealHolds'
<1>. SUFFICES ASSUME sealed'  PROVE Void(record)' /\ \A x \in Callers : Halted(x)'
  BY DEF SealHolds
<1>1. ASSUME NEW x \in Callers \ {c}  PROVE Halted(x)'
  <2>1. Halted(x)  BY DEF SealHolds
  <2>. QED  BY <2>1 DEF Others, Halted, Void, RouteBlocked
<1>. QED  BY <1>1

\* What is not written stays void.
LEMMA StaysVoid ==
  ASSUME SealHolds, UNCHANGED <<record, dead>>, sealed
  PROVE  Void(record)' /\ RouteBlocked(record)
BY DEF SealHolds, Void, RouteBlocked

\* No sync is in progress, and none begins: Vault is not asked for the credential.
LEMMA SyncSeal ==
  ASSUME WellFormed, SealHolds, NEW c \in Callers, SyncSteps(c)
  PROVE  SealHolds'
<1>1. CASE ~sealed
  <2>. UNCHANGED sealed
    BY DEF SyncSteps, StartInspect, VaultReads, VaultReadsExpiring, AutoRenews, SyncFails
  <2>. QED  BY <1>1 DEF SealHolds
<1>2. CASE sealed
  <2>1. at[c] \notin {"vault", "autorenew"}  BY <1>2 DEF SealHolds, Halted
  <2>2. StartInspect(c)
    BY <2>1 DEF SyncSteps, VaultReads, VaultReadsExpiring, AutoRenews, SyncFails
  <2>3. Inspects(c, op[c]) /\ op[c] \in Inspections /\ UNCHANGED <<record, dead, sealed>>
    BY <2>2 DEF StartInspect, vaultVars
  <2>4. Void(record)' /\ RouteBlocked(record)  BY <1>2, <2>3, StaysVoid
  <2>5. /\ Others(c)
        /\ \/ at'[c] = "idle"
           \/ /\ at'[c] = "judge"
              /\ op'[c] = "bury" \/ (op'[c] = "admit" /\ copy'[c] = record)
    BY <2>3, <2>4, InspectsStep DEF WellFormed, CredentialTypes
  <2>6. Halted(c)'  BY <2>4, <2>5 DEF Halted, RouteBlocked
  <2>. QED  BY <2>3, <2>4, <2>5, <2>6, KeepsSeal
<1>. QED  BY <1>1, <1>2

\* A dispatch is refused, or blocked in deliver, and writes back what it read.
LEMMA DispatchSeal ==
  ASSUME WellFormed, SealHolds, NEW d \in Dispatches, DispatchSteps(d)
  PROVE  SealHolds'
<1>. d \in Callers  BY DEF Callers
<1>0. UNCHANGED <<live, dead, sealed>>
  BY DEF DispatchSteps, Dispatch, Refuse, Admit, Retry, JudgeDelivery, Block, PostEnds, Close,
         CloseFails, RecordFailure, Throws, DeadLetter, KeepsCredential, vaultVars
<1>1. CASE ~sealed
  BY <1>0, <1>1 DEF SealHolds
<1>2. CASE sealed
  <2>1. Halted(d) /\ Void(record)  BY <1>2 DEF SealHolds
  <2>2. CASE Dispatch(d)
    <3>1. Inspects(d, "admit") /\ UNCHANGED <<record, dead>>
      BY <1>0, <2>2 DEF Dispatch, KeepsCredential
    <3>2. Void(record)' /\ RouteBlocked(record)  BY <1>2, <3>1, StaysVoid
    <3>3. /\ Others(d)
          /\ \/ at'[d] = "idle"
             \/ /\ at'[d] = "judge"
                /\ op'[d] = "bury" \/ (op'[d] = "admit" /\ copy'[d] = record)
      BY <3>1, <3>2, InspectsStep DEF WellFormed, CredentialTypes, Inspections
    <3>4. Halted(d)'  BY <3>2, <3>3 DEF Halted, RouteBlocked
    <3>. QED  BY <1>0, <3>2, <3>3, <3>4, KeepsSeal
  <2>3. CASE Refuse(d) \/ DeadLetter(d)
    <3>1. Reports(d) /\ UNCHANGED record
      BY <2>3 DEF Refuse, DeadLetter, KeepsCredential
    <3>2. Void(record)'  BY <1>0, <1>2, <3>1, StaysVoid
    <3>3. Others(d) /\ at'[d] = "start"  BY <3>1, ReportsStep DEF WellFormed
    <3>. QED  BY <1>0, <3>2, <3>3, KeepsSeal DEF Halted
  <2>4. ~Admit(d)
    <3>1. SUFFICES ASSUME Admit(d)  PROVE FALSE
      OBVIOUS
    <3>2. at[d] = "judge" /\ op[d] = "admit" /\ RouteEligible(Judged(d))
      BY <3>1 DEF Admit
    <3>3. RouteBlocked(copy[d])  BY <2>1, <3>2 DEF Halted
    <3>4. copy[d] # NoRecord  BY <3>3 DEF RouteBlocked, NoRecord
    <3>. QED  BY <3>2, <3>3, <3>4 DEF Judged, RouteEligible, RouteBlocked
  <2>5. CASE Retry(d)
    <3>1. Delivers(d) /\ UNCHANGED record  BY <2>5 DEF Retry, KeepsCredential
    <3>2. Void(record)' /\ RouteBlocked(record)  BY <1>0, <1>2, <3>1, StaysVoid
    <3>3. Others(d) /\ at'[d] = "block" /\ copy'[d] = record
      BY <3>1, <3>2, DeliversStep DEF WellFormed, CredentialTypes
    <3>4. Halted(d)'  BY <3>1, <3>2, <3>3 DEF Halted, Void, RouteBlocked
    <3>. QED  BY <1>0, <3>2, <3>3, <3>4, KeepsSeal
  <2>6. ~JudgeDelivery(d)  BY <2>1 DEF JudgeDelivery, Halted
  <2>7. CASE Block(d)
    <3>1. record' = copy[d] /\ Reports(d) /\ Void(copy[d])
      BY <2>1, <2>7 DEF Block, Halted
    <3>2. Void(record)'  BY <1>0, <3>1 DEF Void, RouteBlocked
    <3>3. Others(d) /\ at'[d] = "start"  BY <3>1, ReportsStep DEF WellFormed
    <3>. QED  BY <1>0, <3>2, <3>3, KeepsSeal DEF Halted
  <2>8. ~PostEnds(d) /\ ~Close(d) /\ ~CloseFails(d) /\ ~RecordFailure(d) /\ ~Throws(d)
    BY <2>1 DEF PostEnds, Close, CloseFails, RecordFailure, Throws, Halted
  <2>. QED  BY <2>2, <2>3, <2>4, <2>5, <2>6, <2>7, <2>8 DEF DispatchSteps
<1>. QED  BY <1>1, <1>2

\* A revocation seals, a rotation unseals; renewals fail on the dead lease.
LEMMA AdminSeal ==
  ASSUME WellFormed, SealHolds, NEW a \in Admins, AdminSteps(a)
  PROVE  SealHolds'
<1>. a \in Callers  BY DEF Callers
<1>0. CallTypes /\ record \in Records  BY DEF WellFormed, CredentialTypes
<1>1. CASE Rotates(a)
  BY <1>1 DEF Rotates, SealHolds
<1>2. CASE Revokes(a)
  <2>. DEFINE compromised == op[a] = "compromise"
  <2>1. /\ Ends(a) /\ copy[a].lease \in dead
        /\ dead' = dead /\ sealed' = (sealed \/ Alone(a))
        /\ record' = [copy[a] EXCEPT !.status = IF compromised THEN "COMPROMISED" ELSE "REVOKED",
                                     !.confirmed = compromised \/ @]
    BY <1>2 DEF Revokes, vaultVars, WellFormed, Sound
  <2>2. copy[a] \in Records  BY <1>0 DEF CallTypes
  <2>3. RouteBlocked(record') /\ record'.lease = copy[a].lease
    <3>1. CASE compromised
      BY <2>1, <2>2, <3>1 DEF Records, Credentials, NoRecord, RouteBlocked
    <3>2. CASE ~compromised
      BY <2>1, <2>2, <3>2 DEF Records, Credentials, NoRecord, RouteBlocked
    <3>. QED  BY <3>1, <3>2
  <2>4. Void(record)'  BY <2>1, <2>3 DEF Void, RouteBlocked
  <2>5. Others(a) /\ at'[a] = "idle"  BY <1>0, <2>1, EndsStep
  <2>6. CASE sealed
    BY <2>1, <2>4, <2>5, <2>6, KeepsSeal DEF Halted
  <2>7. CASE ~sealed /\ Alone(a)
    <3>1. \A x \in Callers \ {a} : at'[x] \in {"idle", "start"}
      BY <2>5, <2>7 DEF Alone, Others
    <3>2. \A x \in Callers : Halted(x)'  BY <2>5, <3>1 DEF Halted
    <3>. QED  BY <2>4, <3>2 DEF SealHolds
  <2>. QED  BY <2>1, <2>6, <2>7 DEF SealHolds
<1>3. CASE ~sealed /\ ~Rotates(a) /\ ~Revokes(a)
  <2>. UNCHANGED sealed
    BY <1>3 DEF AdminSteps, InspectHealth, Request, JudgeRequest, RequestFails, Renews,
                VaultRevokes, KeepsCredential
  <2>. QED  BY <1>3 DEF SealHolds
<1>4. CASE sealed /\ ~Rotates(a) /\ ~Revokes(a) /\ ~VaultRevokes(a)
  <2>1. Halted(a) /\ Void(record)  BY <1>4 DEF SealHolds
  <2>2. ~Renews(a)
    BY <2>1 DEF Renews, Halted, WellFormed, CredentialTypes
  <2>3. UNCHANGED <<record, dead, sealed>>
    BY <1>4, <2>2 DEF AdminSteps, InspectHealth, Request, JudgeRequest, RequestFails,
                      KeepsCredential, vaultVars
  <2>4. Void(record)' /\ RouteBlocked(record)  BY <1>4, <2>3, StaysVoid
  <2>5. CASE InspectHealth(a)
    <3>1. Inspects(a, "inspect")  BY <2>5 DEF InspectHealth
    <3>2. /\ Others(a)
          /\ \/ at'[a] = "idle"
             \/ /\ at'[a] = "judge"
                /\ op'[a] = "bury" \/ (op'[a] = "admit" /\ copy'[a] = record)
      BY <1>0, <2>4, <3>1, InspectsStep DEF Inspections
    <3>3. Halted(a)'  BY <2>4, <3>2 DEF Halted, RouteBlocked
    <3>. QED  BY <2>3, <2>4, <3>2, <3>3, KeepsSeal
  <2>6. ASSUME NEW o \in Requests, Request(a, o)  PROVE SealHolds'
    <3>1. Becomes(a, o, "lease", record)  BY <2>4, <2>6 DEF Request
    <3>2. Others(a) /\ at'[a] = "lease" /\ copy'[a] = record
      BY <1>0, <3>1, BecomesStep DEF Ops, Waits
    <3>3. Halted(a)'  BY <2>1, <2>3, <3>2 DEF Halted, Void
    <3>. QED  BY <2>3, <2>4, <3>2, <3>3, KeepsSeal
  <2>7. ~JudgeRequest(a)
    BY <2>1 DEF JudgeRequest, Halted, Requests
  <2>8. CASE RequestFails(a)
    <3>1. Others(a) /\ at'[a] = "idle"  BY <1>0, <2>8, EndsStep DEF RequestFails
    <3>. QED  BY <2>3, <2>4, <3>1, KeepsSeal DEF Halted
  <2>. QED  BY <1>4, <2>2, <2>5, <2>6, <2>7, <2>8 DEF AdminSteps
<1>5. CASE sealed /\ VaultRevokes(a)
  <2>1. /\ Awaits(a, "revoked") /\ dead' = dead \cup {copy[a].lease}
        /\ UNCHANGED <<record, sealed>>
    BY <1>5 DEF VaultRevokes
  <2>2. Void(record)'  BY <1>5, <2>1 DEF SealHolds, Void, RouteBlocked
  <2>3. Others(a) /\ at'[a] = "revoked"  BY <1>0, <2>1, AwaitsStep DEF Waits
  <2>. QED  BY <2>1, <2>2, <2>3, KeepsSeal DEF Halted
<1>. QED  BY <1>1, <1>2, <1>3, <1>4, <1>5

\* A revoked or compromised credential is not used before a rotation (the guard that
\* inspectCredentialHealth and deliver begin with, and Vault's refusal to renew what was
\* revoked, against every record that is written back).
THEOREM RevocationsHold == Spec => []RevocationHolds
<1>1. Init => SealHolds  BY DEF Init, SealHolds
<1>2. ASSUME WellFormed, SealHolds, [Next]_vars  PROVE SealHolds'
  <2>1. CASE Ages
    <3>1. UNCHANGED <<record, dead, sealed, op, at, copy>>
      BY <2>1 DEF Ages, KeepsCredential, vaultVars, callVars
    <3>. QED  BY <1>2, <3>1 DEF SealHolds, Void, Halted, RouteBlocked
  <2>2. CASE UNCHANGED vars
    <3>1. UNCHANGED <<record, dead, sealed, op, at, copy>>
      BY <2>2 DEF vars, vaultVars, callVars
    <3>. QED  BY <1>2, <3>1 DEF SealHolds, Void, Halted, RouteBlocked
  <2>. QED  BY <1>2, <2>1, <2>2, SyncSeal, DispatchSeal, AdminSeal DEF Next
<1>3. SealHolds => RevocationHolds
  BY DEF SealHolds, RevocationHolds, Void, Halted, Callers
<1>. QED  BY <1>1, <1>2, <1>3, FormHolds, PTL DEF Spec

-----------------------------------------------------------------------------
(* The window of the rate limit *)

\* Attempt n of a dispatch that was admitted is still to be posted.
ToPost(d, n) ==
  op[d] = "deliver" /\ (n > attempt[d] \/ (n = attempt[d] /\ at[d] \notin {"close", "failed"}))

PostsToCome == {p \in Dispatches \X (1..MaxAttempts) : ToPost(p[1], p[2])}

\* A dispatch that is to be judged, or delivers, is at its first attempt or a later one.
Counting == \A d \in Dispatches : op[d] \in {"admit", "deliver"} => attempt[d] >= 1

\* What was posted and what may still be posted stay within the overrun.
WindowCovered == log["post"] + Cardinality(PostsToCome) <= Overrun

\* A step after which no more is to be posted than before.
NoMorePosts == PostsToCome' \subseteq PostsToCome /\ log'["post"] <= log["post"]

\* There are MaxAttempts posts to each dispatch, or fewer.
LEMMA PostsCount ==
  ASSUME IsFiniteSet(Dispatches)
  PROVE  /\ IsFiniteSet(Dispatches \X (1..MaxAttempts))
         /\ Cardinality(Dispatches \X (1..MaxAttempts)) = MaxAttempts * Cardinality(Dispatches)
         /\ MaxAttempts * Cardinality(Dispatches) \in Nat
         /\ \A S : S \subseteq Dispatches \X (1..MaxAttempts) =>
              /\ IsFiniteSet(S) /\ Cardinality(S) \in Nat
              /\ Cardinality(S) <= MaxAttempts * Cardinality(Dispatches)
<1>. DEFINE all == Dispatches \X (1..MaxAttempts)
<1>1. MaxAttempts \in Nat  BY ConnectorAssumption
<1>2. IsFiniteSet(1..MaxAttempts) /\ Cardinality(1..MaxAttempts) = MaxAttempts
  BY <1>1, FS_Interval
<1>3. Cardinality(Dispatches) \in Nat  BY FS_CardinalityType
<1>4. IsFiniteSet(all) /\ Cardinality(all) = Cardinality(Dispatches) * MaxAttempts
  BY <1>2, FS_Product
<1>. HIDE DEF all
<1>5. Cardinality(all) = MaxAttempts * Cardinality(Dispatches)
  BY <1>1, <1>3, <1>4
<1>6. Cardinality(all) \in Nat  BY <1>4, FS_CardinalityType
<1>7. ASSUME NEW S, S \subseteq all
      PROVE  IsFiniteSet(S) /\ Cardinality(S) \in Nat /\ Cardinality(S) <= Cardinality(all)
  BY <1>4, <1>7, FS_Subset, FS_CardinalityType
<1>. QED  BY <1>4, <1>5, <1>6, <1>7 DEF all

\* Such a step keeps the window.
LEMMA WindowShrinks ==
  ASSUME IsFiniteSet(Dispatches), LogTypes, LogTypes', NoMorePosts, WindowCovered
  PROVE  WindowCovered'
<1>1. PostsToCome \subseteq Dispatches \X (1..MaxAttempts)  BY DEF PostsToCome
<1>2. IsFiniteSet(PostsToCome) /\ Cardinality(PostsToCome) \in Nat
  BY <1>1, PostsCount
<1>3. PostsToCome' \subseteq PostsToCome  BY DEF NoMorePosts
<1>. HIDE DEF PostsToCome
<1>4. Cardinality(PostsToCome') \in Nat /\ Cardinality(PostsToCome') <= Cardinality(PostsToCome)
  BY <1>2, <1>3, FS_Subset, FS_CardinalityType
<1>5. /\ log["post"] \in Nat /\ log'["post"] \in Nat /\ log'["post"] <= log["post"]
  BY DEF LogTypes, Kinds, NoMorePosts
<1>6. Overrun' = Overrun /\ Overrun \in Int
  BY PostsCount, ConnectorAssumption DEF Overrun
<1>. QED  BY <1>2, <1>4, <1>5, <1>6 DEF WindowCovered

\* A call that is not one of a dispatch's deliveries, or goes on with one.
LEMMA CalmCall ==
  ASSUME Counting, NEW c \in Callers, Others(c), log'["post"] <= log["post"],
         \A x \in Dispatches \ {c} : attempt'[x] = attempt[x],
         c \in Dispatches =>
           /\ op'[c] \in {"admit", "deliver"} => attempt'[c] >= 1
           /\ \A n \in 1..MaxAttempts : ToPost(c, n)' => ToPost(c, n)
  PROVE  Counting' /\ NoMorePosts
<1>1. \A x \in Dispatches \ {c} : op'[x] = op[x] /\ at'[x] = at[x]
  BY DEF Others, Callers
<1>2. Counting'  BY <1>1 DEF Counting
<1>3. ASSUME NEW d \in Dispatches, NEW n \in 1..MaxAttempts, ToPost(d, n)'
      PROVE  ToPost(d, n)
  BY <1>1, <1>3 DEF ToPost
<1>. HIDE DEF ToPost
<1>4. PostsToCome' \subseteq PostsToCome  BY <1>3 DEF PostsToCome
<1>. QED  BY <1>2, <1>4 DEF NoMorePosts

\* Only a post counts as one.
LEMMA OtherLog ==
  ASSUME LogTypes, NEW k \in Kinds \ {"post"}, Logged(k)
  PROVE  log'["post"] = log["post"]
BY DEF Logged, LogTypes, Kinds

\* A sync, and the inspection it is part of, is not a post.
LEMMA SyncWindow ==
  ASSUME WellFormed, Counting, NEW c \in Callers, SyncSteps(c)
  PROVE  Counting' /\ NoMorePosts
<1>0. CallTypes /\ LogTypes /\ record \in Records  BY DEF WellFormed, CredentialTypes
<1>1. UNCHANGED <<attempt, log>>
  BY DEF SyncSteps, StartInspect, VaultReads, VaultReadsExpiring, AutoRenews, SyncFails, tryVars
<1>2. at[c] \notin {"close", "failed"} /\ (op'[c] = op[c] \/ op'[c] = "idle") /\ Others(c)
  <2>1. CASE StartInspect(c)
    <3>1. Inspects(c, op[c]) /\ op[c] \in Inspections /\ at[c] = "start"
      BY <2>1 DEF StartInspect
    <3>2. op'[c] = op[c] \/ op'[c] = "idle"
      BY <1>0, <3>1 DEF Inspects, Becomes, Ends, CallTypes
    <3>. QED  BY <1>0, <3>1, <3>2, InspectsStep
  <2>2. ASSUME at[c] \in {"vault", "autorenew"}, NEW r, Synced(c, r)
        PROVE  at[c] \notin {"close", "failed"} /\ (op'[c] = op[c] \/ op'[c] = "idle") /\ Others(c)
    BY <1>0, <2>2 DEF Synced, Becomes, Ends, CallTypes, Others
  <2>3. CASE VaultReadsExpiring(c)
    BY <1>0, <2>3 DEF VaultReadsExpiring, CallTypes, Others
  <2>. QED  BY <2>1, <2>2, <2>3 DEF SyncSteps, VaultReads, AutoRenews, SyncFails
<1>3. log'["post"] <= log["post"]  BY <1>0, <1>1 DEF LogTypes, Kinds
<1>4. ASSUME NEW n \in 1..MaxAttempts, ToPost(c, n)'  PROVE ToPost(c, n)
  BY <1>1, <1>2, <1>4 DEF ToPost
<1>5. c \in Dispatches => (op'[c] \in {"admit", "deliver"} => attempt'[c] >= 1)
  BY <1>1, <1>2 DEF Counting
<1>. QED  BY <1>1, <1>2, <1>3, <1>4, <1>5, CalmCall

\* Administrators post nothing.
LEMMA AdminWindow ==
  ASSUME WellFormed, Counting, NEW a \in Admins, AdminSteps(a)
  PROVE  Counting' /\ NoMorePosts
<1>0. CallTypes /\ LogTypes /\ record \in Records /\ a \in Callers /\ a \notin Dispatches
  BY ConnectorAssumption DEF WellFormed, CredentialTypes, Callers
<1>1. UNCHANGED <<attempt, log>>
  BY DEF AdminSteps, InspectHealth, Request, JudgeRequest, RequestFails, Renews, VaultRevokes,
         Revokes, Rotates, KeepsDispatches, tryVars
<1>2. Others(a)
  BY <1>0 DEF AdminSteps, InspectHealth, Request, JudgeRequest, RequestFails, Renews, VaultRevokes,
              Revokes, Rotates, Inspects, Becomes, Awaits, Ends, CallTypes, Others
<1>3. log'["post"] <= log["post"]  BY <1>0, <1>1 DEF LogTypes, Kinds
<1>. QED  BY <1>0, <1>1, <1>2, <1>3, CalmCall

\* A dispatch that reports is through with its posts.
LEMMA ReportWindow ==
  ASSUME WellFormed, Counting, NEW d \in Dispatches, Reports(d), log'["post"] <= log["post"]
  PROVE  Counting' /\ NoMorePosts
<1>0. d \in Callers  BY DEF Callers
<1>1. Others(d) /\ op'[d] = "report"  BY ReportsStep DEF WellFormed
<1>2. \A x \in Dispatches \ {d} : attempt'[x] = attempt[x]
  BY DEF Reports, WellFormed, TryTypes
<1>. QED  BY <1>0, <1>1, <1>2, CalmCall DEF ToPost

\* The steps of a dispatch that neither admit nor post.
LEMMA DispatchWindow ==
  ASSUME WellFormed, Counting, NEW d \in Dispatches, DispatchSteps(d), ~Admit(d), ~PostEnds(d)
  PROVE  Counting' /\ NoMorePosts
<1>0. /\ CallTypes /\ TryTypes /\ LogTypes /\ record \in Records /\ Sound(d) /\ d \in Callers
      /\ log["post"] \in Nat
  BY DEF WellFormed, CredentialTypes, Callers, LogTypes, Kinds
<1>1. CASE Dispatch(d)
  <2>1. /\ Inspects(d, "admit") /\ attempt' = [attempt EXCEPT ![d] = 1] /\ UNCHANGED log
    BY <1>1 DEF Dispatch
  <2>2. Others(d)  BY <1>0, <2>1, InspectsStep DEF Inspections
  <2>3. op'[d] \in {"admit", "idle"}
    BY <1>0, <2>1 DEF Inspects, Becomes, Ends, CallTypes
  <2>4. attempt'[d] = 1 /\ \A x \in Dispatches \ {d} : attempt'[x] = attempt[x]
    BY <2>1 DEF WellFormed, TryTypes
  <2>. QED  BY <1>0, <2>1, <2>2, <2>3, <2>4, CalmCall DEF ToPost
<1>2. CASE Refuse(d)
  <2>1. Logged("platform") /\ Reports(d)  BY <1>2 DEF Refuse
  <2>2. log'["post"] = log["post"]  BY <1>0, <2>1, OtherLog DEF Kinds
  <2>. QED  BY <1>0, <2>1, <2>2, ReportWindow
<1>3. CASE Retry(d)
  <2>1. Delivers(d) /\ at[d] = "start" /\ op[d] = "deliver" /\ UNCHANGED attempt
    BY <1>3 DEF Retry, tryVars
  <2>2. Others(d) /\ op'[d] = "deliver"  BY <1>0, <2>1, DeliversStep
  <2>3. log'["post"] <= log["post"]
    <3>1. Logged("block") \/ UNCHANGED log  BY <2>1 DEF Delivers
    <3>. QED  BY <1>0, <3>1, OtherLog DEF Kinds
  <2>. QED  BY <1>0, <2>1, <2>2, <2>3, CalmCall DEF ToPost, Counting
<1>4. CASE JudgeDelivery(d)
  <2>1. at[d] = "judge" /\ op[d] = "deliver"  BY <1>4 DEF JudgeDelivery
  <2>2. log'["post"] <= log["post"]
    <3>1. Logged("block") \/ UNCHANGED log  BY <1>4 DEF JudgeDelivery
    <3>. QED  BY <1>0, <3>1, OtherLog DEF Kinds
  <2>3. CASE Reports(d)
    BY <2>2, <2>3, ReportWindow
  <2>4. CASE (Awaits(d, "post") \/ Awaits(d, "block")) /\ UNCHANGED tryVars
    <3>1. Others(d) /\ op'[d] = op[d] /\ UNCHANGED attempt
      BY <1>0, <2>4, AwaitsStep DEF Waits, tryVars
    <3>. QED  BY <1>0, <2>1, <2>2, <3>1, CalmCall DEF ToPost, Counting
  <2>. QED  BY <1>4, <2>3, <2>4 DEF JudgeDelivery
<1>5. CASE Block(d) \/ DeadLetter(d)
  BY <1>0, <1>5, ReportWindow DEF Block, DeadLetter
<1>6. CASE Close(d)
  <2>1. at[d] = "close" /\ op[d] = "deliver" /\ UNCHANGED log  BY <1>0, <1>6 DEF Close, Sound
  <2>2. CASE Reports(d)
    BY <1>0, <2>1, <2>2, ReportWindow
  <2>3. CASE HasAttempts(d) /\ GoesOn(d, "deliver") /\ attempt' = [attempt EXCEPT ![d] = @ + 1]
    <3>1. Others(d) /\ op'[d] = "deliver" /\ at'[d] = "start"
      BY <1>0, <2>3, GoesOnStep DEF Ops
    <3>2. /\ attempt'[d] = attempt[d] + 1 /\ attempt[d] \in Nat
          /\ \A x \in Dispatches \ {d} : attempt'[x] = attempt[x]
      BY <1>0, <2>3, ConnectorAssumption DEF TryTypes
    <3>3. attempt[d] >= 1  BY <2>1 DEF Counting
    <3>4. \A n \in 1..MaxAttempts : ToPost(d, n)' => ToPost(d, n)
      BY <2>1, <3>1, <3>2, ConnectorAssumption DEF ToPost
    <3>. QED  BY <1>0, <2>1, <3>1, <3>2, <3>3, <3>4, CalmCall
  <2>4. CASE GoesOn(d, "bury") /\ UNCHANGED attempt
    <3>1. Others(d) /\ op'[d] = "bury"  BY <1>0, <2>4, GoesOnStep DEF Ops, Inspections
    <3>. QED  BY <1>0, <2>1, <2>4, <3>1, CalmCall DEF ToPost
  <2>. QED  BY <1>6, <2>2, <2>3, <2>4 DEF Close
<1>7. CASE CloseFails(d) \/ RecordFailure(d)
  <2>1. \E w \in {"failed", "close"} : Awaits(d, w)
    BY <1>7 DEF CloseFails, RecordFailure
  <2>2. /\ UNCHANGED attempt /\ op[d] = "deliver" /\ at[d] \in {"close", "failed"}
        /\ UNCHANGED log \/ Logged("block")
    BY <1>0, <1>7 DEF CloseFails, RecordFailure, Sound
  <2>3. log'["post"] = log["post"]  BY <1>0, <2>2, OtherLog DEF Kinds
  <2>4. Others(d) /\ op'[d] = op[d] /\ at'[d] \in {"close", "failed"}
    BY <1>0, <2>1, AwaitsStep DEF Waits
  <2>5. \A n \in 1..MaxAttempts : ToPost(d, n)' => ToPost(d, n)
    BY <2>2, <2>4 DEF ToPost
  <2>. QED  BY <1>0, <2>2, <2>3, <2>4, <2>5, CalmCall DEF Counting
<1>8. CASE Throws(d)
  <2>1. /\ Ends(d) /\ attempt' = [attempt EXCEPT ![d] = 0] /\ UNCHANGED log
    BY <1>8 DEF Throws
  <2>2. Others(d) /\ op'[d] = "idle"  BY <1>0, <2>1, EndsStep
  <2>3. \A x \in Dispatches \ {d} : attempt'[x] = attempt[x]  BY <1>0, <2>1 DEF TryTypes
  <2>. QED  BY <1>0, <2>1, <2>2, <2>3, CalmCall DEF ToPost
<1>. QED  BY <1>1, <1>2, <1>3, <1>4, <1>5, <1>6, <1>7, <1>8 DEF DispatchSteps

\* A dispatch is admitted only while the window has room for one post; the others may have
\* all of theirs to come.
LEMMA AdmitWindow ==
  ASSUME IsFiniteSet(Dispatches), SharedStore, WellFormed, Counting, NEW d \in Dispatches, Admit(d)
  PROVE  Counting' /\ WindowCovered'
<1>0. /\ CallTypes /\ TryTypes /\ LogTypes /\ record \in Records /\ d \in Callers
  BY DEF WellFormed, CredentialTypes, Callers
<1>1. Delivers(d) /\ op[d] = "admit" /\ BelowRate /\ UNCHANGED attempt
  BY DEF Admit, tryVars
<1>2. Others(d) /\ op'[d] = "deliver"  BY <1>0, <1>1, DeliversStep
<1>3. Counting'  BY <1>1, <1>2 DEF Counting, Others, Callers
<1>4. log'["post"] = log["post"]
  <2>1. Logged("block") \/ UNCHANGED log  BY <1>1 DEF Delivers
  <2>. QED  BY <1>0, <2>1, OtherLog DEF Kinds
<1>5. log["post"] <= RateLimit - 1
  BY <1>0, <1>1, ConnectorAssumption DEF BelowRate, Counted, LogTypes, Kinds
<1>6. PostsToCome' \subseteq Dispatches \X (1..MaxAttempts)  BY DEF PostsToCome
<1>7. /\ Cardinality(PostsToCome') \in Nat
      /\ Cardinality(PostsToCome') <= MaxAttempts * Cardinality(Dispatches)
      /\ MaxAttempts * Cardinality(Dispatches) \in Nat
  BY <1>6, PostsCount
<1>. HIDE DEF PostsToCome
<1>8. log["post"] \in Nat  BY <1>0 DEF LogTypes, Kinds
<1>9. WindowCovered'
  BY <1>4, <1>5, <1>7, <1>8, ConnectorAssumption DEF WindowCovered, Overrun
<1>. QED  BY <1>3, <1>9

\* A post that ends is one of those that were to come.
LEMMA PostWindow ==
  ASSUME IsFiniteSet(Dispatches), WellFormed, Counting, WindowCovered,
         NEW d \in Dispatches, PostEnds(d)
  PROVE  Counting' /\ WindowCovered'
<1>0. /\ CallTypes /\ TryTypes /\ LogTypes /\ Sound(d) /\ d \in Callers
  BY DEF WellFormed, Callers
<1>1. at[d] = "post" /\ op[d] = "deliver" /\ Logged("post") /\ Awaits(d, "close") /\ UNCHANGED attempt
  BY <1>0 DEF PostEnds, Sound
<1>2. Others(d) /\ op'[d] = "deliver" /\ at'[d] = "close"
  BY <1>0, <1>1, AwaitsStep DEF Waits
<1>3. Counting'  BY <1>1, <1>2 DEF Counting, Others, Callers
<1>4. attempt[d] \in 1..MaxAttempts
  BY <1>0, <1>1, ConnectorAssumption DEF Counting, TryTypes
<1>. DEFINE posted == <<d, attempt[d]>>
<1>5. posted \in PostsToCome  BY <1>1, <1>4 DEF PostsToCome, ToPost
<1>6. PostsToCome' \subseteq PostsToCome \ {posted}
  <2>1. ASSUME NEW x \in Dispatches, NEW n \in 1..MaxAttempts, ToPost(x, n)'
        PROVE  ToPost(x, n) /\ <<x, n>> # posted
    <3>1. CASE x = d
      BY <1>1, <1>2, <1>4, <2>1, <3>1 DEF ToPost
    <3>2. CASE x # d
      <4>1. op'[x] = op[x] /\ at'[x] = at[x]  BY <1>2, <3>2 DEF Others, Callers
      <4>. QED  BY <1>1, <2>1, <3>2, <4>1 DEF ToPost
    <3>. QED  BY <3>1, <3>2
  <2>. HIDE DEF ToPost, posted
  <2>. QED  BY <2>1 DEF PostsToCome
<1>7. PostsToCome \subseteq Dispatches \X (1..MaxAttempts)  BY DEF PostsToCome
<1>. HIDE DEF PostsToCome, posted
<1>8. IsFiniteSet(PostsToCome) /\ Cardinality(PostsToCome) \in Nat  BY <1>7, PostsCount
<1>9. /\ IsFiniteSet(PostsToCome \ {posted})
      /\ Cardinality(PostsToCome \ {posted}) = Cardinality(PostsToCome) - 1
  BY <1>5, <1>8, FS_RemoveElement
<1>10. /\ Cardinality(PostsToCome') \in Nat
       /\ Cardinality(PostsToCome') <= Cardinality(PostsToCome) - 1
  BY <1>6, <1>9, FS_Subset, FS_CardinalityType
<1>11. log["post"] \in Nat /\ log'["post"] = log["post"] + 1
  BY <1>0, <1>1 DEF LogTypes, Logged, Kinds
<1>12. Overrun' = Overrun /\ Overrun \in Int
  BY PostsCount, ConnectorAssumption DEF Overrun
<1>13. WindowCovered'
  BY <1>8, <1>10, <1>11, <1>12 DEF WindowCovered
<1>. QED  BY <1>3, <1>13

\* If both services were given one store, which getConnectorPlatformService does not do, a
\* window holds at most the posts that filled it and all posts of the dispatches admitted by
\* then, for any number of dispatches and attempts.
THEOREM WindowsKept ==
  ASSUME IsFiniteSet(Dispatches), SharedStore
  PROVE  Spec => []WindowKept
<1>1. Init => Counting /\ WindowCovered
  <2>. SUFFICES ASSUME Init PROVE Counting /\ WindowCovered  OBVIOUS
  <2>1. Counting  BY DEF Init, Counting, Callers
  <2>2. PostsToCome = {}  BY DEF Init, PostsToCome, ToPost, Callers
  <2>3. Cardinality({}) = 0  BY FS_EmptySet
  <2>4. Cardinality(PostsToCome) = 0  BY <2>2, <2>3, Zenon
  <2>5. log["post"] = 0  BY DEF Init, Kinds
  <2>. HIDE DEF PostsToCome
  <2>6. WindowCovered
    BY <2>4, <2>5, PostsCount, ConnectorAssumption DEF WindowCovered, Overrun
  <2>. QED  BY <2>1, <2>6
<1>2. ASSUME WellFormed, WellFormed', Counting, WindowCovered, [Next]_vars
      PROVE  Counting' /\ WindowCovered'
  <2>0. LogTypes /\ LogTypes'  BY <1>2 DEF WellFormed
  <2>1. ASSUME Counting' /\ NoMorePosts  PROVE Counting' /\ WindowCovered'
    BY <1>2, <2>0, <2>1, WindowShrinks
  <2>2. CASE Ages \/ UNCHANGED vars
    <3>1. UNCHANGED <<op, at, attempt>>
      BY <2>2 DEF Ages, vars, callVars, tryVars
    <3>2. log'["post"] <= log["post"]
      BY <2>0, <2>2 DEF Ages, vars, LogTypes, Kinds
    <3>3. Counting' /\ NoMorePosts
      BY <1>2, <3>1, <3>2 DEF Counting, NoMorePosts, PostsToCome, ToPost
    <3>. QED  BY <2>1, <3>3
  <2>3. ASSUME NEW c \in Callers, SyncSteps(c)  PROVE Counting' /\ WindowCovered'
    BY <1>2, <2>1, <2>3, SyncWindow
  <2>4. ASSUME NEW a \in Admins, AdminSteps(a)  PROVE Counting' /\ WindowCovered'
    BY <1>2, <2>1, <2>4, AdminWindow
  <2>5. ASSUME NEW d \in Dispatches, DispatchSteps(d)  PROVE Counting' /\ WindowCovered'
    <3>1. CASE Admit(d)
      BY <1>2, <3>1, AdmitWindow
    <3>2. CASE PostEnds(d)
      BY <1>2, <3>2, PostWindow
    <3>3. CASE ~Admit(d) /\ ~PostEnds(d)
      BY <1>2, <2>1, <2>5, <3>3, DispatchWindow
    <3>. QED  BY <3>1, <3>2, <3>3
  <2>. QED  BY <1>2, <2>2, <2>3, <2>4, <2>5 DEF Next
<1>3. WellFormed /\ WindowCovered => WindowKept
  <2>. SUFFICES ASSUME WellFormed, WindowCovered  PROVE WindowKept  OBVIOUS
  <2>1. PostsToCome \subseteq Dispatches \X (1..MaxAttempts)  BY DEF PostsToCome
  <2>2. Cardinality(PostsToCome) \in Nat  BY <2>1, PostsCount
  <2>3. log["post"] \in Nat /\ Overrun \in Int
    BY PostsCount, ConnectorAssumption DEF WellFormed, LogTypes, Kinds, Overrun
  <2>. QED  BY <2>2, <2>3 DEF WindowCovered, WindowKept
<1>4. WellFormed /\ WellFormed' /\ Counting /\ WindowCovered /\ [Next]_vars
        => Counting' /\ WindowCovered'
  BY <1>2
<1>. QED  BY <1>1, <1>3, <1>4, FormHolds, PTL DEF Spec
=============================================================================
