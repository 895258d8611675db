--------------------------- MODULE SolutionBonds ---------------------------
(***************************************************************************)
(* The bonds of the LIX market: services/lixStore.ts takes a solution      *)
(* intent from its broadcast over an accepted offer to a reviewed          *)
(* delivery, and services/settlementService.ts keeps the bond accounts it  *)
(* locks, releases and slashes.  Both run to the end without an await, so  *)
(* each call is one step; nothing orders the calls but their own guards.   *)
(* An expert makes at most one offer per intent and stands for it.         *)
(***************************************************************************)
EXTENDS Integers, FiniteSets

CONSTANTS
  Intents, Experts,
  BondRequired,   \* intents of the LIX 1.5 domains
  Collab,         \* experts whose offers are agent_collab
  Quote,          \* quote_amount of each expert
  Bond,           \* LIX_15_BOND_MIN_CNY
  Locks,          \* the bond_lock_ids that can be given out
  ApiAmounts,     \* amounts that clients of the settlement API lock and slash
  None

ASSUME BondAssumption ==
  /\ BondRequired \subseteq Intents /\ Collab \subseteq Experts
  /\ Quote \in [Experts -> Nat] /\ Bond \in Nat \ {0}
  /\ ApiAmounts \subseteq Nat
  /\ None \notin Experts \cup Locks

VARIABLES
  status, offers, accepted, manifest, bondLock, insurance,  \* the stored intents
  available, held, known,                                   \* the bond accounts
  lockStatus, lockOwner, lockAmount,                        \* the bond locks
  refunded,                                                 \* intents with an escrow claim, all paid
  deposited, slashed                                        \* history, per expert

intentVars  == <<status, offers, accepted, manifest, bondLock, insurance>>
accountVars == <<available, held, known, deposited, slashed>>
lockVars    == <<lockStatus, lockOwner, lockAmount>>
vars == <<intentVars, accountVars, lockVars, refunded>>

IntentStatus == {"none", "broadcasting", "offers_received", "offer_accepted", "bond_pending",
                 "compensated", "delivery_submitted", "approved", "rejected"}
InsuranceStatus == {"inactive", "insured", "claim_pending", "compensated"}
LockStatus == {"free", "locked", "released", "slashed"}

Init ==
  /\ status = [i \in Intents |-> "none"] /\ offers = [i \in Intents |-> {}]
  /\ accepted = [i \in Intents |-> None] /\ manifest = [i \in Intents |-> None]
  /\ bondLock = [i \in Intents |-> None] /\ insurance = [i \in Intents |-> "inactive"]
  /\ available = [e \in Experts |-> 0] /\ held = [e \in Experts |-> 0] /\ known = {}
  /\ refunded = {}
  /\ deposited = [e \in Experts |-> 0] /\ slashed = [e \in Experts |-> 0]
  /\ lockStatus = [l \in Locks |-> "free"] /\ lockAmount = [l \in Locks |-> 0]
  /\ lockOwner = [l \in Locks |-> None]

-----------------------------------------------------------------------------
(* settlementService: accounts and locks *)

Less(a, b) == IF a < b THEN a ELSE b
\* Math.max(0, a - b)
Minus(a, b) == IF a < b THEN 0 ELSE a - b

\* lockBond without the test of the balance.
LockBondUnfunded(l, e, amount) ==
  /\ lockStatus[l] = "free"
  /\ available' = [available EXCEPT ![e] = @ - amount]
  /\ held' = [held EXCEPT ![e] = @ + amount]
  /\ lockStatus' = [lockStatus EXCEPT ![l] = "locked"]
  /\ lockOwner' = [lockOwner EXCEPT ![l] = e]
  /\ lockAmount' = [lockAmount EXCEPT ![l] = amount]
  /\ known' = known \cup {e}
  /\ UNCHANGED <<deposited, slashed>>

\* lockBond, when the balance covers the amount.  The account exists from then on.
LockBond(l, e, amount) ==
  /\ lockStatus[l] = "free" /\ available[e] >= amount
  /\ available' = [available EXCEPT ![e] = @ - amount]
  /\ held' = [held EXCEPT ![e] = @ + amount]
  /\ lockStatus' = [lockStatus EXCEPT ![l] = "locked"]
  /\ lockOwner' = [lockOwner EXCEPT ![l] = e]
  /\ lockAmount' = [lockAmount EXCEPT ![l] = amount]
  /\ known' = known \cup {e}
  /\ UNCHANGED <<deposited, slashed>>

\* lockBond followed by releaseBond of the same lock: the account is as before.
LockAndRelease(l, e) ==
  /\ lockStatus[l] = "free" /\ available[e] >= Bond
  /\ lockStatus' = [lockStatus EXCEPT ![l] = "released"]
  /\ lockOwner' = [lockOwner EXCEPT ![l] = e]
  /\ lockAmount' = [lockAmount EXCEPT ![l] = Bond]
  /\ known' = known \cup {e}
  /\ UNCHANGED <<available, held, deposited, slashed>>

\* releaseBond without its status test.
ReleaseBondAgain(l) ==
  LET e == lockOwner[l] IN
  /\ held' = [held EXCEPT ![e] = Minus(@, lockAmount[l])]
  /\ available' = [available EXCEPT ![e] = @ + lockAmount[l]]
  /\ lockStatus' = [lockStatus EXCEPT ![l] = "released"]
  /\ UNCHANGED <<lockOwner, lockAmount, known, deposited, slashed>>

\* releaseBond: only a lock that is still locked is released.
ReleaseBond(l) ==
  IF lockStatus[l] = "locked"
  THEN LET e == lockOwner[l] IN
       /\ held' = [held EXCEPT ![e] = Minus(@, lockAmount[l])]
       /\ available' = [available EXCEPT ![e] = @ + lockAmount[l]]
       /\ lockStatus' = [lockStatus EXCEPT ![l] = "released"]
       /\ UNCHANGED <<lockOwner, lockAmount, known, deposited, slashed>>
  ELSE UNCHANGED <<accountVars, lockVars>>

\* slashBond that does not cap the amount by the lock's.
SlashBondUncapped(l, wanted) ==
  IF lockStatus[l] = "locked"
  THEN LET e == lockOwner[l] IN
       /\ held' = [held EXCEPT ![e] = Minus(@, wanted)]
       /\ slashed' = [slashed EXCEPT ![e] = @ + wanted]
       /\ lockStatus' = [lockStatus EXCEPT ![l] = "slashed"]
       /\ lockAmount' = [lockAmount EXCEPT ![l] = wanted]
       /\ UNCHANGED <<available, lockOwner, known, deposited>>
  ELSE UNCHANGED <<accountVars, lockVars>>

\* slashBond: what is not slashed of the amount stays in locked_balance.
SlashBond(l, wanted) ==
  IF lockStatus[l] = "locked"
  THEN LET e == lockOwner[l]  amount == Less(lockAmount[l], wanted) IN
       /\ held' = [held EXCEPT ![e] = Minus(@, amount)]
       /\ slashed' = [slashed EXCEPT ![e] = @ + amount]
       /\ lockStatus' = [lockStatus EXCEPT ![l] = "slashed"]
       /\ lockAmount' = [lockAmount EXCEPT ![l] = amount]
       /\ UNCHANGED <<available, lockOwner, known, deposited>>
  ELSE UNCHANGED <<accountVars, lockVars>>

-----------------------------------------------------------------------------
(* lixStore: the life of a solution intent *)

\* broadcastSolutionIntent: the candidates it finds get an account holding one bond if
\* they have none; those with capacity whose balance covers a bond make an offer.
BroadcastSolutionIntent(i) ==
  /\ status[i] = "none"
  /\ \E candidates \in SUBSET Experts : \E capable \in SUBSET candidates :
       LET new == candidates \ known
           funds == [e \in Experts |-> IF e \in new THEN Bond ELSE available[e]]
           bids == {e \in capable : funds[e] >= Bond}
       IN /\ known' = known \cup candidates
          /\ available' = funds
          /\ deposited' = [e \in Experts |-> IF e \in new THEN Bond ELSE deposited[e]]
          /\ offers' = [offers EXCEPT ![i] = bids]
          /\ status' = [status EXCEPT ![i] = IF bids = {} THEN "broadcasting"
                                                          ELSE "offers_received"]
  /\ insurance' = [insurance EXCEPT ![i] = IF i \in BondRequired THEN "insured" ELSE "inactive"]
  /\ UNCHANGED <<accepted, manifest, bondLock, held, slashed, lockVars, refunded>>

\* What acceptSolutionOffer makes of the intent once the bond gate is passed: an
\* agent_collab offer is delivered and approved at once.
Accepted(i, e) ==
  /\ accepted' = [accepted EXCEPT ![i] = e]
  /\ status' = [status EXCEPT ![i] = IF e \in Collab THEN "approved" ELSE "offer_accepted"]
  /\ manifest' = [manifest EXCEPT ![i] = IF e \in Collab THEN e ELSE @]
  /\ UNCHANGED offers

\* acceptSolutionOffer without a bond.
AcceptFree(i, e) ==
  /\ e \in offers[i] /\ i \notin BondRequired
  /\ Accepted(i, e)
  /\ UNCHANGED <<bondLock, insurance, accountVars, lockVars, refunded>>

\* acceptSolutionOffer under a bond of LIX_15_BOND_MIN_CNY.
AcceptBonded(i, e, l) ==
  /\ e \in offers[i] /\ i \in BondRequired
  /\ IF e \in Collab THEN LockAndRelease(l, e) ELSE LockBond(l, e, Bond)
  /\ Accepted(i, e)
  /\ bondLock' = [bondLock EXCEPT ![i] = l]
  /\ insurance' = [insurance EXCEPT ![i] = "insured"]
  /\ UNCHANGED refunded

\* acceptSolutionOffer, bond_gate_failed: the offer stays accepted and the intent
\* bond_pending, with the lock of an earlier acceptance if there was one.
AcceptRefused(i, e) ==
  /\ e \in offers[i] /\ i \in BondRequired /\ available[e] < Bond
  /\ accepted' = [accepted EXCEPT ![i] = e]
  /\ status' = [status EXCEPT ![i] = "bond_pending"]
  /\ UNCHANGED <<offers, manifest, bondLock, insurance, accountVars, lockVars, refunded>>

\* submitSolutionDelivery asks for an accepted offer and nothing else.
SubmitSolutionDelivery(i) ==
  /\ accepted[i] # None
  /\ manifest' = [manifest EXCEPT ![i] = accepted[i]]
  /\ status' = [status EXCEPT ![i] = "delivery_submitted"]
  /\ UNCHANGED <<offers, accepted, bondLock, insurance, accountVars, lockVars, refunded>>

\* The approval that forgets the bond.
ApproveKeepingBond(i) ==
  /\ manifest[i] # None
  /\ status' = [status EXCEPT ![i] = "approved"]
  /\ UNCHANGED <<offers, accepted, manifest, bondLock, insurance, accountVars, lockVars, refunded>>

\* reviewSolutionDelivery, approved: the bond goes back.
ApproveDelivery(i) ==
  /\ manifest[i] # None
  /\ status' = [status EXCEPT ![i] = "approved"]
  /\ IF bondLock[i] # None THEN ReleaseBond(bondLock[i]) ELSE UNCHANGED <<accountVars, lockVars>>
  /\ UNCHANGED <<offers, accepted, manifest, bondLock, insurance, refunded>>

\* reviewSolutionDelivery, rejected, without and with a bond to slash.
RejectUnbonded(i) ==
  /\ manifest[i] # None /\ bondLock[i] = None
  /\ status' = [status EXCEPT ![i] = "rejected"]
  /\ UNCHANGED <<offers, accepted, manifest, bondLock, insurance, accountVars, lockVars, refunded>>

\* Math.min(LIX_15_BOND_MIN_CNY, Math.max(1, quote_amount))
Compensation(e) == IF Quote[e] = 0 THEN 1 ELSE Less(Bond, Quote[e])
\* A rejection that calls the intent compensated though its bond was already settled.
RejectAsPaid(i) ==
  /\ manifest[i] # None /\ bondLock[i] # None
  /\ refunded' = refunded \cup {i}
  /\ SlashBond(bondLock[i], Compensation(accepted[i]))
  /\ insurance' = [insurance EXCEPT ![i] = "compensated"]
  /\ status' = [status EXCEPT ![i] = "compensated"]
  /\ UNCHANGED <<offers, accepted, manifest, bondLock>>
\* The refund comes first, then the slash, which may find the bond settled.
RejectBonded(i) ==
  /\ manifest[i] # None /\ bondLock[i] # None
  /\ refunded' = refunded \cup {i}
  /\ SlashBond(bondLock[i], Compensation(accepted[i]))
  /\ insurance' = [insurance EXCEPT ![i] =
       IF lockStatus[bondLock[i]] = "locked" THEN "compensated" ELSE "claim_pending"]
  /\ status' = [status EXCEPT ![i] = "compensated"]
  /\ UNCHANGED <<offers, accepted, manifest, bondLock>>

-----------------------------------------------------------------------------
(* api/lix/settlement: clients lock, slash and refund on their own *)

LockByClient(l, e) ==
  /\ \E amount \in ApiAmounts : LockBond(l, e, amount)
  /\ UNCHANGED <<intentVars, refunded>>
\* A refused lock still opens an empty account.
LockRefused(e) ==
  /\ e \notin known /\ known' = known \cup {e}
  /\ \E amount \in ApiAmounts : available[e] < amount
  /\ UNCHANGED <<intentVars, lockVars, available, held, deposited, slashed, refunded>>
SlashByClient(l) ==
  /\ lockStatus[l] = "locked"
  /\ \E amount \in ApiAmounts : SlashBond(l, amount)
  /\ UNCHANGED <<intentVars, refunded>>
EscrowByClient(i) ==
  /\ refunded' = refunded \cup {i}
  /\ UNCHANGED <<intentVars, accountVars, lockVars>>

Next ==
  \/ \E i \in Intents :
       \/ BroadcastSolutionIntent(i) \/ SubmitSolutionDelivery(i)
       \/ ApproveDelivery(i) \/ RejectUnbonded(i) \/ RejectBonded(i) \/ EscrowByClient(i)
       \/ \E e \in Experts : \/ AcceptFree(i, e) \/ AcceptRefused(i, e)
                             \/ \E l \in Locks : AcceptBonded(i, e, l)
  \/ \E l \in Locks : SlashByClient(l) \/ \E e \in Experts : LockByClient(l, e)
  \/ \E e \in Experts : LockRefused(e)

Spec == Init /\ [][Next]_vars

-----------------------------------------------------------------------------
(* Properties *)

\* Every variable stays within its type; a lock that was given out has its owner.
TypeOK ==
  /\ status \in [Intents -> IntentStatus] /\ offers \in [Intents -> SUBSET Experts]
  /\ accepted \in [Intents -> Experts \cup {None}]
  /\ manifest \in [Intents -> Experts \cup {None}]
  /\ bondLock \in [Intents -> Locks \cup {None}]
  /\ insurance \in [Intents -> InsuranceStatus]
  /\ available \in [Experts -> Nat] /\ held \in [Experts -> Nat] /\ known \subseteq Experts
  /\ refunded \subseteq Intents
  /\ deposited \in [Experts -> Nat] /\ slashed \in [Experts -> Nat]
  /\ lockStatus \in [Locks -> LockStatus] /\ lockAmount \in [Locks -> Nat]
  /\ lockOwner \in [Locks -> Experts \cup {None}]
  /\ \A l \in Locks : lockStatus[l] # "free" => lockOwner[l] \in Experts

\* An intent says it was compensated only if its user was refunded and the bond it refers
\* to was really slashed (reviewSolutionDelivery may find it released by an earlier review,
\* or slashed by a client; a later acceptance may give the intent another one).
CompensationBacked ==
  \A i \in Intents : insurance[i] = "compensated" =>
    i \in refunded /\ bondLock[i] # None /\ lockStatus[bondLock[i]] = "slashed"

\* An intent that is through (approved or compensated) holds its bond no longer.
FinishedFreesBond ==
  \A i \in Intents : status[i] \in {"approved", "compensated"} /\ bondLock[i] # None =>
    lockStatus[bondLock[i]] \in {"released", "slashed"}

\* "Lock provider bond before execution": whoever delivers under a bond has locked one.
ExecutionBonded ==
  \A i \in BondRequired : status[i] = "delivery_submitted" =>
    bondLock[i] # None /\ lockOwner[bondLock[i]] = accepted[i]

\* The bonds of an expert that are still to be settled, coin by coin.
Coins(l, amount) == {l} \X (1..amount)
LockedCoins(e) ==
  UNION {Coins(l, lockAmount[l]) :
           l \in {k \in Locks : lockStatus[k] = "locked" /\ lockOwner[k] = e}}

\* Money neither appears nor vanishes: what an expert's account was opened with is
\* available, held or slashed.
BondConserved ==
  \A e \in Experts : available[e] + held[e] + slashed[e] = deposited[e]

\* locked_balance covers every lock of the account that is still to be settled, so the
\* Math.max(0, ...) of releaseBond and slashBond never hides a shortage.
HeldCoversLocks == \A e \in Experts : held[e] >= Cardinality(LockedCoins(e))
=============================================================================
