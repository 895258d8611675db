------------------------ MODULE SolutionBondsProofs ------------------------
(***************************************************************************)
(* What an intent says of its bond agrees with the bond, for any number of *)
(* intents, experts, locks and amounts.                                    *)
(***************************************************************************)
EXTENDS SolutionBonds, FiniteSetTheorems, TLAPS

\* Only an intent that needs a bond refers to one, and that one was given out; what is
\* delivered had been accepted.
BondsAreRequired ==
  \A i \in Intents :
    /\ bondLock[i] # None => i \in BondRequired /\ lockStatus[bondLock[i]] # "free"
    /\ manifest[i] # None => accepted[i] \in Experts

BondInvariant == TypeOK /\ BondsAreRequired /\ CompensationBacked /\ FinishedFreesBond

Settled(l) == lockStatus[l] \in {"released", "slashed"}

\* Balances never become negative, and neither does a compensation.
LEMMA Amounts ==
  /\ \A a, b \in Nat : Less(a, b) \in Nat /\ Minus(a, b) \in Nat
  /\ \A e \in Experts : Compensation(e) \in Nat
BY BondAssumption DEF Less, Minus, Compensation

\* lockBond touches only the free lock it gives out.
LEMMA LockBondStep ==
  ASSUME TypeOK, NEW l \in Locks, NEW e \in Experts, NEW amount \in Nat,
         LockBond(l, e, amount)
  PROVE  /\ available' \in [Experts -> Nat] /\ held' \in [Experts -> Nat]
         /\ known' \subseteq Experts
         /\ lockStatus' \in [Locks -> LockStatus] /\ lockAmount' \in [Locks -> Nat]
         /\ lockOwner' \in [Locks -> Experts \cup {None}]
         /\ \A k \in Locks : lockStatus'[k] # "free" => lockOwner'[k] \in Experts
         /\ lockStatus[l] = "free"
         /\ \A k \in Locks \ {l} : lockStatus'[k] = lockStatus[k]
BY DEF TypeOK, LockBond, LockStatus

\* A bond that is locked and released within one call ends settled.
LEMMA LockAndReleaseStep ==
  ASSUME TypeOK, NEW l \in Locks, NEW e \in Experts, LockAndRelease(l, e)
  PROVE  /\ known' \subseteq Experts
         /\ lockStatus' \in [Locks -> LockStatus] /\ lockAmount' \in [Locks -> Nat]
         /\ lockOwner' \in [Locks -> Experts \cup {None}]
         /\ \A k \in Locks : lockStatus'[k] # "free" => lockOwner'[k] \in Experts
         /\ lockStatus[l] = "free" /\ lockStatus'[l] = "released"
         /\ \A k \in Locks \ {l} : lockStatus'[k] = lockStatus[k]
BY BondAssumption DEF TypeOK, LockAndRelease, LockStatus

\* releaseBond leaves a settled lock alone and settles one that was locked.
LEMMA ReleaseBondStep ==
  ASSUME TypeOK, NEW l \in Locks, ReleaseBond(l)
  PROVE  /\ available' \in [Experts -> Nat] /\ held' \in [Experts -> Nat]
         /\ known' \subseteq Experts
         /\ deposited' \in [Experts -> Nat] /\ slashed' \in [Experts -> Nat]
         /\ lockStatus' \in [Locks -> LockStatus] /\ lockAmount' \in [Locks -> Nat]
         /\ lockOwner' \in [Locks -> Experts \cup {None}]
         /\ \A k \in Locks : lockStatus'[k] # "free" => lockOwner'[k] \in Experts
         /\ \A k \in Locks : Settled(k) => lockStatus'[k] = lockStatus[k]
         /\ \A k \in Locks : lockStatus[k] # "free" => lockStatus'[k] # "free"
         /\ lockStatus[l] # "free" => Settled(l)'
<1>1. CASE lockStatus[l] = "locked"
  <2>1. lockOwner[l] \in Experts /\ lockAmount[l] \in Nat
    BY <1>1 DEF TypeOK
  <2>2. /\ held' = [held EXCEPT ![lockOwner[l]] = Minus(@, lockAmount[l])]
        /\ available' = [available EXCEPT ![lockOwner[l]] = @ + lockAmount[l]]
        /\ lockStatus' = [lockStatus EXCEPT ![l] = "released"]
        /\ UNCHANGED <<lockOwner, lockAmount, known, deposited, slashed>>
    BY <1>1 DEF ReleaseBond
  <2>3. held' \in [Experts -> Nat] /\ available' \in [Experts -> Nat]
    BY <2>1, <2>2 DEF TypeOK, Minus
  <2>4. /\ lockStatus'[l] = "released"
        /\ \A k \in Locks \ {l} : lockStatus'[k] = lockStatus[k]
        /\ lockStatus' \in [Locks -> LockStatus]
    BY <2>2 DEF TypeOK, LockStatus
  <2>5. \A k \in Locks : lockStatus'[k] # "free" => lockOwner'[k] \in Experts
    BY <2>1, <2>2, <2>4 DEF TypeOK
  <2>6. \A k \in Locks : Settled(k) => lockStatus'[k] = lockStatus[k]
    BY <1>1, <2>4 DEF Settled
  <2>7. /\ Settled(l)'
        /\ \A k \in Locks : lockStatus[k] # "free" => lockStatus'[k] # "free"
    BY <2>4 DEF Settled
  <2>8. /\ known' \subseteq Experts /\ lockAmount' \in [Locks -> Nat]
        /\ deposited' \in [Experts -> Nat] /\ slashed' \in [Experts -> Nat]
        /\ lockOwner' \in [Locks -> Experts \cup {None}]
    BY <2>1, <2>2 DEF TypeOK
  <2>. QED
    BY <1>1, <2>3, <2>4, <2>5, <2>6, <2>7, <2>8
<1>2. CASE lockStatus[l] # "locked"
  BY <1>2 DEF TypeOK, ReleaseBond, LockStatus, Settled, accountVars, lockVars
<1>. QED
  BY <1>1, <1>2

\* slashBond likewise; only a lock that was locked becomes slashed by it.
LEMMA SlashBondStep ==
  ASSUME TypeOK, NEW l \in Locks, NEW wanted \in Nat, SlashBond(l, wanted)
  PROVE  /\ available' \in [Experts -> Nat] /\ held' \in [Experts -> Nat]
         /\ known' \subseteq Experts
         /\ deposited' \in [Experts -> Nat] /\ slashed' \in [Experts -> Nat]
         /\ lockStatus' \in [Locks -> LockStatus] /\ lockAmount' \in [Locks -> Nat]
         /\ lockOwner' \in [Locks -> Experts \cup {None}]
         /\ \A k \in Locks : lockStatus'[k] # "free" => lockOwner'[k] \in Experts
         /\ \A k \in Locks : Settled(k) => lockStatus'[k] = lockStatus[k]
         /\ \A k \in Locks : lockStatus[k] # "free" => lockStatus'[k] # "free"
         /\ lockStatus[l] # "free" => Settled(l)'
         /\ lockStatus[l] = "locked" => lockStatus'[l] = "slashed"
<1>1. CASE lockStatus[l] = "locked"
  <2>. DEFINE amount == Less(lockAmount[l], wanted)
  <2>1. lockOwner[l] \in Experts /\ amount \in Nat
    BY <1>1, Amounts DEF TypeOK
  <2>2. /\ held' = [held EXCEPT ![lockOwner[l]] = Minus(@, amount)]
        /\ slashed' = [slashed EXCEPT ![lockOwner[l]] = @ + amount]
        /\ lockStatus' = [lockStatus EXCEPT ![l] = "slashed"]
        /\ lockAmount' = [lockAmount EXCEPT ![l] = amount]
        /\ UNCHANGED <<available, lockOwner, known, deposited>>
    BY <1>1 DEF SlashBond
  <2>. HIDE DEF amount
  <2>3. held' \in [Experts -> Nat] /\ slashed' \in [Experts -> Nat]
    BY <2>1, <2>2 DEF TypeOK, Minus
  <2>4. /\ lockStatus'[l] = "slashed"
        /\ \A k \in Locks \ {l} : lockStatus'[k] = lockStatus[k]
        /\ lockStatus' \in [Locks -> LockStatus]
    BY <2>2 DEF TypeOK, LockStatus
  <2>5. \A k \in Locks : lockStatus'[k] # "free" => lockOwner'[k] \in Experts
    BY <2>1, <2>2, <2>4 DEF TypeOK
  <2>6. \A k \in Locks : Settled(k) => lockStatus'[k] = lockStatus[k]
    BY <1>1, <2>4 DEF Settled
  <2>7. /\ Settled(l)'
        /\ \A k \in Locks : lockStatus[k] # "free" => lockStatus'[k] # "free"
    BY <2>4 DEF Settled
  <2>8. /\ known' \subseteq Experts /\ lockAmount' \in [Locks -> Nat]
        /\ deposited' \in [Experts -> Nat] /\ available' \in [Experts -> Nat]
        /\ lockOwner' \in [Locks -> Experts \cup {None}]
    BY <2>1, <2>2 DEF TypeOK
  <2>. QED
    BY <1>1, <2>3, <2>4, <2>5, <2>6, <2>7, <2>8
<1>2. CASE lockStatus[l] # "locked"
  BY <1>2 DEF TypeOK, SlashBond, LockStatus, Settled, accountVars, lockVars
<1>. QED
  BY <1>1, <1>2
-----------------------------------------------------------------------------
(* Each call keeps the invariant *)

\* Whatever moves money but no intent: settled locks stay as they are, so what intents
\* say of theirs stays true.
LEMMA SettledKeepsIntents ==
  ASSUME BondInvariant, UNCHANGED intentVars, refunded \subseteq refunded',
         \A k \in Locks : Settled(k) => lockStatus'[k] = lockStatus[k],
         \A k \in Locks : lockStatus[k] # "free" => lockStatus'[k] # "free"
  PROVE  BondsAreRequired' /\ CompensationBacked' /\ FinishedFreesBond'
BY DEF BondInvariant, BondsAreRequired, TypeOK, CompensationBacked, FinishedFreesBond, Settled, intentVars

\* A new intent has no bond yet.
LEMMA BroadcastKeeps ==
  ASSUME BondInvariant, NEW i \in Intents, BroadcastSolutionIntent(i)
  PROVE  BondInvariant'
<1>1. PICK candidates \in SUBSET Experts : \E capable \in SUBSET candidates :
        LET new == candidates \ known
            funds == [e \in Experts |-> IF e \in new THEN Bond ELSE available[e]]
            bids == {e \in capable : funds[e] >= Bond}
        IN /\ known' = known \cup candidates
           /\ available' = funds
           /\ deposited' = [e \in Experts |-> IF e \in new THEN Bond ELSE deposited[e]]
           /\ offers' = [offers EXCEPT ![i] = bids]
           /\ status' = [status EXCEPT ![i] = IF bids = {} THEN "broadcasting"
                                                           ELSE "offers_received"]
  BY DEF BroadcastSolutionIntent
<1>2. /\ UNCHANGED <<accepted, manifest, bondLock, held, slashed, lockVars, refunded>>
      /\ insurance' = [insurance EXCEPT ![i] = IF i \in BondRequired THEN "insured"
                                                                    ELSE "inactive"]
  BY DEF BroadcastSolutionIntent
<1>3. /\ available' \in [Experts -> Nat] /\ deposited' \in [Experts -> Nat]
      /\ known' \subseteq Experts
  BY <1>1, BondAssumption DEF BondInvariant, TypeOK
<1>4. offers' \in [Intents -> SUBSET Experts] /\ status' \in [Intents -> IntentStatus]
  BY <1>1 DEF BondInvariant, TypeOK, IntentStatus
<1>5. insurance' \in [Intents -> InsuranceStatus]
  BY <1>2 DEF BondInvariant, TypeOK, InsuranceStatus
<1>6. TypeOK'
  BY <1>2, <1>3, <1>4, <1>5 DEF BondInvariant, TypeOK, lockVars
<1>7. CompensationBacked'
  BY <1>2 DEF BondInvariant, TypeOK, CompensationBacked, lockVars
<1>8. FinishedFreesBond'
  BY <1>1, <1>2 DEF BondInvariant, TypeOK, FinishedFreesBond, lockVars
<1>9. BondsAreRequired'
  BY <1>2 DEF BondInvariant, BondsAreRequired, lockVars
<1>. QED
  BY <1>6, <1>7, <1>8, <1>9 DEF BondInvariant

\* An acceptance without a bond, or past a gate that stayed shut, leaves every lock.
LEMMA AcceptUnlockedKeeps ==
  ASSUME BondInvariant, NEW i \in Intents, NEW e \in Experts,
         AcceptFree(i, e) \/ AcceptRefused(i, e)
  PROVE  BondInvariant'
BY DEF BondInvariant, BondsAreRequired, TypeOK, AcceptFree, AcceptRefused, Accepted, CompensationBacked,
       FinishedFreesBond, IntentStatus, accountVars, lockVars

\* An acceptance under a bond takes a free lock, which nobody refers to as settled.
LEMMA AcceptBondedKeeps ==
  ASSUME BondInvariant, NEW i \in Intents, NEW e \in Experts, NEW l \in Locks,
         AcceptBonded(i, e, l)
  PROVE  BondInvariant'
<1>1. /\ bondLock' = [bondLock EXCEPT ![i] = l] /\ i \in BondRequired
      /\ insurance' = [insurance EXCEPT ![i] = "insured"]
      /\ accepted' = [accepted EXCEPT ![i] = e]
      /\ status' = [status EXCEPT ![i] = IF e \in Collab THEN "approved" ELSE "offer_accepted"]
      /\ manifest' = [manifest EXCEPT ![i] = IF e \in Collab THEN e ELSE @]
      /\ offers' = offers /\ refunded' = refunded
  BY DEF AcceptBonded, Accepted
<1>2. /\ lockStatus[l] = "free" /\ (e \in Collab => lockStatus'[l] = "released")
      /\ \A k \in Locks \ {l} : lockStatus'[k] = lockStatus[k]
      /\ available' \in [Experts -> Nat] /\ held' \in [Experts -> Nat] /\ known' \subseteq Experts
      /\ lockStatus' \in [Locks -> LockStatus] /\ lockAmount' \in [Locks -> Nat]
      /\ lockOwner' \in [Locks -> Experts \cup {None}]
      /\ \A k \in Locks : lockStatus'[k] # "free" => lockOwner'[k] \in Experts
      /\ UNCHANGED <<deposited, slashed>>
  <2>1. CASE e \in Collab
    <3>1. LockAndRelease(l, e)
      BY <2>1 DEF AcceptBonded
    <3>2. UNCHANGED <<available, held, deposited, slashed>>
      BY <3>1 DEF LockAndRelease
    <3>. QED
      BY <3>1, <3>2, LockAndReleaseStep DEF BondInvariant, TypeOK
  <2>2. CASE e \notin Collab
    <3>1. LockBond(l, e, Bond) /\ Bond \in Nat
      BY <2>2, BondAssumption DEF AcceptBonded
    <3>2. UNCHANGED <<deposited, slashed>>
      BY <3>1 DEF LockBond
    <3>. QED
      BY <2>2, <3>1, <3>2, LockBondStep DEF BondInvariant
  <2>. QED
    BY <2>1, <2>2
<1>3. TypeOK'
  BY <1>1, <1>2 DEF BondInvariant, TypeOK, IntentStatus, InsuranceStatus
<1>4. BondsAreRequired'
  <2>1. lockStatus'[l] # "free"
    BY <1>2 DEF AcceptBonded, LockBond, BondInvariant, TypeOK
  <2>. QED
    BY <1>1, <1>2, <2>1 DEF BondInvariant, TypeOK, BondsAreRequired
<1>5. CompensationBacked'
  BY <1>1, <1>2 DEF BondInvariant, TypeOK, CompensationBacked
<1>6. FinishedFreesBond'
  BY <1>1, <1>2 DEF BondInvariant, TypeOK, FinishedFreesBond
<1>. QED
  BY <1>3, <1>4, <1>5, <1>6 DEF BondInvariant

\* A delivery, and a rejection with no bond to slash, leave every lock.
LEMMA UnbondedStepsKeep ==
  ASSUME BondInvariant, NEW i \in Intents, SubmitSolutionDelivery(i) \/ RejectUnbonded(i)
  PROVE  BondInvariant'
BY DEF BondInvariant, BondsAreRequired, TypeOK, SubmitSolutionDelivery, RejectUnbonded,
       CompensationBacked, FinishedFreesBond, IntentStatus, accountVars, lockVars

\* An approval settles the bond the intent refers to, or found it settled.
LEMMA ApproveKeeps ==
  ASSUME BondInvariant, NEW i \in Intents, ApproveDelivery(i)
  PROVE  BondInvariant'
<1>1. /\ status' = [status EXCEPT ![i] = "approved"]
      /\ UNCHANGED <<offers, accepted, manifest, bondLock, insurance, refunded>>
  BY DEF ApproveDelivery
<1>2. CASE bondLock[i] # None
  <2>1. bondLock[i] \in Locks /\ ReleaseBond(bondLock[i]) /\ TypeOK
    BY <1>2 DEF ApproveDelivery, BondInvariant, TypeOK
  <2>2. /\ TypeOK'
        /\ \A k \in Locks : Settled(k) => lockStatus'[k] = lockStatus[k]
        /\ \A k \in Locks : lockStatus[k] # "free" => lockStatus'[k] # "free"
        /\ lockStatus'[bondLock[i]] \in {"released", "slashed"}
    <3>1. lockStatus[bondLock[i]] # "free"
      BY <1>2 DEF BondInvariant, BondsAreRequired
    <3>2. /\ \A k \in Locks : Settled(k) => lockStatus'[k] = lockStatus[k]
          /\ \A k \in Locks : lockStatus[k] # "free" => lockStatus'[k] # "free"
          /\ lockStatus'[bondLock[i]] \in {"released", "slashed"}
      BY <2>1, <3>1, ReleaseBondStep DEF Settled
    <3>3. TypeOK'
      BY <1>1, <2>1, ReleaseBondStep DEF TypeOK, IntentStatus
    <3>. QED
      BY <3>2, <3>3
  <2>3. BondsAreRequired' /\ CompensationBacked' /\ FinishedFreesBond'
    BY <1>1, <2>1, <2>2 DEF BondInvariant, TypeOK, BondsAreRequired, CompensationBacked,
         FinishedFreesBond, Settled
  <2>. QED
    BY <2>2, <2>3 DEF BondInvariant
<1>3. CASE bondLock[i] = None
  BY <1>1, <1>3 DEF ApproveDelivery, BondInvariant, TypeOK, BondsAreRequired,
       CompensationBacked, FinishedFreesBond, IntentStatus, accountVars, lockVars
<1>. QED
  BY <1>2, <1>3

\* A rejection slashes the bond if it is still locked, and only then says so.
LEMMA RejectKeeps ==
  ASSUME BondInvariant, NEW i \in Intents, RejectBonded(i)
  PROVE  BondInvariant'
<1>1. /\ status' = [status EXCEPT ![i] = "compensated"]
      /\ UNCHANGED <<offers, accepted, manifest, bondLock>>
      /\ refunded' = refunded \cup {i}
      /\ insurance' = [insurance EXCEPT ![i] =
           IF lockStatus[bondLock[i]] = "locked" THEN "compensated" ELSE "claim_pending"]
  BY DEF RejectBonded
<1>2. bondLock[i] \in Locks /\ lockStatus[bondLock[i]] # "free" /\ TypeOK
  BY DEF RejectBonded, BondInvariant, BondsAreRequired, TypeOK
<1>3. Compensation(accepted[i]) \in Nat
  <2>1. accepted[i] \in Experts
    BY DEF RejectBonded, BondInvariant, BondsAreRequired
  <2>. QED
    BY <2>1, Amounts
<1>4. SlashBond(bondLock[i], Compensation(accepted[i]))
  BY DEF RejectBonded
<1>5. TypeOK'
  <2>1. insurance' \in [Intents -> InsuranceStatus] /\ status' \in [Intents -> IntentStatus]
    BY <1>1, <1>2 DEF TypeOK, InsuranceStatus, IntentStatus
  <2>. QED
    BY <1>1, <1>2, <1>3, <1>4, <2>1, SlashBondStep DEF TypeOK
<1>6. /\ \A k \in Locks : Settled(k) => lockStatus'[k] = lockStatus[k]
      /\ \A k \in Locks : lockStatus[k] # "free" => lockStatus'[k] # "free"
      /\ lockStatus'[bondLock[i]] \in {"released", "slashed"}
      /\ lockStatus[bondLock[i]] = "locked" => lockStatus'[bondLock[i]] = "slashed"
  BY <1>2, <1>3, <1>4, SlashBondStep DEF Settled
<1>7. BondsAreRequired'
  BY <1>1, <1>6 DEF BondInvariant, TypeOK, BondsAreRequired
<1>8. CompensationBacked'
  <2>. SUFFICES ASSUME NEW j \in Intents, insurance'[j] = "compensated"
                PROVE  j \in refunded' /\ bondLock'[j] # None /\ lockStatus'[bondLock'[j]] = "slashed"
    BY DEF CompensationBacked
  <2>1. CASE j = i
    BY <1>1, <1>2, <1>6, <2>1 DEF RejectBonded, TypeOK
  <2>2. CASE j # i
    <3>1. insurance[j] = "compensated"
      BY <1>1, <1>2, <2>2 DEF TypeOK
    <3>2. /\ bondLock[j] # None /\ lockStatus[bondLock[j]] = "slashed" /\ bondLock[j] \in Locks
          /\ j \in refunded
      BY <1>2, <3>1 DEF BondInvariant, CompensationBacked, TypeOK
    <3>. QED
      BY <1>1, <1>6, <3>2 DEF Settled
  <2>. QED
    BY <2>1, <2>2
<1>9. FinishedFreesBond'
  BY <1>1, <1>2, <1>6 DEF BondInvariant, TypeOK, FinishedFreesBond, Settled
<1>. QED
  BY <1>5, <1>7, <1>8, <1>9 DEF BondInvariant

\* A client locks what is free.
LEMMA ClientLockKeeps ==
  ASSUME BondInvariant, NEW l \in Locks, NEW e \in Experts, LockByClient(l, e)
  PROVE  BondInvariant'
<1>1. TypeOK /\ UNCHANGED <<intentVars, refunded>>
  BY DEF BondInvariant, LockByClient
<1>2. PICK amount \in ApiAmounts : LockBond(l, e, amount)
  BY DEF LockByClient
<1>3. amount \in Nat
  BY BondAssumption
<1>4. lockStatus'[l] # "free" /\ UNCHANGED <<deposited, slashed>>
  BY <1>1, <1>2 DEF LockBond, TypeOK
<1>5. TypeOK'
  BY <1>1, <1>2, <1>3, <1>4, LockBondStep DEF TypeOK, intentVars
<1>6. /\ \A k \in Locks : Settled(k) => lockStatus'[k] = lockStatus[k]
      /\ \A k \in Locks : lockStatus[k] # "free" => lockStatus'[k] # "free"
  BY <1>1, <1>2, <1>3, <1>4, LockBondStep DEF Settled
<1>. QED
  BY <1>1, <1>5, <1>6, SettledKeepsIntents DEF BondInvariant

\* A client whose lock is refused leaves an empty account at most.
LEMMA ClientRefusedKeeps ==
  ASSUME BondInvariant, NEW e \in Experts, LockRefused(e)
  PROVE  BondInvariant'
<1>1. TypeOK' /\ UNCHANGED <<lockStatus, intentVars, refunded>>
  BY DEF BondInvariant, LockRefused, TypeOK, intentVars, lockVars
<1>. QED
  BY <1>1, SettledKeepsIntents DEF BondInvariant

\* A client slashes what is locked.
LEMMA ClientSlashKeeps ==
  ASSUME BondInvariant, NEW l \in Locks, SlashByClient(l)
  PROVE  BondInvariant'
<1>1. TypeOK /\ UNCHANGED <<intentVars, refunded>>
  BY DEF BondInvariant, SlashByClient
<1>2. PICK amount \in ApiAmounts : SlashBond(l, amount)
  BY DEF SlashByClient
<1>3. amount \in Nat
  BY BondAssumption
<1>4. TypeOK'
  BY <1>1, <1>2, <1>3, SlashBondStep DEF TypeOK, intentVars
<1>5. /\ \A k \in Locks : Settled(k) => lockStatus'[k] = lockStatus[k]
      /\ \A k \in Locks : lockStatus[k] # "free" => lockStatus'[k] # "free"
  BY <1>1, <1>2, <1>3, SlashBondStep DEF Settled
<1>. QED
  BY <1>1, <1>4, <1>5, SettledKeepsIntents DEF BondInvariant

\* A client refunds on its own.
LEMMA ClientEscrowKeeps ==
  ASSUME BondInvariant, NEW i \in Intents, EscrowByClient(i)
  PROVE  BondInvariant'
<1>1. TypeOK' /\ UNCHANGED <<lockStatus, intentVars>> /\ refunded \subseteq refunded'
  BY DEF BondInvariant, EscrowByClient, TypeOK, intentVars, accountVars, lockVars
<1>. QED
  BY <1>1, SettledKeepsIntents DEF BondInvariant

-----------------------------------------------------------------------------
(* Theorems *)

\* What intents say of their bonds holds in every reachable state, together with the types.
THEOREM BondsHold == Spec => []BondInvariant
<1>1. Init => BondInvariant
  BY BondAssumption DEF Init, BondInvariant, BondsAreRequired, TypeOK, CompensationBacked,
       FinishedFreesBond, IntentStatus, InsuranceStatus, LockStatus
<1>2. BondInvariant /\ [Next]_vars => BondInvariant'
  <2>. SUFFICES ASSUME BondInvariant, [Next]_vars  PROVE BondInvariant'
    OBVIOUS
  <2>1. CASE UNCHANGED vars
    BY <2>1 DEF vars, intentVars, accountVars, lockVars, BondInvariant, BondsAreRequired,
         TypeOK, CompensationBacked, FinishedFreesBond
  <2>2. CASE \E i \in Intents :
               \/ BroadcastSolutionIntent(i) \/ SubmitSolutionDelivery(i)
               \/ ApproveDelivery(i) \/ RejectUnbonded(i) \/ RejectBonded(i)
               \/ EscrowByClient(i)
    BY <2>2, BroadcastKeeps, UnbondedStepsKeep, ApproveKeeps, RejectKeeps, ClientEscrowKeeps
  <2>3. CASE \E i \in Intents, e \in Experts :
               AcceptFree(i, e) \/ AcceptRefused(i, e) \/ \E l \in Locks : AcceptBonded(i, e, l)
    BY <2>3, AcceptUnlockedKeeps, AcceptBondedKeeps
  <2>4. CASE \E l \in Locks, e \in Experts : LockByClient(l, e)
    BY <2>4, ClientLockKeeps
  <2>5. CASE \E e \in Experts : LockRefused(e)
    BY <2>5, ClientRefusedKeeps
  <2>6. CASE \E l \in Locks : SlashByClient(l)
    BY <2>6, ClientSlashKeeps
  <2>. QED
    BY <2>1, <2>2, <2>3, <2>4, <2>5, <2>6 DEF Next
<1>. QED
  BY <1>1, <1>2, PTL DEF Spec

\* An intent says "compensated" only after a refund and of a bond that was slashed.
THEOREM CompensationsBacked == Spec => []CompensationBacked
BY BondsHold, PTL DEF BondInvariant

\* An intent that is approved or compensated holds no bond back.
THEOREM FinishedIntentsFree == Spec => []FinishedFreesBond
BY BondsHold, PTL DEF BondInvariant

\* All variables keep their types, and a lock that was given out keeps its owner.
THEOREM TypeCorrect == Spec => []TypeOK
BY BondsHold, PTL DEF BondInvariant

-----------------------------------------------------------------------------
(* The accounts *)

Locked(l) == lockStatus[l] = "locked"

\* An account covers its locks coin by coin, adds up to what it was opened with, and has
\* nothing in it before it is known.
AccountHolds(e) ==
  /\ IsFiniteSet(LockedCoins(e)) /\ Cardinality(LockedCoins(e)) <= held[e]
  /\ available[e] + held[e] + slashed[e] = deposited[e]
  /\ e \notin known => deposited[e] = 0

AccountsHold ==
  /\ \A e \in Experts : AccountHolds(e)
  /\ \A l \in Locks : lockStatus[l] # "free" => lockOwner[l] \in known

\* A lock has as many coins as its amount says.
LEMMA CoinsCount ==
  ASSUME NEW l, NEW amount \in Nat
  PROVE  IsFiniteSet(Coins(l, amount)) /\ Cardinality(Coins(l, amount)) = amount
<1>. DEFINE f == [k \in 1..amount |-> <<l, k>>]
<1>1. IsFiniteSet(1..amount) /\ Cardinality(1..amount) = amount
  BY FS_Interval
<1>2. f \in Bijection(1..amount, Coins(l, amount))
  <2>1. f \in [1..amount -> Coins(l, amount)]  BY DEF Coins
  <2>2. \A j, k \in 1..amount : f[j] = f[k] => j = k  OBVIOUS
  <2>3. \A c \in Coins(l, amount) : \E k \in 1..amount : f[k] = c  BY DEF Coins
  <2>. QED  BY <2>1, <2>2, <2>3 DEF Bijection, Injection, Surjection, IsInjective
<1>3. ExistsBijection(1..amount, Coins(l, amount))
  BY <1>2 DEF ExistsBijection
<1>. QED  BY <1>1, <1>3, FS_Bijection

\* A coin is locked with its lock.
LEMMA CoinOfLock ==
  ASSUME NEW e, NEW c
  PROVE  c \in LockedCoins(e) <=>
           \E l \in Locks : Locked(l) /\ lockOwner[l] = e /\ c \in Coins(l, lockAmount[l])
BY DEF LockedCoins, Locked

\* A lock that is settled takes its coins with it, and no others.
LEMMA CoinsLeave ==
  ASSUME TypeOK, NEW l \in Locks, Locked(l), ~Locked(l)',
         \A k \in Locks \ {l} : /\ lockStatus'[k] = lockStatus[k] /\ lockOwner'[k] = lockOwner[k]
                                /\ lockAmount'[k] = lockAmount[k]
  PROVE  \A e \in Experts :
           LockedCoins(e)' = IF e = lockOwner[l] THEN LockedCoins(e) \ Coins(l, lockAmount[l])
                                                 ELSE LockedCoins(e)
<1>. SUFFICES ASSUME NEW e \in Experts, NEW c
              PROVE  c \in LockedCoins(e)' <=>
                       c \in LockedCoins(e) /\ ~(e = lockOwner[l] /\ c \in Coins(l, lockAmount[l]))
  OBVIOUS
<1>1. c \in LockedCoins(e) <=>
        \E k \in Locks : Locked(k) /\ lockOwner[k] = e /\ c \in Coins(k, lockAmount[k])
  BY CoinOfLock
<1>2. c \in LockedCoins(e)' <=>
        \E k \in Locks : Locked(k)' /\ lockOwner'[k] = e /\ c \in Coins(k, lockAmount'[k])
  BY DEF LockedCoins, Locked
<1>3. \A k \in Locks : Locked(k)' <=> Locked(k) /\ k # l
  BY DEF Locked
<1>4. \A k \in Locks : c \in Coins(k, lockAmount[k]) => c[1] = k
  BY DEF Coins
<1>. QED  BY <1>1, <1>2, <1>3, <1>4

\* A new lock adds its coins.
LEMMA CoinsCome ==
  ASSUME TypeOK, NEW l \in Locks, ~Locked(l), Locked(l)',
         \A k \in Locks \ {l} : /\ lockStatus'[k] = lockStatus[k] /\ lockOwner'[k] = lockOwner[k]
                                /\ lockAmount'[k] = lockAmount[k]
  PROVE  /\ \A e \in Experts :
              LockedCoins(e)' = IF e = lockOwner'[l] THEN LockedCoins(e) \cup Coins(l, lockAmount'[l])
                                                     ELSE LockedCoins(e)
         /\ \A e \in Experts : LockedCoins(e) \cap Coins(l, lockAmount'[l]) = {}
<1>1. \A e \in Experts : \A c : c \in LockedCoins(e) <=>
        \E k \in Locks : Locked(k) /\ lockOwner[k] = e /\ c \in Coins(k, lockAmount[k])
  BY CoinOfLock
<1>2. \A e \in Experts : \A c : c \in LockedCoins(e)' <=>
        \E k \in Locks : Locked(k)' /\ lockOwner'[k] = e /\ c \in Coins(k, lockAmount'[k])
  BY DEF LockedCoins, Locked
<1>3. \A k \in Locks : Locked(k)' <=> Locked(k) \/ k = l
  BY DEF Locked
<1>4. \A k \in Locks : \A c :
        c \in Coins(k, lockAmount[k]) \/ c \in Coins(k, lockAmount'[k]) => c[1] = k
  BY DEF Coins
<1>5. \A e \in Experts : LockedCoins(e) \cap Coins(l, lockAmount'[l]) = {}
  BY <1>1, <1>4
<1>6. ASSUME NEW e \in Experts, NEW c
      PROVE  c \in LockedCoins(e)' <=>
               c \in LockedCoins(e) \/ (e = lockOwner'[l] /\ c \in Coins(l, lockAmount'[l]))
  BY <1>1, <1>2, <1>3, <1>4
<1>. QED  BY <1>5, <1>6

\* Without a change of the locked locks no coin moves.
LEMMA CoinsStay ==
  ASSUME NEW e,
         \A k \in Locks : Locked(k)' <=> Locked(k),
         \A k \in Locks : Locked(k) => lockOwner'[k] = lockOwner[k] /\ lockAmount'[k] = lockAmount[k]
  PROVE  LockedCoins(e)' = LockedCoins(e)
BY DEF LockedCoins, Locked

-----------------------------------------------------------------------------
(* Each call keeps the accounts *)

\* A call that moves no money, whatever account it opens empty.
LEMMA StillAccounts ==
  ASSUME AccountsHold, known \subseteq known',
         UNCHANGED <<available, held, slashed, deposited>>,
         \A k \in Locks : Locked(k)' <=> Locked(k),
         \A k \in Locks : Locked(k) => lockOwner'[k] = lockOwner[k] /\ lockAmount'[k] = lockAmount[k],
         \A k \in Locks : lockStatus'[k] # "free" => lockOwner'[k] \in known'
  PROVE  AccountsHold'
<1>1. ASSUME NEW e \in Experts  PROVE AccountHolds(e)'
  <2>1. LockedCoins(e)' = LockedCoins(e)  BY CoinsStay
  <2>. QED  BY <2>1 DEF AccountsHold, AccountHolds
<1>. QED  BY <1>1 DEF AccountsHold

\* lockBond moves the amount from what is available to what is held, with its coins.
LEMMA LockBondAccounts ==
  ASSUME TypeOK, AccountsHold, NEW l \in Locks, NEW e \in Experts, NEW amount \in Nat,
         LockBond(l, e, amount)
  PROVE  AccountsHold'
<1>1. /\ lockStatus[l] = "free" /\ available[e] >= amount
      /\ available' = [available EXCEPT ![e] = @ - amount]
      /\ held' = [held EXCEPT ![e] = @ + amount]
      /\ lockStatus' = [lockStatus EXCEPT ![l] = "locked"]
      /\ lockOwner' = [lockOwner EXCEPT ![l] = e]
      /\ lockAmount' = [lockAmount EXCEPT ![l] = amount]
      /\ known' = known \cup {e}
      /\ UNCHANGED <<deposited, slashed>>
  BY DEF LockBond
<1>2. /\ ~Locked(l) /\ Locked(l)' /\ lockOwner'[l] = e /\ lockAmount'[l] = amount
      /\ \A k \in Locks \ {l} : /\ lockStatus'[k] = lockStatus[k] /\ lockOwner'[k] = lockOwner[k]
                                /\ lockAmount'[k] = lockAmount[k]
  BY <1>1 DEF TypeOK, Locked
<1>3. /\ \A d \in Experts : LockedCoins(d)' = IF d = e THEN LockedCoins(d) \cup Coins(l, amount)
                                                       ELSE LockedCoins(d)
      /\ LockedCoins(e) \cap Coins(l, amount) = {}
  BY <1>2, CoinsCome
<1>4. ASSUME NEW d \in Experts  PROVE AccountHolds(d)'
  <2>0. AccountHolds(d)  BY DEF AccountsHold
  <2>1. CASE d = e
    <3>1. IsFiniteSet(Coins(l, amount)) /\ Cardinality(Coins(l, amount)) = amount
      BY CoinsCount
    <3>2. IsFiniteSet(LockedCoins(e)) /\ Cardinality(LockedCoins(e)) \in Nat
      BY <2>0, <2>1, FS_CardinalityType DEF AccountHolds
    <3>3. Cardinality({}) = 0  BY FS_EmptySet
    <3>4. /\ IsFiniteSet(LockedCoins(e) \cup Coins(l, amount))
          /\ Cardinality(LockedCoins(e) \cup Coins(l, amount)) = Cardinality(LockedCoins(e)) + amount
      BY <1>3, <3>1, <3>2, <3>3, FS_Union
    <3>5. IsFiniteSet(LockedCoins(e)') /\ Cardinality(LockedCoins(e)') = Cardinality(LockedCoins(e)) + amount
      BY <1>3, <3>4
    <3>6. /\ available'[e] = available[e] - amount /\ held'[e] = held[e] + amount
          /\ slashed'[e] = slashed[e] /\ deposited'[e] = deposited[e] /\ e \in known'
      BY <1>1 DEF TypeOK
    <3>7. /\ available[e] \in Nat /\ held[e] \in Nat /\ slashed[e] \in Nat /\ deposited[e] \in Nat
      BY DEF TypeOK
    <3>8. Cardinality(LockedCoins(e)') <= held'[e]
      BY <2>0, <2>1, <3>2, <3>5, <3>6, <3>7 DEF AccountHolds
    <3>9. available'[e] + held'[e] + slashed'[e] = deposited'[e]
      BY <2>0, <2>1, <3>6, <3>7 DEF AccountHolds
    <3>. QED  BY <2>1, <3>5, <3>6, <3>8, <3>9 DEF AccountHolds
  <2>2. CASE d # e
    <3>1. /\ available'[d] = available[d] /\ held'[d] = held[d]
          /\ slashed'[d] = slashed[d] /\ deposited'[d] = deposited[d]
          /\ d \in known' <=> d \in known
      BY <1>1, <2>2 DEF TypeOK
    <3>2. LockedCoins(d)' = LockedCoins(d)  BY <1>3, <2>2
    <3>. QED  BY <2>0, <3>1, <3>2 DEF AccountHolds
  <2>. QED  BY <2>1, <2>2
<1>5. \A k \in Locks : lockStatus'[k] # "free" => lockOwner'[k] \in known'
  BY <1>1, <1>2 DEF AccountsHold
<1>. QED  BY <1>4, <1>5 DEF AccountsHold

\* A lock that is settled leaves its account with at least the coins of the others, however
\* much of its amount goes back and however much is slashed.
LEMMA SettleAccounts ==
  ASSUME TypeOK, AccountsHold, NEW l \in Locks, Locked(l), ~Locked(l)',
         NEW taken \in Nat, NEW back \in Nat, NEW lost \in Nat,
         taken = back + lost, taken <= lockAmount[l], UNCHANGED <<known, deposited, lockOwner>>,
         held' = [held EXCEPT ![lockOwner[l]] = Minus(@, taken)],
         available' = [available EXCEPT ![lockOwner[l]] = @ + back],
         slashed' = [slashed EXCEPT ![lockOwner[l]] = @ + lost],
         \A k \in Locks \ {l} : lockStatus'[k] = lockStatus[k] /\ lockAmount'[k] = lockAmount[k]
  PROVE  AccountsHold'
<1>1. PICK o \in Experts, amount \in Nat : o = lockOwner[l] /\ amount = lockAmount[l]
  BY DEF TypeOK, Locked
<1>2. \A d \in Experts : LockedCoins(d)' = IF d = o THEN LockedCoins(d) \ Coins(l, amount)
                                                    ELSE LockedCoins(d)
  <2>1. \A k \in Locks \ {l} : /\ lockStatus'[k] = lockStatus[k] /\ lockOwner'[k] = lockOwner[k]
                               /\ lockAmount'[k] = lockAmount[k]
    OBVIOUS
  <2>2. \A d \in Experts : LockedCoins(d)' = IF d = lockOwner[l] THEN LockedCoins(d) \ Coins(l, lockAmount[l])
                                                               ELSE LockedCoins(d)
    BY <2>1, CoinsLeave
  <2>. QED  BY <1>1, <2>2
<1>3. \A c \in Coins(l, amount) : c \in LockedCoins(o)
  BY <1>1 DEF LockedCoins, Locked
<1>4. IsFiniteSet(Coins(l, amount)) /\ Cardinality(Coins(l, amount)) = amount
  BY <1>1, CoinsCount
<1>5. ASSUME NEW d \in Experts  PROVE AccountHolds(d)'
  <2>0. AccountHolds(d)  BY DEF AccountsHold
  <2>1. CASE d = o
    <3>. DEFINE rest == LockedCoins(o) \ Coins(l, amount)
    <3>1. IsFiniteSet(LockedCoins(o)) /\ Cardinality(LockedCoins(o)) \in Nat
      BY <2>0, <2>1, FS_CardinalityType DEF AccountHolds
    <3>2. IsFiniteSet(rest) /\ Cardinality(rest) \in Nat
      BY <3>1, FS_Subset, FS_CardinalityType
    <3>3. Cardinality(LockedCoins(o)) = Cardinality(rest) + amount
      <4>1. rest \cup Coins(l, amount) = LockedCoins(o) /\ rest \cap Coins(l, amount) = {}
        BY <1>3
      <4>2. Cardinality({}) = 0  BY FS_EmptySet
      <4>3. Cardinality(rest \cup Coins(l, amount)) =
              Cardinality(rest) + amount - Cardinality(rest \cap Coins(l, amount))
        BY <1>4, <3>2, FS_Union
      <4>4. /\ Cardinality(rest \cup Coins(l, amount)) = Cardinality(LockedCoins(o))
            /\ Cardinality(rest \cap Coins(l, amount)) = 0
        BY <4>1, <4>2, Zenon
      <4>. HIDE DEF rest
      <4>. QED  BY <1>4, <3>2, <4>3, <4>4
    <3>. HIDE DEF rest
    <3>4. LockedCoins(o)' = rest  BY <1>1, <1>2 DEF rest
    <3>5. /\ held'[o] = Minus(held[o], taken) /\ available'[o] = available[o] + back
          /\ slashed'[o] = slashed[o] + lost /\ deposited'[o] = deposited[o]
          /\ known' = known
      BY <1>1 DEF TypeOK
    <3>6. /\ available[o] \in Nat /\ held[o] \in Nat /\ slashed[o] \in Nat /\ deposited[o] \in Nat
      BY <1>1 DEF TypeOK
    <3>7. Cardinality(LockedCoins(o)) <= held[o] /\ taken <= amount
      BY <1>1, <2>0, <2>1 DEF AccountHolds
    <3>8. held'[o] = held[o] - taken
      BY <1>1, <3>1, <3>2, <3>3, <3>5, <3>6, <3>7 DEF Minus
    <3>9. Cardinality(rest) <= held'[o]
      BY <1>1, <3>2, <3>3, <3>6, <3>7, <3>8
    <3>10. available'[o] + held'[o] + slashed'[o] = deposited'[o]
      BY <2>0, <2>1, <3>5, <3>6, <3>8 DEF AccountHolds
    <3>11. o \notin known' => deposited'[o] = 0
      BY <2>0, <2>1, <3>5 DEF AccountHolds
    <3>12. IsFiniteSet(LockedCoins(o)') /\ Cardinality(LockedCoins(o)') <= held'[o]
      BY <3>2, <3>4, <3>9
    <3>. QED  BY <2>1, <3>10, <3>11, <3>12 DEF AccountHolds
  <2>2. CASE d # o
    <3>1. /\ available'[d] = available[d] /\ held'[d] = held[d]
          /\ slashed'[d] = slashed[d] /\ deposited'[d] = deposited[d] /\ known' = known
      BY <1>1, <2>2 DEF TypeOK
    <3>2. LockedCoins(d)' = LockedCoins(d)  BY <1>2, <2>2
    <3>. QED  BY <2>0, <3>1, <3>2 DEF AccountHolds
  <2>. QED  BY <2>1, <2>2
<1>6. \A k \in Locks : lockStatus'[k] # "free" => lockOwner'[k] \in known'
  <2>1. \A k \in Locks : lockStatus'[k] # "free" => lockStatus[k] # "free"
    <3>1. lockStatus[l] # "free"  BY DEF Locked
    <3>. QED  BY <3>1
  <2>. QED  BY <2>1 DEF AccountsHold
<1>. QED  BY <1>5, <1>6 DEF AccountsHold

\* releaseBond gives the whole amount back.
LEMMA ReleaseBondAccounts ==
  ASSUME TypeOK, AccountsHold, NEW l \in Locks, ReleaseBond(l)
  PROVE  AccountsHold'
<1>1. CASE Locked(l)
  <2>. DEFINE amount == lockAmount[l]
  <2>1. /\ held' = [held EXCEPT ![lockOwner[l]] = Minus(@, amount)]
        /\ available' = [available EXCEPT ![lockOwner[l]] = @ + amount]
        /\ lockStatus' = [lockStatus EXCEPT ![l] = "released"]
        /\ UNCHANGED <<lockOwner, lockAmount, known, deposited, slashed>>
    BY <1>1 DEF ReleaseBond, Locked
  <2>2. amount \in Nat /\ lockOwner[l] \in Experts /\ amount = amount + 0 /\ amount <= lockAmount[l]
    BY <1>1 DEF TypeOK, Locked
  <2>. HIDE DEF amount
  <2>3. slashed' = [slashed EXCEPT ![lockOwner[l]] = @ + 0]
    BY <2>1, <2>2 DEF TypeOK
  <2>4. ~Locked(l)' /\ \A k \in Locks \ {l} : lockStatus'[k] = lockStatus[k] /\ lockAmount'[k] = lockAmount[k]
    BY <2>1 DEF TypeOK, Locked
  <2>. QED  BY <1>1, <2>1, <2>2, <2>3, <2>4, SettleAccounts
<1>2. CASE ~Locked(l)
  <2>1. UNCHANGED <<accountVars, lockVars>>  BY <1>2 DEF ReleaseBond, Locked
  <2>. QED
    <3>1. UNCHANGED <<available, held, known, deposited, slashed, lockStatus, lockOwner, lockAmount>>
      BY <2>1 DEF accountVars, lockVars
    <3>2. \A k \in Locks : Locked(k)' <=> Locked(k)  BY <3>1 DEF Locked
    <3>. QED  BY <3>1, <3>2, StillAccounts DEF AccountsHold
<1>. QED  BY <1>1, <1>2

\* slashBond takes no more than the lock's amount.
LEMMA SlashBondAccounts ==
  ASSUME TypeOK, AccountsHold, NEW l \in Locks, NEW wanted \in Nat, SlashBond(l, wanted)
  PROVE  AccountsHold'
<1>1. CASE Locked(l)
  <2>. DEFINE amount == Less(lockAmount[l], wanted)
  <2>1. /\ held' = [held EXCEPT ![lockOwner[l]] = Minus(@, amount)]
        /\ slashed' = [slashed EXCEPT ![lockOwner[l]] = @ + amount]
        /\ lockStatus' = [lockStatus EXCEPT ![l] = "slashed"]
        /\ lockAmount' = [lockAmount EXCEPT ![l] = amount]
        /\ UNCHANGED <<available, lockOwner, known, deposited>>
    BY <1>1 DEF SlashBond, Locked
  <2>2. amount \in Nat /\ lockOwner[l] \in Experts /\ 0 \in Nat /\ amount = 0 + amount
        /\ amount <= lockAmount[l]
    BY <1>1 DEF TypeOK, Locked, Less
  <2>. HIDE DEF amount
  <2>3. available' = [available EXCEPT ![lockOwner[l]] = @ + 0]
    BY <2>1, <2>2 DEF TypeOK
  <2>4. ~Locked(l)' /\ \A k \in Locks \ {l} : lockStatus'[k] = lockStatus[k] /\ lockAmount'[k] = lockAmount[k]
    BY <2>1 DEF TypeOK, Locked
  <2>. QED  BY <1>1, <2>1, <2>2, <2>3, <2>4, SettleAccounts
<1>2. CASE ~Locked(l)
  <2>1. UNCHANGED <<accountVars, lockVars>>  BY <1>2 DEF SlashBond, Locked
  <2>. QED
    <3>1. UNCHANGED <<available, held, known, deposited, slashed, lockStatus, lockOwner, lockAmount>>
      BY <2>1 DEF accountVars, lockVars
    <3>2. \A k \in Locks : Locked(k)' <=> Locked(k)  BY <3>1 DEF Locked
    <3>. QED  BY <3>1, <3>2, StillAccounts DEF AccountsHold
<1>. QED  BY <1>1, <1>2

\* A step that touches neither accounts nor locks.
LEMMA SameAccounts ==
  ASSUME AccountsHold, UNCHANGED <<accountVars, lockVars>>
  PROVE  AccountsHold'
<1>1. UNCHANGED <<available, held, known, deposited, slashed, lockStatus, lockOwner, lockAmount>>
  BY DEF accountVars, lockVars
<1>2. \A k \in Locks : Locked(k)' <=> Locked(k)  BY <1>1 DEF Locked
<1>. QED  BY <1>1, <1>2, StillAccounts DEF AccountsHold

\* A bond that is locked and released within one call leaves no coin behind.
LEMMA LockAndReleaseAccounts ==
  ASSUME TypeOK, AccountsHold, NEW l \in Locks, NEW e \in Experts, LockAndRelease(l, e)
  PROVE  AccountsHold'
<1>1. /\ lockStatus[l] = "free"
      /\ lockStatus' = [lockStatus EXCEPT ![l] = "released"]
      /\ lockOwner' = [lockOwner EXCEPT ![l] = e]
      /\ lockAmount' = [lockAmount EXCEPT ![l] = Bond]
      /\ known' = known \cup {e}
      /\ UNCHANGED <<available, held, deposited, slashed>>
  BY DEF LockAndRelease
<1>2. /\ \A k \in Locks : Locked(k)' <=> Locked(k)
      /\ \A k \in Locks : Locked(k) => lockOwner'[k] = lockOwner[k] /\ lockAmount'[k] = lockAmount[k]
  BY <1>1 DEF TypeOK, Locked
<1>3. \A k \in Locks : lockStatus'[k] # "free" => lockOwner'[k] \in known'
  BY <1>1 DEF TypeOK, AccountsHold
<1>. QED  BY <1>1, <1>2, <1>3, StillAccounts

\* An unknown account is empty, and no lock is its own: the bond it is opened with is all
\* there is.
LEMMA BroadcastAccounts ==
  ASSUME TypeOK, AccountsHold, NEW i \in Intents, BroadcastSolutionIntent(i)
  PROVE  AccountsHold'
<1>1. PICK candidates \in SUBSET Experts :
        /\ known' = known \cup candidates
        /\ available' = [e \in Experts |-> IF e \in candidates \ known THEN Bond ELSE available[e]]
        /\ deposited' = [e \in Experts |-> IF e \in candidates \ known THEN Bond ELSE deposited[e]]
  BY DEF BroadcastSolutionIntent
<1>2. UNCHANGED <<held, slashed, lockStatus, lockOwner, lockAmount>>
  BY DEF BroadcastSolutionIntent, lockVars
<1>3. ASSUME NEW e \in Experts  PROVE AccountHolds(e)'
  <2>1. AccountHolds(e)  BY DEF AccountsHold
  <2>2. LockedCoins(e)' = LockedCoins(e)
    BY <1>2, CoinsStay DEF Locked
  <2>3. /\ available[e] \in Nat /\ held[e] \in Nat /\ slashed[e] \in Nat /\ deposited[e] \in Nat
    BY DEF TypeOK
  <2>4. available'[e] + held'[e] + slashed'[e] = deposited'[e]
    <3>1. CASE e \in candidates \ known
      <4>1. held[e] = 0 /\ slashed[e] = 0  BY <2>1, <2>3, <3>1 DEF AccountHolds
      <4>2. available'[e] = Bond /\ deposited'[e] = Bond  BY <1>1, <3>1
      <4>. QED  BY <1>2, <4>1, <4>2, BondAssumption
    <3>2. CASE e \notin candidates \ known
      BY <1>1, <1>2, <2>1, <3>2 DEF AccountHolds
    <3>. QED  BY <3>1, <3>2
  <2>5. e \notin known' => deposited'[e] = 0
    BY <1>1, <2>1 DEF AccountHolds
  <2>. QED  BY <1>2, <2>1, <2>2, <2>4, <2>5 DEF AccountHolds
<1>4. \A l \in Locks : lockStatus'[l] # "free" => lockOwner'[l] \in known'
  BY <1>1, <1>2 DEF AccountsHold
<1>. QED  BY <1>3, <1>4 DEF AccountsHold

\* The market starts with empty accounts.
LEMMA InitAccounts == Init => AccountsHold
<1>. SUFFICES ASSUME Init PROVE AccountsHold
  OBVIOUS
<1>1. \A e \in Experts : LockedCoins(e) = {}  BY DEF Init, LockedCoins
<1>2. IsFiniteSet({}) /\ Cardinality({}) = 0  BY FS_EmptySet
<1>3. ASSUME NEW e \in Experts  PROVE AccountHolds(e)
  <2>1. LockedCoins(e) = {}  BY <1>1
  <2>2. IsFiniteSet(LockedCoins(e)) /\ Cardinality(LockedCoins(e)) = 0
    BY <1>2, <2>1, Zenon
  <2>3. held[e] = 0 /\ available[e] = 0 /\ slashed[e] = 0 /\ deposited[e] = 0  BY DEF Init
  <2>. QED  BY <2>2, <2>3 DEF AccountHolds
<1>. QED  BY <1>3 DEF Init, AccountsHold

\* Every call keeps the accounts.
LEMMA NextAccounts ==
  ASSUME BondInvariant, AccountsHold, [Next]_vars
  PROVE  AccountsHold'
<1>. USE DEF BondInvariant
<1>1. ASSUME NEW i \in Intents, BroadcastSolutionIntent(i)  PROVE AccountsHold'
  BY <1>1, BroadcastAccounts
<1>2. ASSUME NEW i \in Intents, ApproveDelivery(i)  PROVE AccountsHold'
  <2>1. CASE bondLock[i] # None
    <3>1. bondLock[i] \in Locks /\ ReleaseBond(bondLock[i])
      BY <1>2, <2>1 DEF ApproveDelivery, TypeOK
    <3>. QED  BY <3>1, ReleaseBondAccounts
  <2>2. CASE bondLock[i] = None
    BY <1>2, <2>2, SameAccounts DEF ApproveDelivery
  <2>. QED  BY <2>1, <2>2
<1>3. ASSUME NEW i \in Intents, RejectBonded(i)  PROVE AccountsHold'
  <2>1. /\ bondLock[i] \in Locks /\ SlashBond(bondLock[i], Compensation(accepted[i]))
        /\ accepted[i] \in Experts
    BY <1>3 DEF RejectBonded, TypeOK, BondsAreRequired
  <2>2. Compensation(accepted[i]) \in Nat  BY <2>1, Amounts
  <2>. QED  BY <2>1, <2>2, SlashBondAccounts
<1>4. ASSUME NEW i \in Intents, NEW e \in Experts, NEW l \in Locks, AcceptBonded(i, e, l)
      PROVE  AccountsHold'
  <2>1. CASE e \in Collab
    BY <1>4, <2>1, LockAndReleaseAccounts DEF AcceptBonded
  <2>2. CASE e \notin Collab
    BY <1>4, <2>2, LockBondAccounts, BondAssumption DEF AcceptBonded
  <2>. QED  BY <2>1, <2>2
<1>5. ASSUME NEW l \in Locks, SlashByClient(l)  PROVE AccountsHold'
  BY <1>5, SlashBondAccounts, BondAssumption DEF SlashByClient
<1>6. ASSUME NEW l \in Locks, NEW e \in Experts, LockByClient(l, e)  PROVE AccountsHold'
  BY <1>6, LockBondAccounts, BondAssumption DEF LockByClient
<1>7. ASSUME NEW e \in Experts, LockRefused(e)  PROVE AccountsHold'
  <2>1. /\ known \subseteq known' /\ UNCHANGED <<available, held, slashed, deposited>>
        /\ UNCHANGED <<lockStatus, lockOwner, lockAmount>>
    BY <1>7 DEF LockRefused, lockVars
  <2>. QED  BY <2>1, StillAccounts DEF Locked, AccountsHold
<1>8. ASSUME NEW i \in Intents,
             SubmitSolutionDelivery(i) \/ RejectUnbonded(i) \/ EscrowByClient(i)
      PROVE  AccountsHold'
  <2>1. UNCHANGED <<accountVars, lockVars>>
    BY <1>8 DEF SubmitSolutionDelivery, RejectUnbonded, EscrowByClient
  <2>. QED  BY <2>1, SameAccounts
<1>9. ASSUME NEW i \in Intents, NEW e \in Experts, AcceptFree(i, e) \/ AcceptRefused(i, e)
      PROVE  AccountsHold'
  <2>1. UNCHANGED <<accountVars, lockVars>>
    BY <1>9 DEF AcceptFree, AcceptRefused
  <2>. QED  BY <2>1, SameAccounts
<1>10. CASE UNCHANGED vars
  <2>1. UNCHANGED <<accountVars, lockVars>>  BY <1>10 DEF vars
  <2>. QED  BY <2>1, SameAccounts
<1>. QED  BY <1>1, <1>2, <1>3, <1>4, <1>5, <1>6, <1>7, <1>8, <1>9, <1>10 DEF Next

\* In every state each account adds up and covers its locks, and only known accounts own
\* locks.
THEOREM AccountsKept == Spec => []AccountsHold
<1>1. [](BondInvariant) /\ Init /\ [][Next]_vars => []AccountsHold
  <2>1. BondInvariant /\ AccountsHold /\ [Next]_vars => AccountsHold'  BY NextAccounts
  <2>. QED  BY <2>1, InitAccounts, PTL
<1>. QED  BY <1>1, BondsHold, PTL DEF Spec

\* What an account was opened with is available, held or slashed: releaseBond, slashBond and
\* lockBond make no money and lose none, whoever calls them in which order.
THEOREM MoneyConserved == Spec => []BondConserved
<1>1. AccountsHold => BondConserved  BY DEF AccountsHold, AccountHolds, BondConserved
<1>. QED  BY <1>1, AccountsKept, PTL

\* locked_balance covers every lock that is still to be settled: Math.max(0, ...) in
\* settlementService never cuts a balance short.
THEOREM LocksCovered == Spec => []HeldCoversLocks
<1>1. ASSUME TypeOK, AccountsHold  PROVE HeldCoversLocks
  <2>. SUFFICES ASSUME NEW e \in Experts  PROVE held[e] >= Cardinality(LockedCoins(e))
    BY DEF HeldCoversLocks
  <2>1. AccountHolds(e) /\ held[e] \in Nat  BY <1>1 DEF AccountsHold, TypeOK
  <2>2. Cardinality(LockedCoins(e)) \in Nat  BY <2>1, FS_CardinalityType DEF AccountHolds
  <2>. QED  BY <2>1, <2>2 DEF AccountHolds
<1>2. TypeOK /\ AccountsHold => HeldCoversLocks  BY <1>1
<1>. QED  BY <1>2, AccountsKept, TypeCorrect, PTL
=============================================================================
