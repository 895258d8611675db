------------------------- MODULE ProviderFetchProofs -------------------------
(***************************************************************************)
(* The fetch pool shares its slots, an open circuit is respected and the   *)
(* rates are kept, for any number of providers, broadcasts, slots, pages.  *)
(***************************************************************************)
EXTENDS ProviderFetch, FiniteSetTheorems, SequenceTheorems, TLAPS

Holding == {f \in Flows : pc[f] \in {"browser", "fallback"}}
Waiting == {f \in Flows : pc[f] = "queued"}
Queued  == {queue[i] : i \in 1..Len(queue)}

PoolTypes ==
  /\ pc \in [Flows -> Pc] /\ round \in [Broadcasts -> Nat]
  /\ queue \in Seq(Flows) /\ active \in Nat /\ lost \in Nat
  /\ IsFiniteSet(Holding)

\* SlotsShared, in these words.
Shared ==
  /\ active = lost + Cardinality(Holding) /\ active <= MaxGlobalConcurrency
  /\ queue # <<>> => ~SlotFree
  /\ Waiting = Queued

\* Nobody waits twice.
QueuedOnce == \A i, j \in 1..Len(queue) : queue[i] = queue[j] => i = j

\* A provider is searched for a broadcast that waits for it, and for no other.
SearchedFor == \A f \in Flows : pc[f] # "idle" => round[f[1]] > 0

PoolInvariant == PoolTypes /\ QueuedOnce /\ SearchedFor /\ Shared

-----------------------------------------------------------------------------
(* The pool *)

\* Cardinality when one element comes or goes.
LEMMA OneMore ==
  ASSUME NEW S, IsFiniteSet(S), NEW e, e \notin S
  PROVE  IsFiniteSet(S \cup {e}) /\ Cardinality(S \cup {e}) = Cardinality(S) + 1
BY FS_AddElement

\* The same for an element that goes.
LEMMA OneLess ==
  ASSUME NEW S, IsFiniteSet(S), NEW e \in S
  PROVE  IsFiniteSet(S \ {e}) /\ Cardinality(S \ {e}) = Cardinality(S) - 1
BY FS_RemoveElement

\* A step that leaves the pool alone, and moves flows that have nothing to do with it.
LEMMA PoolAlone ==
  ASSUME PoolInvariant, UNCHANGED poolVars, pc' \in [Flows -> Pc],
         round' \in [Broadcasts -> Nat],
         Holding' = Holding, Waiting' = Waiting, SearchedFor'
  PROVE  PoolInvariant'
<1>1. UNCHANGED <<active, queue, lost>>  BY DEF poolVars
<1>2. PoolTypes'  BY <1>1 DEF PoolInvariant, PoolTypes
<1>3. QueuedOnce'  BY <1>1 DEF PoolInvariant, QueuedOnce
<1>4. Shared'
  BY <1>1 DEF PoolInvariant, Shared, Queued, SlotFree
<1>. QED  BY <1>2, <1>3, <1>4 DEF PoolInvariant

\* acquireSlot: a free slot is taken, or the flow waits behind the others.
LEMMA Acquired ==
  ASSUME PoolInvariant, NEW f \in Flows, pc[f] = "ask", AcquireSlot(f), UNCHANGED round,
         pc' = [pc EXCEPT ![f] = IF queue' = queue THEN "browser" ELSE "queued"]
  PROVE  PoolInvariant'
<1>0. /\ PoolTypes /\ QueuedOnce /\ SearchedFor /\ Shared
      /\ f \notin Holding /\ f \notin Waiting
  BY DEF PoolInvariant, Holding, Waiting
<1>1. SearchedFor'
  BY <1>0 DEF SearchedFor, PoolTypes
<1>2. CASE SlotFree
  <2>1. active' = active + 1 /\ UNCHANGED <<queue, lost>>  BY <1>2 DEF AcquireSlot
  <2>2. pc' = [pc EXCEPT ![f] = "browser"]  BY <2>1
  <2>3. Holding' = Holding \cup {f} /\ Waiting' = Waiting /\ Queued' = Queued
    BY <1>0, <2>1, <2>2 DEF Holding, Waiting, Queued, PoolTypes
  <2>4. /\ IsFiniteSet(Holding') /\ Cardinality(Holding') = Cardinality(Holding) + 1
        /\ Cardinality(Holding) \in Nat
    BY <1>0, <2>3, OneMore, FS_CardinalityType DEF PoolTypes
  <2>5. PoolTypes'  BY <1>0, <2>1, <2>2, <2>4 DEF PoolTypes, Pc
  <2>6. QueuedOnce'  BY <1>0, <2>1 DEF QueuedOnce
  <2>7. Shared'
    BY <1>0, <1>2, <2>1, <2>3, <2>4, FetchAssumption DEF Shared, SlotFree, PoolTypes
  <2>. QED  BY <1>1, <2>5, <2>6, <2>7 DEF PoolInvariant
<1>3. CASE ~SlotFree
  <2>1. queue' = Append(queue, f) /\ UNCHANGED <<active, lost>>  BY <1>3 DEF AcquireSlot
  <2>2. /\ queue' \in Seq(Flows) /\ queue' # queue /\ Len(queue') = Len(queue) + 1
        /\ \A i \in 1..Len(queue) : queue'[i] = queue[i]
        /\ queue'[Len(queue) + 1] = f /\ Len(queue) \in Nat
    BY <1>0, <2>1, AppendProperties DEF PoolTypes
  <2>3. pc' = [pc EXCEPT ![f] = "queued"]  BY <2>2
  <2>4. Holding' = Holding /\ Waiting' = Waiting \cup {f}
    BY <1>0, <2>3 DEF Holding, Waiting, PoolTypes
  <2>5. Queued' = Queued \cup {f}
    BY <2>2 DEF Queued
  <2>6. QueuedOnce'
    <3>1. \A i \in 1..Len(queue) : queue[i] # f
      BY <1>0 DEF Shared, Queued
    <3>. QED  BY <1>0, <2>2, <3>1 DEF QueuedOnce
  <2>7. PoolTypes'  BY <1>0, <2>1, <2>2, <2>3, <2>4 DEF PoolTypes, Pc
  <2>8. Shared'  BY <1>0, <1>3, <2>1, <2>4, <2>5 DEF Shared, SlotFree
  <2>. QED  BY <1>1, <2>6, <2>7, <2>8 DEF PoolInvariant
<1>. QED  BY <1>2, <1>3

\* releaseSlot: the slot goes to the first that waits, or becomes free.
LEMMA Released ==
  ASSUME PoolInvariant, NEW f \in Flows, Fetched(f), NEW p \in {"ask", "idle"}, UNCHANGED round,
         pc' = [g \in Flows |-> IF g = f THEN p ELSE IF g \in Handed THEN "browser" ELSE pc[g]]
  PROVE  PoolInvariant'
<1>0. /\ PoolTypes /\ QueuedOnce /\ SearchedFor /\ Shared
      /\ f \in Holding /\ f \notin Waiting /\ ReleaseSlot
      /\ Cardinality(Holding) \in Nat
  BY FS_CardinalityType DEF PoolInvariant, Holding, Waiting, Fetched, PoolTypes
<1>1. CASE queue = <<>>
  <2>1. active' = active - 1 /\ UNCHANGED <<queue, lost>>  BY <1>0, <1>1 DEF ReleaseSlot
  <2>2. pc' = [g \in Flows |-> IF g = f THEN p ELSE pc[g]]  BY <1>1 DEF Handed
  <2>3. Holding' = Holding \ {f} /\ Waiting' = Waiting /\ Queued' = Queued
    BY <1>0, <2>1, <2>2 DEF Holding, Waiting, Queued, PoolTypes
  <2>4. IsFiniteSet(Holding') /\ Cardinality(Holding') = Cardinality(Holding) - 1
    BY <1>0, <2>3, OneLess DEF PoolTypes
  <2>5. active' \in Nat
    BY <1>0, <2>1, <2>4, FS_CardinalityType DEF Shared, PoolTypes
  <2>6. PoolTypes'  BY <1>0, <2>1, <2>2, <2>4, <2>5 DEF PoolTypes, Pc
  <2>7. QueuedOnce'  BY <1>0, <2>1 DEF QueuedOnce
  <2>8. Shared'
    BY <1>0, <1>1, <2>1, <2>3, <2>4, FetchAssumption DEF Shared, SlotFree, PoolTypes
  <2>9. SearchedFor'
    BY <1>0, <2>2 DEF SearchedFor, Holding
  <2>. QED  BY <2>6, <2>7, <2>8, <2>9 DEF PoolInvariant
<1>2. CASE queue # <<>>
  <2>. DEFINE h == Head(queue)
  <2>1. queue' = Tail(queue) /\ UNCHANGED <<active, lost>>  BY <1>0, <1>2 DEF ReleaseSlot
  <2>2. /\ Len(queue) \in Nat /\ Len(queue) > 0 /\ h = queue[1]
        /\ queue' \in Seq(Flows) /\ Len(queue') = Len(queue) - 1
        /\ \A i \in 1..Len(queue') : queue'[i] = queue[i + 1]
    BY <1>0, <1>2, <2>1, HeadTailProperties DEF PoolTypes
  <2>3. h \in Waiting /\ h \in Flows /\ h # f /\ h \notin Holding
    BY <1>0, <2>2 DEF Shared, Queued, Waiting, Holding
  <2>4. pc' = [g \in Flows |-> IF g = f THEN p ELSE IF g = h THEN "browser" ELSE pc[g]]
    BY <1>2 DEF Handed
  <2>. HIDE DEF h
  <2>5. Holding' = (Holding \ {f}) \cup {h} /\ Waiting' = Waiting \ {h}
    BY <1>0, <2>3, <2>4 DEF Holding, Waiting, PoolTypes
  <2>6. /\ IsFiniteSet(Holding \ {f}) /\ Cardinality(Holding \ {f}) = Cardinality(Holding) - 1
        /\ h \notin Holding \ {f}
    BY <1>0, <2>3, OneLess DEF PoolTypes
  <2>7. IsFiniteSet(Holding') /\ Cardinality(Holding') = Cardinality(Holding)
    <3>1. /\ IsFiniteSet((Holding \ {f}) \cup {h})
          /\ Cardinality((Holding \ {f}) \cup {h}) = Cardinality(Holding \ {f}) + 1
      BY <2>6, OneMore
    <3>2. Cardinality(Holding') = (Cardinality(Holding) - 1) + 1  BY <2>5, <2>6, <3>1
    <3>. QED  BY <1>0, <2>5, <3>1, <3>2
  <2>8. Queued' = Queued \ {h}
    <3>1. \A i \in 1..Len(queue') : i + 1 \in 1..Len(queue) /\ i + 1 # 1
      BY <2>2
    <3>2. \A i \in 1..Len(queue') : queue'[i] \in Queued \ {h}
      BY <1>0, <2>2, <3>1 DEF Queued, QueuedOnce
    <3>3. ASSUME NEW i \in 1..Len(queue), queue[i] # h
          PROVE  \E j \in 1..Len(queue') : queue'[j] = queue[i]
      <4>1. i # 1 /\ i - 1 \in 1..Len(queue')  BY <2>2, <3>3
      <4>2. queue'[i - 1] = queue[i]  BY <2>2, <4>1
      <4>. QED  BY <4>1, <4>2
    <3>. QED  BY <3>2, <3>3 DEF Queued
  <2>9. QueuedOnce'
    BY <1>0, <2>2 DEF QueuedOnce
  <2>10. PoolTypes'  BY <1>0, <2>1, <2>2, <2>4, <2>7 DEF PoolTypes, Pc
  <2>11. Shared'
    BY <1>0, <1>2, <2>1, <2>5, <2>7, <2>8 DEF Shared, SlotFree
  <2>12. SearchedFor'
    BY <1>0, <2>3, <2>4 DEF SearchedFor, Holding, Waiting
  <2>. QED  BY <2>9, <2>10, <2>11, <2>12 DEF PoolInvariant
<1>. QED  BY <1>1, <1>2

-----------------------------------------------------------------------------
(* Steps of a flow *)

\* A flow that goes on, or ends, without a slot.
LEMMA PassedOver ==
  ASSUME PoolInvariant, NEW f \in Flows, pc[f] = "ask", NEW n, Advance(f, n, {}),
         UNCHANGED <<poolVars, round>>
  PROVE  PoolInvariant'
<1>0. PoolTypes /\ SearchedFor  BY DEF PoolInvariant
<1>1. PICK q \in {"ask", "idle"} : pc' = [g \in Flows |-> IF g = f THEN q ELSE pc[g]]
  BY DEF Advance
<1>2. pc' \in [Flows -> Pc]  BY <1>0, <1>1 DEF PoolTypes, Pc
<1>3. Holding' = Holding /\ Waiting' = Waiting
  BY <1>0, <1>1 DEF Holding, Waiting, PoolTypes
<1>4. SearchedFor'  BY <1>0, <1>1 DEF SearchedFor
<1>. QED  BY <1>0, <1>2, <1>3, <1>4, PoolAlone DEF PoolTypes

\* A fetch that ends, however it ends.
LEMMA FetchedPool ==
  ASSUME PoolInvariant, NEW f \in Flows, Fetched(f), NEW n, Advance(f, n, Handed),
         UNCHANGED round
  PROVE  PoolInvariant'
<1>1. PICK q \in {"ask", "idle"} :
        pc' = [g \in Flows |-> IF g = f THEN q ELSE IF g \in Handed THEN "browser" ELSE pc[g]]
  BY DEF Advance
<1>. QED  BY <1>1, Released

\* A flow whose browser failed keeps its slot for the fallback.
LEMMA BrowserFailsPool ==
  ASSUME PoolInvariant, NEW f \in Flows, BrowserFails(f)
  PROVE  PoolInvariant'
<1>0. PoolTypes /\ SearchedFor  BY DEF PoolInvariant
<1>1. /\ pc[f] = "browser" /\ pc' = [pc EXCEPT ![f] = "fallback"]
      /\ UNCHANGED poolVars /\ UNCHANGED round
  BY DEF BrowserFails, KeepsFetchWorld
<1>2. pc' \in [Flows -> Pc]  BY <1>0, <1>1 DEF PoolTypes, Pc
<1>3. Holding' = Holding /\ Waiting' = Waiting
  BY <1>0, <1>1 DEF Holding, Waiting, PoolTypes
<1>4. SearchedFor'  BY <1>0, <1>1 DEF SearchedFor, PoolTypes
<1>. QED  BY <1>0, <1>1, <1>2, <1>3, <1>4, PoolAlone DEF PoolTypes

\* Every step of a flow keeps the pool in order.
LEMMA FlowPool ==
  ASSUME PoolInvariant, NEW f \in Flows, FlowSteps(f)
  PROVE  PoolInvariant'
<1>1. CASE AskRefused(f)  BY <1>1, PassedOver DEF AskRefused
<1>2. CASE AskCached(f)  BY <1>2, PassedOver DEF AskCached, Asks
<1>3. CASE AskLimited(f)  BY <1>3, PassedOver DEF AskLimited, Asks
<1>4. CASE AskAdmitted(f)  BY <1>4, Acquired DEF AskAdmitted, Asks
<1>5. CASE BrowserFails(f)  BY <1>5, BrowserFailsPool
<1>6. CASE SearchArrives(f)
  <2>1. PICK n \in 0..MaxCandidates : Advance(f, n, Handed)  BY <1>6 DEF SearchArrives
  <2>. QED  BY <1>6, <2>1, FetchedPool DEF SearchArrives, KeepsFetchWorld
<1>7. CASE DetailArrives(f)  BY <1>7, FetchedPool DEF DetailArrives, KeepsFetchWorld
<1>8. CASE DetailUnparsed(f)  BY <1>8, FetchedPool DEF DetailUnparsed, KeepsFetchWorld
<1>9. CASE FetchBanned(f)  BY <1>9, FetchedPool DEF FetchBanned, KeepsFetchWorld
<1>10. CASE FetchFails(f)  BY <1>10, FetchedPool DEF FetchFails, KeepsFetchWorld
<1>. QED  BY <1>1, <1>2, <1>3, <1>4, <1>5, <1>6, <1>7, <1>8, <1>9, <1>10 DEF FlowSteps

-----------------------------------------------------------------------------
(* Steps of a broadcast *)

\* A fanout finds the broadcast's flows idle.
LEMMA FanoutPool ==
  ASSUME PoolInvariant, NEW x \in Broadcasts, NEW nth \in Nat \ {0}, NEW allowed,
         allowed \subseteq Providers, Fanout(x, nth, allowed),
         \A f \in FlowsOf(x) : pc[f] = "idle"
  PROVE  PoolInvariant'
<1>. DEFINE reached == {p \in allowed : ~Cooling(p)}
<1>0. PoolTypes /\ SearchedFor  BY DEF PoolInvariant
<1>1. /\ round' = [round EXCEPT ![x] = IF reached = {} THEN 0 ELSE nth]
      /\ pc' = [f \in Flows |-> IF f \in {x} \X reached THEN "ask" ELSE pc[f]]
      /\ UNCHANGED poolVars
  BY DEF Fanout
<1>2. /\ reached \subseteq Providers
      /\ \A f \in {x} \X reached : f \in Flows /\ pc[f] = "idle" /\ f[1] = x
  BY DEF Flows, FlowsOf
<1>. HIDE DEF reached
<1>3. pc' \in [Flows -> Pc] /\ round' \in [Broadcasts -> Nat]
  BY <1>0, <1>1 DEF PoolTypes, Pc
<1>4. Holding' = Holding
  <2>1. \A f \in Flows : f \in Holding' <=> f \in Holding
    BY <1>1, <1>2 DEF Holding
  <2>. QED  BY <2>1 DEF Holding
<1>5. Waiting' = Waiting
  <2>1. \A f \in Flows : f \in Waiting' <=> f \in Waiting
    BY <1>1, <1>2 DEF Waiting
  <2>. QED  BY <2>1 DEF Waiting
<1>6. ASSUME NEW f \in Flows, pc'[f] # "idle"  PROVE round'[f[1]] > 0
  <2>0. f[1] \in Broadcasts  BY DEF Flows
  <2>1. CASE f \in {x} \X reached
    <3>1. reached # {} /\ f[1] = x  BY <2>1
    <3>. QED  BY <1>0, <1>1, <3>1 DEF PoolTypes
  <2>2. CASE f \notin {x} \X reached
    <3>1. pc[f] # "idle"  BY <1>1, <1>6, <2>2
    <3>2. f[1] # x  BY <3>1 DEF Flows, FlowsOf
    <3>. QED  BY <1>0, <1>1, <2>0, <3>1, <3>2 DEF SearchedFor, PoolTypes
  <2>. QED  BY <2>1, <2>2
<1>. QED  BY <1>1, <1>3, <1>4, <1>5, <1>6, PoolAlone DEF SearchedFor

\* A new broadcast: nothing of its last one is left to run.
LEMMA BroadcastPool ==
  ASSUME PoolInvariant, NEW x \in Broadcasts, Broadcast(x)
  PROVE  PoolInvariant'
<1>1. PICK allowed \in {Providers, {}} : Fanout(x, 1, allowed)  BY DEF Broadcast
<1>2. \A f \in FlowsOf(x) : f \in Flows /\ f[1] = x  BY DEF FlowsOf, Flows
<1>3. \A f \in FlowsOf(x) : pc[f] = "idle"
  BY <1>2 DEF PoolInvariant, SearchedFor, Broadcast
<1>. QED  BY <1>1, <1>3, FanoutPool

\* The second fanout of a broadcast.
LEMMA BroadcastAgainPool ==
  ASSUME PoolInvariant, NEW x \in Broadcasts, BroadcastAgain(x)
  PROVE  PoolInvariant'
BY FanoutPool DEF BroadcastAgain, Returned

\* A broadcast ends when all its flows have.
LEMMA BroadcastEndsPool ==
  ASSUME PoolInvariant, NEW x \in Broadcasts, BroadcastEnds(x)
  PROVE  PoolInvariant'
<1>0. PoolTypes /\ SearchedFor  BY DEF PoolInvariant
<1>1. /\ Returned(x) /\ round' = [round EXCEPT ![x] = 0]
      /\ UNCHANGED poolVars /\ UNCHANGED pc
  BY DEF BroadcastEnds, flowVars
<1>2. round' \in [Broadcasts -> Nat] /\ pc' \in [Flows -> Pc]  BY <1>0, <1>1 DEF PoolTypes
<1>3. Holding' = Holding /\ Waiting' = Waiting  BY <1>1 DEF Holding, Waiting
<1>4. ASSUME NEW f \in Flows, pc'[f] # "idle"  PROVE round'[f[1]] > 0
  <2>1. f[1] \in Broadcasts /\ f[1] # x
    BY <1>1, <1>4 DEF Flows, FlowsOf, Returned
  <2>. QED  BY <1>0, <1>1, <1>4, <2>1 DEF SearchedFor, PoolTypes
<1>. QED  BY <1>1, <1>2, <1>3, <1>4, PoolAlone DEF SearchedFor

\* Time does not touch the pool.
LEMMA TickPool ==
  ASSUME PoolInvariant, Tick
  PROVE  PoolInvariant'
<1>1. UNCHANGED <<poolVars, pc, round>>  BY DEF Tick, flowVars
<1>2. Holding' = Holding /\ Waiting' = Waiting  BY <1>1 DEF Holding, Waiting
<1>3. SearchedFor'  BY <1>1 DEF PoolInvariant, SearchedFor
<1>. QED  BY <1>1, <1>2, <1>3, PoolAlone DEF PoolInvariant, PoolTypes

\* Nor does a stuttering step.
LEMMA StutterPool ==
  ASSUME PoolInvariant, UNCHANGED vars
  PROVE  PoolInvariant'
<1>1. UNCHANGED <<poolVars, pc, round>>  BY DEF vars, flowVars
<1>2. Holding' = Holding /\ Waiting' = Waiting  BY <1>1 DEF Holding, Waiting
<1>3. SearchedFor'  BY <1>1 DEF PoolInvariant, SearchedFor
<1>. QED  BY <1>1, <1>2, <1>3, PoolAlone DEF PoolInvariant, PoolTypes

\* The pool at the start, whatever was lost before,
LEMMA InitPool == Init => PoolInvariant
<1>. SUFFICES ASSUME Init PROVE PoolInvariant  OBVIOUS
<1>1. Holding = {} /\ Waiting = {} /\ Queued = {}
  BY DEF Init, Holding, Waiting, Queued
<1>2. IsFiniteSet(Holding) /\ Cardinality(Holding) = 0  BY <1>1, FS_EmptySet
<1>3. lost \in Nat /\ lost <= MaxGlobalConcurrency /\ active = lost /\ queue = <<>>
  BY FetchAssumption DEF Init
<1>4. PoolTypes  BY <1>2, <1>3 DEF Init, PoolTypes, Pc
<1>5. QueuedOnce  BY <1>3 DEF QueuedOnce
<1>6. SearchedFor  BY DEF Init, SearchedFor
<1>7. Shared  BY <1>1, <1>2, <1>3 DEF Shared
<1>. QED  BY <1>4, <1>5, <1>6, <1>7 DEF PoolInvariant

\* and in every reachable state.
LEMMA PoolHolds == Spec => []PoolInvariant
<1>1. Init => PoolInvariant  BY InitPool
<1>2. PoolInvariant /\ [Next]_vars => PoolInvariant'
  <2>. SUFFICES ASSUME PoolInvariant, [Next]_vars PROVE PoolInvariant'  OBVIOUS
  <2>1. CASE \E f \in Flows : FlowSteps(f)  BY <2>1, FlowPool
  <2>2. CASE \E x \in Broadcasts : BroadcastAgain(x)  BY <2>2, BroadcastAgainPool
  <2>3. CASE \E x \in Broadcasts : BroadcastEnds(x)  BY <2>3, BroadcastEndsPool
  <2>4. CASE \E x \in Broadcasts : Broadcast(x)  BY <2>4, BroadcastPool
  <2>5. CASE Tick  BY <2>5, TickPool
  <2>6. CASE UNCHANGED vars  BY <2>6, StutterPool
  <2>. QED  BY <2>1, <2>2, <2>3, <2>4, <2>5, <2>6 DEF Next, Progress
<1>. QED  BY <1>1, <1>2, PTL DEF Spec

\* The pool counts the fetches under way, never runs more than maxGlobalConcurrency of
\* them, and keeps nobody waiting while a slot is free, for any number of searches.
THEOREM SlotsAreShared == Spec => []SlotsShared
<1>1. PoolInvariant => SlotsShared
  BY DEF PoolInvariant, Shared, SlotsShared, Holding, Waiting, Queued
<1>. QED  BY <1>1, PoolHolds, PTL
-----------------------------------------------------------------------------
(* Circuits *)

Circuit == [score : Nat, openAt : Nat \cup {None}, lastDecay : Nat \cup {None}]

CircuitTypes == circuit \in [Providers -> Circuit] /\ now \in Nat

\* What CooldownKept asks of a step.
KeepsCooldown ==
  \A p \in Providers : circuit[p].openAt # None /\ circuit'[p].openAt # circuit[p].openAt
                         => now >= circuit[p].openAt + Interval

\* A score stays a natural number when something is taken off it.
LEMMA FloorForm == \A x \in Int : Floor0(x) \in Nat
BY DEF Floor0

\* The decay touches the score and its own clock only.
LEMMA ApplyDecayForm ==
  ASSUME now \in Nat, NEW data \in Circuit, data.lastDecay \in Nat
  PROVE  /\ ApplyDecay(data) \in Circuit /\ ApplyDecay(data).lastDecay \in Nat
         /\ ApplyDecay(data).openAt = data.openAt
<1>. DEFINE k == (now - data.lastDecay) \div Interval
            r == Floor0(data.score - k * DecayAmount)
<1>1. k \in Int  BY FetchAssumption
<1>. HIDE DEF k
<1>2. data.score - k * DecayAmount \in Int  BY <1>1, FetchAssumption DEF Circuit
<1>3. r \in Nat  BY <1>2, FloorForm
<1>. HIDE DEF r
<1>4. CASE k > 0 /\ data.score > 0
  <2>1. ApplyDecay(data) = [data EXCEPT !.score = r, !.lastDecay = now]
    BY <1>4 DEF ApplyDecay, k, r
  <2>. QED  BY <1>3, <2>1 DEF Circuit
<1>5. CASE ~(k > 0 /\ data.score > 0)
  BY <1>5 DEF ApplyDecay, k
<1>. QED  BY <1>4, <1>5

\* So does reading a circuit.
LEMMA DecayedForm ==
  ASSUME CircuitTypes, NEW p \in Providers
  PROVE  /\ Decayed(p) \in Circuit /\ Decayed(p).lastDecay \in Nat
         /\ Decayed(p).openAt = circuit[p].openAt
<1>. DEFINE data == IF circuit[p].lastDecay = None THEN [circuit[p] EXCEPT !.lastDecay = now]
                                                   ELSE circuit[p]
<1>1. /\ data \in Circuit /\ data.lastDecay \in Nat /\ data.openAt = circuit[p].openAt
      /\ now \in Nat
  BY DEF CircuitTypes, Circuit
<1>2. Decayed(p) = ApplyDecay(data)  BY DEF Decayed
<1>. HIDE DEF data
<1>. QED  BY <1>1, <1>2, ApplyDecayForm

\* A circuit that admits a request is closed.
LEMMA AdmittedForm ==
  ASSUME CircuitTypes, NEW p \in Providers
  PROVE  Admitted(p) \in Circuit /\ Admitted(p).openAt = None
BY DecayedForm DEF Admitted, Circuit

\* A success lowers the score and opens or closes nothing.
LEMMA CreditedForm ==
  ASSUME CircuitTypes, NEW p \in Providers
  PROVE  Credited(p) \in Circuit /\ Credited(p).openAt = circuit[p].openAt
<1>1. circuit[p] \in Circuit /\ circuit[p].score - Credit \in Int
  BY FetchAssumption DEF CircuitTypes, Circuit
<1>2. Floor0(circuit[p].score - Credit) \in Nat  BY <1>1, FloorForm
<1>. QED  BY <1>1, <1>2 DEF Credited, Circuit

\* A ban signal opens a circuit, and leaves an open one as it is.
LEMMA BannedForm ==
  ASSUME CircuitTypes, NEW p \in Providers, NEW delta \in BanDeltas
  PROVE  /\ Banned(p, delta) \in Circuit
         /\ circuit[p].openAt # None => Banned(p, delta).openAt = circuit[p].openAt
<1>. DEFINE data == [Decayed(p) EXCEPT !.score = @ + delta]
            trip == IF data.score >= CircuitThreshold /\ data.openAt = None
                      THEN [data EXCEPT !.openAt = now] ELSE data
<1>1. /\ data \in Circuit /\ data.lastDecay \in Nat
      /\ data.openAt = circuit[p].openAt
  BY DecayedForm, FetchAssumption DEF Circuit
<1>2. /\ trip \in Circuit /\ trip.lastDecay \in Nat /\ now \in Nat
      /\ circuit[p].openAt # None => trip.openAt = circuit[p].openAt
  <2>. HIDE DEF data
  <2>. QED  BY <1>1 DEF CircuitTypes, Circuit
<1>3. Banned(p, delta) = ApplyDecay(trip)  BY DEF Banned
<1>. HIDE DEF trip
<1>. QED  BY <1>2, <1>3, ApplyDecayForm

\* A write to one circuit that keeps its openAt, or finds it not in cooldown.
LEMMA SetCircuitForm ==
  ASSUME CircuitTypes, now' \in Nat, NEW p \in Providers, NEW d \in Circuit, SetCircuit(p, d),
         \/ d.openAt = circuit[p].openAt
         \/ circuit[p].openAt = None
         \/ ~Cooling(p)
  PROVE  CircuitTypes' /\ KeepsCooldown /\ circuit'[p] = d
<1>1. /\ circuit' \in [Providers -> Circuit] /\ circuit'[p] = d
      /\ \A q \in Providers : q # p => circuit'[q] = circuit[q]
  BY DEF SetCircuit, CircuitTypes
<1>2. circuit[p].openAt \in Nat \cup {None}  BY DEF CircuitTypes, Circuit
<1>3. ASSUME ~Cooling(p), circuit[p].openAt # None
      PROVE  now >= circuit[p].openAt + Interval
  BY <1>2, <1>3, FetchAssumption DEF Cooling, CoolingDown, CircuitTypes
<1>. QED  BY <1>1, <1>3 DEF KeepsCooldown, CircuitTypes

\* Admission leaves the circuit closed.
LEMMA AsksForm ==
  ASSUME CircuitTypes, now' \in Nat, NEW f \in Flows, Asks(f)
  PROVE  CircuitTypes' /\ KeepsCooldown /\ ~CoolingDown(circuit'[ProviderOf(f)])
<1>1. ProviderOf(f) \in Providers  BY DEF ProviderOf, Flows
<1>2. Admitted(ProviderOf(f)) \in Circuit /\ Admitted(ProviderOf(f)).openAt = None
  BY <1>1, AdmittedForm
<1>3. SetCircuit(ProviderOf(f), Admitted(ProviderOf(f))) /\ ~Cooling(ProviderOf(f))
  BY DEF Asks
<1>4. /\ CircuitTypes' /\ KeepsCooldown
      /\ circuit'[ProviderOf(f)] = Admitted(ProviderOf(f))
  BY <1>1, <1>2, <1>3, SetCircuitForm
<1>. QED  BY <1>2, <1>4 DEF CoolingDown

\* A step that writes no circuit.
LEMMA SameCircuits ==
  ASSUME CircuitTypes, now' \in Nat, UNCHANGED circuit
  PROVE  CircuitTypes' /\ KeepsCooldown
BY DEF CircuitTypes, KeepsCooldown

\* Every step, whatever it does, writes circuits so.
LEMMA FlowCircuits ==
  ASSUME CircuitTypes, NEW f \in Flows, FlowSteps(f)
  PROVE  CircuitTypes' /\ KeepsCooldown
<1>. DEFINE p == ProviderOf(f)
<1>1. p \in Providers  BY DEF ProviderOf, Flows
<1>2. now' \in Nat
  BY DEF CircuitTypes, FlowSteps, AskRefused, AskCached, AskLimited, AskAdmitted, BrowserFails,
         SearchArrives, DetailArrives, DetailUnparsed, FetchBanned, FetchFails,
         KeepsFetchWorld, worldVars
<1>3. CASE AskRefused(f)
  BY <1>1, <1>2, <1>3, DecayedForm, SetCircuitForm DEF AskRefused
<1>4. CASE AskCached(f) \/ AskLimited(f) \/ AskAdmitted(f)
  BY <1>2, <1>4, AsksForm DEF AskCached, AskLimited, AskAdmitted
<1>5. CASE BrowserFails(f) \/ DetailUnparsed(f) \/ FetchFails(f)
  BY <1>2, <1>5, SameCircuits DEF BrowserFails, DetailUnparsed, FetchFails
<1>6. CASE SearchArrives(f)
  <2>1. UNCHANGED circuit \/ SetCircuit(p, Credited(p))  BY <1>6 DEF SearchArrives
  <2>. QED  BY <1>1, <1>2, <2>1, SameCircuits, CreditedForm, SetCircuitForm
<1>7. CASE DetailArrives(f)
  <2>1. SetCircuit(p, Credited(p))  BY <1>7 DEF DetailArrives
  <2>. QED  BY <1>1, <1>2, <2>1, CreditedForm, SetCircuitForm
<1>8. CASE FetchBanned(f)
  <2>1. PICK delta \in BanDeltas : SetCircuit(p, Banned(p, delta))  BY <1>8 DEF FetchBanned
  <2>. QED  BY <1>1, <1>2, <2>1, BannedForm, SetCircuitForm
<1>. QED  BY <1>3, <1>4, <1>5, <1>6, <1>7, <1>8 DEF FlowSteps

\* Every step keeps the circuits typed and their cooldowns.
LEMMA StepCircuits ==
  ASSUME CircuitTypes, [Next]_vars
  PROVE  CircuitTypes' /\ KeepsCooldown
<1>1. CASE \E f \in Flows : FlowSteps(f)  BY <1>1, FlowCircuits
<1>2. ASSUME NEW x \in Broadcasts, NEW nth, NEW allowed, Fanout(x, nth, allowed), UNCHANGED now
      PROVE  CircuitTypes' /\ KeepsCooldown
  <2>1. circuit' = [p \in Providers |-> Decayed(p)]  BY <1>2 DEF Fanout
  <2>2. \A p \in Providers : Decayed(p) \in Circuit /\ Decayed(p).openAt = circuit[p].openAt
    BY DecayedForm
  <2>. QED  BY <1>2, <2>1, <2>2 DEF CircuitTypes, KeepsCooldown
<1>3. CASE \E x \in Broadcasts : Broadcast(x) \/ BroadcastAgain(x)
  BY <1>2, <1>3 DEF Broadcast, BroadcastAgain, worldVars
<1>4. CASE \E x \in Broadcasts : BroadcastEnds(x)
  BY <1>4, SameCircuits DEF BroadcastEnds, worldVars, CircuitTypes
<1>5. CASE Tick
  BY <1>5, SameCircuits DEF Tick, CircuitTypes
<1>6. CASE UNCHANGED vars
  BY <1>6, SameCircuits DEF vars, worldVars, CircuitTypes
<1>. QED  BY <1>1, <1>3, <1>4, <1>5, <1>6 DEF Next, Progress

\* Circuits are typed in every reachable state.
LEMMA CircuitsHold == Spec => []CircuitTypes
<1>1. Init => CircuitTypes  BY DEF Init, CircuitTypes, Circuit
<1>. QED  BY <1>1, StepCircuits, PTL DEF Spec

\* The cooldown of an open circuit runs its whole time: neither a ban signal nor a success
\* of a fetch still under way, nor the decay, changes openAt before it is over.
THEOREM CooldownsKept == Spec => CooldownKept
<1>1. CircuitTypes /\ [Next]_vars =>
        [\A p \in Providers :
           circuit[p].openAt # None /\ circuit'[p].openAt # circuit[p].openAt
             => now >= circuit[p].openAt + Interval]_vars
  BY StepCircuits DEF KeepsCooldown
<1>. QED  BY <1>1, CircuitsHold, PTL DEF Spec, CooldownKept

-----------------------------------------------------------------------------
(* Pages fetched late, and the other types *)

FlowTypes ==
  /\ page \in [Flows -> 0..MaxCandidates] /\ found \in [Flows -> 0..MaxCandidates]
  /\ searches \in [Providers -> 0..MaxCandidates]
  /\ details \subseteq Providers \X (1..MaxCandidates)
  /\ round \in [Broadcasts -> 0..2] /\ offered \in [Broadcasts -> BOOLEAN]

CountTypes ==
  /\ tokens \in [Buckets -> Nat] /\ \A b \in Buckets : tokens[b] <= Full(b)
  /\ starts \in Nat /\ now \in Nat /\ since \in 0..now /\ sent \in [Providers -> Nat]

\* At most one page came after the trip, and none while the flow waits for a slot.
LateAtMostOnce ==
  /\ late \in [Flows -> Nat]
  /\ \A f \in Flows : late[f] <= 1 /\ (pc[f] = "queued" => late[f] = 0)

FetchInvariant == PoolInvariant /\ CircuitTypes /\ FlowTypes /\ CountTypes /\ LateAtMostOnce

\* A full bucket holds a natural number of parts.
LEMMA LimitForm ==
  \A b \in Buckets : Limit(b) \in Nat /\ Full(b) = Limit(b) * Minute /\ Full(b) \in Nat
BY FetchAssumption DEF Limit, Full

\* A token is taken only where there is one.
LEMMA TokensForm ==
  ASSUME CountTypes, NEW p \in Providers, tokens' = TokensLeft(p)
  PROVE  tokens' \in [Buckets -> Nat] /\ \A b \in Buckets : tokens'[b] <= Full(b)
<1>. DEFINE Takes(b) == \E i \in 1..3 : b = Asked(p)[i] /\ \A j \in 1..i : HasToken(Asked(p)[j])
<1>1. tokens' = [b \in Buckets |-> IF Takes(b) THEN tokens[b] - Minute ELSE tokens[b]]
  BY DEF TokensLeft
<1>2. ASSUME NEW b \in Buckets, Takes(b)  PROVE tokens[b] >= Minute
  <2>1. PICK i \in 1..3 : b = Asked(p)[i] /\ \A j \in 1..i : HasToken(Asked(p)[j])
    BY <1>2
  <2>2. i \in 1..i  OBVIOUS
  <2>. QED  BY <2>1, <2>2 DEF HasToken
<1>. HIDE DEF Takes
<1>3. ASSUME NEW b \in Buckets  PROVE tokens'[b] \in Nat /\ tokens'[b] <= Full(b)
  BY <1>1, <1>2, LimitForm, FetchAssumption DEF CountTypes
<1>. QED  BY <1>1, <1>3

\* The flow that a released slot goes to was waiting.
LEMMA HandedWaits ==
  ASSUME PoolInvariant
  PROVE  \A g \in Handed : g \in Flows /\ pc[g] = "queued"
<1>1. queue \in Seq(Flows) /\ Waiting = Queued  BY DEF PoolInvariant, PoolTypes, Shared
<1>2. CASE queue # <<>>
  <2>1. Head(queue) = queue[1] /\ 1 \in 1..Len(queue)  BY <1>1, <1>2
  <2>. QED  BY <1>1, <1>2, <2>1 DEF Handed, Waiting, Queued
<1>. QED  BY <1>2 DEF Handed

\* Going on keeps the page in range and the count of late pages low.
LEMMA AdvanceForm ==
  ASSUME FlowTypes, PoolTypes, LateAtMostOnce, NEW f \in Flows, NEW n \in 0..MaxCandidates, NEW handed,
         \A g \in handed : g \in Flows /\ pc[g] = "queued", Advance(f, n, handed)
  PROVE  /\ page' \in [Flows -> 0..MaxCandidates] /\ found' \in [Flows -> 0..MaxCandidates]
         /\ LateAtMostOnce'
<1>1. /\ page' = [page EXCEPT ![f] = IF page[f] < n THEN @ + 1 ELSE 0]
      /\ found' = [found EXCEPT ![f] = IF page[f] < n THEN n ELSE 0]
      /\ late' = [g \in Flows |-> IF g = f THEN (IF page[f] < n THEN late[g] ELSE 0)
                                  ELSE IF g \in handed THEN SentLate(g, 1) ELSE late[g]]
      /\ pc' = [g \in Flows |-> IF g = f THEN (IF page[f] < n THEN "ask" ELSE "idle")
                                ELSE IF g \in handed THEN "browser" ELSE pc[g]]
  BY DEF Advance
<1>2. page' \in [Flows -> 0..MaxCandidates] /\ found' \in [Flows -> 0..MaxCandidates]
  BY <1>1, FetchAssumption DEF FlowTypes
<1>3. \A g \in handed : SentLate(g, 1) \in {0, 1}
  BY DEF SentLate, LateAtMostOnce
<1>4. \A g \in Flows : /\ late'[g] \in Nat /\ late'[g] <= 1
                       /\ pc'[g] = "queued" => late'[g] = 0
  BY <1>1, <1>3 DEF LateAtMostOnce
<1>. QED  BY <1>1, <1>2, <1>4 DEF LateAtMostOnce

\* The types of what a flow's steps write, but for pages, circuits and the pool.
LEMMA OfferedForm ==
  ASSUME FlowTypes, NEW f \in Flows, MayOffer(f)
  PROVE  offered' \in [Broadcasts -> BOOLEAN]
BY DEF MayOffer, FlowTypes

\* A step that takes no token and starts nothing.
LEMMA SameCounts ==
  ASSUME CountTypes, UNCHANGED <<tokens, worldVars, sentVars>>
  PROVE  CountTypes'
BY DEF CountTypes, worldVars, sentVars

\* A page that is asked for, whatever the answer.
LEMMA AskForm ==
  ASSUME FetchInvariant, NEW f \in Flows,
         AskRefused(f) \/ AskCached(f) \/ AskLimited(f) \/ AskAdmitted(f)
  PROVE  FlowTypes' /\ CountTypes' /\ LateAtMostOnce'
<1>0. /\ FlowTypes /\ PoolTypes /\ CountTypes /\ LateAtMostOnce /\ CircuitTypes
      /\ ProviderOf(f) \in Providers
      /\ found[f] \in 0..MaxCandidates /\ searches[ProviderOf(f)] \in 0..MaxCandidates
  BY DEF FetchInvariant, PoolInvariant, FlowTypes, Flows, ProviderOf
<1>1. CASE AskRefused(f)
  <2>1. Advance(f, found[f], {}) /\ UNCHANGED <<cacheVars, round, offered, tokens, worldVars, sentVars>>
    BY <1>1 DEF AskRefused
  <2>2. /\ page' \in [Flows -> 0..MaxCandidates] /\ found' \in [Flows -> 0..MaxCandidates]
        /\ LateAtMostOnce'
    BY <1>0, <2>1, AdvanceForm
  <2>. QED  BY <1>0, <2>1, <2>2, SameCounts DEF FlowTypes, cacheVars
<1>2. CASE AskCached(f)
  <2>1. PICK n \in 0..MaxCandidates : Advance(f, n, {})  BY <1>0, <1>2 DEF AskCached
  <2>2. MayOffer(f) /\ UNCHANGED <<cacheVars, round, tokens, worldVars, sentVars>>
    BY <1>2 DEF AskCached
  <2>3. /\ page' \in [Flows -> 0..MaxCandidates] /\ found' \in [Flows -> 0..MaxCandidates]
        /\ LateAtMostOnce'
    BY <1>0, <2>1, AdvanceForm
  <2>. QED  BY <1>0, <2>2, <2>3, SameCounts, OfferedForm DEF FlowTypes, cacheVars
<1>3. CASE AskLimited(f)
  <2>1. /\ Advance(f, found[f], {}) /\ UNCHANGED <<cacheVars, round, offered, worldVars, sentVars>>
        /\ tokens' = TokensLeft(ProviderOf(f))
    BY <1>3 DEF AskLimited
  <2>2. /\ page' \in [Flows -> 0..MaxCandidates] /\ found' \in [Flows -> 0..MaxCandidates]
        /\ LateAtMostOnce'
    BY <1>0, <2>1, AdvanceForm
  <2>3. CountTypes'  BY <1>0, <2>1, TokensForm DEF CountTypes, worldVars, sentVars
  <2>. QED  BY <1>0, <2>1, <2>2, <2>3 DEF FlowTypes, cacheVars
<1>4. CASE AskAdmitted(f)
  <2>1. /\ UNCHANGED <<cacheVars, page, found, round, offered, starts, since>>
        /\ tokens' = TokensLeft(ProviderOf(f))
        /\ sent' = [sent EXCEPT ![ProviderOf(f)] = @ + 1]
        /\ pc' = [pc EXCEPT ![f] = IF queue' = queue THEN "browser" ELSE "queued"]
        /\ late' = [late EXCEPT ![f] = SentLate(f, IF queue' = queue THEN 1 ELSE 0)]
        /\ Asks(f) /\ UNCHANGED now
    BY <1>4 DEF AskAdmitted, worldVars
  <2>2. ~CoolingDown(circuit'[ProviderOf(f)])
    BY <1>0, <2>1, AsksForm DEF CircuitTypes
  <2>3. late' = [late EXCEPT ![f] = 0]  BY <2>1, <2>2 DEF SentLate
  <2>4. LateAtMostOnce'  BY <1>0, <2>1, <2>3 DEF LateAtMostOnce, PoolTypes
  <2>5. FlowTypes'  BY <1>0, <2>1 DEF FlowTypes, cacheVars
  <2>6. CountTypes'  BY <1>0, <2>1, TokensForm DEF CountTypes
  <2>. QED  BY <2>4, <2>5, <2>6
<1>. QED  BY <1>1, <1>2, <1>3, <1>4

\* A page that is fetched, whatever comes of it.
LEMMA FetchForm ==
  ASSUME FetchInvariant, NEW f \in Flows,
         \/ BrowserFails(f) \/ SearchArrives(f) \/ DetailArrives(f) \/ DetailUnparsed(f)
         \/ FetchBanned(f) \/ FetchFails(f)
  PROVE  FlowTypes' /\ CountTypes' /\ LateAtMostOnce'
<1>0. /\ FlowTypes /\ PoolTypes /\ CountTypes /\ LateAtMostOnce
      /\ ProviderOf(f) \in Providers
      /\ found[f] \in 0..MaxCandidates /\ page[f] \in 0..MaxCandidates
      /\ \A g \in Handed : g \in Flows /\ pc[g] = "queued"
  BY HandedWaits DEF FetchInvariant, PoolInvariant, FlowTypes, Flows, ProviderOf
<1>1. KeepsFetchWorld
  BY DEF BrowserFails, SearchArrives, DetailArrives, DetailUnparsed, FetchBanned, FetchFails
<1>2. CountTypes' /\ UNCHANGED round
  BY <1>0, <1>1, SameCounts DEF KeepsFetchWorld
<1>3. CASE BrowserFails(f)
  <2>1. /\ UNCHANGED <<cacheVars, page, found, offered, late>>
        /\ pc' = [pc EXCEPT ![f] = "fallback"]
    BY <1>3 DEF BrowserFails
  <2>2. FlowTypes'  BY <1>0, <1>2, <2>1 DEF FlowTypes, cacheVars
  <2>3. LateAtMostOnce'  BY <1>0, <2>1 DEF LateAtMostOnce, PoolTypes
  <2>. QED  BY <1>2, <2>2, <2>3
<1>4. CASE SearchArrives(f)
  <2>1. PICK n \in 0..MaxCandidates :
          /\ searches' = [searches EXCEPT ![ProviderOf(f)] = n] \/ UNCHANGED searches
          /\ Advance(f, n, Handed)
    BY <1>4 DEF SearchArrives
  <2>2. UNCHANGED <<details, offered>>  BY <1>4 DEF SearchArrives
  <2>3. /\ page' \in [Flows -> 0..MaxCandidates] /\ found' \in [Flows -> 0..MaxCandidates]
        /\ LateAtMostOnce'
    BY <1>0, <2>1, AdvanceForm
  <2>. QED  BY <1>0, <1>2, <2>1, <2>2, <2>3 DEF FlowTypes
<1>5. CASE DetailArrives(f)
  <2>1. /\ page[f] > 0 /\ details' = details \cup {<<ProviderOf(f), page[f]>>}
        /\ MayOffer(f) /\ Advance(f, found[f], Handed) /\ UNCHANGED searches
    BY <1>5 DEF DetailArrives
  <2>2. /\ page' \in [Flows -> 0..MaxCandidates] /\ found' \in [Flows -> 0..MaxCandidates]
        /\ LateAtMostOnce'
    BY <1>0, <2>1, AdvanceForm
  <2>3. details' \subseteq Providers \X (1..MaxCandidates)
    BY <1>0, <2>1 DEF FlowTypes
  <2>. QED  BY <1>0, <1>2, <2>1, <2>2, <2>3, OfferedForm DEF FlowTypes
<1>6. CASE DetailUnparsed(f) \/ FetchBanned(f) \/ FetchFails(f)
  <2>1. Advance(f, found[f], Handed) /\ UNCHANGED <<cacheVars, offered>>
    BY <1>6 DEF DetailUnparsed, FetchBanned, FetchFails
  <2>2. /\ page' \in [Flows -> 0..MaxCandidates] /\ found' \in [Flows -> 0..MaxCandidates]
        /\ LateAtMostOnce'
    BY <1>0, <2>1, AdvanceForm
  <2>. QED  BY <1>0, <1>2, <2>1, <2>2 DEF FlowTypes, cacheVars
<1>. QED  BY <1>3, <1>4, <1>5, <1>6

\* A fanout.
LEMMA FanoutForm ==
  ASSUME FetchInvariant, NEW x \in Broadcasts, NEW nth \in 1..2, NEW allowed,
         Fanout(x, nth, allowed), starts' \in Nat, UNCHANGED now
  PROVE  FlowTypes' /\ CountTypes' /\ LateAtMostOnce'
<1>. DEFINE reached == {p \in allowed : ~Cooling(p)}
<1>0. FlowTypes /\ CountTypes /\ LateAtMostOnce /\ PoolTypes
  BY DEF FetchInvariant, PoolInvariant
<1>1. /\ round' = [round EXCEPT ![x] = IF reached = {} THEN 0 ELSE nth]
      /\ offered' = [offered EXCEPT ![x] = FALSE]
      /\ pc' = [f \in Flows |-> IF f \in {x} \X reached THEN "ask" ELSE pc[f]]
      /\ UNCHANGED <<tokens, cacheVars, page, found, sentVars, late>>
  BY DEF Fanout
<1>. HIDE DEF reached
<1>2. FlowTypes'  BY <1>0, <1>1 DEF FlowTypes, cacheVars
<1>3. CountTypes'  BY <1>0, <1>1 DEF CountTypes, sentVars
<1>4. LateAtMostOnce'  BY <1>0, <1>1 DEF LateAtMostOnce
<1>. QED  BY <1>2, <1>3, <1>4

\* Every step keeps the other types, and late pages rare.
LEMMA StepForm ==
  ASSUME FetchInvariant, [Next]_vars
  PROVE  FlowTypes' /\ CountTypes' /\ LateAtMostOnce'
<1>0. FlowTypes /\ CountTypes /\ LateAtMostOnce /\ PoolTypes
  BY DEF FetchInvariant, PoolInvariant
<1>1. CASE \E f \in Flows : FlowSteps(f)
  BY <1>1, AskForm, FetchForm DEF FlowSteps
<1>2. CASE \E x \in Broadcasts : Broadcast(x)
  <2>1. PICK x \in Broadcasts, allowed \in {Providers, {}} :
          Fanout(x, 1, allowed) /\ starts' = starts + 1 /\ UNCHANGED now
    BY <1>2 DEF Broadcast
  <2>2. starts' \in Nat  BY <1>0, <2>1 DEF CountTypes
  <2>. QED  BY <2>1, <2>2, FanoutForm
<1>3. CASE \E x \in Broadcasts : BroadcastAgain(x)
  BY <1>0, <1>3, FanoutForm DEF BroadcastAgain, worldVars, CountTypes
<1>4. CASE \E x \in Broadcasts : BroadcastEnds(x)
  <2>1. PICK x \in Broadcasts : BroadcastEnds(x)  BY <1>4
  <2>2. /\ round' = [round EXCEPT ![x] = 0] /\ offered' = [offered EXCEPT ![x] = FALSE]
        /\ UNCHANGED <<tokens, cacheVars, flowVars, worldVars, sentVars, late>>
    BY <2>1 DEF BroadcastEnds
  <2>. QED  BY <1>0, <2>2 DEF FlowTypes, CountTypes, LateAtMostOnce, cacheVars, flowVars, worldVars,
                            sentVars
<1>5. CASE Tick
  <2>1. /\ tokens' = [b \in Buckets |-> Refilled(b)] /\ now' = now + 1 /\ CacheExpires /\ CountsOn
        /\ UNCHANGED <<flowVars, round, offered, starts, late>>
    BY <1>5 DEF Tick
  <2>2. FlowTypes'
    <3>1. PICK expired \in SUBSET Providers :
            searches' = [p \in Providers |-> IF p \in expired THEN 0 ELSE searches[p]]
      BY <2>1 DEF CacheExpires
    <3>2. details' \subseteq details  BY <2>1 DEF CacheExpires
    <3>. QED  BY <1>0, <2>1, <3>1, <3>2, FetchAssumption DEF FlowTypes, flowVars
  <2>3. CountTypes'
    <3>1. \A b \in Buckets : tokens'[b] \in Nat /\ tokens'[b] <= Full(b)
      BY <1>0, <2>1, LimitForm DEF CountTypes, Refilled
    <3>2. since' \in 0..now' /\ sent' \in [Providers -> Nat]
      BY <1>0, <2>1 DEF CountTypes, CountsOn, sentVars
    <3>. QED  BY <1>0, <2>1, <3>1, <3>2 DEF CountTypes
  <2>4. LateAtMostOnce'  BY <1>0, <2>1 DEF LateAtMostOnce, flowVars
  <2>. QED  BY <2>2, <2>3, <2>4
<1>6. CASE UNCHANGED vars
  BY <1>0, <1>6 DEF vars, FlowTypes, CountTypes, LateAtMostOnce, cacheVars, flowVars, worldVars,
                   sentVars
<1>. QED  BY <1>1, <1>2, <1>3, <1>4, <1>5, <1>6 DEF Next, Progress

\* The whole invariant in every reachable state.
LEMMA FetchHolds == Spec => []FetchInvariant
<1>1. Init => FetchInvariant
  <2>. SUFFICES ASSUME Init PROVE FetchInvariant  OBVIOUS
  <2>1. PoolInvariant  BY InitPool
  <2>2. CircuitTypes  BY DEF Init, CircuitTypes, Circuit
  <2>3. FlowTypes  BY FetchAssumption DEF Init, FlowTypes
  <2>4. CountTypes  BY LimitForm DEF Init, CountTypes
  <2>5. LateAtMostOnce  BY DEF Init, LateAtMostOnce
  <2>. QED  BY <2>1, <2>2, <2>3, <2>4, <2>5 DEF FetchInvariant
<1>2. FetchInvariant /\ PoolInvariant' /\ [Next]_vars => FetchInvariant'
  BY StepForm, StepCircuits DEF FetchInvariant
<1>. QED  BY <1>1, <1>2, PoolHolds, PTL DEF Spec

\* Every variable of the fetch path stays within its type, whatever the numbers.
THEOREM TypeCorrect == Spec => []TypeOK
<1>1. FetchInvariant => TypeOK
  BY DEF FetchInvariant, PoolInvariant, PoolTypes, CircuitTypes, Circuit, FlowTypes, CountTypes,
         LateAtMostOnce, TypeOK
<1>. QED  BY <1>1, FetchHolds, PTL

\* After the trip of a provider's circuit each search in progress fetches at most one more
\* page from it, for any queue, any number of broadcasts and any number of candidates.
THEOREM TrippedLeftAlone == Spec => []TrippedIsLeftAlone
<1>1. FetchInvariant => TrippedIsLeftAlone
  BY DEF FetchInvariant, LateAtMostOnce, TrippedIsLeftAlone
<1>. QED  BY <1>1, FetchHolds, PTL

-----------------------------------------------------------------------------
(* The rate *)

\* The minutes that the count may fill, in ticks.
Span == Minute + (now - since)

\* What the count admitted and what is left do not exceed a full bucket and its refill.
RateCovered ==
  /\ IsFiniteSet(AdmittedPages)
  /\ Cardinality(AdmittedPages) * Minute + tokens[<<"global">>] <= GlobalLimit * Span
  /\ \A p \in Providers, k \in {"provider", "domain"} :
       sent[p] * Minute + tokens[<<k, p>>] <= Limit(<<k, p>>) * Span

\* One more of something.
LEMMA OnceMore == \A a, b \in Nat : (a + 1) * b = a * b + b /\ a * b \in Nat
OBVIOUS

\* The span of a count is a number of ticks.
LEMMA SpanForm == ASSUME CountTypes PROVE Span \in Nat
BY FetchAssumption DEF CountTypes, Span

\* The buckets that a request asks.
LEMMA AskedBuckets ==
  ASSUME NEW p \in Providers
  PROVE  /\ Asked(p)[1] = <<"global">> /\ Asked(p)[2] = <<"provider", p>>
         /\ Asked(p)[3] = <<"domain", p>>
         /\ <<"global">> \in Buckets
         /\ \A k \in {"provider", "domain"} : <<k, p>> \in Buckets
BY DEF Asked, Buckets

\* The bucket that all share.
LEMMA AskedGlobal == <<"global">> \in Buckets
BY DEF Buckets

\* A request never adds to a bucket, and one that is admitted takes a token from each.
LEMMA TokensTaken ==
  ASSUME CountTypes, NEW p \in Providers, tokens' = TokensLeft(p)
  PROVE  /\ \A b \in Buckets : tokens'[b] <= tokens[b]
         /\ Allowed(p) => /\ tokens'[<<"global">>] = tokens[<<"global">>] - Minute
                          /\ \A k \in {"provider", "domain"} :
                               tokens'[<<k, p>>] = tokens[<<k, p>>] - Minute
<1>. DEFINE Takes(b) == \E i \in 1..3 : b = Asked(p)[i] /\ \A j \in 1..i : HasToken(Asked(p)[j])
<1>1. tokens' = [b \in Buckets |-> IF Takes(b) THEN tokens[b] - Minute ELSE tokens[b]]
  BY DEF TokensLeft
<1>2. ASSUME Allowed(p)  PROVE \A i \in 1..3 : Takes(Asked(p)[i])
  BY <1>2 DEF Allowed
<1>. HIDE DEF Takes
<1>3. \A b \in Buckets : tokens'[b] <= tokens[b]
  BY <1>1, FetchAssumption DEF CountTypes
<1>4. ASSUME Allowed(p)
      PROVE  /\ Takes(<<"global">>) /\ Takes(<<"provider", p>>) /\ Takes(<<"domain", p>>)
  <2>1. Takes(Asked(p)[1]) /\ Takes(Asked(p)[2]) /\ Takes(Asked(p)[3])
    BY <1>2, <1>4
  <2>. QED  BY <2>1, AskedBuckets, Zenon
<1>. QED  BY <1>1, <1>3, <1>4, AskedBuckets

\* One more page of one provider.
LEMMA OnePageMore ==
  ASSUME CountTypes, IsFiniteSet(AdmittedPages), NEW p \in Providers,
         sent' = [sent EXCEPT ![p] = @ + 1]
  PROVE  /\ IsFiniteSet(AdmittedPages')
         /\ Cardinality(AdmittedPages') = Cardinality(AdmittedPages) + 1
<1>. DEFINE new == <<p, sent[p] + 1>>
<1>0. /\ sent[p] \in Nat /\ sent'[p] = sent[p] + 1
      /\ \A q \in Providers \ {p} : sent'[q] = sent[q]
  BY DEF CountTypes
<1>1. AdmittedPages' = AdmittedPages \cup {new}
  <2>1. ASSUME NEW c  PROVE c \in AdmittedPages' <=> c \in AdmittedPages \/ c = new
    <3>1. c \in AdmittedPages' <=> \E q \in Providers : c \in {q} \X (1..sent'[q])
      BY DEF AdmittedPages, Pages
    <3>2. c \in AdmittedPages <=> \E q \in Providers : c \in {q} \X (1..sent[q])
      BY DEF AdmittedPages, Pages
    <3>3. c \in {p} \X (1..sent'[p]) <=> c \in {p} \X (1..sent[p]) \/ c = new
      BY <1>0
    <3>4. \A q \in Providers \ {p} : {q} \X (1..sent'[q]) = {q} \X (1..sent[q])
      BY <1>0
    <3>. HIDE DEF new
    <3>. QED  BY <3>1, <3>2, <3>3, <3>4
  <2>. QED  BY <2>1
<1>2. new \notin AdmittedPages
  BY <1>0 DEF AdmittedPages, Pages
<1>3. IsFiniteSet(AdmittedPages \cup {new}) /\ Cardinality(AdmittedPages \cup {new}) = Cardinality(AdmittedPages) + 1
  BY <1>2, OneMore
<1>. HIDE DEF new
<1>. QED  BY <1>1, <1>3, Zenon

\* A step that admits nothing and adds to no bucket.
LEMMA NothingAdmitted ==
  ASSUME CountTypes, CountTypes', RateCovered, UNCHANGED <<sent, since, now>>,
         \A b \in Buckets : tokens'[b] <= tokens[b]
  PROVE  RateCovered'
<1>1. AdmittedPages' = AdmittedPages /\ Span' = Span  BY DEF AdmittedPages, Span
<1>2. IsFiniteSet(AdmittedPages) /\ Cardinality(AdmittedPages) \in Nat
  BY FS_CardinalityType DEF RateCovered
<1>3. IsFiniteSet(AdmittedPages') /\ Cardinality(AdmittedPages') = Cardinality(AdmittedPages)
  BY <1>1, <1>2, Zenon
<1>. DEFINE pages == Cardinality(AdmittedPages) * Minute  room == GlobalLimit * Span
<1>4. pages \in Nat /\ room \in Nat  BY <1>2, SpanForm, OnceMore, FetchAssumption
<1>5. pages + tokens[<<"global">>] <= room  BY DEF RateCovered
<1>. HIDE DEF pages, room
<1>6. pages + tokens'[<<"global">>] <= room
  BY <1>4, <1>5, AskedGlobal DEF CountTypes
<1>7. Cardinality(AdmittedPages') * Minute + tokens'[<<"global">>] <= GlobalLimit * Span'
  BY <1>1, <1>3, <1>6 DEF pages, room
<1>8. ASSUME NEW p \in Providers, NEW k \in {"provider", "domain"}
      PROVE  sent'[p] * Minute + tokens'[<<k, p>>] <= Limit(<<k, p>>) * Span'
  <2>. DEFINE mine == sent[p] * Minute  limit == Limit(<<k, p>>) * Span
  <2>1. mine + tokens[<<k, p>>] <= limit  BY DEF RateCovered
  <2>2. <<k, p>> \in Buckets  BY AskedBuckets
  <2>3. mine \in Nat /\ limit \in Nat
    BY <2>2, LimitForm, SpanForm, OnceMore, FetchAssumption DEF CountTypes
  <2>. HIDE DEF mine, limit
  <2>4. mine + tokens'[<<k, p>>] <= limit  BY <2>1, <2>2, <2>3 DEF CountTypes
  <2>. QED  BY <1>1, <2>4 DEF mine, limit
<1>. QED  BY <1>3, <1>7, <1>8 DEF RateCovered

\* A page that is admitted is paid for in each of its three buckets.
LEMMA AdmittedRate ==
  ASSUME FetchInvariant, CountTypes', RateCovered, NEW f \in Flows, AskAdmitted(f)
  PROVE  RateCovered'
<1>. DEFINE p == f[2]
<1>1. /\ Allowed(p) /\ tokens' = TokensLeft(p) /\ sent' = [sent EXCEPT ![p] = @ + 1]
      /\ p \in Providers /\ CountTypes /\ UNCHANGED <<now, since>>
  BY DEF AskAdmitted, ProviderOf, Flows, FetchInvariant, worldVars
<1>. HIDE DEF p
<1>2. /\ tokens'[<<"global">>] = tokens[<<"global">>] - Minute
      /\ \A k \in {"provider", "domain"} : tokens'[<<k, p>>] = tokens[<<k, p>>] - Minute
      /\ \A b \in Buckets : tokens'[b] <= tokens[b]
  BY <1>1, TokensTaken
<1>3. /\ IsFiniteSet(AdmittedPages) /\ Cardinality(AdmittedPages) \in Nat
      /\ IsFiniteSet(AdmittedPages')
      /\ Cardinality(AdmittedPages') = Cardinality(AdmittedPages) + 1
  BY <1>1, OnePageMore, FS_CardinalityType DEF RateCovered
<1>4. Span' = Span /\ Minute \in Nat  BY <1>1, FetchAssumption DEF Span
<1>5. Cardinality(AdmittedPages') * Minute + tokens'[<<"global">>] <= GlobalLimit * Span'
  <2>. DEFINE pages == Cardinality(AdmittedPages) * Minute  room == GlobalLimit * Span
  <2>1. pages + tokens[<<"global">>] <= room  BY DEF RateCovered
  <2>2. pages \in Nat /\ room \in Nat /\ Cardinality(AdmittedPages') * Minute = pages + Minute
    BY <1>1, <1>3, <1>4, SpanForm, OnceMore, FetchAssumption
  <2>. HIDE DEF pages, room
  <2>3. (pages + Minute) + tokens'[<<"global">>] <= room
    BY <1>1, <1>2, <1>4, <2>1, <2>2, AskedGlobal DEF CountTypes
  <2>. QED  BY <1>4, <2>2, <2>3 DEF room
<1>6. ASSUME NEW q \in Providers, NEW k \in {"provider", "domain"}
      PROVE  sent'[q] * Minute + tokens'[<<k, q>>] <= Limit(<<k, q>>) * Span'
  <2>. DEFINE mine == sent[q] * Minute  limit == Limit(<<k, q>>) * Span
  <2>1. mine + tokens[<<k, q>>] <= limit  BY DEF RateCovered
  <2>2. <<k, q>> \in Buckets  BY AskedBuckets
  <2>3. mine \in Nat /\ limit \in Nat
    BY <1>1, <2>2, LimitForm, SpanForm, OnceMore, FetchAssumption DEF CountTypes
  <2>4. tokens[<<k, q>>] \in Nat /\ tokens'[<<k, q>>] \in Nat  BY <1>1, <2>2 DEF CountTypes
  <2>5. CASE q = p
    <3>1. sent'[q] * Minute = mine + Minute
      BY <1>1, <1>4, <2>5, OnceMore DEF CountTypes
    <3>2. tokens'[<<k, q>>] = tokens[<<k, q>>] - Minute  BY <1>2, <2>5
    <3>. HIDE DEF mine, limit
    <3>3. (mine + Minute) + tokens'[<<k, q>>] <= limit  BY <1>4, <2>1, <2>3, <2>4, <3>2
    <3>. QED  BY <1>4, <3>1, <3>3 DEF limit
  <2>6. CASE q # p
    <3>1. sent'[q] = sent[q]  BY <1>1, <2>6 DEF CountTypes
    <3>2. tokens'[<<k, q>>] <= tokens[<<k, q>>]  BY <1>2, <2>2
    <3>. HIDE DEF mine, limit
    <3>3. mine + tokens'[<<k, q>>] <= limit  BY <2>1, <2>3, <2>4, <3>2
    <3>. QED  BY <1>4, <3>1, <3>3 DEF mine, limit
  <2>. QED  BY <2>5, <2>6
<1>. QED  BY <1>3, <1>5, <1>6 DEF RateCovered

\* A count that begins
Fresh == CountTypes /\ AdmittedPages = {} /\ (\A p \in Providers : sent[p] = 0) /\ Span = Minute

\* has all of a full bucket before it.
LEMMA FreshRate == Fresh => RateCovered
<1>. SUFFICES ASSUME Fresh PROVE RateCovered  OBVIOUS
<1>0. CountTypes /\ AdmittedPages = {} /\ (\A p \in Providers : sent[p] = 0) /\ Span = Minute
  BY DEF Fresh
<1>1. IsFiniteSet({}) /\ Cardinality({}) = 0  BY FS_EmptySet
<1>2. IsFiniteSet(AdmittedPages) /\ Cardinality(AdmittedPages) = 0  BY <1>0, <1>1, Zenon
<1>3. 0 * Minute = 0  BY FetchAssumption
<1>4. \A b \in Buckets : tokens[b] \in Nat /\ tokens[b] <= Limit(b) * Span
  BY <1>0, LimitForm DEF CountTypes
<1>5. Limit(<<"global">>) = GlobalLimit  BY DEF Limit
<1>6. Cardinality(AdmittedPages) * Minute + tokens[<<"global">>] <= GlobalLimit * Span
  <2>1. tokens[<<"global">>] \in Nat /\ tokens[<<"global">>] <= GlobalLimit * Span
    BY <1>4, <1>5, AskedGlobal
  <2>2. Cardinality(AdmittedPages) * Minute = 0  BY <1>2, <1>3
  <2>3. 0 + tokens[<<"global">>] <= GlobalLimit * Span  BY <2>1
  <2>. QED  BY <2>2, <2>3
<1>7. ASSUME NEW p \in Providers, NEW k \in {"provider", "domain"}
      PROVE  sent[p] * Minute + tokens[<<k, p>>] <= Limit(<<k, p>>) * Span
  <2>1. tokens[<<k, p>>] \in Nat /\ tokens[<<k, p>>] <= Limit(<<k, p>>) * Span
    BY <1>4, AskedBuckets
  <2>2. sent[p] * Minute = 0  BY <1>0, <1>3
  <2>3. 0 + tokens[<<k, p>>] <= Limit(<<k, p>>) * Span  BY <2>1
  <2>. QED  BY <2>2, <2>3
<1>. QED  BY <1>2, <1>6, <1>7 DEF RateCovered

\* A tick adds one tick's refill to both sides, or begins a new count.
LEMMA RefilledRate ==
  ASSUME CountTypes, CountTypes', RateCovered, Tick
  PROVE  RateCovered'
<1>1. /\ tokens' = [b \in Buckets |-> Refilled(b)] /\ now' = now + 1 /\ CountsOn
  BY DEF Tick
<1>2. \A b \in Buckets : tokens'[b] <= tokens[b] + Limit(b)
  BY <1>1, LimitForm DEF CountTypes, Refilled
<1>3. CASE UNCHANGED sentVars
  <2>1. /\ AdmittedPages' = AdmittedPages /\ UNCHANGED sent /\ Span' = Span + 1
        /\ Span \in Nat
    BY <1>1, <1>3, SpanForm, FetchAssumption DEF sentVars, AdmittedPages, Span, CountTypes
  <2>2. IsFiniteSet(AdmittedPages) /\ Cardinality(AdmittedPages) \in Nat
    BY FS_CardinalityType DEF RateCovered
  <2>3. IsFiniteSet(AdmittedPages') /\ Cardinality(AdmittedPages') = Cardinality(AdmittedPages)
    BY <2>1, <2>2, Zenon
  <2>4. Cardinality(AdmittedPages') * Minute + tokens'[<<"global">>] <= GlobalLimit * Span'
    <3>. DEFINE pages == Cardinality(AdmittedPages) * Minute  room == GlobalLimit * Span
    <3>1. pages + tokens[<<"global">>] <= room  BY DEF RateCovered
    <3>2. pages \in Nat /\ room \in Nat /\ GlobalLimit * Span' = room + GlobalLimit
      BY <2>1, <2>2, OnceMore, FetchAssumption
    <3>3. /\ tokens'[<<"global">>] \in Nat /\ tokens[<<"global">>] \in Nat
          /\ tokens'[<<"global">>] <= tokens[<<"global">>] + GlobalLimit
      BY <1>2, AskedGlobal DEF CountTypes, Limit
    <3>. HIDE DEF pages, room
    <3>4. pages + tokens'[<<"global">>] <= room + GlobalLimit
      BY <3>1, <3>2, <3>3, FetchAssumption
    <3>. QED  BY <2>3, <3>2, <3>4 DEF pages
  <2>5. ASSUME NEW p \in Providers, NEW k \in {"provider", "domain"}
        PROVE  sent'[p] * Minute + tokens'[<<k, p>>] <= Limit(<<k, p>>) * Span'
    <3>. DEFINE b == <<k, p>>  mine == sent[p] * Minute  limit == Limit(b) * Span
    <3>1. mine + tokens[b] <= limit  BY DEF RateCovered
    <3>2. b \in Buckets  BY AskedBuckets
    <3>. HIDE DEF b
    <3>3. /\ mine \in Nat /\ limit \in Nat /\ Limit(b) \in Nat
          /\ Limit(b) * Span' = limit + Limit(b)
      BY <2>1, <3>2, LimitForm, OnceMore, FetchAssumption DEF CountTypes
    <3>4. /\ tokens'[b] \in Nat /\ tokens[b] \in Nat /\ tokens'[b] <= tokens[b] + Limit(b)
      BY <1>2, <3>2 DEF CountTypes
    <3>5. sent'[p] * Minute = mine  BY <2>1
    <3>. HIDE DEF mine, limit
    <3>6. mine + tokens'[b] <= limit + Limit(b)  BY <3>1, <3>3, <3>4
    <3>. QED  BY <3>3, <3>5, <3>6 DEF b
  <2>. QED  BY <2>3, <2>4, <2>5 DEF RateCovered
<1>4. CASE since' = now + 1 /\ sent' = [p \in Providers |-> 0]
  <2>1. AdmittedPages' = {}  BY <1>4 DEF AdmittedPages, Pages
  <2>2. Span' = Minute  BY <1>1, <1>4, FetchAssumption DEF Span, CountTypes
  <2>3. \A p \in Providers : sent'[p] = 0  BY <1>4
  <2>4. Fresh'  BY <2>1, <2>2, <2>3 DEF Fresh
  <2>5. Fresh' => RateCovered'  BY FreshRate, PTL
  <2>. QED  BY <2>4, <2>5
<1>. QED  BY <1>1, <1>3, <1>4 DEF CountsOn

\* Every step keeps the rate.
LEMMA NextRate ==
  ASSUME FetchInvariant, FetchInvariant', RateCovered, [Next]_vars
  PROVE  RateCovered'
<1>0. CountTypes /\ CountTypes'  BY DEF FetchInvariant
<1>1. CASE UNCHANGED <<tokens, now, since, sent>>
  <2>1. \A b \in Buckets : tokens'[b] <= tokens[b]  BY <1>0, <1>1 DEF CountTypes
  <2>. QED  BY <1>0, <1>1, <2>1, NothingAdmitted
<1>2. ASSUME NEW f \in Flows, AskLimited(f)  PROVE RateCovered'
  <2>1. /\ tokens' = TokensLeft(ProviderOf(f)) /\ UNCHANGED <<now, since, sent>>
        /\ ProviderOf(f) \in Providers
    BY <1>2 DEF AskLimited, ProviderOf, Flows, worldVars, sentVars
  <2>. QED  BY <1>0, <2>1, TokensTaken, NothingAdmitted
<1>3. ASSUME NEW f \in Flows, AskAdmitted(f)  PROVE RateCovered'
  BY <1>0, <1>3, AdmittedRate
<1>4. CASE Tick
  BY <1>0, <1>4, RefilledRate
<1>5. ASSUME NEW f \in Flows, FlowSteps(f), ~AskLimited(f), ~AskAdmitted(f)
      PROVE  UNCHANGED <<tokens, now, since, sent>>
  BY <1>5 DEF FlowSteps, AskRefused, AskCached, BrowserFails, SearchArrives, DetailArrives,
              DetailUnparsed, FetchBanned, FetchFails, KeepsFetchWorld, worldVars, sentVars
<1>6. ASSUME NEW x \in Broadcasts, Broadcast(x) \/ BroadcastAgain(x) \/ BroadcastEnds(x)
      PROVE  UNCHANGED <<tokens, now, since, sent>>
  BY <1>6 DEF Broadcast, BroadcastAgain, BroadcastEnds, Fanout, worldVars, sentVars
<1>7. CASE UNCHANGED vars
  BY <1>1, <1>7 DEF vars, worldVars, sentVars
<1>. QED  BY <1>1, <1>2, <1>3, <1>4, <1>5, <1>6, <1>7 DEF Next, Progress

\* Counted from any moment on, no bucket lets through more pages than it holds when full
\* and has been refilled with since, for any number of providers and any limits, in whatever
\* order the searches empty the buckets.
THEOREM RatesKept == Spec => []RateKept
<1>1. Init /\ FetchInvariant => RateCovered
  <2>. SUFFICES ASSUME Init, FetchInvariant PROVE RateCovered  OBVIOUS
  <2>1. AdmittedPages = {}  BY DEF Init, AdmittedPages, Pages
  <2>2. (\A p \in Providers : sent[p] = 0) /\ Span = Minute
    BY FetchAssumption DEF Init, Span
  <2>3. CountTypes  BY DEF FetchInvariant
  <2>. QED  BY <2>1, <2>2, <2>3, FreshRate DEF Fresh
<1>2. FetchInvariant /\ FetchInvariant' /\ RateCovered /\ [Next]_vars => RateCovered'
  BY NextRate
<1>3. FetchInvariant /\ RateCovered => RateKept
  <2>. SUFFICES ASSUME FetchInvariant, RateCovered  PROVE RateKept  OBVIOUS
  <2>1. CountTypes  BY DEF FetchInvariant
  <2>2. Cardinality(AdmittedPages) \in Nat  BY FS_CardinalityType DEF RateCovered
  <2>3. Cardinality(AdmittedPages) * Minute <= GlobalLimit * Span
    <3>. DEFINE pages == Cardinality(AdmittedPages) * Minute  room == GlobalLimit * Span
    <3>1. pages + tokens[<<"global">>] <= room  BY DEF RateCovered
    <3>2. pages \in Nat /\ room \in Nat
      BY <2>1, <2>2, SpanForm, OnceMore, FetchAssumption
    <3>. HIDE DEF pages, room
    <3>3. pages <= room  BY <2>1, <3>1, <3>2, AskedGlobal DEF CountTypes
    <3>. QED  BY <3>3 DEF pages, room
  <2>4. ASSUME NEW p \in Providers, NEW k \in {"provider", "domain"}
        PROVE  sent[p] * Minute <= Limit(<<k, p>>) * Span
    <3>. DEFINE mine == sent[p] * Minute  limit == Limit(<<k, p>>) * Span
    <3>1. mine + tokens[<<k, p>>] <= limit  BY DEF RateCovered
    <3>2. <<k, p>> \in Buckets  BY AskedBuckets
    <3>3. mine \in Nat /\ limit \in Nat
      BY <2>1, <3>2, LimitForm, SpanForm, OnceMore, FetchAssumption DEF CountTypes
    <3>. HIDE DEF mine, limit
    <3>4. mine <= limit  BY <2>1, <3>1, <3>2, <3>3 DEF CountTypes
    <3>. QED  BY <3>4 DEF mine, limit
  <2>. QED  BY <2>3, <2>4 DEF RateKept, Span
<1>. QED  BY <1>1, <1>2, <1>3, FetchHolds, PTL DEF Spec
=============================================================================
