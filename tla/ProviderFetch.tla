---------------------------- MODULE ProviderFetch ----------------------------
(***************************************************************************)
(* The market's requests to shop sites.  A broadcast fans out to every     *)
(* provider whose circuit is not open; each provider is searched and then  *)
(* asked for the details of what was found, page after page.  A page is    *)
(* fetched only past the provider's circuit breaker, the cache, the rate   *)
(* limiter and the pool of fetch slots that all providers share.           *)
(*                                                                         *)
(* No redisClient is ever installed, so circuits, cache and buckets live   *)
(* in memory and a handler runs on from one fetch, or one wait for a slot, *)
(* to the next: that is a step.  Scores are counted in half points, time   *)
(* in ticks, Minute of them to the minute, and the fractional tokens of a  *)
(* bucket in parts, Minute of them to the token: a tick adds Limit parts.  *)
(***************************************************************************)
EXTENDS Integers, Sequences, FiniteSets

CONSTANTS
  Providers, Broadcasts,
  MaxGlobalConcurrency,                       \* fetch slots
  MaxCandidates,                              \* details asked for after a search
  CircuitThreshold, DecayAmount, Credit,      \* in half points
  BanDeltas,                                  \* score_delta of the ban signals, in half points
  Interval,                                   \* ticks of a decay interval, and of the cooldown
  Minute,                                     \* ticks of a minute
  GlobalLimit, ProviderLimit, DomainLimit,    \* max_tokens of the buckets
  MaxNow, MaxStarts, MaxLost,                 \* bounds on the environment
  None

ASSUME FetchAssumption ==
  /\ MaxGlobalConcurrency \in Nat \ {0} /\ MaxCandidates \in Nat
  /\ CircuitThreshold \in Nat \ {0} /\ DecayAmount \in Nat /\ Credit \in Nat
  /\ BanDeltas \subseteq Nat \ {0} /\ {Interval, Minute} \subseteq Nat \ {0}
  /\ {GlobalLimit, ProviderLimit, DomainLimit} \subseteq Nat
  /\ MaxLost \in Nat /\ MaxLost < MaxGlobalConcurrency
  /\ None \notin Nat

Flows == Broadcasts \X Providers     \* searchProvider of one broadcast and one provider
ProviderOf(f) == f[2]

VARIABLES
  circuit,         \* provider -> what banBudget keeps of it
  tokens,          \* of every bucket, in parts
  searches,        \* provider -> candidates of the cached search, 0 if there is none
  details,         \* cached details, as <<provider, candidate>>
  active, queue,   \* activeRequests, requestQueue
  lost,            \* slots of earlier fetches that never end
  pc, page, found, \* of each flow; page 0 is the search, page k the detail of candidate k
  round, offered,  \* of each broadcast; a second fanout follows one without an offer
  now, starts,
  since, sent,     \* history: pages admitted from some tick on
  late             \* history: pages fetched after the trip

poolVars  == <<active, queue, lost>>
cacheVars == <<searches, details>>
flowVars  == <<pc, page, found>>
worldVars == <<now, starts>>
sentVars  == <<since, sent>>
vars ==
  <<circuit, tokens, cacheVars, poolVars, flowVars, round, offered, worldVars, sentVars, late>>

Buckets == {<<"global">>} \cup ({"provider", "domain"} \X Providers)
Limit(b) == CASE b[1] = "global" -> GlobalLimit [] b[1] = "provider" -> ProviderLimit
              [] OTHER -> DomainLimit
Full(b) == Limit(b) * Minute

Pc == {"idle", "ask", "queued", "browser", "fallback"}

Init ==
  /\ circuit = [p \in Providers |-> [score |-> 0, openAt |-> None, lastDecay |-> None]]
  /\ tokens = [b \in Buckets |-> Full(b)]
  /\ searches = [p \in Providers |-> 0] /\ details = {}
  /\ lost \in 0..MaxLost
  /\ active = lost /\ queue = <<>>
  /\ pc = [f \in Flows |-> "idle"]
  /\ page = [f \in Flows |-> 0] /\ found = [f \in Flows |-> 0]
  /\ round = [x \in Broadcasts |-> 0] /\ offered = [x \in Broadcasts |-> FALSE]
  /\ now = 0 /\ starts = 0
  /\ since = 0 /\ sent = [p \in Providers |-> 0] /\ late = [f \in Flows |-> 0]

-----------------------------------------------------------------------------
(* banBudget *)

\* Variant: the score is not held at zero.
NoFloor(x) == x

Floor0(x) == IF x < 0 THEN 0 ELSE x

\* applyDecay.  The clock of the decay stands still while the score is zero.
ApplyDecay(data) ==
  LET intervals == (now - data.lastDecay) \div Interval
  IN IF intervals > 0 /\ data.score > 0
       THEN [data EXCEPT !.score = Floor0(@ - intervals * DecayAmount), !.lastDecay = now]
       ELSE data

\* getOrCreateCircuit, then applyDecay: the copy in memory is changed by readers too.
Decayed(p) ==
  ApplyDecay(IF circuit[p].lastDecay = None THEN [circuit[p] EXCEPT !.lastDecay = now]
                                            ELSE circuit[p])

\* In cooldown: what isCircuitOpen and the status OPEN go by.
CoolingDown(data) == data.openAt # None /\ now < data.openAt + Interval
Cooling(p) == CoolingDown(circuit[p])

\* isCircuitOpen for a circuit that is not: one whose cooldown is over is closed.
Admitted(p) == [Decayed(p) EXCEPT !.openAt = None]

\* Variant: every signal at or over the threshold begins the cooldown anew.
BannedAnew(p, delta) ==
  LET data == [Decayed(p) EXCEPT !.score = @ + delta]
  IN ApplyDecay(IF data.score >= CircuitThreshold THEN [data EXCEPT !.openAt = now] ELSE data)

\* recordBanSignal, which ends with getCircuitStatus
Banned(p, delta) ==
  LET data == [Decayed(p) EXCEPT !.score = @ + delta]
  IN ApplyDecay(IF data.score >= CircuitThreshold /\ data.openAt = None
                  THEN [data EXCEPT !.openAt = now] ELSE data)

\* recordSuccess
Credited(p) == [circuit[p] EXCEPT !.score = Floor0(@ - Credit)]

-----------------------------------------------------------------------------
(* rateLimiter.  canMakeRequest asks the buckets in this order and keeps    *)
(* what it took when a later one refuses.                                   *)

Asked(p) == <<<<"global">>, <<"provider", p>>, <<"domain", p>>>>

HasToken(b) == tokens[b] >= Minute

Allowed(p) == \A i \in 1..3 : HasToken(Asked(p)[i])

TokensLeft(p) ==
  [b \in Buckets |->
     IF \E i \in 1..3 : b = Asked(p)[i] /\ \A j \in 1..i : HasToken(Asked(p)[j])
       THEN tokens[b] - Minute ELSE tokens[b]]

\* Variant: time that passes over a full bucket adds to it.
RefilledBeyond(b) == tokens[b] + Limit(b)

\* refillTokens, which every check of a bucket begins with, for one tick
Refilled(b) == IF tokens[b] + Limit(b) > Full(b) THEN Full(b) ELSE tokens[b] + Limit(b)

-----------------------------------------------------------------------------
(* headlessPool *)

SlotFree == active < MaxGlobalConcurrency

\* Variant: whoever comes first in the queue leaves it and is not called.
HandedToNobody == {}

\* Whom releaseSlot hands the slot to.
Handed == IF queue = <<>> THEN {} ELSE {Head(queue)}

ReleaseSlot ==
  IF queue = <<>> THEN active' = active - 1 /\ UNCHANGED <<queue, lost>>
                  ELSE queue' = Tail(queue) /\ UNCHANGED <<active, lost>>

\* Variant: a caller that finds no slot free does not wait.
AcquireSlotAnyway(f) == active' = active + 1 /\ UNCHANGED <<queue, lost>>

AcquireSlot(f) ==
  IF SlotFree THEN active' = active + 1 /\ UNCHANGED <<queue, lost>>
              ELSE queue' = Append(queue, f) /\ UNCHANGED <<active, lost>>

-----------------------------------------------------------------------------
(* searchProvider.  A flow that is done with a page, knowing n candidates,  *)
(* goes on to the next of them or ends; flows in "handed" get a slot.       *)

\* n more pages for g: counted while the circuit stays open.
SentLate(g, n) == IF CoolingDown(circuit'[ProviderOf(g)]) THEN late[g] + n ELSE 0

Advance(f, n, handed) ==
  LET more == page[f] < n
  IN /\ pc'    = [g \in Flows |-> IF g = f THEN (IF more THEN "ask" ELSE "idle")
                                  ELSE IF g \in handed THEN "browser" ELSE pc[g]]
     /\ late'  = [g \in Flows |-> IF g = f THEN (IF more THEN late[g] ELSE 0)
                                  ELSE IF g \in handed THEN SentLate(g, 1) ELSE late[g]]
     /\ page'  = [page EXCEPT ![f] = IF more THEN @ + 1 ELSE 0]
     /\ found' = [found EXCEPT ![f] = IF more THEN n ELSE 0]

SetCircuit(p, data) == circuit' = [circuit EXCEPT ![p] = data]

Cached(f) ==
  LET p == ProviderOf(f) IN IF page[f] = 0 THEN searches[p] > 0 ELSE <<p, page[f]>> \in details

\* A detail becomes an offer unless its price drifted away from the listed one.
MayOffer(f) ==
  \/ UNCHANGED offered
  \/ page[f] > 0 /\ offered' = [offered EXCEPT ![f[1]] = TRUE]

\* The circuit is open: no candidates, or no detail.
AskRefused(f) ==
  /\ pc[f] = "ask" /\ Cooling(ProviderOf(f))
  /\ SetCircuit(ProviderOf(f), Decayed(ProviderOf(f)))
  /\ Advance(f, found[f], {})
  /\ UNCHANGED <<tokens, cacheVars, poolVars, round, offered, worldVars, sentVars>>

\* Variant: extractDetail does not consult the circuit.
AsksSearchOnly(f) ==
  /\ pc[f] = "ask" /\ (page[f] > 0 \/ ~Cooling(ProviderOf(f)))
  /\ SetCircuit(ProviderOf(f),
                IF page[f] > 0 THEN circuit[ProviderOf(f)] ELSE Admitted(ProviderOf(f)))

Asks(f) ==
  /\ pc[f] = "ask" /\ ~Cooling(ProviderOf(f))
  /\ SetCircuit(ProviderOf(f), Admitted(ProviderOf(f)))

AskCached(f) ==
  /\ Asks(f) /\ Cached(f) /\ MayOffer(f)
  /\ Advance(f, IF page[f] = 0 THEN searches[ProviderOf(f)] ELSE found[f], {})
  /\ UNCHANGED <<tokens, cacheVars, poolVars, round, worldVars, sentVars>>

AskLimited(f) ==
  /\ Asks(f) /\ ~Cached(f) /\ ~Allowed(ProviderOf(f))
  /\ tokens' = TokensLeft(ProviderOf(f))
  /\ Advance(f, found[f], {})
  /\ UNCHANGED <<cacheVars, poolVars, round, offered, worldVars, sentVars>>

\* headlessFetch begins
AskAdmitted(f) ==
  /\ Asks(f) /\ ~Cached(f) /\ Allowed(ProviderOf(f))
  /\ tokens' = TokensLeft(ProviderOf(f))
  /\ sent' = [sent EXCEPT ![ProviderOf(f)] = @ + 1]
  /\ AcquireSlot(f)
  /\ pc' = [pc EXCEPT ![f] = IF queue' = queue THEN "browser" ELSE "queued"]
  /\ late' = [late EXCEPT ![f] = SentLate(f, IF queue' = queue THEN 1 ELSE 0)]
  /\ UNCHANGED <<cacheVars, page, found, round, offered, worldVars, since>>

-----------------------------------------------------------------------------
(* The fetch.  tryHeadlessFetch's failures, a ban it saw among them, all    *)
(* lead to tryRegularFetch, whose result counts.  The slot is given back in *)
(* a finally block; the adapter's next lines follow without another wait.   *)

KeepsFetchWorld == UNCHANGED <<tokens, round, worldVars, sentVars>>

BrowserFails(f) ==
  /\ pc[f] = "browser"
  /\ pc' = [pc EXCEPT ![f] = "fallback"]
  /\ UNCHANGED <<circuit, cacheVars, poolVars, page, found, offered, late>>
  /\ KeepsFetchWorld

Fetched(f) == pc[f] \in {"browser", "fallback"} /\ ReleaseSlot

\* A page of results: the candidates are cached if there are any.
SearchArrives(f) ==
  /\ Fetched(f) /\ page[f] = 0
  /\ \E n \in 0..MaxCandidates :
       /\ IF n > 0
            THEN /\ searches' = [searches EXCEPT ![ProviderOf(f)] = n]
                 /\ SetCircuit(ProviderOf(f), Credited(ProviderOf(f)))
            ELSE UNCHANGED <<searches, circuit>>
       /\ Advance(f, n, Handed)
  /\ UNCHANGED <<details, offered>> /\ KeepsFetchWorld

DetailArrives(f) ==
  /\ Fetched(f) /\ page[f] > 0
  /\ details' = details \cup {<<ProviderOf(f), page[f]>>}
  /\ SetCircuit(ProviderOf(f), Credited(ProviderOf(f)))
  /\ MayOffer(f) /\ Advance(f, found[f], Handed)
  /\ UNCHANGED searches /\ KeepsFetchWorld

\* A detail page that does not parse.
DetailUnparsed(f) ==
  /\ Fetched(f) /\ page[f] > 0
  /\ UNCHANGED <<circuit, cacheVars, offered>> /\ KeepsFetchWorld
  /\ Advance(f, found[f], Handed)

\* A status, a page or a timeout that counts as a ban signal.
FetchBanned(f) ==
  /\ Fetched(f) /\ pc[f] = "fallback"
  /\ \E delta \in BanDeltas : SetCircuit(ProviderOf(f), Banned(ProviderOf(f), delta))
  /\ Advance(f, found[f], Handed)
  /\ UNCHANGED <<cacheVars, offered>> /\ KeepsFetchWorld

FetchFails(f) ==
  /\ Fetched(f) /\ pc[f] = "fallback"
  /\ UNCHANGED <<circuit, cacheVars, offered>> /\ KeepsFetchWorld
  /\ Advance(f, found[f], Handed)

FlowSteps(f) ==
  \/ AskRefused(f) \/ AskCached(f) \/ AskLimited(f) \/ AskAdmitted(f)
  \/ BrowserFails(f) \/ SearchArrives(f) \/ DetailArrives(f) \/ DetailUnparsed(f)
  \/ FetchBanned(f) \/ FetchFails(f)

-----------------------------------------------------------------------------
(* fanoutSearch, and the broadcast that calls it *)

FlowsOf(x) == {x} \X Providers

\* The statuses are read, which decays every circuit; the providers that are not OPEN
\* and that the route of the intent allows are searched at once.
Fanout(x, nth, allowed) ==
  LET reached == {p \in allowed : ~Cooling(p)}
  IN /\ circuit' = [p \in Providers |-> Decayed(p)]
     /\ round' = [round EXCEPT ![x] = IF reached = {} THEN 0 ELSE nth]
     /\ offered' = [offered EXCEPT ![x] = FALSE]
     /\ pc' = [f \in Flows |-> IF f \in {x} \X reached THEN "ask" ELSE pc[f]]
     /\ UNCHANGED <<tokens, cacheVars, poolVars, page, found, sentVars, late>>

\* With a route that blocks the shops, no provider is left.
Broadcast(x) ==
  /\ round[x] = 0 /\ starts < MaxStarts
  /\ starts' = starts + 1
  /\ \E allowed \in {Providers, {}} : Fanout(x, 1, allowed)
  /\ UNCHANGED now

\* Promise.all over the providers
Returned(x) == round[x] > 0 /\ \A f \in FlowsOf(x) : pc[f] = "idle"

\* No offer: a second fanout, by the vertical instead of the route.
BroadcastAgain(x) ==
  /\ Returned(x) /\ round[x] = 1 /\ ~offered[x]
  /\ Fanout(x, 2, Providers)
  /\ UNCHANGED worldVars

BroadcastEnds(x) ==
  /\ Returned(x) /\ (round[x] = 2 \/ offered[x])
  /\ round' = [round EXCEPT ![x] = 0]
  /\ offered' = [offered EXCEPT ![x] = FALSE]
  /\ UNCHANGED <<circuit, tokens, cacheVars, poolVars, flowVars, worldVars, sentVars, late>>

-----------------------------------------------------------------------------
(* Time.  Any of the cached pages may expire with a tick, and the history   *)
(* may begin anew.                                                          *)

CacheExpires ==
  /\ \E expired \in SUBSET Providers :
       searches' = [p \in Providers |-> IF p \in expired THEN 0 ELSE searches[p]]
  /\ \E kept \in SUBSET details : details' = kept

CountsOn ==
  \/ UNCHANGED sentVars
  \/ since' = now + 1 /\ sent' = [p \in Providers |-> 0]

Tick ==
  /\ now < MaxNow /\ now' = now + 1
  /\ tokens' = [b \in Buckets |-> Refilled(b)]
  /\ CacheExpires /\ CountsOn
  /\ UNCHANGED <<circuit, poolVars, flowVars, round, offered, starts, late>>

Progress ==
  \/ \E f \in Flows : FlowSteps(f)
  \/ \E x \in Broadcasts : BroadcastAgain(x) \/ BroadcastEnds(x)

Next ==
  \/ Progress \/ Tick
  \/ \E x \in Broadcasts : Broadcast(x)

Spec == Init /\ [][Next]_vars

\* The fetches of these broadcasts end (navigation and connection have timeouts), and
\* the event loop goes on with what it was told to do.
FairSpec == Spec /\ WF_vars(Progress)

-----------------------------------------------------------------------------
\* Every variable stays within its type.
TypeOK ==
  /\ circuit \in [Providers ->
                    [score : Nat, openAt : Nat \cup {None}, lastDecay : Nat \cup {None}]]
  /\ tokens \in [Buckets -> Nat] /\ \A b \in Buckets : tokens[b] <= Full(b)
  /\ searches \in [Providers -> 0..MaxCandidates]
  /\ details \subseteq Providers \X (1..MaxCandidates)
  /\ lost \in Nat /\ active \in Nat /\ queue \in Seq(Flows)
  /\ pc \in [Flows -> Pc] /\ page \in [Flows -> 0..MaxCandidates]
  /\ found \in [Flows -> 0..MaxCandidates]
  /\ round \in [Broadcasts -> 0..2] /\ offered \in [Broadcasts -> BOOLEAN]
  /\ now \in Nat /\ starts \in Nat /\ since \in 0..now
  /\ sent \in [Providers -> Nat] /\ late \in [Flows -> Nat]

\* The pool counts its fetches right, never runs more than its cap, and lets nobody
\* wait while a slot is free: every way out of a fetch hands its slot on.
SlotsShared ==
  /\ active = lost + Cardinality({f \in Flows : pc[f] \in {"browser", "fallback"}})
  /\ active <= MaxGlobalConcurrency
  /\ queue # <<>> => ~SlotFree
  /\ {f \in Flows : pc[f] = "queued"} = {queue[i] : i \in 1..Len(queue)}

\* Once its circuit opened, a provider gets from each search in progress at most the one
\* page that was already on its way: a flow that waited for a slot, or went from the
\* search to the details, stops at the open circuit.
TrippedIsLeftAlone == \A f \in Flows : late[f] <= 1

\* The pages that the history counts, one by one.
Pages(p, n) == {p} \X (1..n)
AdmittedPages == UNION {Pages(p, sent[p]) : p \in Providers}

\* From whatever moment on, no more pages are admitted than a full bucket holds and the
\* time since then refills, of each of the three buckets, in whatever order the searches
\* of several broadcasts empty them.  Over a minute that is up to twice the limit: the
\* "20 requests per minute" of a comment are the capacity, and then once more the refill.
RateKept ==
  LET minutes == Minute + (now - since)     \* in ticks, the full bucket being one minute
  IN /\ Cardinality(AdmittedPages) * Minute <= GlobalLimit * minutes
     /\ \A p \in Providers, k \in {"provider", "domain"} :
          sent[p] * Minute <= Limit(<<k, p>>) * minutes

\* An open circuit keeps its cooldown, whatever the fetches that were under way when
\* it opened bring in: bans do not prolong it, successes and decay do not cut it short.
CooldownKept ==
  [][\A p \in Providers : circuit[p].openAt # None /\ circuit'[p].openAt # circuit[p].openAt
       => now >= circuit[p].openAt + Interval]_vars

\* Every broadcast gets its answer, though a redirect or a body that never ends (neither
\* has a timeout) costs the pool a slot for good, as long as one slot is left: it is
\* passed on to all that wait for it.
EveryBroadcastReturns == \A x \in Broadcasts : round[x] > 0 ~> round[x] = 0
=============================================================================
