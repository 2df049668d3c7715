--------------------------- MODULE Discovery_proof ---------------------------
(* An API is never replaced in Central by an older state of it, and nothing  *)
(* is published twice in a life of the agent: for every number of            *)
(* workspaces, services, routes, changes and faults.                         *)
EXTENDS Discovery, TLAPS

(* The parts of the inductive invariant.                                     *)

(* Versions are counted with the changes.                                    *)
VersionsCounted ==
    /\ \A s \in Services : specVersion[s] <= changes
    /\ \A r \in Routes : pluginVersion[r] <= changes

(* What is published was once what Kong held.                                *)
PublishedWasRead ==
    \A s \in Services, r \in Routes :
        r \in RoutesOf[s] /\ published[r] # None =>
            published[r].spec <= specVersion[s] /\ published[r].plugins <= pluginVersion[r]

(* Nothing is sent whose checksum is not in the cache.                       *)
SentIsCached ==
    \A api \in Api : <<Meaning(api), api.order>> \in sent => makeChecksum(api) \in cache

(* Workers are those of the round in hand, for the workspaces listed so far. *)
WorkersOfThisRound ==
    /\ workers # {} => loop \in {"listing", "stopping"}
    /\ \A x \in workers : \E k \in DOMAIN Workspaces :
        k < next /\ x.service \in ServicesOf[Workspaces[k]]

(* What a worker holds was read in Kong, for its own service.                *)
ReadsItsService(x) ==
    /\ x.todo \subseteq RoutesOf[x.service]
    /\ x.step \in {"next", "publish"} => x.spec \in Nat /\ x.spec <= specVersion[x.service]
    /\ x.step = "publish" =>
        /\ x.api \in Api
        /\ x.api.route \in RoutesOf[x.service]
        /\ x.api.spec = x.spec
        /\ x.api.plugins <= pluginVersion[x.api.route]

(* It is not older than what Central has of that service.                    *)
AheadOfCentral(x) ==
    /\ x.step \in {"next", "publish"} =>
        \A r \in RoutesOf[x.service] : published[r] # None => published[r].spec <= x.spec
    /\ x.step = "publish" /\ published[x.api.route] # None =>
        published[x.api.route].plugins <= x.api.plugins

(* What it is about to publish is in the cache, and was not published.       *)
HoldsNews(x) ==
    x.step = "publish" =>
        /\ makeChecksum(x.api) \in cache
        /\ <<Meaning(x.api), x.api.order>> \notin sent

WorkersInv ==
    /\ WorkersOfThisRound
    /\ \A x \in workers : ReadsItsService(x) /\ AheadOfCentral(x) /\ HoldsNews(x)

DiscoveryInv ==
    /\ TypeOK
    /\ VersionsCounted
    /\ PublishedWasRead
    /\ SentIsCached
    /\ WorkersInv

-----------------------------------------------------------------------------
(* Services and routes belong together in one way.                           *)
LEMMA Belongs ==
    /\ \A k \in DOMAIN Workspaces : ServicesOf[Workspaces[k]] \subseteq Services
    /\ \A s \in Services : RoutesOf[s] \subseteq Routes
    /\ \A s, t \in Services, r \in Routes : r \in RoutesOf[s] /\ r \in RoutesOf[t] => s = t
<1>1. \A k \in DOMAIN Workspaces : Workspaces[k] \in DOMAIN ServicesOf
    BY WorkspacesAssumption
<1>2. \A k \in DOMAIN Workspaces : ServicesOf[Workspaces[k]] \subseteq Services
    BY <1>1 DEF Services
<1>3. \A s \in Services : RoutesOf[s] \subseteq Routes
    BY DEF Routes
<1>4. \A s, t \in Services, r \in Routes : r \in RoutesOf[s] /\ r \in RoutesOf[t] => s = t
    BY ServicesAssumption
<1>. QED
    BY <1>2, <1>3, <1>4

(* The number of faults stays within its bound.                              *)
LEMMA FaultsBounded ==
    ASSUME TypeOK, UNCHANGED faults \/ \E kind \in FaultKinds : Fault(kind)
    PROVE  faults' \in 0..MaxFaults
BY BoundsAssumption DEF TypeOK, Fault

(* The invariant holds at the start.                                         *)
LEMMA InitInv ==
    ASSUME Init
    PROVE  DiscoveryInv
<1>1. TypeOK
    <2>1. 1 \in 1..(Len(Workspaces) + 1)
        BY WorkspacesAssumption
    <2>. QED
        BY <2>1, BoundsAssumption DEF Init, TypeOK
<1>. QED
    BY <1>1 DEF Init, DiscoveryInv, VersionsCounted, PublishedWasRead, SentIsCached, WorkersInv,
        WorkersOfThisRound

(* The operator of Kong changes something.                                   *)
LEMMA ChangeStep ==
    ASSUME DiscoveryInv, Change
    PROVE  DiscoveryInv'
<1>. USE DEF DiscoveryInv
<1>1. /\ changes \in 0..MaxChanges /\ changes < MaxChanges /\ changes' = changes + 1
      /\ UNCHANGED <<published, loop, next, workers, cache, sent, lost, judged, faults>>
    BY DEF Change, TypeOK, agent
<1>2. /\ specVersion' \in [Services -> 0..MaxChanges]
      /\ pluginVersion' \in [Routes -> 0..MaxChanges]
      /\ acl' \subseteq DOMAIN ServicesOf
      /\ \A s \in Services : specVersion[s] <= specVersion'[s] /\ specVersion'[s] <= changes'
      /\ \A r \in Routes : pluginVersion[r] <= pluginVersion'[r] /\ pluginVersion'[r] <= changes'
    <2>1. CASE /\ \E s \in Services : specVersion' = [specVersion EXCEPT ![s] = @ + 1]
               /\ UNCHANGED <<pluginVersion, acl>>
        BY <1>1, <2>1, BoundsAssumption DEF TypeOK, VersionsCounted
    <2>2. CASE /\ \E r \in Routes : pluginVersion' = [pluginVersion EXCEPT ![r] = @ + 1]
               /\ UNCHANGED <<specVersion, acl>>
        BY <1>1, <2>2, BoundsAssumption DEF TypeOK, VersionsCounted
    <2>3. CASE /\ \E w \in DOMAIN ServicesOf :
                    acl' = IF w \in acl THEN acl \ {w} ELSE acl \cup {w}
               /\ UNCHANGED <<specVersion, pluginVersion>>
        BY <1>1, <2>3, BoundsAssumption DEF TypeOK, VersionsCounted
    <2>. QED
        BY <2>1, <2>2, <2>3 DEF Change
<1>3. TypeOK'
    BY <1>1, <1>2, BoundsAssumption DEF TypeOK
<1>4. VersionsCounted'
    BY <1>2 DEF VersionsCounted
<1>5. PublishedWasRead'
    BY <1>1, <1>2 DEF PublishedWasRead, TypeOK, Api
<1>6. SentIsCached'
    BY <1>1 DEF SentIsCached
<1>7. WorkersInv'
    <2>1. WorkersOfThisRound'
        BY <1>1 DEF WorkersInv, WorkersOfThisRound
    <2>2. ASSUME NEW x \in workers
          PROVE  ReadsItsService(x)' /\ AheadOfCentral(x)' /\ HoldsNews(x)'
        <3>1. x.service \in Services /\ ReadsItsService(x) /\ AheadOfCentral(x) /\ HoldsNews(x)
            BY DEF WorkersInv, TypeOK, Worker
        <3>2. /\ \A sp \in Nat : sp <= specVersion[x.service] => sp <= specVersion'[x.service]
              /\ \A r \in Routes, v \in Nat : v <= pluginVersion[r] => v <= pluginVersion'[r]
            BY <1>1, <1>2, <3>1, BoundsAssumption DEF TypeOK
        <3>3. x.step = "publish" => x.api.route \in Routes /\ x.api.plugins \in Nat
            BY <3>1 DEF ReadsItsService, Api
        <3>4. ReadsItsService(x)'
            BY <3>1, <3>2, <3>3 DEF ReadsItsService
        <3>. QED
            BY <1>1, <3>1, <3>4 DEF AheadOfCentral, HoldsNews
    <2>. QED
        BY <1>1, <2>1, <2>2 DEF WorkersInv
<1>. QED
    BY <1>3, <1>4, <1>5, <1>6, <1>7

(* DiscoverAPIs starts workers for services that no worker has in hand.      *)
LEMMA ListServicesStep ==
    ASSUME DiscoveryInv, ListServices
    PROVE  DiscoveryInv'
<1>. USE DEF DiscoveryInv
<1>1. /\ loop = "listing" /\ next <= Len(Workspaces) /\ next \in 1..(Len(Workspaces) + 1)
      /\ UNCHANGED <<kong, published, cache, sent, lost, judged>>
      /\ UNCHANGED faults \/ Fault("list")
    BY DEF ListServices, TypeOK
<1>2. faults' \in 0..MaxFaults
    BY <1>1, BoundsAssumption DEF TypeOK, Fault
<1>3. VersionsCounted' /\ PublishedWasRead' /\ SentIsCached'
    BY <1>1 DEF VersionsCounted, PublishedWasRead, SentIsCached, kong
<1>4. CASE UNCHANGED <<next, workers>> /\ loop' = "stopping"
    <2>1. TypeOK'
        BY <1>1, <1>2, <1>4 DEF TypeOK, kong
    <2>2. WorkersInv'
        BY <1>1, <1>4 DEF WorkersInv, WorkersOfThisRound, ReadsItsService, AheadOfCentral, HoldsNews, kong
    <2>. QED
        BY <1>3, <2>1, <2>2
<1>5. CASE /\ workers' = workers \cup {NewWorker(s) : s \in ServicesOf[Workspaces[next]]}
           /\ next' = next + 1
           /\ UNCHANGED <<loop, faults>>
    <2>1. next \in DOMAIN Workspaces /\ Len(Workspaces) \in Nat
        BY <1>1, WorkspacesAssumption
    <2>2. ServicesOf[Workspaces[next]] \subseteq Services
        BY <2>1, Belongs
    <2>3. ASSUME NEW s \in ServicesOf[Workspaces[next]]
          PROVE  /\ NewWorker(s) \in Worker /\ NewWorker(s).service = s
                 /\ NewWorker(s).step = "routes" /\ NewWorker(s).todo = {}
        BY <2>2 DEF NewWorker, Worker
    <2>4. ASSUME NEW x \in workers, x.service \in ServicesOf[Workspaces[next]]
          PROVE  FALSE
        <3>1. PICK k \in DOMAIN Workspaces : k < next /\ x.service \in ServicesOf[Workspaces[k]]
            BY DEF WorkersInv, WorkersOfThisRound
        <3>2. Workspaces[k] # Workspaces[next]
            BY <1>1, <2>1, <3>1, WorkspacesAssumption
        <3>3. Workspaces[k] \in DOMAIN ServicesOf /\ Workspaces[next] \in DOMAIN ServicesOf
            BY <2>1, WorkspacesAssumption
        <3>. QED
            BY <2>4, <3>1, <3>2, <3>3, ServicesAssumption
    <2>5. workers' \subseteq Worker /\ \A x, y \in workers' : x.service = y.service => x = y
        <3>1. workers' \subseteq Worker
            BY <1>5, <2>3 DEF TypeOK
        <3>2. ASSUME NEW x \in workers', NEW y \in workers', x.service = y.service
              PROVE  x = y
            <4>1. CASE x \in workers /\ y \in workers
                BY <3>2, <4>1 DEF TypeOK
            <4>2. CASE x \notin workers
                <5>1. PICK s \in ServicesOf[Workspaces[next]] : x = NewWorker(s)
                    BY <1>5, <4>2
                <5>2. y \notin workers
                    BY <2>3, <2>4, <3>2, <5>1
                <5>3. PICK t \in ServicesOf[Workspaces[next]] : y = NewWorker(t)
                    BY <1>5, <5>2
                <5>. QED
                    BY <2>3, <3>2, <5>1, <5>3
            <4>3. CASE y \notin workers
                <5>1. PICK s \in ServicesOf[Workspaces[next]] : y = NewWorker(s)
                    BY <1>5, <4>3
                <5>2. x \notin workers
                    BY <2>3, <2>4, <3>2, <5>1
                <5>3. PICK t \in ServicesOf[Workspaces[next]] : x = NewWorker(t)
                    BY <1>5, <5>2
                <5>. QED
                    BY <2>3, <3>2, <5>1, <5>3
            <4>. QED
                BY <4>1, <4>2, <4>3
        <3>. QED
            BY <3>1, <3>2
    <2>6. TypeOK'
        BY <1>1, <1>2, <1>5, <2>1, <2>5 DEF TypeOK, kong
    <2>7. WorkersOfThisRound'
        <3>1. ASSUME NEW x \in workers'
              PROVE  \E k \in DOMAIN Workspaces : k < next' /\ x.service \in ServicesOf[Workspaces[k]]
            <4>1. CASE x \in workers
                <5>1. PICK k \in DOMAIN Workspaces : k < next /\ x.service \in ServicesOf[Workspaces[k]]
                    BY <4>1 DEF WorkersInv, WorkersOfThisRound
                <5>2. k \in Nat /\ next \in Nat
                    BY <2>1, WorkspacesAssumption
                <5>. QED
                    BY <1>5, <5>1, <5>2
            <4>2. CASE x \notin workers
                <5>1. PICK s \in ServicesOf[Workspaces[next]] : x = NewWorker(s)
                    BY <1>5, <4>2
                <5>2. next < next'
                    BY <1>1, <1>5
                <5>. QED
                    BY <2>1, <2>3, <5>1, <5>2
            <4>. QED
                BY <4>1, <4>2
        <3>. QED
            BY <1>1, <1>5, <3>1 DEF WorkersOfThisRound
    <2>8. ASSUME NEW x \in workers'
          PROVE  (ReadsItsService(x) /\ AheadOfCentral(x) /\ HoldsNews(x))'
        <3>1. CASE x \in workers
            BY <1>1, <3>1 DEF WorkersInv, ReadsItsService, AheadOfCentral, HoldsNews, kong
        <3>2. CASE x \notin workers
            <4>1. x.step = "routes" /\ x.todo = {}
                BY <1>5, <2>3, <3>2
            <4>. QED
                BY <4>1 DEF ReadsItsService, AheadOfCentral, HoldsNews
        <3>. QED
            BY <3>1, <3>2
    <2>. QED
        BY <1>3, <2>6, <2>7, <2>8 DEF WorkersInv
<1>. QED
    BY <1>4, <1>5 DEF ListServices

(* The other steps of the loop, the exit, a crash and the restart: the       *)
(* workers are left alone or gone.                                           *)
LEMMA LoopsOn ==
    ASSUME DiscoveryInv, NewAgent \/ Wait \/ NextRound \/ Exit \/ Crash \/ Restart
    PROVE  DiscoveryInv'
<1>. USE DEF DiscoveryInv
<1>1. /\ UNCHANGED <<kong, published>>
      /\ loop' \in {"starting", "listing", "sleeping", "stopping", "down"}
      /\ workers' = {}
      /\ next' = next \/ next' = 1
      /\ UNCHANGED <<cache, sent>> \/ sent' = {}
      /\ judged' = judged \/ judged' = None
      /\ faults' \in 0..MaxFaults
    BY BoundsAssumption DEF NewAgent, Wait, NextRound, Exit, Crash, Restart, Fault, TypeOK,
        WorkersInv, WorkersOfThisRound
<1>2. TypeOK'
    <2>1. next' \in 1..(Len(Workspaces) + 1)
        BY <1>1, WorkspacesAssumption DEF TypeOK
    <2>. QED
        BY <1>1, <2>1 DEF TypeOK, kong
<1>3. VersionsCounted' /\ PublishedWasRead' /\ SentIsCached'
    BY <1>1 DEF VersionsCounted, PublishedWasRead, SentIsCached, kong
<1>4. WorkersInv'
    BY <1>1 DEF WorkersInv, WorkersOfThisRound
<1>. QED
    BY <1>2, <1>3, <1>4

(* A worker is gone.                                                         *)
LEMMA WorkerEnds ==
    ASSUME DiscoveryInv, NEW x \in workers, Ends(x),
           UNCHANGED <<kong, published, loop, next, cache, sent, lost, judged>>,
           faults' \in 0..MaxFaults
    PROVE  DiscoveryInv'
<1>. USE DEF DiscoveryInv
<1>1. workers' \subseteq workers
    BY DEF Ends
<1>2. TypeOK'
    BY <1>1 DEF TypeOK, kong
<1>3. VersionsCounted' /\ PublishedWasRead' /\ SentIsCached'
    BY DEF VersionsCounted, PublishedWasRead, SentIsCached, kong
<1>4. WorkersInv'
    BY <1>1 DEF WorkersInv, WorkersOfThisRound, ReadsItsService, AheadOfCentral, HoldsNews, kong
<1>. QED
    BY <1>2, <1>3, <1>4

(* A worker goes on with its service, and publishes nothing yet.             *)
LEMMA WorkerMoves ==
    ASSUME DiscoveryInv, NEW x \in workers, NEW y \in Worker, y.service = x.service,
           Becomes(x, y),
           UNCHANGED <<kong, published, loop, next, sent, lost>>,
           cache \subseteq cache', judged' \in Api \cup {None}, faults' \in 0..MaxFaults,
           ReadsItsService(y), AheadOfCentral(y), HoldsNews(y)'
    PROVE  DiscoveryInv'
<1>. USE DEF DiscoveryInv
<1>1. workers' = (workers \ {x}) \cup {y}
    BY DEF Becomes
<1>2. TypeOK'
    BY <1>1 DEF TypeOK, kong
<1>3. VersionsCounted' /\ PublishedWasRead' /\ SentIsCached'
    BY DEF VersionsCounted, PublishedWasRead, SentIsCached, kong
<1>4. WorkersOfThisRound'
    BY <1>1 DEF WorkersInv, WorkersOfThisRound
<1>5. ASSUME NEW z \in workers'
      PROVE  (ReadsItsService(z) /\ AheadOfCentral(z) /\ HoldsNews(z))'
    <2>1. CASE z = y
        BY <2>1 DEF ReadsItsService, AheadOfCentral, kong
    <2>2. CASE z \in workers
        BY <2>2 DEF WorkersInv, ReadsItsService, AheadOfCentral, HoldsNews, kong
    <2>. QED
        BY <1>1, <2>1, <2>2
<1>. QED
    BY <1>2, <1>3, <1>4, <1>5 DEF WorkersInv

(* What is known of a worker and of its service.                             *)
LEMMA WorkerFacts ==
    ASSUME DiscoveryInv, NEW x \in workers
    PROVE  /\ x \in Worker /\ x.service \in Services
           /\ ReadsItsService(x) /\ AheadOfCentral(x) /\ HoldsNews(x)
           /\ RoutesOf[x.service] \subseteq Routes
           /\ specVersion[x.service] \in Nat
           /\ \A r \in RoutesOf[x.service] :
                /\ pluginVersion[r] \in Nat
                /\ published[r] # None =>
                    /\ published[r].spec <= specVersion[x.service]
                    /\ published[r].plugins <= pluginVersion[r]
<1>1. x \in Worker /\ x.service \in Services
    BY DEF DiscoveryInv, TypeOK, Worker
<1>2. RoutesOf[x.service] \subseteq Routes
    BY <1>1, Belongs
<1>. QED
    BY <1>1, <1>2 DEF DiscoveryInv, WorkersInv, PublishedWasRead, TypeOK

(* ListRoutesForService, agent.go 212-217.                                   *)
LEMMA ListRoutesStep ==
    ASSUME DiscoveryInv, NEW x \in workers, ListRoutesForService(x)
    PROVE  DiscoveryInv'
<1>1. /\ x \in Worker /\ x.step = "routes" /\ RoutesOf[x.service] \subseteq Routes
      /\ UNCHANGED <<kong, published, loop, next, cache, sent, lost, judged>>
      /\ faults' \in 0..MaxFaults
    BY WorkerFacts, BoundsAssumption DEF ListRoutesForService, Fault, DiscoveryInv, TypeOK
<1>2. CASE Ends(x)
    BY <1>1, <1>2, WorkerEnds
<1>3. CASE Becomes(x, [x EXCEPT !.step = "spec", !.todo = RoutesOf[x.service]])
    <2>1. PICK y \in Worker : /\ y = [x EXCEPT !.step = "spec", !.todo = RoutesOf[x.service]]
                              /\ y.service = x.service /\ y.step = "spec"
                              /\ y.todo = RoutesOf[x.service]
        <3>1. [x EXCEPT !.step = "spec", !.todo = RoutesOf[x.service]] \in Worker
            BY <1>1 DEF Worker
        <3>. QED
            BY <1>1, <3>1 DEF Worker
    <2>2. ReadsItsService(y) /\ AheadOfCentral(y) /\ HoldsNews(y)'
        BY <2>1 DEF ReadsItsService, AheadOfCentral, HoldsNews
    <2>3. judged' \in Api \cup {None} /\ cache \subseteq cache'
        BY <1>1 DEF DiscoveryInv, TypeOK
    <2>. QED
        BY <1>1, <1>3, <2>1, <2>2, <2>3, WorkerMoves
<1>. QED
    BY <1>2, <1>3 DEF ListRoutesForService

(* GetSpecForService: what is read now is not older than what is published.  *)
LEMMA GetSpecStep ==
    ASSUME DiscoveryInv, NEW x \in workers, GetSpecForService(x)
    PROVE  DiscoveryInv'
<1>1. /\ x \in Worker /\ x.step = "spec"
      /\ UNCHANGED <<kong, published, loop, next, cache, sent, lost, judged>>
      /\ faults' \in 0..MaxFaults
    BY WorkerFacts, BoundsAssumption DEF GetSpecForService, Fault, DiscoveryInv, TypeOK
<1>2. CASE Ends(x)
    BY <1>1, <1>2, WorkerEnds
<1>3. CASE Becomes(x, [x EXCEPT !.step = "next", !.spec = specVersion[x.service]])
    <2>1. specVersion[x.service] \in Nat
        BY WorkerFacts
    <2>2. PICK y \in Worker : /\ y = [x EXCEPT !.step = "next", !.spec = specVersion[x.service]]
                              /\ y.service = x.service /\ y.step = "next"
                              /\ y.todo = x.todo /\ y.spec = specVersion[x.service]
        <3>1. [x EXCEPT !.step = "next", !.spec = specVersion[x.service]] \in Worker
            BY <1>1, <2>1 DEF Worker
        <3>. QED
            BY <1>1, <3>1 DEF Worker
    <2>3. ReadsItsService(y)
        BY <2>1, <2>2, WorkerFacts DEF ReadsItsService
    <2>4. AheadOfCentral(y) /\ HoldsNews(y)'
        BY <2>2, WorkerFacts DEF AheadOfCentral, HoldsNews
    <2>5. judged' \in Api \cup {None} /\ cache \subseteq cache'
        BY <1>1 DEF DiscoveryInv, TypeOK
    <2>. QED
        BY <1>1, <1>3, <2>2, <2>3, <2>4, <2>5, WorkerMoves
<1>. QED
    BY <1>2, <1>3 DEF GetSpecForService

(* specPreparation and processKongAPI: the checksum of what goes on to be    *)
(* published was not in the cache, and is there now.                         *)
LEMMA PrepareRouteStep ==
    ASSUME DiscoveryInv, NEW x \in workers, PrepareRoute(x)
    PROVE  DiscoveryInv'
<1>1. /\ x \in Worker /\ x.step = "next" /\ x.service \in Services
      /\ UNCHANGED <<kong, published, loop, next, sent, lost>>
      /\ x.todo \subseteq RoutesOf[x.service] /\ RoutesOf[x.service] \subseteq Routes
      /\ x.spec \in Nat /\ x.spec <= specVersion[x.service]
      /\ judged \in Api \cup {None}
    BY WorkerFacts DEF PrepareRoute, ReadsItsService, DiscoveryInv, TypeOK
<1>2. faults' \in 0..MaxFaults
    <2>1. UNCHANGED faults \/ Fault("read")
        BY DEF PrepareRoute
    <2>. QED
        BY <2>1, BoundsAssumption DEF Fault, DiscoveryInv, TypeOK
<1>3. PICK r \in x.todo :
        LET rest == [x EXCEPT !.todo = @ \ {r}]
        IN  \/ /\ r \in Unnamed \cup Unreachable
               /\ Becomes(x, rest)
               /\ UNCHANGED <<cache, judged, faults>>
            \/ /\ r \notin Unnamed
               /\ Becomes(x, rest)
               /\ Fault("read")
               /\ UNCHANGED <<cache, judged>>
            \/ /\ r \notin Unnamed \cup Unreachable
               /\ \E order \in Orders :
                    LET api == NewKongAPI(x, r, order)
                    IN  IF isPublished(api)
                           THEN /\ Becomes(x, rest)
                                /\ judged' = api
                                /\ UNCHANGED cache
                           ELSE /\ Becomes(x, [rest EXCEPT !.step = "publish", !.api = api])
                                /\ cache' = cache \cup {makeChecksum(api)}
                                /\ UNCHANGED judged
               /\ UNCHANGED faults
    BY DEF PrepareRoute
<1>4. r \in RoutesOf[x.service] /\ r \in Routes
    BY <1>1
<1>5. ASSUME NEW order \in Orders
      PROVE  /\ NewKongAPI(x, r, order) \in Api
             /\ NewKongAPI(x, r, order).route = r
             /\ NewKongAPI(x, r, order).spec = x.spec
             /\ NewKongAPI(x, r, order).plugins = pluginVersion[r]
    BY <1>1, <1>4, WorkerFacts DEF NewKongAPI, Api
<1>6. CASE /\ Becomes(x, [x EXCEPT !.todo = @ \ {r}])
           /\ UNCHANGED cache
           /\ judged' = judged \/ \E order \in Orders : judged' = NewKongAPI(x, r, order)
    <2>1. PICK y \in Worker : /\ y = [x EXCEPT !.todo = @ \ {r}]
                              /\ y.service = x.service /\ y.step = "next"
                              /\ y.todo = x.todo \ {r} /\ y.spec = x.spec
        <3>1. [x EXCEPT !.todo = @ \ {r}] \in Worker
            BY <1>1 DEF Worker
        <3>. QED
            BY <1>1, <3>1 DEF Worker
    <2>2. ReadsItsService(y) /\ AheadOfCentral(y) /\ HoldsNews(y)'
        BY <1>1, <2>1, WorkerFacts DEF ReadsItsService, AheadOfCentral, HoldsNews
    <2>3. judged' \in Api \cup {None} /\ cache \subseteq cache'
        BY <1>1, <1>5, <1>6
    <2>. QED
        BY <1>1, <1>2, <1>6, <2>1, <2>2, <2>3, WorkerMoves
<1>7. ASSUME NEW order \in Orders, ~isPublished(NewKongAPI(x, r, order)),
             Becomes(x, [[x EXCEPT !.todo = @ \ {r}]
                            EXCEPT !.step = "publish", !.api = NewKongAPI(x, r, order)]),
             cache' = cache \cup {makeChecksum(NewKongAPI(x, r, order))},
             UNCHANGED judged
      PROVE  DiscoveryInv'
    <2>1. PICK api \in Api : /\ api = NewKongAPI(x, r, order)
                             /\ api.route = r /\ api.spec = x.spec /\ api.plugins = pluginVersion[r]
        BY <1>5
    <2>2. PICK y \in Worker : /\ y = [[x EXCEPT !.todo = @ \ {r}] EXCEPT !.step = "publish", !.api = api]
                              /\ y.service = x.service /\ y.step = "publish"
                              /\ y.todo = x.todo \ {r} /\ y.spec = x.spec /\ y.api = api
        <3>1. [[x EXCEPT !.todo = @ \ {r}] EXCEPT !.step = "publish", !.api = api] \in Worker
            BY <1>1 DEF Worker
        <3>. QED
            BY <1>1, <3>1 DEF Worker
    <2>3. ReadsItsService(y)
        BY <1>1, <1>4, <2>1, <2>2, WorkerFacts DEF ReadsItsService
    <2>4. AheadOfCentral(y)
        BY <1>1, <1>4, <2>1, <2>2, WorkerFacts DEF AheadOfCentral
    <2>5. HoldsNews(y)'
        <3>1. makeChecksum(api) \notin cache
            BY <1>7, <2>1 DEF isPublished
        <3>2. <<Meaning(api), api.order>> \notin sent
            BY <3>1 DEF DiscoveryInv, SentIsCached
        <3>3. makeChecksum(api) \in cache'
            BY <1>7, <2>1
        <3>. QED
            BY <1>1, <2>2, <3>2, <3>3 DEF HoldsNews
    <2>6. Becomes(x, y) /\ judged' \in Api \cup {None} /\ cache \subseteq cache'
        BY <1>1, <1>7, <2>1, <2>2
    <2>. QED
        BY <1>1, <1>2, <2>2, <2>3, <2>4, <2>5, <2>6, WorkerMoves
<1>. QED
    BY <1>3, <1>6, <1>7

(* PublishAPI, agent.go 264: what replaces the state in Central is newer, or *)
(* Central keeps what it has; no other worker holds the same.                *)
LEMMA PublishAPIStep ==
    ASSUME DiscoveryInv, NEW x \in workers, PublishAPI(x)
    PROVE  /\ DiscoveryInv'
           /\ \A r \in Routes : published[r] # None /\ published'[r] # None =>
                /\ published'[r].spec >= published[r].spec
                /\ published'[r].plugins >= published[r].plugins
<1>. USE DEF DiscoveryInv
<1>1. /\ x \in Worker /\ x.step = "publish" /\ x.service \in Services
      /\ UNCHANGED <<kong, loop, next, cache, judged>>
      /\ x.api \in Api /\ x.api.route \in RoutesOf[x.service] /\ x.api.spec = x.spec
      /\ x.api.route \in Routes /\ x.spec <= specVersion[x.service]
      /\ x.api.plugins <= pluginVersion[x.api.route]
      /\ makeChecksum(x.api) \in cache /\ <<Meaning(x.api), x.api.order>> \notin sent
    BY WorkerFacts DEF PublishAPI, ReadsItsService, HoldsNews
<1>2. faults' \in 0..MaxFaults
    BY BoundsAssumption DEF PublishAPI, Fault, TypeOK
<1>3. PICK y \in Worker : /\ y.service = x.service /\ y.step = "next" /\ y.todo = x.todo
                          /\ y.spec = x.spec
                          /\ workers' = (workers \ {x}) \cup {y}
    <2>1. [x EXCEPT !.step = "next", !.api = None] \in Worker
        BY <1>1 DEF Worker
    <2>. QED
        BY <1>1, <2>1 DEF PublishAPI, Becomes, Worker
<1>4. /\ published' \in [Routes -> Api \cup {None}]
      /\ \A r \in Routes :
            \/ published'[r] = published[r]
            \/ r = x.api.route /\ published'[r] = x.api
    BY <1>1 DEF PublishAPI, TypeOK
<1>5. /\ \A r \in Routes : published[r] # None => published[r] \in Api
      /\ x.api # None
    BY <1>1, NoneAssumption DEF TypeOK
<1>6. \A r \in Routes : published[r] # None /\ published'[r] # None =>
            /\ published'[r].spec >= published[r].spec
            /\ published'[r].plugins >= published[r].plugins
    <2>. SUFFICES ASSUME NEW r \in Routes, published[r] # None, published'[r] # None
                  PROVE  /\ published'[r].spec >= published[r].spec
                         /\ published'[r].plugins >= published[r].plugins
        OBVIOUS
    <2>1. published[r].spec \in Nat /\ published[r].plugins \in Nat
        BY <1>5 DEF Api
    <2>2. x.api.spec \in Nat /\ x.api.plugins \in Nat
        BY <1>1 DEF Api
    <2>3. CASE published'[r] = published[r]
        BY <2>1, <2>3
    <2>4. CASE r = x.api.route /\ published'[r] = x.api
        BY <1>1, <2>1, <2>2, <2>4, WorkerFacts DEF AheadOfCentral
    <2>. QED
        BY <1>4, <2>3, <2>4
<1>7. TypeOK'
    BY <1>1, <1>2, <1>3, <1>4 DEF TypeOK, kong
<1>8. VersionsCounted'
    BY <1>1 DEF VersionsCounted, kong
<1>9. PublishedWasRead'
    <2>. SUFFICES ASSUME NEW s \in Services, NEW r \in Routes, r \in RoutesOf[s], published'[r] # None
                  PROVE  /\ published'[r].spec <= specVersion[s]
                         /\ published'[r].plugins <= pluginVersion[r]
        BY <1>1 DEF PublishedWasRead, kong
    <2>1. CASE published'[r] = published[r]
        BY <2>1 DEF PublishedWasRead
    <2>2. CASE r = x.api.route /\ published'[r] = x.api
        BY <1>1, <2>2, Belongs
    <2>. QED
        BY <1>4, <2>1, <2>2
<1>10. sent' = sent \/ sent' = sent \cup {<<Meaning(x.api), x.api.order>>}
    BY DEF PublishAPI
<1>11. SentIsCached'
    <2>1. ASSUME NEW api \in Api, <<Meaning(api), api.order>> = <<Meaning(x.api), x.api.order>>
          PROVE  makeChecksum(api) \in cache
        BY <1>1, <2>1 DEF Meaning, makeChecksum
    <2>. QED
        BY <1>1, <1>10, <2>1 DEF SentIsCached
<1>12. WorkersOfThisRound'
    BY <1>1, <1>3 DEF WorkersInv, WorkersOfThisRound
<1>13. ASSUME NEW z \in workers'
       PROVE  (ReadsItsService(z) /\ AheadOfCentral(z) /\ HoldsNews(z))'
    <2>1. CASE z = y
        <3>1. ReadsItsService(z)'
            BY <1>1, <1>3, <2>1, WorkerFacts DEF ReadsItsService, kong
        <3>2. \A r \in RoutesOf[x.service] : r \in Routes /\ published'[r] # None => published'[r].spec <= x.spec
            BY <1>1, <1>4, WorkerFacts DEF AheadOfCentral, Api
        <3>3. AheadOfCentral(z)' /\ HoldsNews(z)'
            BY <1>3, <2>1, <3>2, WorkerFacts DEF AheadOfCentral, HoldsNews
        <3>. QED
            BY <3>1, <3>3
    <2>2. CASE z \in workers \ {x}
        <3>1. /\ z.service # x.service /\ z.service \in Services
              /\ ReadsItsService(z) /\ AheadOfCentral(z) /\ HoldsNews(z)
              /\ RoutesOf[z.service] \subseteq Routes
            BY <2>2, WorkerFacts DEF TypeOK
        <3>2. \A r \in RoutesOf[z.service] : published'[r] = published[r]
            BY <1>1, <1>4, <3>1, Belongs
        <3>3. ReadsItsService(z)' /\ AheadOfCentral(z)'
            BY <1>1, <3>1, <3>2 DEF ReadsItsService, AheadOfCentral, kong
        <3>4. HoldsNews(z)'
            <4>1. z.step = "publish" => z.api.route # x.api.route
                BY <1>1, <3>1, Belongs DEF ReadsItsService
            <4>. QED
                BY <1>1, <1>10, <3>1, <4>1 DEF HoldsNews, Meaning
        <3>. QED
            BY <3>3, <3>4
    <2>. QED
        BY <1>3, <2>1, <2>2
<1>. QED
    BY <1>6, <1>7, <1>8, <1>9, <1>11, <1>12, <1>13 DEF WorkersInv

(* The end of a service.                                                     *)
LEMMA EndServiceStep ==
    ASSUME DiscoveryInv, NEW x \in workers, EndService(x)
    PROVE  DiscoveryInv'
BY WorkerEnds DEF EndService, DiscoveryInv, TypeOK

(* The invariant is inductive, and no step replaces an API by an older one.  *)
LEMMA NextInv ==
    ASSUME DiscoveryInv, [Next]_vars
    PROVE  /\ DiscoveryInv'
           /\ \A r \in Routes : published[r] # None /\ published'[r] # None =>
                /\ published'[r].spec >= published[r].spec
                /\ published'[r].plugins >= published[r].plugins
<1> DEFINE Newer == \A r \in Routes : published[r] # None /\ published'[r] # None =>
                        /\ published'[r].spec >= published[r].spec
                        /\ published'[r].plugins >= published[r].plugins
<1>1. ASSUME UNCHANGED published
      PROVE  Newer
    <2>1. \A r \in Routes : published[r] # None => published[r].spec \in Nat /\ published[r].plugins \in Nat
        BY DEF DiscoveryInv, TypeOK, Api
    <2>. QED
        BY <1>1, <2>1
<1>2. CASE Change \/ LoopStep \/ Crash
    <2>1. UNCHANGED published
        BY <1>2 DEF Change, LoopStep, NewAgent, ListServices, Wait, NextRound, Exit, Restart, Crash
    <2>. QED
        BY <1>1, <1>2, <2>1, ChangeStep, ListServicesStep, LoopsOn DEF LoopStep
<1>3. ASSUME NEW x \in workers, ListRoutesForService(x) \/ GetSpecForService(x) \/ PrepareRoute(x)
                                \/ EndService(x)
      PROVE  DiscoveryInv' /\ Newer
    <2>1. UNCHANGED published
        BY <1>3 DEF ListRoutesForService, GetSpecForService, PrepareRoute, EndService
    <2>. QED
        BY <1>1, <1>3, <2>1, ListRoutesStep, GetSpecStep, PrepareRouteStep, EndServiceStep
<1>4. ASSUME NEW x \in workers, PublishAPI(x)
      PROVE  DiscoveryInv' /\ Newer
    BY <1>4, PublishAPIStep
<1>5. CASE UNCHANGED vars
    <2>1. DiscoveryInv'
        BY <1>5 DEF vars, kong, agent, DiscoveryInv, TypeOK, VersionsCounted, PublishedWasRead,
            SentIsCached, WorkersInv, WorkersOfThisRound, ReadsItsService, AheadOfCentral, HoldsNews
    <2>. QED
        BY <1>1, <1>5, <2>1 DEF vars
<1>. QED
    BY <1>2, <1>3, <1>4, <1>5 DEF Next, WorkerStep

(* In every behaviour of the agent, of Kong and of Central.                  *)
THEOREM DiscoveryInvariant == Spec => []DiscoveryInv
<1>1. Init => DiscoveryInv
    BY InitInv
<1>2. DiscoveryInv /\ [Next]_vars => DiscoveryInv'
    BY NextInv
<1>. QED
    BY <1>1, <1>2, PTL DEF Spec

(* Types, and with them that a service is in the hands of one worker.        *)
THEOREM TypeCorrect == Spec => []TypeOK
<1>1. DiscoveryInv => TypeOK
    BY DEF DiscoveryInv
<1>. QED
    BY <1>1, DiscoveryInvariant, PTL

(* Within one life of the agent no state of an API is published twice, but   *)
(* for the order of its plugins (agent.go:318-327, 388).                     *)
THEOREM OnlyNews == Spec => []PublishesNews
<1>1. DiscoveryInv => PublishesNews
    BY DEF DiscoveryInv, WorkersInv, HoldsNews, PublishesNews
<1>. QED
    BY <1>1, DiscoveryInvariant, PTL

(* No state of an API in Central is replaced by an older one (agent.go:172). *)
THEOREM NothingOlder == Spec => NeverOlder
<1> DEFINE Newer == \A r \in Routes : published[r] # None /\ published'[r] # None =>
                        /\ published'[r].spec >= published[r].spec
                        /\ published'[r].plugins >= published[r].plugins
<1>1. DiscoveryInv /\ [Next]_vars => Newer
    BY NextInv
<1>. QED
    BY <1>1, DiscoveryInvariant, PTL DEF Spec, NeverOlder
=============================================================================
