-------------------------- MODULE KongPlugins_proof --------------------------
(* What the plugin lookup of the agent returns, for every listing. *)
EXTENDS KongPlugins, FiniteSetTheorems, TLAPS

(* A non-empty set of numbers has a least one.  The initial segments of its *)
(* members are finite sets, which strict inclusion orders well.             *)
LEMMA LeastIsLeast ==
    ASSUME NEW S \in SUBSET Nat, S # {}
    PROVE  Least(S) \in S /\ \A j \in S : Least(S) <= j
<1> DEFINE R == StrictSubsetOrdering(Nat)
           T == {1..i : i \in S}
<1>1. IsWellFoundedOn(R, FiniteSubsetsOf(Nat))
    BY FS_StrictSubsetOrderingWellFounded
<1>2. T \subseteq FiniteSubsetsOf(Nat) /\ T # {}
    <2>1. \A i \in S : 1..i \in FiniteSubsetsOf(Nat)
        <3>. TAKE i \in S
        <3>1. IsFiniteSet(1..i)
            BY FS_Interval
        <3>2. 1..i \in SUBSET Nat
            OBVIOUS
        <3>. QED
            BY <3>1, <3>2 DEF FiniteSubsetsOf
    <2>2. PICK i \in S : TRUE
        OBVIOUS
    <2>. QED
        BY <2>1, <2>2
<1>3. PICK x \in T : \A y \in T : <<y, x>> \notin R
    <2>. HIDE DEF R, T
    <2>. QED BY <1>1, <1>2, WFMin
<1>4. PICK i \in S : x = 1..i
    OBVIOUS
<1>5. ASSUME NEW j \in S PROVE i <= j
    <2>1. <<1..j, 1..i>> \notin R
        BY <1>3, <1>4
    <2>2. CASE j < i
        <3>1. 1..j \subseteq 1..i /\ i \in 1..i /\ i \notin 1..j
            BY <2>2
        <3>2. <<1..j, 1..i>> \in R
            BY <3>1 DEF StrictSubsetOrdering
        <3>. QED BY <2>1, <3>2
    <2>. QED BY <2>2
<1>. QED
    BY <1>5 DEF Least

(* The lookup answers None exactly if the loop nowhere returns, else the    *)
(* first plugin at which it returns.                                        *)
LEMMA LookupAnswer ==
    ASSUME NEW list \in PluginTable, NEW s, NEW r, NEW c, NEW name
    PROVE  LET points == ReturnPoints(list, s, r, c, name)
               found  == getSpecificPlugin(list, s, r, c, name)
           IN  /\ points = {} => found = None
               /\ points # {} => /\ found \in points
                                 /\ found # None
                                 /\ \A j \in points : found <= j
<1> DEFINE points == ReturnPoints(list, s, r, c, name)
           found  == getSpecificPlugin(list, s, r, c, name)
<1>1. points \in SUBSET Nat
    BY MaxPluginAssumption DEF ReturnPoints, Named, Present, PluginIds
<1>2. CASE points = {}
    BY <1>2 DEF getSpecificPlugin
<1>3. CASE points # {}
    <2>1. found = Least(points)
        BY <1>3 DEF getSpecificPlugin
    <2>2. found \in points /\ \A j \in points : found <= j
        <3>. HIDE DEF points, found
        <3>. QED BY <1>1, <1>3, <2>1, LeastIsLeast
    <2>. QED
        BY <1>1, <1>3, <2>2, NoneAssumption
<1>. QED
    BY <1>2, <1>3

(* The loop returns at a plugin of exactly the wanted scopes, if not before. *)
LEMMA ScopedAreReturnPoints ==
    ASSUME NEW list, NEW s, NEW r, NEW c, NEW name
    PROVE  ScopedTo(list, s, r, c, name) \subseteq ReturnPoints(list, s, r, c, name)
BY MaxPluginAssumption DEF ScopedTo, ReturnPoints, Named, Present, PluginIds

(* The lookup AddRouteACL and RemoveRouteACL start with is exact although   *)
(* its flags stick, provided that no ACL plugin has a consumer (Kong allows *)
(* none) or is scoped to a service besides a route: if some ACL plugin is   *)
(* scoped to just the route, the answer is one of those, else it is None    *)
(* (provisioning.go 136, 181 and 356-381).                                  *)
THEOREM AclLookupIsExact ==
    ASSUME NEW list \in PluginTable, NEW r \in Routes,
           \A i \in Named(list, ACL) : list[i].consumer = None,
           \A i \in Named(list, ACL) : list[i].route # None => list[i].service = None
    PROVE  LET found  == getSpecificPlugin(list, None, r, None, ACL)
               wanted == ScopedTo(list, None, r, None, ACL)
           IN  IF wanted = {} THEN found = None ELSE found \in wanted
<1> DEFINE points == ReturnPoints(list, None, r, None, ACL)
           found  == getSpecificPlugin(list, None, r, None, ACL)
           wanted == ScopedTo(list, None, r, None, ACL)
<1>1. \A i \in Named(list, ACL) : list[i].route = r => i \in wanted
    BY NoneAssumption DEF ScopedTo
<1>2. \A i \in points : \E j \in wanted : j <= i
    BY <1>1 DEF ReturnPoints
<1>3. wanted \subseteq points
    BY ScopedAreReturnPoints
<1>4. points \subseteq Nat
    BY MaxPluginAssumption DEF ReturnPoints, Named, Present, PluginIds
<1>5. /\ points = {} => found = None
      /\ points # {} => found \in points /\ \A j \in points : found <= j
    BY LookupAnswer
<1>6. CASE wanted = {}
    <2>1. points = {}
        BY <1>2, <1>6
    <2>. QED
        BY <1>5, <1>6, <2>1
<1>7. CASE wanted # {}
    <2>1. found \in points /\ \A j \in points : found <= j
        BY <1>3, <1>5, <1>7
    <2>2. PICK j \in wanted : j <= found
        BY <1>2, <2>1
    <2>3. j \in points /\ found <= j
        BY <1>3, <2>1
    <2>4. found = j
        <3>. HIDE DEF found, points
        <3>. QED BY <1>4, <2>1, <2>2, <2>3
    <2>. QED
        BY <1>7, <2>4
<1>. QED
    BY <1>6, <1>7

(* Where the rate limiting plugins on a route are those of one consumer, and *)
(* none is scoped to a service as well, the lookup returns one of them: the  *)
(* first plugin of the route raises the last flag that is missing, and is    *)
(* returned itself.                                                          *)
THEOREM RateLookupIsExact ==
    ASSUME NEW list \in PluginTable, NEW r, NEW c,
           \A i \in Named(list, RateLimiting) :
               list[i].route = r => list[i].service = None /\ list[i].consumer = c,
           getSpecificPlugin(list, None, r, c, RateLimiting) # None
    PROVE  getSpecificPlugin(list, None, r, c, RateLimiting)
               \in ScopedTo(list, None, r, c, RateLimiting)
<1> DEFINE points == ReturnPoints(list, None, r, c, RateLimiting)
           found  == getSpecificPlugin(list, None, r, c, RateLimiting)
<1>1. found \in points /\ \A j \in points : found <= j
    BY LookupAnswer
<1>2. PICK j \in Named(list, RateLimiting) : j <= found /\ list[j].route = r
    BY <1>1 DEF ReturnPoints
<1>3. j \in ScopedTo(list, None, r, c, RateLimiting)
    BY <1>2 DEF ScopedTo
<1>4. j \in points
    BY <1>3, ScopedAreReturnPoints
<1>5. found = j
    <2>1. points \subseteq Nat
        BY MaxPluginAssumption DEF ReturnPoints, Named, Present, PluginIds
    <2>. HIDE DEF found, points
    <2>. QED
        BY <1>1, <1>2, <1>4, <2>1
<1>. QED
    BY <1>3, <1>5

(* Of two plugins the more specific one is kept.                             *)
LEMMA MostSpecificKeepsRank ==
    ASSUME NEW p1 \in Plugin, NEW p2 \in Plugin
    PROVE  /\ mostSpecific(p1, p2) \in {p1, p2}
           /\ Rank(p1) <= Rank(mostSpecific(p1, p2))
           /\ Rank(p2) <= Rank(mostSpecific(p1, p2))
<1>1. p1 # None /\ p2 # None
    BY NoPluginAssumption
<1>. QED
    BY <1>1 DEF mostSpecific, Rank

(* The scan of GetEffectivePlugins is a recursion that has a solution. The   *)
(* argument is that of least counterexamples: the shortest scan without a    *)
(* solution would extend one that has a solution.                            *)
LEMMA ScanSteps ==
    ASSUME NEW list, NEW route, NEW service, NEW name
    PROVE  \E scan :
             /\ GetEffectivePlugin(list, route, service, name) = scan[MaxPlugin]
             /\ scan[0] = None
             /\ \A n \in PluginIds :
                  scan[n] = IF Applies(list[n], route, service) /\ list[n].name = name
                            THEN mostSpecific(scan[n - 1], list[n])
                            ELSE scan[n - 1]
<1> DEFINE Keep(n, kept) == IF Applies(list[n], route, service) /\ list[n].name = name
                            THEN mostSpecific(kept, list[n])
                            ELSE kept
           IsScan(g, m) == g = [n \in 0..m |-> IF n = 0 THEN None ELSE Keep(n, g[n - 1])]
           Bad == {m \in Nat : \A g : ~IsScan(g, m)}
           scan == CHOOSE g : IsScan(g, MaxPlugin)
<1>1. GetEffectivePlugin(list, route, service, name) = scan[MaxPlugin]
    BY DEF GetEffectivePlugin
<1>. HIDE DEF Keep
<1>2. Bad = {}
    <2>. SUFFICES ASSUME Bad # {} PROVE FALSE
        OBVIOUS
    <2>1. PICK b \in Bad : \A m \in Bad : b <= m
        <3>. HIDE DEF Bad
        <3>1. Bad \in SUBSET Nat
            BY DEF Bad
        <3>. QED
            BY <3>1, LeastIsLeast
    <2>2. b # 0
        <3>1. IsScan([n \in 0..0 |-> None], 0)
            OBVIOUS
        <3>. QED
            BY <3>1
    <2>3. b \in Nat /\ b - 1 \in Nat /\ b - 1 \notin Bad
        <3>1. b \in Nat
            OBVIOUS
        <3>. HIDE DEF Bad
        <3>. QED
            BY <2>1, <2>2, <3>1
    <2>4. PICK g : IsScan(g, b - 1)
        BY <2>3
    <2> DEFINE h == [n \in 0..b |-> IF n = b THEN Keep(b, g[b - 1]) ELSE g[n]]
    <2>5. \A n \in 0..(b - 1) : g[n] = IF n = 0 THEN None ELSE Keep(n, g[n - 1])
        BY <2>4
    <2>6. ASSUME NEW n \in 0..b
          PROVE  h[n] = IF n = 0 THEN None ELSE Keep(n, h[n - 1])
        <3>1. CASE n = b
            <4>1. h[b] = Keep(b, g[b - 1]) /\ h[b - 1] = g[b - 1]
                BY <2>2, <2>3
            <4>. QED
                BY <2>2, <3>1, <4>1
        <3>2. CASE n # b
            <4>1. n \in 0..(b - 1) /\ h[n] = g[n]
                BY <2>3, <3>2
            <4>2. n # 0 => n - 1 \in 0..b /\ n - 1 # b /\ h[n - 1] = g[n - 1]
                BY <2>3, <4>1
            <4>. QED
                BY <2>5, <4>1, <4>2
        <3>. QED
            BY <3>1, <3>2
    <2>7. IsScan(h, b)
        <3>1. h = [n \in 0..b |-> h[n]]
            OBVIOUS
        <3>. HIDE DEF h
        <3>. QED
            BY <2>6, <3>1
    <2>. QED
        BY <2>1, <2>7
<1>3. IsScan(scan, MaxPlugin)
    <2>1. \E g : IsScan(g, MaxPlugin)
        <3>. HIDE DEF IsScan
        <3>. QED
            BY <1>2, MaxPluginAssumption
    <2>. QED
        BY <2>1, Zenon
<1>4. \A n \in 0..MaxPlugin : scan[n] = IF n = 0 THEN None ELSE Keep(n, scan[n - 1])
    <2>. HIDE DEF scan
    <2>. QED
        BY <1>3
<1>5. scan[0] = None /\ \A n \in PluginIds : scan[n] = Keep(n, scan[n - 1])
    <2>. HIDE DEF scan
    <2>. QED
        BY <1>4, MaxPluginAssumption DEF PluginIds
<1>. QED
    <2>. HIDE DEF scan
    <2>1. \A n \in PluginIds :
            scan[n] = IF Applies(list[n], route, service) /\ list[n].name = name
                      THEN mostSpecific(scan[n - 1], list[n])
                      ELSE scan[n - 1]
        BY <1>5 DEF Keep
    <2>. QED
        BY <1>1, <1>5, <2>1, Zenon

(* GetEffectivePlugins keeps, of the enabled plugins of a name that apply to *)
(* a route, one that no other beats in specificity, in whatever order Kong   *)
(* lists them, and forgets none (plugins.go 18-74).                          *)
THEOREM EffectivePluginIsMostSpecific ==
    ASSUME NEW list \in PluginTable, NEW route, NEW service, NEW name
    PROVE  LET applicable == {i \in Named(list, name) : Applies(list[i], route, service)}
               kept == GetEffectivePlugin(list, route, service, name)
           IN  IF applicable = {} THEN kept = None
               ELSE /\ \E i \in applicable : kept = list[i]
                    /\ \A i \in applicable : Rank(list[i]) <= Rank(kept)
<1>1. PICK scan :
        /\ GetEffectivePlugin(list, route, service, name) = scan[MaxPlugin]
        /\ scan[0] = None
        /\ \A n \in PluginIds :
             scan[n] = IF Applies(list[n], route, service) /\ list[n].name = name
                       THEN mostSpecific(scan[n - 1], list[n])
                       ELSE scan[n - 1]
    BY ScanSteps
<1> DEFINE applicable == {i \in Named(list, name) : Applies(list[i], route, service)}
           upto(n) == {i \in applicable : i <= n}
           Best(n) == IF upto(n) = {} THEN scan[n] = None
                      ELSE /\ \E i \in upto(n) : scan[n] = list[i]
                           /\ \A i \in upto(n) : Rank(list[i]) <= Rank(scan[n])
           Bad == {n \in 0..MaxPlugin : ~Best(n)}
<1>2. PluginIds \subseteq Nat \ {0} /\ applicable \subseteq PluginIds
    BY MaxPluginAssumption DEF PluginIds, Named, Present
<1>3. \A i \in PluginIds : i \in applicable <=> Applies(list[i], route, service) /\ list[i].name = name
    BY DEF Named, Present, Applies
<1>4. \A i \in applicable : list[i] \in Plugin
    BY DEF Named, Present, PluginTable
<1>. HIDE DEF applicable
<1>5. Best(0)
    <2>1. upto(0) = {}
        <3>. SUFFICES ASSUME NEW i \in applicable, i <= 0 PROVE FALSE
            OBVIOUS
        <3>. QED
            BY <1>2
    <2>. QED
        BY <1>1, <2>1
<1>6. ASSUME NEW n \in PluginIds, Best(n - 1)
      PROVE  Best(n)
    <2>1. n \in Nat /\ n - 1 \in Nat /\ upto(n - 1) \subseteq upto(n)
          /\ \A i \in upto(n) : i = n \/ i \in upto(n - 1)
        <3>1. n \in Nat /\ n # 0 /\ \A i \in applicable : i \in Nat
            BY <1>2
        <3>2. \A i \in applicable : (i <= n - 1 => i <= n) /\ (i <= n => i = n \/ i <= n - 1)
            BY <3>1
        <3>. QED
            BY <3>1, <3>2
    <2>2. CASE n \notin applicable
        <3>1. upto(n) = upto(n - 1)
            BY <2>1, <2>2
        <3>2. scan[n] = scan[n - 1]
            BY <1>1, <1>3, <2>2
        <3>. QED
            <4>. HIDE DEF upto
            <4>. QED BY <1>6, <3>1, <3>2
    <2>3. CASE n \in applicable /\ upto(n - 1) = {}
        <3>1. scan[n] = list[n]
            BY <1>1, <1>3, <1>6, <2>3 DEF mostSpecific
        <3>2. n \in upto(n)
            BY <2>1, <2>3
        <3>3. Rank(list[n]) \in Nat
            BY DEF Rank
        <3>. QED
            <4>. HIDE DEF upto
            <4>. QED BY <2>1, <2>3, <3>1, <3>2, <3>3
    <2>4. CASE n \in applicable /\ upto(n - 1) # {}
        <3>1. PICK j \in upto(n - 1) : scan[n - 1] = list[j]
            BY <1>6, <2>4
        <3>2. scan[n] = mostSpecific(list[j], list[n]) /\ n \in upto(n) /\ j \in upto(n)
            BY <1>1, <1>3, <2>1, <2>4, <3>1
        <3>3. list[j] \in Plugin /\ list[n] \in Plugin
            BY <1>4, <2>4
        <3>4. /\ scan[n] = list[j] \/ scan[n] = list[n]
              /\ Rank(list[j]) <= Rank(scan[n])
              /\ Rank(list[n]) <= Rank(scan[n])
            BY <3>2, <3>3, MostSpecificKeepsRank
        <3>5. \A i \in upto(n - 1) : Rank(list[i]) <= Rank(list[j])
            BY <1>6, <2>4, <3>1
        <3>6. \A p : Rank(p) \in Nat
            BY DEF Rank
        <3>. QED
            <4>. HIDE DEF upto
            <4>. QED BY <2>1, <3>2, <3>4, <3>5, <3>6
    <2>. QED
        BY <2>2, <2>3, <2>4
<1>7. Bad = {}
    <2>. SUFFICES ASSUME Bad # {} PROVE FALSE
        OBVIOUS
    <2>. HIDE DEF Best
    <2>1. PICK b \in Bad : \A n \in Bad : b <= n
        <3>1. Bad \in SUBSET Nat
            BY MaxPluginAssumption
        <3>. HIDE DEF Bad
        <3>. QED
            BY <3>1, LeastIsLeast
    <2>2. b \in PluginIds /\ b - 1 \in 0..MaxPlugin /\ b - 1 \notin Bad
        BY <1>5, <2>1, MaxPluginAssumption DEF PluginIds
    <2>. QED
        BY <1>6, <2>1, <2>2
<1>8. Best(MaxPlugin)
    <2>. HIDE DEF Best
    <2>. QED
        BY <1>7, MaxPluginAssumption
<1>9. upto(MaxPlugin) = applicable
    <2>1. \A i \in applicable : i <= MaxPlugin
        BY <1>2, MaxPluginAssumption DEF PluginIds
    <2>. QED
        BY <2>1
<1>. QED
    <2>. HIDE DEF upto
    <2>1. IF applicable = {} THEN scan[MaxPlugin] = None
          ELSE /\ \E i \in applicable : scan[MaxPlugin] = list[i]
               /\ \A i \in applicable : Rank(list[i]) <= Rank(scan[MaxPlugin])
        BY <1>8, <1>9
    <2>. QED
        BY <1>1, <2>1 DEF applicable
=============================================================================
