-------------------------- MODULE PublishedApi_proof --------------------------
(* What becomes of one service: its specification is the first that is       *)
(* served (SpecRetrieval), and what is published with it for each of its     *)
(* routes is right (RouteApi), for every configuration, document, route and  *)
(* plugin, and every number of paths and faults.                             *)
EXTENDS RouteApi, SpecRetrieval, SequenceTheorems, FiniteSetTheorems, TLAPS

IsList(s) == s \in Seq(ToSet(s))

(* A non-empty set of numbers has a least one: the first numbers up to any   *)
(* of its members are a finite set, and strict inclusion orders those well.  *)
LEMMA LeastNumber ==
    ASSUME NEW S \in SUBSET Nat, S # {}
    PROVE  \E m \in S : \A j \in S : m <= j
<1> DEFINE Upto(m) == 1..m
           R == StrictSubsetOrdering(Nat)
           T == {Upto(m) : m \in S}
<1>1. IsWellFoundedOn(R, FiniteSubsetsOf(Nat))
    BY FS_StrictSubsetOrderingWellFounded
<1>2. T \subseteq FiniteSubsetsOf(Nat) /\ T # {}
    <2>1. ASSUME NEW m \in S PROVE Upto(m) \in FiniteSubsetsOf(Nat)
        <3>1. IsFiniteSet(1..m) /\ 1..m \in SUBSET Nat
            BY FS_Interval
        <3>. QED
            BY <3>1 DEF FiniteSubsetsOf
    <2>. HIDE DEF Upto
    <2>. QED
        BY <2>1
<1>3. PICK x \in T : \A y \in T : <<y, x>> \notin R
    <2>. HIDE DEF R, T
    <2>. QED
        BY <1>1, <1>2, WFMin
<1>4. PICK m \in S : x = Upto(m)
    OBVIOUS
<1>5. ASSUME NEW j \in S, j < m PROVE FALSE
    <2>1. Upto(j) \subseteq Upto(m) /\ m \in Upto(m) /\ m \notin Upto(j)
        BY <1>5
    <2>2. Upto(j) \in SUBSET Nat /\ Upto(m) \in SUBSET Nat /\ Upto(j) # Upto(m)
        BY <2>1
    <2>3. <<Upto(j), Upto(m)>> \in R
        BY <2>1, <2>2 DEF StrictSubsetOrdering
    <2>. QED
        BY <1>3, <1>4, <2>3
<1>. QED
    BY <1>5

-----------------------------------------------------------------------------
(* Sequences of sequences.                                                   *)

(* The empty list and a list of one.                                         *)
LEMMA ShortLists ==
    ASSUME NEW e
    PROVE  /\ ListedOnce(<<>>) /\ ToSet(<<>>) = {}
           /\ ListedOnce(<<e>>) /\ ToSet(<<e>>) = {e}
<1>1. ToSet(<<>>) = {} /\ ToSet(<<e>>) = {e}
    BY DEF ToSet
<1>2. <<>> \in Seq({}) /\ <<e>> \in Seq({e})
    OBVIOUS
<1>3. IsInjective(<<>>) /\ IsInjective(<<e>>)
    BY DEF IsInjective
<1>. QED
    BY <1>1, <1>2, <1>3 DEF ListedOnce

(* One list appended to another.                                             *)
LEMMA Appended ==
    ASSUME NEW a, NEW b, IsList(a), IsList(b)
    PROVE  /\ IsList(a \o b)
           /\ ToSet(a \o b) = ToSet(a) \cup ToSet(b)
           /\ IsInjective(a) /\ IsInjective(b) /\ ToSet(a) \cap ToSet(b) = {}
                => IsInjective(a \o b)
<1> DEFINE T == ToSet(a) \cup ToSet(b)
<1>1. a \in Seq(T) /\ b \in Seq(T)
    BY DEF IsList
<1>2. /\ a \o b \in Seq(T) /\ Len(a) \in Nat /\ Len(b) \in Nat
      /\ DOMAIN a = 1..Len(a) /\ DOMAIN b = 1..Len(b)
      /\ DOMAIN (a \o b) = 1..(Len(a) + Len(b))
      /\ \A k \in 1..(Len(a) + Len(b)) :
            (a \o b)[k] = IF k <= Len(a) THEN a[k] ELSE b[k - Len(a)]
    <2>. HIDE DEF T
    <2>. QED
        BY <1>1, ConcatProperties, LenProperties
<1> DEFINE c == a \o b
           m == Len(a)
           n == Len(b)
<1>. HIDE DEF c, m, n
<1>3. /\ m \in Nat /\ n \in Nat /\ DOMAIN a = 1..m /\ DOMAIN b = 1..n /\ DOMAIN c = 1..(m + n)
      /\ \A k \in 1..m : c[k] = a[k]
      /\ \A k \in 1..n : c[m + k] = b[k]
    BY <1>2 DEF c, m, n
<1>4. ASSUME NEW k \in DOMAIN c
      PROVE  k \in 1..m \/ \E j \in 1..n : k = m + j
    <2>1. k \notin 1..m => k - m \in 1..n /\ k = m + (k - m)
        BY <1>3
    <2>. QED
        BY <2>1
<1>5. ToSet(c) = T
    <2>1. \A k \in DOMAIN c : c[k] \in T
        BY <1>3, <1>4 DEF ToSet
    <2>2. \A k \in 1..m : k \in DOMAIN c
        BY <1>3
    <2>3. \A k \in 1..n : m + k \in DOMAIN c
        BY <1>3
    <2>4. \A x \in T : x \in ToSet(c)
        BY <1>3, <2>2, <2>3 DEF ToSet
    <2>. QED
        BY <2>1, <2>4 DEF ToSet
<1>6. ASSUME IsInjective(a), IsInjective(b), ToSet(a) \cap ToSet(b) = {}
      PROVE  IsInjective(c)
    <2>1. \A k, j \in DOMAIN a : a[k] = a[j] => k = j
        BY <1>6 DEF IsInjective
    <2>2. \A k, j \in DOMAIN b : b[k] = b[j] => k = j
        BY <1>6 DEF IsInjective
    <2>3. \A k \in DOMAIN a, j \in DOMAIN b : a[k] # b[j]
        BY <1>6 DEF ToSet
    <2>4. ASSUME NEW k \in DOMAIN c, NEW j \in DOMAIN c, c[k] = c[j]
          PROVE  k = j
        <3>1. CASE k \in 1..m /\ j \in 1..m
            BY <1>3, <2>1, <2>4, <3>1
        <3>2. ASSUME NEW x \in 1..n, k = m + x, j \in 1..m
              PROVE  FALSE
            BY <1>3, <2>3, <2>4, <3>2
        <3>3. ASSUME NEW x \in 1..n, j = m + x, k \in 1..m
              PROVE  FALSE
            BY <1>3, <2>3, <2>4, <3>3
        <3>4. ASSUME NEW x \in 1..n, NEW y \in 1..n, k = m + x, j = m + y
              PROVE  k = j
            BY <1>3, <2>2, <2>4, <3>4
        <3>. QED
            BY <1>4, <3>1, <3>2, <3>3, <3>4
    <2>. QED
        BY <2>4 DEF IsInjective
<1>. QED
    BY <1>2, <1>5, <1>6 DEF IsList, c

(* FlattenSeq is a recursion that has a solution: a shortest part of the     *)
(* sequence without one would extend a part that has one.                    *)
LEMMA FlattenSteps ==
    ASSUME NEW s, NEW n \in Nat \ {0}, Len(s) = n
    PROVE  \E f : /\ FlattenSeq(s) = f[n]
                  /\ \A m \in 1..n : f[m] = IF m = 1 THEN s[1] ELSE f[m - 1] \o s[m]
<1> DEFINE Add(kept, m) == kept \o s[m]
           IsFlat(f, l) == f = [m \in 1..l |-> IF m = 1 THEN s[m] ELSE Add(f[m - 1], m)]
           Bad == {l \in Nat \ {0} : \A f : ~IsFlat(f, l)}
           flatten == CHOOSE f : IsFlat(f, n)
<1>1. FlattenSeq(s) = flatten[n]
    BY DEF FlattenSeq
<1>. HIDE DEF Add
<1>2. Bad = {}
    <2>. SUFFICES ASSUME Bad # {} PROVE FALSE
        OBVIOUS
    <2>1. PICK l \in Bad : \A j \in Bad : l <= j
        <3>1. Bad \in SUBSET Nat
            OBVIOUS
        <3>. HIDE DEF Bad
        <3>. QED
            BY <3>1, LeastNumber
    <2>2. l # 1
        <3>1. IsFlat([m \in 1..1 |-> s[m]], 1)
            OBVIOUS
        <3>. QED
            BY <3>1
    <2>3. l \in Nat /\ l - 1 \in Nat \ {0} /\ l - 1 \notin Bad
        <3>1. l \in Nat \ {0}
            OBVIOUS
        <3>. HIDE DEF Bad
        <3>. QED
            BY <2>1, <2>2, <3>1
    <2>4. PICK g : IsFlat(g, l - 1)
        BY <2>3
    <2> DEFINE h == [m \in 1..l |-> IF m = l THEN Add(g[l - 1], l) ELSE g[m]]
    <2>5. \A m \in 1..(l - 1) : g[m] = IF m = 1 THEN s[m] ELSE Add(g[m - 1], m)
        BY <2>4
    <2>6. ASSUME NEW m \in 1..l
          PROVE  h[m] = IF m = 1 THEN s[m] ELSE Add(h[m - 1], m)
        <3>1. CASE m = l
            <4>1. h[l] = Add(g[l - 1], l) /\ h[l - 1] = g[l - 1]
                BY <2>2, <2>3
            <4>. QED
                BY <2>2, <3>1, <4>1
        <3>2. CASE m # l
            <4>1. m \in 1..(l - 1) /\ h[m] = g[m]
                BY <2>3, <3>2
            <4>2. m # 1 => m - 1 \in 1..l /\ m - 1 # l /\ h[m - 1] = g[m - 1]
                BY <2>3, <4>1
            <4>. QED
                BY <2>5, <4>1, <4>2
        <3>. QED
            BY <3>1, <3>2
    <2>7. IsFlat(h, l)
        <3>1. h = [m \in 1..l |-> h[m]]
            OBVIOUS
        <3>. HIDE DEF h
        <3>. QED
            BY <2>6, <3>1
    <2>. QED
        BY <2>1, <2>7
<1>3. IsFlat(flatten, n)
    <2>1. \E f : IsFlat(f, n)
        <3>. HIDE DEF IsFlat
        <3>. QED
            BY <1>2
    <2>. QED
        BY <2>1, Zenon
<1>4. \A m \in 1..n : flatten[m] = IF m = 1 THEN s[m] ELSE Add(flatten[m - 1], m)
    <2>. HIDE DEF flatten
    <2>. QED
        BY <1>3
<1>. HIDE DEF flatten
<1>. QED
    BY <1>1, <1>4 DEF Add

(* A sequence of lists, flattened, is a list of what they hold; nothing in   *)
(* it is listed twice if the lists hold different things, each once.         *)
LEMMA Flattened ==
    ASSUME NEW n \in Nat, NEW s, s = [k \in 1..n |-> s[k]],
           \A k \in 1..n : IsList(s[k])
    PROVE  /\ IsList(FlattenSeq(s))
           /\ ToSet(FlattenSeq(s)) = UNION {ToSet(s[k]) : k \in 1..n}
           /\ /\ \A k \in 1..n : IsInjective(s[k])
              /\ \A j, k \in 1..n : j # k => ToSet(s[j]) \cap ToSet(s[k]) = {}
              => IsInjective(FlattenSeq(s))
<1> DEFINE Upto(m) == UNION {ToSet(s[k]) : k \in 1..m}
           Apart == /\ \A k \in 1..n : IsInjective(s[k])
                    /\ \A j, k \in 1..n : j # k => ToSet(s[j]) \cap ToSet(s[k]) = {}
           Sound(list, m) == IsList(list) /\ ToSet(list) = Upto(m) /\ (Apart => IsInjective(list))
<1>1. Len(s) = n
    <2>1. s \in Seq({s[k] : k \in 1..n})
        OBVIOUS
    <2>2. DOMAIN s = 1..n
        OBVIOUS
    <2>. QED
        BY <2>1, <2>2, LenProperties
<1>2. CASE n = 0
    <2>1. FlattenSeq(s) = <<>>
        BY <1>1, <1>2 DEF FlattenSeq
    <2>2. Upto(0) = {}
        OBVIOUS
    <2>. QED
        BY <1>2, <2>1, <2>2, ShortLists DEF ListedOnce, IsList
<1>3. CASE n # 0
    <2>1. PICK f : /\ FlattenSeq(s) = f[n]
                   /\ \A m \in 1..n : f[m] = IF m = 1 THEN s[1] ELSE f[m - 1] \o s[m]
        <3>1. n \in Nat \ {0}
            BY <1>3
        <3>. QED
            BY <1>1, <3>1, FlattenSteps
    <2>2. Sound(f[1], 1)
        <3>1. f[1] = s[1] /\ 1 \in 1..n
            BY <1>3, <2>1
        <3>2. Upto(1) = ToSet(s[1])
            OBVIOUS
        <3>. QED
            BY <3>1, <3>2
    <2>3. ASSUME NEW m \in 2..n, Sound(f[m - 1], m - 1)
          PROVE  Sound(f[m], m)
        <3>1. m \in 1..n /\ m - 1 \in 1..n /\ f[m] = f[m - 1] \o s[m]
            <4>1. m \in 1..n /\ m - 1 \in 1..n /\ m # 1
                OBVIOUS
            <4>. QED
                BY <2>1, <4>1
        <3>2. IsList(s[m]) /\ IsList(f[m - 1]) /\ ToSet(f[m - 1]) = Upto(m - 1)
            BY <2>3, <3>1
        <3>3. Upto(m) = Upto(m - 1) \cup ToSet(s[m])
            <4>1. 1..m = 1..(m - 1) \cup {m}
                BY <3>1
            <4>. QED
                BY <4>1
        <3>4. Apart => IsInjective(f[m - 1]) /\ IsInjective(s[m])
                         /\ ToSet(f[m - 1]) \cap ToSet(s[m]) = {}
            <4>. SUFFICES ASSUME Apart, NEW x \in Upto(m - 1), x \in ToSet(s[m]) PROVE FALSE
                BY <2>3, <3>1, <3>2
            <4>1. PICK k \in 1..(m - 1) : x \in ToSet(s[k])
                OBVIOUS
            <4>2. k \in 1..n /\ k # m
                BY <3>1
            <4>. QED
                BY <3>1, <4>1, <4>2
        <3>. HIDE DEF Upto, Apart
        <3>. QED
            BY <3>1, <3>2, <3>3, <3>4, Appended
    <2>4. {m \in 1..n : ~Sound(f[m], m)} = {}
        <3> DEFINE Bad == {m \in 1..n : ~Sound(f[m], m)}
        <3>. SUFFICES ASSUME Bad # {} PROVE FALSE
            OBVIOUS
        <3>1. Bad \in SUBSET Nat
            OBVIOUS
        <3>2. PICK m \in Bad : \A j \in Bad : m <= j
            <4>. HIDE DEF Bad
            <4>. QED
                BY <3>1, LeastNumber
        <3>3. m \in 1..n /\ ~Sound(f[m], m)
            OBVIOUS
        <3>. HIDE DEF Sound
        <3>4. m \in 2..n
            BY <2>2, <3>3
        <3>5. m - 1 \in 1..n /\ ~(m <= m - 1)
            BY <3>4
        <3>6. Sound(f[m - 1], m - 1)
            BY <3>2, <3>5
        <3>. QED
            BY <2>3, <3>3, <3>4, <3>6
    <2>5. Sound(f[n], n)
        <3>1. n \in 1..n
            BY <1>3
        <3>. HIDE DEF Sound
        <3>. QED
            BY <2>4, <3>1
    <2>. QED
        BY <2>1, <2>5
<1>. QED
    BY <1>2, <1>3

-----------------------------------------------------------------------------
(* Endpoints.                                                                *)

Served(r) == {p \in ToSet(r.protocols) : PortOf(p) # 0}

EndpointsAt(r, places) ==
    {Endpoint(place[1], PortOf(p), p, <<place[2], path>>) :
        place \in places, path \in ToSet(r.paths), p \in Served(r)}

(* The endpoints at one place. *)
EndpointsOf(r, host, basePath) == EndpointsAt(r, {<<host, basePath>>})

IsAt(e, r, host, basePath) ==
    \E path \in ToSet(r.paths), p \in Served(r) :
        e = Endpoint(host, PortOf(p), p, <<basePath, path>>)

Whole(r) == ListedOnce(r.hosts) /\ ListedOnce(r.paths) /\ ListedOnce(r.protocols)

(* A list is a sequence, and holds different things at different places.     *)
LEMMA ListShape ==
    ASSUME NEW list, ListedOnce(list)
    PROVE  /\ Len(list) \in Nat /\ DOMAIN list = 1..Len(list)
           /\ \A k \in DOMAIN list : list[k] \in ToSet(list)
           /\ \A x \in ToSet(list) : \E k \in DOMAIN list : x = list[k]
           /\ \A j, k \in DOMAIN list : j # k => list[j] # list[k]
           /\ list = <<>> <=> ToSet(list) = {}
<1>1. list \in Seq(ToSet(list))
    BY DEF ListedOnce
<1>2. Len(list) \in Nat /\ DOMAIN list = 1..Len(list)
    BY <1>1, LenProperties
<1>3. list = <<>> <=> Len(list) = 0
    BY <1>1, EmptySeq
<1>4. Len(list) = 0 <=> ToSet(list) = {}
    <2>1. Len(list) # 0 => 1 \in DOMAIN list
        BY <1>2
    <2>2. Len(list) = 0 => DOMAIN list = {}
        BY <1>2
    <2>. QED
        BY <2>1, <2>2 DEF ToSet
<1>5. \A j, k \in DOMAIN list : j # k => list[j] # list[k]
    BY DEF ListedOnce, IsInjective
<1>. QED
    BY <1>2, <1>3, <1>4, <1>5 DEF ToSet

(* Lists with nothing in common make one list.                               *)
LEMMA FlatList ==
    ASSUME NEW n \in Nat, NEW s, s = [k \in 1..n |-> s[k]],
           \A k \in 1..n : ListedOnce(s[k]),
           \A j, k \in 1..n : j # k => ToSet(s[j]) \cap ToSet(s[k]) = {}
    PROVE  /\ ListedOnce(FlattenSeq(s))
           /\ ToSet(FlattenSeq(s)) = UNION {ToSet(s[k]) : k \in 1..n}
<1>1. \A k \in 1..n : IsList(s[k]) /\ IsInjective(s[k])
    BY DEF ListedOnce, IsList
<1>2. /\ IsList(FlattenSeq(s))
      /\ ToSet(FlattenSeq(s)) = UNION {ToSet(s[k]) : k \in 1..n}
      /\ /\ \A k \in 1..n : IsInjective(s[k])
         /\ \A j, k \in 1..n : j # k => ToSet(s[j]) \cap ToSet(s[k]) = {}
         => IsInjective(FlattenSeq(s))
    BY <1>1, Flattened
<1>. QED
    BY <1>1, <1>2 DEF ListedOnce, IsList

(* Endpoints of two hosts, ports, protocols or paths differ.                 *)
LEMMA EndpointsDiffer ==
    ASSUME NEW h1, NEW n1, NEW p1, NEW t1, NEW h2, NEW n2, NEW p2, NEW t2,
           Endpoint(h1, n1, p1, t1) = Endpoint(h2, n2, p2, t2)
    PROVE  h1 = h2 /\ n1 = n2 /\ p1 = p2 /\ t1 = t2
<1> DEFINE e == Endpoint(h1, n1, p1, t1)
           f == Endpoint(h2, n2, p2, t2)
<1>1. e.host = h1 /\ e.port = n1 /\ e.protocol = p1 /\ e.path = t1
    BY DEF Endpoint
<1>2. f.host = h2 /\ f.port = n2 /\ f.protocol = p2 /\ f.path = t2
    BY DEF Endpoint
<1>. HIDE DEF e, f
<1>3. e = f
    BY DEF e, f
<1>. QED
    BY <1>1, <1>2, <1>3

(* One endpoint for each protocol that is served.                            *)
LEMMA ProtocolEndpoints ==
    ASSUME NEW r, ListedOnce(r.protocols), NEW host, NEW path
    PROVE  LET list == handleProtocols(r, host, path)
           IN  /\ ListedOnce(list)
               /\ ToSet(list) = {Endpoint(host, PortOf(p), p, path) : p \in Served(r)}
<1> DEFINE n == Len(r.protocols)
           At(p) == Endpoint(host, PortOf(p), p, path)
           s == [k \in DOMAIN r.protocols |-> handleProtocol(r.protocols[k], host, path)]
<1>1. /\ n \in Nat /\ DOMAIN r.protocols = 1..n
      /\ \A k \in 1..n : r.protocols[k] \in ToSet(r.protocols)
      /\ \A p \in ToSet(r.protocols) : \E k \in 1..n : p = r.protocols[k]
      /\ \A j, k \in 1..n : j # k => r.protocols[j] # r.protocols[k]
    BY ListShape
<1>2. s = [k \in 1..n |-> s[k]]
    BY <1>1
<1>3. ASSUME NEW k \in 1..n
      PROVE  /\ ListedOnce(s[k])
             /\ ToSet(s[k]) = {At(p) : p \in {q \in {r.protocols[k]} : PortOf(q) # 0}}
    <2>1. s[k] = handleProtocol(r.protocols[k], host, path)
        BY <1>1
    <2>2. CASE PortOf(r.protocols[k]) = 0
        <3>1. s[k] = <<>>
            BY <2>1, <2>2 DEF handleProtocol
        <3>. HIDE DEF s
        <3>. QED
            BY <2>2, <3>1, ShortLists
    <2>3. CASE PortOf(r.protocols[k]) # 0
        <3>1. s[k] = <<At(r.protocols[k])>>
            BY <2>1, <2>3 DEF handleProtocol
        <3>. HIDE DEF s, At
        <3>. QED
            BY <2>3, <3>1, ShortLists
    <2>. QED
        BY <2>2, <2>3
<1>4. ASSUME NEW j \in 1..n, NEW k \in 1..n, j # k
      PROVE  ToSet(s[j]) \cap ToSet(s[k]) = {}
    <2>1. At(r.protocols[j]) # At(r.protocols[k])
        BY <1>1, <1>4, EndpointsDiffer
    <2>2. ToSet(s[j]) \subseteq {At(r.protocols[j])} /\ ToSet(s[k]) \subseteq {At(r.protocols[k])}
        <3>. HIDE DEF s, At
        <3>. QED
            BY <1>3
    <2>. HIDE DEF s, At
    <2>. QED
        BY <2>1, <2>2
<1>5. ListedOnce(FlattenSeq(s)) /\ ToSet(FlattenSeq(s)) = UNION {ToSet(s[k]) : k \in 1..n}
    <2>. HIDE DEF s, n
    <2>. QED
        BY <1>1, <1>2, <1>3, <1>4, FlatList
<1>6. UNION {ToSet(s[k]) : k \in 1..n} = {At(p) : p \in Served(r)}
    <2>. HIDE DEF s, n, At
    <2>1. ASSUME NEW k \in 1..n, NEW e \in ToSet(s[k]) PROVE e \in {At(p) : p \in Served(r)}
        <3>1. e = At(r.protocols[k]) /\ PortOf(r.protocols[k]) # 0
            BY <1>3
        <3>2. r.protocols[k] \in Served(r)
            BY <1>1, <3>1 DEF Served
        <3>. QED
            BY <3>1, <3>2
    <2>2. ASSUME NEW p \in Served(r) PROVE \E k \in 1..n : At(p) \in ToSet(s[k])
        <3>1. PICK k \in 1..n : p = r.protocols[k]
            BY <1>1 DEF Served
        <3>. QED
            BY <1>3, <3>1 DEF Served
    <2>. QED
        BY <2>1, <2>2
<1>. QED
    BY <1>5, <1>6 DEF handleProtocols

(* For each path.                                                            *)
LEMMA PathEndpoints ==
    ASSUME NEW r, Whole(r), NEW host, NEW basePath
    PROVE  LET list == handlePaths(r, host, basePath)
           IN  ListedOnce(list) /\ ToSet(list) = EndpointsOf(r, host, basePath)
<1> DEFINE n == Len(r.paths)
           At(path, p) == Endpoint(host, PortOf(p), p, <<basePath, path>>)
           s == [k \in DOMAIN r.paths |-> handleProtocols(r, host, <<basePath, r.paths[k]>>)]
<1>1. /\ n \in Nat /\ DOMAIN r.paths = 1..n
      /\ \A k \in 1..n : r.paths[k] \in ToSet(r.paths)
      /\ \A p \in ToSet(r.paths) : \E k \in 1..n : p = r.paths[k]
      /\ \A j, k \in 1..n : j # k => r.paths[j] # r.paths[k]
    BY ListShape DEF Whole
<1>2. s = [k \in 1..n |-> s[k]]
    BY <1>1
<1>3. ASSUME NEW k \in 1..n
      PROVE  ListedOnce(s[k]) /\ ToSet(s[k]) = {At(r.paths[k], p) : p \in Served(r)}
    <2> DEFINE path == <<basePath, r.paths[k]>>
               there == {Endpoint(host, PortOf(p), p, path) : p \in Served(r)}
    <2>1. s[k] = handleProtocols(r, host, path)
        BY <1>1
    <2>2. there = {At(r.paths[k], p) : p \in Served(r)}
        OBVIOUS
    <2>. HIDE DEF s, path
    <2>3. ListedOnce(s[k]) /\ ToSet(s[k]) = there
        BY <2>1, ProtocolEndpoints DEF Whole
    <2>. HIDE DEF there
    <2>. QED
        BY <2>2, <2>3
<1>. HIDE DEF s, n
<1>4. ASSUME NEW j \in 1..n, NEW k \in 1..n, j # k
      PROVE  ToSet(s[j]) \cap ToSet(s[k]) = {}
    <2>1. <<basePath, r.paths[j]>> # <<basePath, r.paths[k]>>
        BY <1>1, <1>4
    <2>2. ASSUME NEW p, NEW q PROVE At(r.paths[j], p) # At(r.paths[k], q)
        BY <2>1, EndpointsDiffer
    <2>. HIDE DEF At
    <2>. SUFFICES ASSUME NEW e \in ToSet(s[j]), e \in ToSet(s[k]) PROVE FALSE
        OBVIOUS
    <2>3. PICK p : e = At(r.paths[j], p)
        BY <1>3
    <2>4. PICK q : e = At(r.paths[k], q)
        BY <1>3
    <2>. QED
        BY <2>2, <2>3, <2>4
<1>5. ListedOnce(FlattenSeq(s)) /\ ToSet(FlattenSeq(s)) = UNION {ToSet(s[k]) : k \in 1..n}
    BY <1>1, <1>2, <1>3, <1>4, FlatList
<1> DEFINE here == {At(path, p) : path \in ToSet(r.paths), p \in Served(r)}
<1>6. UNION {ToSet(s[k]) : k \in 1..n} = here
    <2>. HIDE DEF At
    <2>1. ASSUME NEW k \in 1..n, NEW e \in ToSet(s[k])
          PROVE  e \in here
        <3>1. PICK p \in Served(r) : e = At(r.paths[k], p)
            BY <1>3
        <3>2. r.paths[k] \in ToSet(r.paths)
            BY <1>1
        <3>. QED
            BY <3>1, <3>2
    <2>2. ASSUME NEW e \in here
          PROVE  \E k \in 1..n : e \in ToSet(s[k])
        <3>1. PICK path \in ToSet(r.paths), p \in Served(r) : e = At(path, p)
            OBVIOUS
        <3>2. PICK k \in 1..n : path = r.paths[k]
            BY <1>1
        <3>. QED
            BY <1>3, <3>1, <3>2
    <2>. HIDE DEF here
    <2>. QED
        BY <2>1, <2>2
<1>7. EndpointsOf(r, host, basePath) = here
    BY DEF EndpointsOf, EndpointsAt
<1>8. handlePaths(r, host, basePath) = FlattenSeq(s)
    BY DEF handlePaths, s
<1>. HIDE DEF s
<1>9. /\ ListedOnce(handlePaths(r, host, basePath))
      /\ ToSet(handlePaths(r, host, basePath)) = EndpointsOf(r, host, basePath)
    <2>. HIDE DEF here
    <2>. QED
        BY <1>5, <1>6, <1>7, <1>8
<1>. QED
    BY <1>9

(* At one place, for one path and protocol.                                  *)
LEMMA EndpointHere ==
    ASSUME NEW r, NEW host, NEW basePath, NEW e \in EndpointsOf(r, host, basePath)
    PROVE  IsAt(e, r, host, basePath) /\ e.host = host
<1>1. PICK place \in {<<host, basePath>>}, path \in ToSet(r.paths), p \in Served(r) :
          e = Endpoint(place[1], PortOf(p), p, <<place[2], path>>)
    BY DEF EndpointsOf, EndpointsAt
<1>2. place[1] = host /\ place[2] = basePath
    OBVIOUS
<1>3. e = Endpoint(host, PortOf(p), p, <<basePath, path>>)
    BY <1>1, <1>2
<1>4. Endpoint(host, PortOf(p), p, <<basePath, path>>).host = host
    BY DEF Endpoint
<1>. QED
    BY <1>3, <1>4 DEF IsAt

(* For each host.                                                            *)
LEMMA HostEndpoints ==
    ASSUME NEW r, Whole(r)
    PROVE  LET list == handleHosts(r)
           IN  /\ ListedOnce(list)
               /\ ToSet(list) = EndpointsAt(r, {<<host, "">> : host \in ToSet(r.hosts)})
<1> DEFINE n == Len(r.hosts)
           s == [k \in DOMAIN r.hosts |-> handlePaths(r, r.hosts[k], "")]
           places == {<<host, "">> : host \in ToSet(r.hosts)}
<1>1. /\ n \in Nat /\ DOMAIN r.hosts = 1..n
      /\ \A k \in 1..n : r.hosts[k] \in ToSet(r.hosts)
      /\ \A h \in ToSet(r.hosts) : \E k \in 1..n : h = r.hosts[k]
      /\ \A j, k \in 1..n : j # k => r.hosts[j] # r.hosts[k]
    BY ListShape DEF Whole
<1>2. s = [k \in 1..n |-> s[k]]
    BY <1>1
<1>3. \A k \in 1..n : ListedOnce(s[k]) /\ ToSet(s[k]) = EndpointsOf(r, r.hosts[k], "")
    BY <1>1, PathEndpoints
<1>. HIDE DEF n
<1>4. ASSUME NEW e, NEW ps
      PROVE  e \in EndpointsAt(r, ps) <=>
                \E place \in ps, path \in ToSet(r.paths), p \in Served(r) :
                    e = Endpoint(place[1], PortOf(p), p, <<place[2], path>>)
    BY DEF EndpointsAt
<1>5. ASSUME NEW j \in 1..n, NEW k \in 1..n, j # k
      PROVE  ToSet(s[j]) \cap ToSet(s[k]) = {}
    <2>. SUFFICES ASSUME NEW e \in EndpointsOf(r, r.hosts[j], ""),
                         e \in EndpointsOf(r, r.hosts[k], "")
                  PROVE  FALSE
        <3>. HIDE DEF s
        <3>. QED
            BY <1>3
    <2>1. e.host = r.hosts[j] /\ e.host = r.hosts[k]
        BY EndpointHere
    <2>. QED
        BY <1>1, <1>5, <2>1
<1>6. ListedOnce(FlattenSeq(s)) /\ ToSet(FlattenSeq(s)) = UNION {ToSet(s[k]) : k \in 1..n}
    <2>. HIDE DEF s
    <2>. QED
        BY <1>1, <1>2, <1>3, <1>5, FlatList
<1>7. UNION {ToSet(s[k]) : k \in 1..n} = EndpointsAt(r, places)
    <2>. HIDE DEF s
    <2>1. ASSUME NEW k \in 1..n, NEW e \in ToSet(s[k]) PROVE e \in EndpointsAt(r, places)
        <3>1. PICK path \in ToSet(r.paths), p \in Served(r) :
                  e = Endpoint(r.hosts[k], PortOf(p), p, <<"", path>>)
            <4>1. IsAt(e, r, r.hosts[k], "")
                BY <1>3, <2>1, EndpointHere
            <4>. QED
                BY <4>1 DEF IsAt
        <3>2. <<r.hosts[k], "">> \in places
            BY <1>1
        <3>. HIDE DEF places
        <3>. QED
            BY <1>4, <3>1, <3>2
    <2>2. ASSUME NEW e \in EndpointsAt(r, places) PROVE \E k \in 1..n : e \in ToSet(s[k])
        <3>1. PICK place \in places, path \in ToSet(r.paths), p \in Served(r) :
                  e = Endpoint(place[1], PortOf(p), p, <<place[2], path>>)
            <4>. HIDE DEF places
            <4>. QED
                BY <1>4
        <3>2. PICK k \in 1..n : place = <<r.hosts[k], "">>
            <4>1. PICK host \in ToSet(r.hosts) : place = <<host, "">>
                OBVIOUS
            <4>2. PICK k \in 1..n : host = r.hosts[k]
                BY <1>1
            <4>. QED
                BY <4>1, <4>2
        <3>3. e \in EndpointsOf(r, r.hosts[k], "")
            BY <1>4, <3>1, <3>2 DEF EndpointsOf
        <3>. QED
            BY <1>3, <3>3
    <2>. HIDE DEF places
    <2>. QED
        BY <2>1, <2>2
<1>8. handleHosts(r) = FlattenSeq(s)
    BY DEF handleHosts
<1>. HIDE DEF s, places
<1>9. ListedOnce(handleHosts(r)) /\ ToSet(handleHosts(r)) = EndpointsAt(r, places)
    BY <1>6, <1>7, <1>8
<1>. QED
    BY <1>9 DEF places

(* The proxy stands in when the hosts give no endpoint: that is when the     *)
(* route has no host, for otherwise there is no endpoint anywhere.           *)
PlacesOf(r) ==
    IF ToSet(r.hosts) = {} THEN {<<cfg.host, cfg.basePath>>}
    ELSE {<<host, "">> : host \in ToSet(r.hosts)}

LEMMA RouteEndpoints ==
    ASSUME NEW r, Whole(r)
    PROVE  ListedOnce(GetEndpoints(r)) /\ ToSet(GetEndpoints(r)) = EndpointsAt(r, PlacesOf(r))
<1> DEFINE own == {<<host, "">> : host \in ToSet(r.hosts)}
           proxy == {<<cfg.host, cfg.basePath>>}
<1>1. ListedOnce(handleHosts(r)) /\ ToSet(handleHosts(r)) = EndpointsAt(r, own)
    BY HostEndpoints
<1>2. /\ ListedOnce(handlePaths(r, cfg.host, cfg.basePath))
      /\ ToSet(handlePaths(r, cfg.host, cfg.basePath)) = EndpointsOf(r, cfg.host, cfg.basePath)
    BY PathEndpoints
<1>3. EndpointsOf(r, cfg.host, cfg.basePath) = EndpointsAt(r, proxy)
    BY DEF EndpointsOf
<1>4. PlacesOf(r) = IF ToSet(r.hosts) = {} THEN proxy ELSE own
    BY DEF PlacesOf
<1>5. ASSUME NEW ps
      PROVE  EndpointsAt(r, ps) = {} <=> ps = {} \/ ToSet(r.paths) = {} \/ Served(r) = {}
    <2>1. ASSUME NEW place \in ps, NEW path \in ToSet(r.paths), NEW p \in Served(r)
          PROVE  Endpoint(place[1], PortOf(p), p, <<place[2], path>>) \in EndpointsAt(r, ps)
        BY DEF EndpointsAt
    <2>2. ASSUME NEW e \in EndpointsAt(r, ps)
          PROVE  ps # {} /\ ToSet(r.paths) # {} /\ Served(r) # {}
        <3>1. PICK place \in ps, path \in ToSet(r.paths), p \in Served(r) :
                  e = Endpoint(place[1], PortOf(p), p, <<place[2], path>>)
            BY DEF EndpointsAt
        <3>. QED
            BY <3>1
    <2>. QED
        BY <2>1, <2>2
<1>6. proxy # {} /\ (own = {} <=> ToSet(r.hosts) = {})
    OBVIOUS
<1>7. handleHosts(r) = <<>> <=> EndpointsAt(r, own) = {}
    <2>. HIDE DEF own
    <2>. QED
        BY <1>1, ListShape
<1>. HIDE DEF own, proxy
<1>8. CASE handleHosts(r) = <<>>
    <2>1. GetEndpoints(r) = handlePaths(r, cfg.host, cfg.basePath)
        BY <1>8 DEF GetEndpoints
    <2>2. EndpointsAt(r, PlacesOf(r)) = EndpointsAt(r, proxy)
        BY <1>4, <1>5, <1>6, <1>7, <1>8
    <2>. QED
        BY <1>2, <1>3, <2>1, <2>2
<1>9. CASE handleHosts(r) # <<>>
    <2>1. GetEndpoints(r) = handleHosts(r)
        BY <1>9 DEF GetEndpoints
    <2>2. PlacesOf(r) = own
        BY <1>4, <1>5, <1>6, <1>7, <1>9
    <2>. QED
        BY <1>1, <2>1, <2>2
<1>. QED
    BY <1>8, <1>9

(* What holds of the properties of the proxy, once accepted.                 *)
ProxyProps ==
    /\ {"host", "http", "httpDisable", "https", "httpsDisable", "basePath"} \subseteq DOMAIN props
    /\ props = [field \in DOMAIN props |-> props[field]]
    /\ props.httpDisable \in BOOLEAN /\ props.httpsDisable \in BOOLEAN

(* Parsing changes but the ports.                                            *)
LEMMA Parsed ==
    ASSUME ProxyProps
    PROVE  /\ cfg.host = props.host /\ cfg.basePath = props.basePath
           /\ cfg.httpDisable = props.httpDisable /\ cfg.httpsDisable = props.httpsDisable
           /\ cfg.http = IF props.httpDisable THEN 0 ELSE props.http
           /\ cfg.https = IF props.httpsDisable THEN 0 ELSE props.https
BY DEF cfg, ParseProperties, ProxyProps

(* A port that is not 0 is one that is not disabled.                         *)
LEMMA Ports ==
    ASSUME ProxyProps, ValidateCfg(cfg), NEW p
    PROVE  /\ PortOf(p) # 0 <=> IF p = "http" THEN ~props.httpDisable
                                 ELSE p = "https" /\ ~props.httpsDisable
           /\ PortOf(p) # 0 => PortOf(p) = IF p = "http" THEN props.http ELSE props.https
<1>1. /\ cfg.httpDisable = props.httpDisable /\ cfg.httpsDisable = props.httpsDisable
      /\ cfg.http = IF props.httpDisable THEN 0 ELSE props.http
      /\ cfg.https = IF props.httpsDisable THEN 0 ELSE props.https
      /\ cfg.httpDisable \/ cfg.http # 0
      /\ cfg.httpsDisable \/ cfg.https # 0
    BY Parsed DEF ValidateCfg
<1>2. CASE p = "http"
    <2>1. PortOf(p) = cfg.http
        BY <1>2 DEF PortOf
    <2>. QED
        BY <1>1, <1>2, <2>1
<1>3. CASE p = "https"
    <2>1. PortOf(p) = cfg.https
        BY <1>3 DEF PortOf
    <2>. QED
        BY <1>1, <1>3, <2>1
<1>4. CASE p \notin {"http", "https"}
    <2>1. PortOf(p) = 0
        BY <1>4 DEF PortOf
    <2>. QED
        BY <1>4, <2>1
<1>. QED
    BY <1>2, <1>3, <1>4

(* The endpoints of a route are those that the properties and the route      *)
(* call for.                                                                 *)
LEMMA EndpointsWanted ==
    ASSUME NEW r, Whole(r), ProxyProps, ValidateCfg(cfg)
    PROVE  EndpointsAt(r, PlacesOf(r)) = Wanted(r)
<1> DEFINE Enabled(p) == IF p = "http" THEN ~props.httpDisable
                         ELSE p = "https" /\ ~props.httpsDisable
           Port(p) == IF p = "http" THEN props.http ELSE props.https
           places == IF Len(r.hosts) > 0 THEN {<<r.hosts[h], "">> : h \in DOMAIN r.hosts}
                     ELSE {<<props.host, props.basePath>>}
           At(place, k, p) == Endpoint(place[1], Port(r.protocols[p]), r.protocols[p],
                                       <<place[2], r.paths[k]>>)
           Speaks == {q \in DOMAIN r.protocols : Enabled(r.protocols[q])}
           wanted == {At(place, k, p) : place \in places, k \in DOMAIN r.paths, p \in Speaks}
<1>1. Wanted(r) = wanted
    BY DEF Wanted
<1>2. places = PlacesOf(r)
    <2>1. /\ Len(r.hosts) \in Nat /\ DOMAIN r.hosts = 1..Len(r.hosts)
          /\ Len(r.hosts) > 0 <=> ToSet(r.hosts) # {}
        <3>1. Len(r.hosts) \in Nat /\ DOMAIN r.hosts = 1..Len(r.hosts)
            BY ListShape DEF Whole
        <3>2. Len(r.hosts) > 0 => 1 \in DOMAIN r.hosts
            BY <3>1
        <3>3. ~(Len(r.hosts) > 0) => DOMAIN r.hosts = {}
            BY <3>1
        <3>. QED
            BY <3>1, <3>2, <3>3 DEF ToSet
    <2>2. {<<r.hosts[h], "">> : h \in DOMAIN r.hosts} = {<<host, "">> : host \in ToSet(r.hosts)}
        BY DEF ToSet
    <2>3. cfg.host = props.host /\ cfg.basePath = props.basePath
        BY Parsed
    <2>. QED
        BY <2>1, <2>2, <2>3 DEF PlacesOf
<1>3. \A p : /\ PortOf(p) # 0 <=> Enabled(p)
             /\ PortOf(p) # 0 => PortOf(p) = Port(p)
    BY Ports
<1>. HIDE DEF places, Enabled, Port
<1>4. ASSUME NEW e \in wanted PROVE e \in EndpointsAt(r, PlacesOf(r))
    <2>1. PICK place \in places, k \in DOMAIN r.paths, p \in Speaks : e = At(place, k, p)
        OBVIOUS
    <2>2. r.protocols[p] \in Served(r) /\ PortOf(r.protocols[p]) = Port(r.protocols[p])
        BY <1>3 DEF Served, ToSet
    <2>3. r.paths[k] \in ToSet(r.paths)
        BY DEF ToSet
    <2>. QED
        BY <1>2, <2>1, <2>2, <2>3 DEF EndpointsAt
<1>5. ASSUME NEW e \in EndpointsAt(r, PlacesOf(r)) PROVE e \in wanted
    <2>1. PICK place \in places, path \in ToSet(r.paths), p \in Served(r) :
              e = Endpoint(place[1], PortOf(p), p, <<place[2], path>>)
        BY <1>2 DEF EndpointsAt
    <2>2. PICK k \in DOMAIN r.paths : path = r.paths[k]
        BY DEF ToSet
    <2>3. PICK q \in DOMAIN r.protocols : p = r.protocols[q]
        BY DEF Served, ToSet
    <2>4. q \in Speaks /\ PortOf(p) = Port(p)
        BY <1>3, <2>3 DEF Served
    <2>5. e = At(place, k, q)
        BY <2>1, <2>2, <2>3, <2>4
    <2>. HIDE DEF At, Speaks
    <2>. QED
        BY <2>4, <2>5
<1>. HIDE DEF wanted
<1>. QED
    BY <1>1, <1>4, <1>5

(* A list is as long as it has members.                                      *)
LEMMA ListLength ==
    ASSUME NEW list, ListedOnce(list)
    PROVE  Len(list) = Cardinality(ToSet(list))
<1>1. /\ Len(list) \in Nat /\ DOMAIN list = 1..Len(list)
      /\ \A k \in DOMAIN list : list[k] \in ToSet(list)
      /\ \A x \in ToSet(list) : \E k \in DOMAIN list : x = list[k]
      /\ \A j, k \in DOMAIN list : j # k => list[j] # list[k]
    BY ListShape
<1>2. list \in [1..Len(list) -> ToSet(list)]
    <2>1. list \in Seq(ToSet(list))
        BY DEF ListedOnce
    <2>. QED
        BY <2>1, <1>1
<1>3. list \in Bijection(1..Len(list), ToSet(list))
    BY <1>1, <1>2 DEF Bijection, Injection, Surjection, IsInjective
<1>. QED
    BY <1>1, <1>3, FS_CountingElements DEF ExistsBijection

-----------------------------------------------------------------------------
(* Security.                                                                 *)

(* The three types of credential differ.                                     *)
LEMMA TypesDiffer ==
    /\ CrdOf["basic-auth"] # CrdOf["key-auth"]
    /\ CrdOf["basic-auth"] # CrdOf["oauth2"]
    /\ CrdOf["key-auth"] # CrdOf["oauth2"]
<1>1. /\ CrdOf["basic-auth"] = <<"http", "basic">>
      /\ CrdOf["key-auth"] = <<"api", "key">>
      /\ CrdOf["oauth2"] = <<"oauth", "secret">>
    BY DEF CrdOf, AuthPlugins
<1>2. <<"http", "basic">>[1] = "http" /\ <<"api", "key">>[1] = "api"
      /\ <<"oauth", "secret">>[1] = "oauth"
    OBVIOUS
<1>. QED
    BY <1>1, <1>2

(* A key becomes a scheme of its name.                                       *)
LEMMA KeySchemes ==
    ASSUME NEW config, NEW x \in apiKeySecurity(config)
    PROVE  config.parses /\ x.type = CrdOf["key-auth"] /\ x.name \in config.keyNames
BY DEF apiKeySecurity

(* There is one if the configuration parses and names a key.                 *)
LEMMA KeySchemeExists ==
    ASSUME NEW config, config.parses, config.keyNames # {}
    PROVE  \E x \in apiKeySecurity(config) : x.type = CrdOf["key-auth"]
<1>1. PICK n \in config.keyNames : TRUE
    OBVIOUS
<1> DEFINE x == [type |-> CrdOf["key-auth"], name |-> n,
                 in |-> IF config.keyInQuery THEN "query" ELSE "header"]
<1>2. x \in apiKeySecurity(config) /\ x.type = CrdOf["key-auth"]
    BY DEF apiKeySecurity
<1>. HIDE DEF x
<1>. QED
    BY <1>2

(* The scheme of OAuth points to an https endpoint, and is there if the      *)
(* configuration parses and one exists.                                      *)
LEMMA OAuthSchemes ==
    ASSUME NEW config, NEW list, ListedOnce(list)
    PROVE  /\ \A x \in oAuthSecurity(config, list) :
                /\ x.type = CrdOf["oauth2"] /\ x.flows = config.grants
                /\ x.at \in ToSet(list) /\ x.at.protocol = "https"
           /\ config.parses /\ (\E e \in ToSet(list) : e.protocol = "https")
                => \E x \in oAuthSecurity(config, list) : x.type = CrdOf["oauth2"]
<1> DEFINE https == {k \in DOMAIN list : list[k].protocol = "https"}
           first == CHOOSE k \in https : \A j \in https : k <= j
           scheme == [type |-> CrdOf["oauth2"], flows |-> config.grants, at |-> list[first]]
<1>1. oAuthSecurity(config, list) = IF ~config.parses \/ https = {} THEN {} ELSE {scheme}
    BY DEF oAuthSecurity
<1>2. https # {} => first \in https
    <2>1. https \in SUBSET Nat
        BY ListShape
    <2>. HIDE DEF https
    <2>2. https # {} => \E k \in https : \A j \in https : k <= j
        BY <2>1, LeastNumber
    <2>. QED
        BY <2>2
<1>3. scheme.type = CrdOf["oauth2"] /\ scheme.flows = config.grants /\ scheme.at = list[first]
    OBVIOUS
<1>4. first \in https => list[first] \in ToSet(list) /\ list[first].protocol = "https"
    <2>. HIDE DEF first
    <2>. QED
        BY DEF ToSet
<1>5. (\E e \in ToSet(list) : e.protocol = "https") => https # {}
    BY DEF ToSet
<1>. HIDE DEF https, first, scheme
<1>. QED
    BY <1>1, <1>2, <1>3, <1>4, <1>5

(* A scheme stems from one of the plugins.                                   *)
LEMMA SchemeCases ==
    ASSUME NEW plugins, NEW list, NEW x
    PROVE  x \in SchemesOf(plugins, list) <=>
               \/ "basic-auth" \in DOMAIN plugins /\ x = [type |-> CrdOf["basic-auth"]]
               \/ "key-auth" \in DOMAIN plugins /\ x \in apiKeySecurity(plugins["key-auth"])
               \/ "oauth2" \in DOMAIN plugins /\ x \in oAuthSecurity(plugins["oauth2"], list)
<1> DEFINE Of(p) == CASE p = "basic-auth" -> {[type |-> CrdOf["basic-auth"]]}
                     [] p = "key-auth"   -> apiKeySecurity(plugins[p])
                     [] p = "oauth2"     -> oAuthSecurity(plugins[p], list)
                     [] OTHER            -> {}
<1>1. SchemesOf(plugins, list) = UNION {Of(p) : p \in DOMAIN plugins}
    BY DEF SchemesOf
<1>2. /\ Of("basic-auth") = {[type |-> CrdOf["basic-auth"]]}
      /\ Of("key-auth") = apiKeySecurity(plugins["key-auth"])
      /\ Of("oauth2") = oAuthSecurity(plugins["oauth2"], list)
      /\ \A p : p \notin AuthPlugins => Of(p) = {}
    BY DEF AuthPlugins
<1>. HIDE DEF Of
<1>3. x \in SchemesOf(plugins, list) <=> \E p \in DOMAIN plugins : x \in Of(p)
    BY <1>1
<1>. QED
    BY <1>2, <1>3 DEF AuthPlugins

-----------------------------------------------------------------------------
(* The inductive invariant: what has been published is exactly what the      *)
(* routes behind, each by itself, call for.                                  *)

(* What is published for a route of an OpenAPI document. *)
OwnBody(r) ==
    [endpoints |-> GetEndpoints(r), schemes |-> SchemesOf(r.plugins, GetEndpoints(r)),
     crds |-> CrdsOf(Workspace, DOMAIN r.plugins),
     passthrough |-> CrdsOf(Workspace, DOMAIN r.plugins) = {}]

InputKept == \E input \in Inputs : props = input.props /\ routes = input.routes

Accepted ==
    /\ i \in Nat \ {0}
    /\ pc = "start" => i = 1
    /\ pc = "run" => ValidateCfg(cfg)

Behind == {k \in DOMAIN routes : pc = "run" /\ k < i}

AsPublished ==
    /\ DOMAIN apis = {k \in Behind : GetEndpoints(routes[k]) # <<>>}
    /\ \A k \in DOMAIN apis : /\ apis[k].endpoints = GetEndpoints(routes[k])
                              /\ IsOas => apis[k] = OwnBody(routes[k])

RouteInv == InputKept /\ Accepted /\ AsPublished

(* The assumption on the inputs, for the one at hand.                        *)
LEMMA InputShape ==
    ASSUME InputKept
    PROVE  /\ ProxyProps
           /\ Len(routes) \in Nat /\ DOMAIN routes = 1..Len(routes)
           /\ \A k \in DOMAIN routes : Whole(routes[k])
<1>1. PICK input \in Inputs : props = input.props /\ routes = input.routes
    BY DEF InputKept
<1>2. ProxyProps
    BY <1>1, InputsAssumption DEF ProxyProps
<1>3. routes \in Seq(ToSet(routes)) /\ \A r \in ToSet(routes) : Whole(r)
    BY <1>1, InputsAssumption DEF Whole
<1>4. Len(routes) \in Nat /\ DOMAIN routes = 1..Len(routes)
    BY <1>3, LenProperties
<1>5. \A k \in DOMAIN routes : routes[k] \in ToSet(routes)
    BY DEF ToSet
<1>. QED
    BY <1>2, <1>3, <1>4, <1>5

(* Nothing is published before the configuration is accepted.                *)
LEMMA InitInv ==
    ASSUME Init
    PROVE  RouteInv
<1>1. InputKept /\ Accepted
    BY DEF Init, InputKept, Accepted
<1>2. DOMAIN apis = {} /\ Behind = {}
    BY DEF Init, Behind
<1>. QED
    BY <1>1, <1>2 DEF RouteInv, AsPublished

(* What a route calls for depends on the input alone.                        *)
LEMMA BodyKept ==
    ASSUME UNCHANGED <<props, doc, routes>>
    PROVE  /\ cfg' = cfg /\ IsOas' = IsOas /\ InputKept' = InputKept
           /\ \A k : /\ GetEndpoints(routes[k])' = GetEndpoints(routes[k])
                     /\ OwnBody(routes[k])' = OwnBody(routes[k])
<1>1. cfg' = cfg /\ IsOas' = IsOas /\ InputKept' = InputKept
    BY DEF cfg, IsOas, InputKept
<1>2. \A p : PortOf(p)' = PortOf(p)
    BY <1>1 DEF PortOf
<1>3. \A p, host, path : handleProtocol(p, host, path)' = handleProtocol(p, host, path)
    BY <1>2 DEF handleProtocol
<1>4. \A r, host, path : handleProtocols(r, host, path)' = handleProtocols(r, host, path)
    BY <1>3 DEF handleProtocols
<1>5. \A r, host, path : handlePaths(r, host, path)' = handlePaths(r, host, path)
    BY <1>4 DEF handlePaths
<1>6. \A r : handleHosts(r)' = handleHosts(r)
    BY <1>5 DEF handleHosts
<1>7. \A r : GetEndpoints(r)' = GetEndpoints(r)
    BY <1>1, <1>5, <1>6 DEF GetEndpoints
<1>8. \A k : GetEndpoints(routes[k])' = GetEndpoints(routes[k])
    BY <1>7
<1>9. \A k : OwnBody(routes[k])' = OwnBody(routes[k])
    BY <1>8 DEF OwnBody
<1>. QED
    BY <1>1, <1>8, <1>9

(* The configuration is accepted or refused.                                 *)
LEMMA StartStep ==
    ASSUME RouteInv, Start
    PROVE  RouteInv'
<1>1. /\ UNCHANGED <<props, doc, routes>> /\ i' = i /\ apis' = apis
      /\ pc = "start" /\ pc' = IF ValidateCfg(cfg) THEN "run" ELSE "refused"
    BY DEF Start
<1>2. i = 1 /\ DOMAIN routes = 1..Len(routes) /\ Len(routes) \in Nat
    BY <1>1, InputShape DEF RouteInv, Accepted
<1>3. Behind = {} /\ Behind' = {}
    BY <1>1, <1>2 DEF Behind
<1>4. ValidateCfg(cfg)' = ValidateCfg(cfg)
    BY <1>1 DEF ValidateCfg, cfg
<1>5. InputKept' /\ Accepted'
    BY <1>1, <1>4, BodyKept DEF RouteInv, Accepted
<1>6. DOMAIN apis = {}
    BY <1>3 DEF RouteInv, AsPublished
<1>7. AsPublished'
    BY <1>1, <1>3, <1>6 DEF AsPublished
<1>. QED
    BY <1>5, <1>7 DEF RouteInv

(* The route in hand joins those behind.                                     *)
LEMMA RouteStep ==
    ASSUME RouteInv, SpecPreparation
    PROVE  RouteInv'
<1> DEFINE r == routes[i]
           list == GetEndpoints(r)
<1>1. /\ UNCHANGED <<props, doc, routes>> /\ pc = "run" /\ pc' = "run"
      /\ i' = i + 1 /\ i <= Len(routes)
    BY DEF SpecPreparation
<1>2. /\ i \in Nat \ {0} /\ i \in DOMAIN routes
      /\ DOMAIN routes = 1..Len(routes) /\ Len(routes) \in Nat
    BY <1>1, InputShape DEF RouteInv, Accepted
<1>3. InputKept' /\ Accepted'
    <2>1. ValidateCfg(cfg)' = ValidateCfg(cfg)
        BY <1>1 DEF ValidateCfg, cfg
    <2>. QED
        BY <1>1, <1>2, <2>1, BodyKept DEF RouteInv, Accepted
<1>4. Behind' = Behind \cup {i} /\ i \notin Behind /\ Behind \subseteq DOMAIN routes
    BY <1>1, <1>2 DEF Behind
<1>5. /\ IsOas' = IsOas
      /\ \A k : /\ GetEndpoints(routes[k])' = GetEndpoints(routes[k])
                /\ OwnBody(routes[k])' = OwnBody(routes[k])
    BY <1>1, BodyKept
<1>6. /\ DOMAIN apis = {k \in Behind : GetEndpoints(routes[k]) # <<>>}
      /\ \A k \in DOMAIN apis : /\ apis[k].endpoints = GetEndpoints(routes[k])
                                /\ IsOas => apis[k] = OwnBody(routes[k])
    BY DEF RouteInv, AsPublished
<1>7. CASE list = <<>>
    <2>1. apis' = apis
        BY <1>7 DEF SpecPreparation
    <2>2. DOMAIN apis' = {k \in Behind' : GetEndpoints(routes[k])' # <<>>}
        BY <1>4, <1>5, <1>6, <1>7, <2>1
    <2>3. \A k \in DOMAIN apis' : /\ apis'[k].endpoints = GetEndpoints(routes[k])'
                                  /\ IsOas' => apis'[k] = OwnBody(routes[k])'
        BY <1>5, <1>6, <2>1
    <2>. QED
        BY <1>3, <2>2, <2>3 DEF RouteInv, AsPublished
<1>8. CASE list # <<>>
    <2> DEFINE body == buildServiceBody(r.plugins, list)
    <2>1. apis' = [k \in DOMAIN apis \cup {i} |-> IF k = i THEN body ELSE apis[k]]
        BY <1>8 DEF SpecPreparation
    <2>2. body.endpoints = GetEndpoints(routes[i]) /\ (IsOas => body = OwnBody(routes[i]))
        BY DEF buildServiceBody, processSpecSecurity, OwnBody
    <2>. HIDE DEF body
    <2>3. /\ DOMAIN apis' = DOMAIN apis \cup {i}
          /\ apis'[i] = body
          /\ \A k \in DOMAIN apis : apis'[k] = apis[k]
        BY <1>4, <1>6, <2>1
    <2>4. DOMAIN apis' = {k \in Behind' : GetEndpoints(routes[k])' # <<>>}
        BY <1>4, <1>5, <1>6, <1>8, <2>3
    <2>5. \A k \in DOMAIN apis' : /\ apis'[k].endpoints = GetEndpoints(routes[k])'
                                  /\ IsOas' => apis'[k] = OwnBody(routes[k])'
        BY <1>5, <1>6, <2>2, <2>3
    <2>. QED
        BY <1>3, <2>4, <2>5 DEF RouteInv, AsPublished
<1>. QED
    BY <1>7, <1>8

(* In every behaviour what is published is what each route calls for.        *)
THEOREM RouteInvariant == Spec => []RouteInv
<1>1. Init => RouteInv
    BY InitInv
<1>2. RouteInv /\ [Next]_vars => RouteInv'
    <2>1. ASSUME RouteInv, UNCHANGED vars PROVE RouteInv'
        <3>1. UNCHANGED <<props, doc, routes, pc, i, apis>>
            BY <2>1 DEF vars
        <3>2. ValidateCfg(cfg)' = ValidateCfg(cfg) /\ Behind' = Behind
            BY <3>1 DEF ValidateCfg, cfg, Behind
        <3>3. InputKept' /\ Accepted'
            BY <2>1, <3>1, <3>2, BodyKept DEF RouteInv, Accepted
        <3>4. /\ IsOas' = IsOas
              /\ \A k : /\ GetEndpoints(routes[k])' = GetEndpoints(routes[k])
                        /\ OwnBody(routes[k])' = OwnBody(routes[k])
            BY <3>1, BodyKept
        <3>5. AsPublished'
            BY <2>1, <3>1, <3>2, <3>4 DEF RouteInv, AsPublished
        <3>. QED
            BY <3>3, <3>5 DEF RouteInv
    <2>. QED
        BY <2>1, StartStep, RouteStep DEF Next
<1>. QED
    BY <1>1, <1>2, PTL DEF Spec

(* What the invariant says of one route behind.                              *)
LEMMA EndpointsOfOne ==
    ASSUME RouteInv, NEW k \in Behind
    PROVE  /\ ListedOnce(GetEndpoints(routes[k]))
           /\ ToSet(GetEndpoints(routes[k])) = Wanted(routes[k])
           /\ k \in DOMAIN apis <=> Wanted(routes[k]) # {}
           /\ k \in DOMAIN apis => apis[k].endpoints = GetEndpoints(routes[k])
<1>1. ProxyProps /\ ValidateCfg(cfg) /\ Whole(routes[k])
    BY InputShape DEF RouteInv, Accepted, Behind
<1>2. /\ ListedOnce(GetEndpoints(routes[k]))
      /\ ToSet(GetEndpoints(routes[k])) = EndpointsAt(routes[k], PlacesOf(routes[k]))
    BY <1>1, RouteEndpoints
<1>3. EndpointsAt(routes[k], PlacesOf(routes[k])) = Wanted(routes[k])
    BY <1>1, EndpointsWanted
<1>4. GetEndpoints(routes[k]) = <<>> <=> Wanted(routes[k]) = {}
    BY <1>2, <1>3, ListShape
<1>5. AsPublished
    BY DEF RouteInv
<1>6. k \in DOMAIN apis <=> GetEndpoints(routes[k]) # <<>>
    BY <1>5 DEF AsPublished
<1>7. k \in DOMAIN apis => apis[k].endpoints = GetEndpoints(routes[k])
    BY <1>5 DEF AsPublished
<1>. QED
    BY <1>2, <1>3, <1>4, <1>6, <1>7

(* A route is published with exactly the endpoints it can be reached at,     *)
(* each once, and not at all if there is none (route.go, config.go:228-242). *)
THEOREM EndpointsAreExact == Spec => []EndpointsExact
<1>1. RouteInv => EndpointsExact
    <2>. SUFFICES ASSUME RouteInv, NEW k \in DOMAIN routes, pc = "run", k < i
                  PROVE  IF Wanted(routes[k]) = {} THEN k \notin DOMAIN apis
                         ELSE /\ k \in DOMAIN apis
                              /\ ToSet(apis[k].endpoints) = Wanted(routes[k])
                              /\ Len(apis[k].endpoints) = Cardinality(Wanted(routes[k]))
        BY DEF EndpointsExact
    <2>1. k \in Behind
        BY DEF Behind
    <2>2. Len(GetEndpoints(routes[k])) = Cardinality(ToSet(GetEndpoints(routes[k])))
        BY <2>1, EndpointsOfOne, ListLength
    <2>. QED
        BY <2>1, <2>2, EndpointsOfOne
<1>. QED
    BY <1>1, RouteInvariant, PTL

(* Under a configuration the agent accepts a route that has a path and       *)
(* speaks both protocols is published (config.go:163-177).                   *)
THEOREM AcceptedIsPublished == Spec => []AcceptedPublishes
<1>1. RouteInv => AcceptedPublishes
    <2>. SUFFICES ASSUME RouteInv, NEW k \in DOMAIN routes, pc = "run", k < i,
                         Len(routes[k].paths) > 0,
                         {"http", "https"} \subseteq ToSet(routes[k].protocols)
                  PROVE  k \in DOMAIN apis
        BY DEF AcceptedPublishes
    <2> DEFINE r == routes[k]
    <2>1. k \in Behind /\ ProxyProps /\ ValidateCfg(cfg) /\ Whole(r)
        BY InputShape DEF RouteInv, Accepted, Behind
    <2>2. PICK p \in {"http", "https"} : PortOf(p) # 0
        <3>1. ~(props.httpDisable /\ props.httpsDisable)
            BY <2>1, Parsed DEF ValidateCfg
        <3>2. PortOf("http") # 0 <=> ~props.httpDisable
            BY <2>1, Ports
        <3>3. PortOf("https") # 0 <=> ~props.httpsDisable
            BY <2>1, Ports
        <3>. QED
            BY <3>1, <3>2, <3>3
    <2>3. p \in Served(r)
        BY <2>2 DEF Served
    <2>4. r.paths[1] \in ToSet(r.paths)
        <3>1. 1 \in DOMAIN r.paths
            BY <2>1, ListShape DEF Whole
        <3>. QED
            BY <3>1 DEF ToSet
    <2>5. PICK place \in PlacesOf(r) : TRUE
        BY DEF PlacesOf
    <2>6. Endpoint(place[1], PortOf(p), p, <<place[2], r.paths[1]>>)
              \in EndpointsAt(r, PlacesOf(r))
        BY <2>3, <2>4 DEF EndpointsAt
    <2>7. Wanted(r) # {}
        BY <2>1, <2>6, EndpointsWanted
    <2>. QED
        BY <2>1, <2>7, EndpointsOfOne
<1>. QED
    BY <1>1, RouteInvariant, PTL

(* What is published for a route of an OpenAPI document.                     *)
LEMMA BodyOfOne ==
    ASSUME RouteInv, IsOas, NEW k \in DOMAIN apis
    PROVE  LET plugins == routes[k].plugins
               list == GetEndpoints(routes[k])
           IN  /\ apis[k].endpoints = list /\ ListedOnce(list)
               /\ apis[k].schemes = SchemesOf(plugins, list)
               /\ apis[k].crds = CrdsOf(Workspace, DOMAIN plugins)
               /\ apis[k].passthrough = (CrdsOf(Workspace, DOMAIN plugins) = {})
<1>1. k \in Behind /\ apis[k] = OwnBody(routes[k])
    <2>1. AsPublished
        BY DEF RouteInv
    <2>2. k \in Behind
        BY <2>1 DEF AsPublished
    <2>3. apis[k] = OwnBody(routes[k])
        BY <2>1 DEF AsPublished
    <2>. QED
        BY <2>2, <2>3
<1>2. ListedOnce(GetEndpoints(routes[k]))
    BY <1>1, EndpointsOfOne
<1>. QED
    BY <1>1, <1>2 DEF OwnBody

(* OAuth tokens are obtained over TLS from the API itself (agent.go:430).    *)
THEOREM TokensComeOverTls == Spec => []TokensOverTls
<1>1. RouteInv => TokensOverTls
    <2>. SUFFICES ASSUME RouteInv, IsOas, NEW k \in DOMAIN apis, NEW s \in apis[k].schemes,
                         s.type = CrdOf["oauth2"]
                  PROVE  s.at \in ToSet(apis[k].endpoints) /\ s.at.protocol = "https"
        BY DEF TokensOverTls
    <2> DEFINE plugins == routes[k].plugins
               list == GetEndpoints(routes[k])
    <2>1. apis[k].endpoints = list /\ ListedOnce(list) /\ s \in SchemesOf(plugins, list)
        BY BodyOfOne
    <2>. HIDE DEF plugins, list
    <2>2. \/ s = [type |-> CrdOf["basic-auth"]]
          \/ s \in apiKeySecurity(plugins["key-auth"])
          \/ s \in oAuthSecurity(plugins["oauth2"], list)
        BY <2>1, SchemeCases
    <2>3. s # [type |-> CrdOf["basic-auth"]]
        BY TypesDiffer
    <2>4. s \notin apiKeySecurity(plugins["key-auth"])
        BY TypesDiffer, KeySchemes
    <2>. QED
        BY <2>1, <2>2, <2>3, <2>4, OAuthSchemes
<1>. QED
    BY <1>1, RouteInvariant, PTL

(* An OpenAPI document says of security what the plugins of its own route    *)
(* do, and is open only without such plugins (agent.go:376-466, 504).        *)
THEOREM SecurityIsOfTheRoute == Spec => []SecurityIsOwn
<1>1. RouteInv => SecurityIsOwn
    <2>. SUFFICES ASSUME RouteInv, IsOas, NEW k \in DOMAIN apis
                  PROVE  LET plugins == routes[k].plugins
                             auth == DOMAIN plugins \cap AuthPlugins
                         IN  /\ \A s \in apis[k].schemes : \E p \in auth :
                                   /\ CrdOf[p] = s.type
                                   /\ p = "key-auth" => s.name \in plugins[p].keyNames
                                   /\ p = "oauth2" => s.flows = plugins[p].grants
                             /\ \A p \in auth :
                                   /\ plugins[p].parses
                                   /\ p = "key-auth" => plugins[p].keyNames # {}
                                   /\ p = "oauth2" => \E e \in ToSet(apis[k].endpoints) :
                                                         e.protocol = "https"
                                   => \E s \in apis[k].schemes : s.type = CrdOf[p]
                             /\ apis[k].crds \subseteq Registered({Workspace})
                             /\ apis[k].passthrough <=> auth = {}
        BY DEF SecurityIsOwn
    <2> DEFINE plugins == routes[k].plugins
               auth == DOMAIN plugins \cap AuthPlugins
               list == GetEndpoints(routes[k])
               crds == CrdsOf(Workspace, DOMAIN plugins)
    <2>1. /\ apis[k].endpoints = list /\ ListedOnce(list)
          /\ apis[k].schemes = SchemesOf(plugins, list)
          /\ apis[k].crds = crds
          /\ apis[k].passthrough = (crds = {})
        BY BodyOfOne
    <2>2. ASSUME NEW s \in apis[k].schemes
          PROVE  \E p \in auth : /\ CrdOf[p] = s.type
                                 /\ p = "key-auth" => s.name \in plugins[p].keyNames
                                 /\ p = "oauth2" => s.flows = plugins[p].grants
        <3>1. auth = DOMAIN plugins \cap {"basic-auth", "key-auth", "oauth2"}
            BY DEF AuthPlugins
        <3>. HIDE DEF plugins, auth, list
        <3>2. \/ "basic-auth" \in DOMAIN plugins /\ s = [type |-> CrdOf["basic-auth"]]
              \/ "key-auth" \in DOMAIN plugins /\ s \in apiKeySecurity(plugins["key-auth"])
              \/ "oauth2" \in DOMAIN plugins /\ s \in oAuthSecurity(plugins["oauth2"], list)
            BY <2>1, SchemeCases
        <3>3. CASE "basic-auth" \in DOMAIN plugins /\ s = [type |-> CrdOf["basic-auth"]]
            <4>1. "basic-auth" \in auth /\ CrdOf["basic-auth"] = s.type
                BY <3>1, <3>3
            <4>. QED
                BY <4>1
        <3>4. CASE "key-auth" \in DOMAIN plugins /\ s \in apiKeySecurity(plugins["key-auth"])
            <4>1. "key-auth" \in auth
                BY <3>1, <3>4
            <4>2. CrdOf["key-auth"] = s.type /\ s.name \in plugins["key-auth"].keyNames
                BY <3>4, KeySchemes
            <4>. QED
                BY <4>1, <4>2
        <3>5. CASE "oauth2" \in DOMAIN plugins /\ s \in oAuthSecurity(plugins["oauth2"], list)
            <4>1. "oauth2" \in auth
                BY <3>1, <3>5
            <4>2. CrdOf["oauth2"] = s.type /\ s.flows = plugins["oauth2"].grants
                BY <2>1, <3>5, OAuthSchemes
            <4>. QED
                BY <4>1, <4>2
        <3>. QED
            BY <3>2, <3>3, <3>4, <3>5
    <2>3. ASSUME NEW p \in auth, plugins[p].parses,
                 p = "key-auth" => plugins[p].keyNames # {},
                 p = "oauth2" => \E e \in ToSet(apis[k].endpoints) : e.protocol = "https"
          PROVE  \E s \in apis[k].schemes : s.type = CrdOf[p]
        <3>1. p \in DOMAIN plugins /\ p \in {"basic-auth", "key-auth", "oauth2"}
            BY DEF AuthPlugins
        <3>. HIDE DEF plugins, list
        <3>2. CASE p = "basic-auth"
            <4> DEFINE basic == [type |-> CrdOf["basic-auth"]]
            <4>1. basic \in SchemesOf(plugins, list)
                BY <3>1, <3>2, SchemeCases
            <4>2. basic.type = CrdOf["basic-auth"]
                OBVIOUS
            <4>. HIDE DEF basic
            <4>. QED
                BY <2>1, <3>2, <4>1, <4>2
        <3>3. CASE p = "key-auth"
            <4>1. PICK s \in apiKeySecurity(plugins["key-auth"]) : s.type = CrdOf["key-auth"]
                BY <2>3, <3>3, KeySchemeExists
            <4>2. s \in SchemesOf(plugins, list)
                BY <3>1, <3>3, SchemeCases
            <4>. QED
                BY <2>1, <3>3, <4>1, <4>2
        <3>4. CASE p = "oauth2"
            <4>1. PICK s \in oAuthSecurity(plugins["oauth2"], list) : s.type = CrdOf["oauth2"]
                BY <2>1, <2>3, <3>4, OAuthSchemes
            <4>2. s \in SchemesOf(plugins, list)
                BY <3>1, <3>4, SchemeCases
            <4>. QED
                BY <2>1, <3>4, <4>1, <4>2
        <3>. QED
            BY <3>1, <3>2, <3>3, <3>4
    <2>4. crds = {WksPrefixName(Workspace, CrdOf[p]) : p \in auth}
        BY DEF CrdsOf
    <2>5. apis[k].crds \subseteq Registered({Workspace})
        <3>1. crds \subseteq Registered({Workspace})
            BY <2>4 DEF Registered
        <3>. QED
            BY <2>1, <3>1
    <2>6. apis[k].passthrough <=> auth = {}
        <3>. HIDE DEF auth
        <3>1. crds = {} <=> auth = {}
            BY <2>4
        <3>. HIDE DEF crds
        <3>. QED
            BY <2>1, <3>1
    <2>7. \A s \in apis[k].schemes : \E p \in auth :
              /\ CrdOf[p] = s.type
              /\ p = "key-auth" => s.name \in plugins[p].keyNames
              /\ p = "oauth2" => s.flows = plugins[p].grants
        BY <2>2
    <2>8. \A p \in auth :
              /\ plugins[p].parses
              /\ p = "key-auth" => plugins[p].keyNames # {}
              /\ p = "oauth2" => \E e \in ToSet(apis[k].endpoints) : e.protocol = "https"
              => \E s \in apis[k].schemes : s.type = CrdOf[p]
        <3>. HIDE DEF auth, plugins
        <3>. QED
            BY <2>3
    <2>. QED
        BY <2>5, <2>6, <2>7, <2>8
<1>. QED
    BY <1>1, RouteInvariant, PTL

-----------------------------------------------------------------------------
(* The specification that the routes are published with: how the search for  *)
(* it proceeds.                                                              *)

(* The parts of the inductive invariant.                                     *)

Struck == failed["transport"] + failed["status"]

SearchType ==
    /\ localPath \in BOOLEAN /\ devPortal \in BOOLEAN /\ createUnstructured \in BOOLEAN
    /\ next \in Nat \ {0}
    /\ \E n \in Nat : DOMAIN backend = 1..n
    /\ failed \in [{"transport", "status"} -> Nat]

(* Only one source is asked, and the paths before the one that comes next    *)
(* have no specification, or an answer was none for the moment.              *)
InOrder ==
    /\ searchPc = "start" => next = 1
    /\ searchPc = "backend" =>
        /\ ~localPath /\ ~devPortal
        /\ Struck = 0 => \A n \in Serving : n >= next
    /\ searchPc \in {"file", "documents", "document"} => localPath \/ devPortal

(* Whoever gets no answer gives up at once.                                  *)
GivesUp == searchPc # "done" => failed["transport"] = 0

SearchInv == SearchType /\ InOrder /\ GivesUp /\ FirstSpecWins /\ NoAnswerIsAnError

-----------------------------------------------------------------------------
(* The search has asked no server yet. *)
LEMMA SearchBegins ==
    ASSUME RetrievalInit
    PROVE  SearchInv
<1>1. PICK n \in 0..MaxPaths : backend \in [1..n -> Contents]
    BY DEF RetrievalInit
<1>2. n \in Nat /\ DOMAIN backend = 1..n
    BY <1>1
<1>3. SearchType
    <2>1. failed \in [{"transport", "status"} -> Nat]
        BY DEF RetrievalInit
    <2>2. next \in Nat \ {0}
        BY DEF RetrievalInit
    <2>. QED
        BY <1>2, <2>1, <2>2 DEF RetrievalInit, SearchType
<1>4. InOrder /\ GivesUp /\ FirstSpecWins /\ NoAnswerIsAnError
    BY DEF RetrievalInit, InOrder, GivesUp, FirstSpecWins, NoAnswerIsAnError
<1>. QED
    BY <1>3, <1>4 DEF SearchInv

(* Faults are counted.                                                       *)
LEMMA FaultCounted ==
    ASSUME SearchType, NEW kind \in {"transport", "status"}, Fault(kind)
    PROVE  /\ failed' \in [{"transport", "status"} -> Nat]
           /\ Struck' = Struck + 1 /\ Struck \in Nat
           /\ failed'["transport"] = failed["transport"] + (IF kind = "transport" THEN 1 ELSE 0)
BY DEF SearchType, Fault, Struck

(* A step of a source other than the backend: it goes on within its source,  *)
(* or returns, and returns an error if there was no answer.                  *)
LEMMA OtherSource ==
    ASSUME SearchInv, searchPc \in {"file", "documents", "document"},
           searchPc' \in {"document", "done"}, UNCHANGED <<world, next>>,
           \/ UNCHANGED failed
           \/ Fault("status")
           \/ Fault("transport") /\ searchPc' = "done" /\ result'.is = "error"
    PROVE  SearchInv'
<1>. USE DEF SearchInv, world, settings
<1>1. localPath \/ devPortal
    BY DEF InOrder
<1>2. SearchType'
    <2>1. failed' \in [{"transport", "status"} -> Nat]
        BY FaultCounted DEF SearchType
    <2>. QED
        BY <2>1 DEF SearchType
<1>3. InOrder' /\ FirstSpecWins'
    BY <1>1 DEF InOrder, FirstSpecWins
<1>4. GivesUp' /\ NoAnswerIsAnError'
    <2>1. failed["transport"] = 0
        BY DEF GivesUp
    <2>2. CASE UNCHANGED failed \/ Fault("status")
        <3>1. failed'["transport"] = 0
            BY <2>1, <2>2, FaultCounted DEF SearchType
        <3>. QED
            BY <3>1 DEF GivesUp, NoAnswerIsAnError
    <2>3. CASE searchPc' = "done" /\ result'.is = "error"
        BY <2>3 DEF GivesUp, NoAnswerIsAnError
    <2>. QED
        BY <2>2, <2>3
<1>. QED
    BY <1>2, <1>3, <1>4

(* The request to the next path of the backend, kongclient.go 296-320.       *)
LEMMA BackendStep ==
    ASSUME SearchInv, GetSpecFromBackend
    PROVE  SearchInv'
<1>. USE DEF SearchInv
<1>1. /\ searchPc = "backend" /\ next \in DOMAIN backend /\ UNCHANGED world
      /\ ~localPath /\ ~devPortal /\ failed["transport"] = 0 /\ next \in Nat /\ next >= 1
    BY DEF GetSpecFromBackend, InOrder, GivesUp, SearchType
<1>2. UNCHANGED <<localPath, devPortal, createUnstructured, backend>>
    BY <1>1 DEF world, settings
<1>3. Serving' = Serving
    BY <1>2 DEF Serving
<1>4. CASE backend[next] = "spec" /\ Found /\ UNCHANGED failed
    <2>1. searchPc' = "done" /\ result' = [is |-> "backend", path |-> next] /\ next' = next
        BY <1>4 DEF Found
    <2>2. SearchType' /\ InOrder' /\ GivesUp' /\ NoAnswerIsAnError'
        BY <1>1, <1>2, <1>4, <2>1 DEF SearchType, InOrder, GivesUp, NoAnswerIsAnError
    <2>3. next \in Serving
        BY <1>1, <1>4 DEF Serving
    <2>4. Struck = 0 => \A n \in Serving : n >= next
        BY <1>1 DEF InOrder
    <2>5. FirstSpecWins'
        <3>1. Serving # {} /\ result'.is = "backend" /\ result'.path = next
            BY <2>1, <2>3
        <3>2. Struck = 0 => \A n \in Serving : next <= n
            BY <1>1, <2>4 DEF Serving, SearchType
        <3>. QED
            BY <1>3, <1>4, <2>3, <3>1, <3>2 DEF FirstSpecWins, Struck
    <2>. QED
        BY <2>2, <2>5
<1>5. CASE /\ NextPath
           /\ (backend[next] # "spec" /\ UNCHANGED failed) \/ Fault("status")
    <2>1. searchPc' = "backend" /\ next' = next + 1
        BY <1>5 DEF NextPath, Goto
    <2>2. /\ failed' \in [{"transport", "status"} -> Nat]
          /\ failed'["transport"] = 0
          /\ Struck' = 0 => backend[next] # "spec" /\ Struck = 0
        <3>1. CASE UNCHANGED failed /\ backend[next] # "spec"
            BY <1>1, <3>1 DEF Struck, SearchType
        <3>2. CASE Fault("status")
            BY <1>1, <3>2, FaultCounted
        <3>. QED
            BY <1>5, <3>1, <3>2
    <2>3. SearchType'
        BY <1>1, <1>2, <2>1, <2>2 DEF SearchType
    <2>4. InOrder'
        <3>. SUFFICES ASSUME Struck' = 0, NEW n \in Serving PROVE n >= next + 1
            BY <1>1, <1>2, <1>3, <2>1 DEF InOrder
        <3>1. n >= next /\ n # next /\ n \in Nat
            BY <1>1, <2>2 DEF InOrder, Serving, SearchType
        <3>. QED
            BY <1>1, <3>1
    <2>5. GivesUp' /\ FirstSpecWins' /\ NoAnswerIsAnError'
        BY <2>1, <2>2 DEF GivesUp, FirstSpecWins, NoAnswerIsAnError
    <2>. QED
        BY <2>3, <2>4, <2>5
<1>6. CASE Stop("error") /\ Fault("transport")
    <2>1. searchPc' = "done" /\ result'.is = "error" /\ next' = next
        BY <1>6 DEF Stop, Return
    <2>2. /\ failed' \in [{"transport", "status"} -> Nat]
          /\ Struck' # 0 /\ failed'["transport"] + failed'["status"] # 0
        BY <1>6, FaultCounted DEF Struck
    <2>3. SearchType'
        BY <1>2, <2>1, <2>2 DEF SearchType
    <2>4. InOrder' /\ GivesUp' /\ FirstSpecWins' /\ NoAnswerIsAnError'
        BY <2>1, <2>2 DEF InOrder, GivesUp, FirstSpecWins, NoAnswerIsAnError
    <2>. QED
        BY <2>3, <2>4
<1>. QED
    BY <1>4, <1>5, <1>6 DEF GetSpecFromBackend, GetSpec

(* All paths were asked.                                                     *)
LEMMA NoSpecStep ==
    ASSUME SearchInv, NoSpecInBackend
    PROVE  SearchInv'
<1>. USE DEF SearchInv
<1>1. /\ searchPc = "backend" /\ next \notin DOMAIN backend /\ next' = next
      /\ UNCHANGED <<localPath, devPortal, createUnstructured, backend, failed>>
      /\ searchPc' = "done" /\ result'.is = IF createUnstructured THEN "unstructured" ELSE "none"
    BY DEF NoSpecInBackend, Stop, Return, world, settings
<1>2. SearchType' /\ InOrder' /\ GivesUp' /\ NoAnswerIsAnError'
    BY <1>1 DEF SearchType, InOrder, GivesUp, NoAnswerIsAnError
<1>3. Struck = 0 => Serving = {}
    <2>. SUFFICES ASSUME Struck = 0, NEW n \in Serving PROVE FALSE
        OBVIOUS
    <2>1. PICK m \in Nat : DOMAIN backend = 1..m
        BY DEF SearchType
    <2>2. n >= next /\ n \in 1..m /\ next \in Nat \ {0}
        BY <1>1, <2>1 DEF InOrder, Serving, SearchType
    <2>. QED
        BY <1>1, <2>1, <2>2
<1>4. FirstSpecWins'
    BY <1>1, <1>3 DEF FirstSpecWins, Struck, Serving
<1>. QED
    BY <1>2, <1>4

(* The source that is configured is chosen, or there is no backend to ask.   *)
LEMMA SearchStart ==
    ASSUME SearchInv, GetSpecForService
    PROVE  SearchInv'
<1>1. searchPc = "start" /\ next' = next /\ UNCHANGED <<world, failed>>
    BY DEF GetSpecForService
<1>2. CASE searchPc' = IF localPath THEN "file" ELSE IF devPortal THEN "documents" ELSE "backend"
    <2>1. SearchType' /\ GivesUp' /\ FirstSpecWins' /\ NoAnswerIsAnError'
        BY <1>1, <1>2 DEF SearchInv, SearchType, GivesUp, FirstSpecWins, NoAnswerIsAnError,
            world, settings
    <2>2. InOrder'
        <3>1. \A n \in Serving : n >= 1
            BY DEF SearchInv, SearchType, Serving
        <3>2. next = 1 /\ Serving' = Serving
            BY <1>1 DEF SearchInv, InOrder, Serving, world
        <3>. QED
            BY <1>1, <1>2, <3>1, <3>2 DEF InOrder, world, settings
    <2>. QED
        BY <2>1, <2>2 DEF SearchInv
<1>3. CASE ~address /\ searchPc' = "done" /\ result'.is = "error"
    BY <1>1, <1>3 DEF SearchInv, SearchType, InOrder, GivesUp, FirstSpecWins, NoAnswerIsAnError,
        world, settings
<1>. QED
    BY <1>2, <1>3 DEF GetSpecForService, Goto, Return

(* The local directory and the developer portal.                             *)
LEMMA OtherSourceSteps ==
    ASSUME SearchInv, GetSpecFromLocal \/ GetSpecFromDevPortal \/ GetDocument
    PROVE  SearchInv'
<1>1. CASE GetSpecFromLocal
    BY <1>1, OtherSource DEF GetSpecFromLocal, Return
<1>2. CASE GetSpecFromDevPortal
    BY <1>2, OtherSource DEF GetSpecFromDevPortal, Return, Goto
<1>3. CASE GetDocument
    BY <1>3, OtherSource DEF GetDocument, GetSpec, Return
<1>. QED
    BY <1>1, <1>2, <1>3

(* In every behaviour, however many requests are answered late or never.     *)
THEOREM SearchInvariant == RetrievalSpec => []SearchInv
<1>1. RetrievalInit => SearchInv
    BY SearchBegins
<1>2. SearchInv /\ [RetrievalNext]_retrievalVars => SearchInv'
    <2>1. ASSUME SearchInv, UNCHANGED retrievalVars PROVE SearchInv'
        BY <2>1 DEF SearchInv, SearchType, InOrder, GivesUp, FirstSpecWins,
            NoAnswerIsAnError, Struck, Serving, retrievalVars, world,
            settings
    <2>. QED
        BY <2>1, SearchStart, OtherSourceSteps, BackendStep, NoSpecStep DEF RetrievalNext
<1>. QED
    BY <1>1, <1>2, PTL DEF RetrievalSpec

(* With no fault, the first specification under the paths of a backend that  *)
(* has an address is the one, and there is none only if no path has one      *)
(* (README.md:235, kongclient.go:171).                                       *)
THEOREM FirstWins == RetrievalSpec => []FirstSpecWins
<1>1. SearchInv => FirstSpecWins
    BY DEF SearchInv
<1>. QED
    BY <1>1, SearchInvariant, PTL

(* A source that does not answer is never taken for one that has nothing     *)
(* (kongclient.go:290, 313).                                                 *)
THEOREM ErrorsAreReported == RetrievalSpec => []NoAnswerIsAnError
<1>1. SearchInv => NoAnswerIsAnError
    BY DEF SearchInv
<1>. QED
    BY <1>1, SearchInvariant, PTL
=============================================================================
