--------------------------- MODULE MCLookups_proof ---------------------------
(* What the runs check of the operators that only compute holds for every    *)
(* plugin table and every name of a workspace.                               *)
EXTENDS MCLookups, KongPlugins_proof, SequenceTheorems

(* In every behaviour the table holds plugins of the gateway.                *)
LEMMA TableShape == Spec => [](table \in [PluginIds -> InputPlugins \cup {None}])
<1>1. Init => table \in [PluginIds -> InputPlugins \cup {None}]
    BY DEF Init, AnyTable, AnyWorkspace
<1>2. table \in [PluginIds -> InputPlugins \cup {None}] /\ [UNCHANGED vars]_vars
        => (table \in [PluginIds -> InputPlugins \cup {None}])'
    BY DEF vars
<1>. QED
    BY <1>1, <1>2, PTL DEF Spec

(* Such a table is one of KongPlugins, in which no ACL plugin has a consumer. *)
LEMMA InputTable ==
    ASSUME table \in [PluginIds -> InputPlugins \cup {None}]
    PROVE  /\ table \in PluginTable
           /\ \A i \in Named(table, ACL) : table[i].consumer = None
<1>1. InputPlugins \subseteq Plugin
    BY DEF InputPlugins, Plugin
<1>2. table \in PluginTable
    BY <1>1 DEF PluginTable
<1>3. \A p \in InputPlugins : p.name = ACL => p.consumer = None
    BY DEF InputPlugins
<1>. QED
    BY <1>2, <1>3 DEF Named, Present

(* The lookup AddRouteACL and RemoveRouteACL start with is exact where no    *)
(* ACL plugin is scoped to both a service and a route (provisioning.go 136   *)
(* and 181).                                                                 *)
THEOREM AclExact == Spec => []AclLookupExact
<1>1. table \in [PluginIds -> InputPlugins \cup {None}] => AclLookupExact
    <2>. SUFFICES ASSUME table \in [PluginIds -> InputPlugins \cup {None}],
                         \A i \in AclScopes : table[i].service = None,
                         NEW r \in Routes
                  PROVE  LET found == getSpecificPlugin(table, None, r, None, ACL)
                             wanted == ScopedTo(table, None, r, None, ACL)
                         IN  IF wanted = {} THEN found = None ELSE found \in wanted
        BY DEF AclLookupExact
    <2>1. \A i \in Named(table, ACL) : table[i].route # None => table[i].service = None
        BY DEF AclScopes
    <2>. QED
        BY <2>1, InputTable, AclLookupIsExact
<1>. QED
    BY <1>1, TableShape, PTL

(* The lookup of AddQuota overlooks no rate limiting plugin of a route and   *)
(* consumer, whatever the plugins are: at such a plugin all flags are up     *)
(* (provisioning.go 220-256 and 356-381).                                    *)
THEOREM RateComplete == Spec => []RateLookupComplete
<1>1. table \in [PluginIds -> InputPlugins \cup {None}] => RateLookupComplete
    <2>. SUFFICES ASSUME table \in [PluginIds -> InputPlugins \cup {None}],
                         NEW r \in Routes, NEW c \in ConsumerIds,
                         getSpecificPlugin(table, None, r, c, RateLimiting) = None
                  PROVE  ScopedTo(table, None, r, c, RateLimiting) = {}
        BY DEF RateLookupComplete
    <2>1. ReturnPoints(table, None, r, c, RateLimiting) = {}
        BY InputTable, LookupAnswer
    <2>2. ScopedTo(table, None, r, c, RateLimiting)
            \subseteq ReturnPoints(table, None, r, c, RateLimiting)
        BY ScopedAreReturnPoints
    <2>. QED
        BY <2>1, <2>2
<1>. QED
    BY <1>1, TableShape, PTL

(* On a route without another's rate limiting plugin the lookup of AddQuota  *)
(* is exact: it finds the consumer's plugin on that route, whatever else     *)
(* Kong lists before or after it, and nothing if there is none               *)
(* (provisioning.go 356-381).                                                *)
THEOREM RateExact == Spec => []RateLookupExact
<1>1. table \in [PluginIds -> InputPlugins \cup {None}] => RateLookupExact
    <2>. SUFFICES ASSUME table \in PluginTable,
                         NEW r \in Routes, NEW c \in ConsumerIds,
                         \A i \in Named(table, RateLimiting) :
                             table[i].route = r =>
                                 table[i].service = None /\ table[i].consumer = c
                  PROVE  LET found == getSpecificPlugin(table, None, r, c, RateLimiting)
                             wanted == ScopedTo(table, None, r, c, RateLimiting)
                         IN  IF wanted = {} THEN found = None ELSE found \in wanted
        BY InputTable DEF RateLookupExact
    <2> DEFINE found == getSpecificPlugin(table, None, r, c, RateLimiting)
               wanted == ScopedTo(table, None, r, c, RateLimiting)
    <2>1. found # None => found \in wanted
        BY RateLookupIsExact
    <2>2. wanted # {} => found # None
        BY ScopedAreReturnPoints, LookupAnswer
    <2>3. IF wanted = {} THEN found = None ELSE found \in wanted
        <3>. HIDE DEF found, wanted
        <3>. QED BY <2>1, <2>2
    <2>. QED
        BY <2>3
<1>. QED
    BY <1>1, TableShape, PTL

(* GetEffectivePlugins keeps one of the most specific plugins that apply,    *)
(* whatever the table (plugins.go 18-74).                                    *)
THEOREM EffectiveExact == Spec => []EffectiveIsMostSpecific
<1>1. table \in [PluginIds -> InputPlugins \cup {None}] => EffectiveIsMostSpecific
    BY InputTable, EffectivePluginIsMostSpecific, Zenon DEF EffectiveIsMostSpecific
<1>. QED
    BY <1>1, TableShape, PTL

-----------------------------------------------------------------------------
(* Names. *)

(* What names are made of: the words of workspaces and those of types.       *)
Alphabet == Words \cup {"team"} \cup {"api", "key", "http", "basic", "oauth", "secret"}

(* In every behaviour the workspace has a name of a word at least.           *)
LEMMA WorkspaceShape == Spec => [](workspace \in Seq(Alphabet) /\ Len(workspace) > 0)
<1>1. Init => workspace \in Seq(Alphabet) /\ Len(workspace) > 0
    <2>1. ASSUME NEW n \in 1..MaxWords, workspace \in [1..n -> Words]
          PROVE  workspace \in Seq(Alphabet) /\ Len(workspace) > 0
        <3>1. n \in Nat /\ n > 0 /\ workspace \in [1..n -> Alphabet]
            BY <2>1, MaxWordsAssumption DEF Alphabet
        <3>2. workspace \in Seq(Alphabet)
            BY <3>1, IsASeq
        <3>3. Len(workspace) = n
            BY <3>1, <3>2, LenProperties
        <3>. QED
            BY <3>1, <3>2, <3>3
    <2>2. CASE workspace = <<"team">>
        BY <2>2 DEF Alphabet
    <2>. QED
        BY <2>1, <2>2 DEF Init, AnyTable, AnyWorkspace
<1>2. (workspace \in Seq(Alphabet) /\ Len(workspace) > 0) /\ [UNCHANGED vars]_vars
        => (workspace \in Seq(Alphabet) /\ Len(workspace) > 0)'
    BY DEF vars
<1>. QED
    BY <1>1, <1>2, PTL DEF Spec

(* A pair is a sequence of two.                                              *)
LEMMA PairIsSeq ==
    ASSUME NEW S, NEW x \in S, NEW y \in S
    PROVE  <<x, y>> \in Seq(S) /\ Len(<<x, y>>) = 2
OBVIOUS

(* Two neighbours in a sequence.                                             *)
LEMMA Neighbours ==
    ASSUME NEW S, NEW s \in Seq(S), NEW a \in 1..Len(s), NEW b \in 1..Len(s), b = a + 1
    PROVE  SubSeq(s, a, b) = <<s[a], s[b]>>
<1> DEFINE sub == SubSeq(s, a, b)
           pair == <<s[a], s[b]>>
<1>1. s[a] \in S /\ s[b] \in S /\ a \in Int /\ b \in Int
    OBVIOUS
<1>2. pair \in Seq(S) /\ Len(pair) = 2 /\ pair[1] = s[a] /\ pair[2] = s[b]
    BY <1>1, PairIsSeq
<1>3. \A j \in a..b : s[j] \in S
    OBVIOUS
<1>4. /\ sub \in Seq(S) /\ Len(sub) = IF a <= b THEN b - a + 1 ELSE 0
      /\ \A j \in 1..(b - a + 1) : sub[j] = s[a + j - 1]
    <2>1. SubSeq(s, a, b) \in Seq(S)
        BY <1>1, <1>3, SubSeqProperties
    <2>2. Len(SubSeq(s, a, b)) = IF a <= b THEN b - a + 1 ELSE 0
        BY <1>1, <1>3, SubSeqProperties
    <2>3. \A j \in 1..(b - a + 1) : SubSeq(s, a, b)[j] = s[a + j - 1]
        BY <1>1, <1>3, SubSeqProperties
    <2>. QED
        BY <2>1, <2>2, <2>3
<1>. HIDE DEF sub, pair
<1>5. Len(sub) = 2 /\ 1..Len(sub) = {1, 2} /\ 1 \in 1..(b - a + 1) /\ 2 \in 1..(b - a + 1)
    BY <1>1, <1>4
<1>6. sub[1] = s[a] /\ sub[2] = s[b]
    <2>1. a + 1 - 1 = a /\ a + 2 - 1 = b
        BY <1>1
    <2>2. sub[1] = s[a + 1 - 1] /\ sub[2] = s[a + 2 - 1]
        BY <1>4, <1>5, Zenon
    <2>. QED
        BY <2>1, <2>2
<1>7. \A j \in 1..Len(sub) : sub[j] = pair[j]
    BY <1>2, <1>5, <1>6
<1>8. sub = pair
    BY <1>2, <1>4, <1>5, <1>7, SeqEqual
<1>. QED
    BY <1>8 DEF sub, pair

(* A type of credential has two words, none of which any other type has.     *)
LEMMA TypeWords ==
    /\ CrdOf["key-auth"] = <<"api", "key">>
    /\ CrdOf["basic-auth"] = <<"http", "basic">>
    /\ CrdOf["oauth2"] = <<"oauth", "secret">>
    /\ Types = <<CrdOf["key-auth"], CrdOf["basic-auth"], CrdOf["oauth2"]>>
    /\ DOMAIN Types = 1..3
    /\ \A p \in AuthPlugins : \E i \in 1..3 : CrdOf[p] = Types[i]
    /\ \A p \in AuthPlugins : \E x \in Alphabet, y \in Alphabet : CrdOf[p] = <<x, y>>
<1>1. Types = <<CrdOf["key-auth"], CrdOf["basic-auth"], CrdOf["oauth2"]>> /\ DOMAIN Types = 1..3
    BY DEF Types
<1>2. /\ CrdOf["key-auth"] = <<"api", "key">>
      /\ CrdOf["basic-auth"] = <<"http", "basic">>
      /\ CrdOf["oauth2"] = <<"oauth", "secret">>
    BY DEF CrdOf, AuthPlugins
<1>3. \A p \in AuthPlugins : p = "key-auth" \/ p = "basic-auth" \/ p = "oauth2"
    BY DEF AuthPlugins
<1>4. \A p \in AuthPlugins : \E i \in 1..3 : CrdOf[p] = Types[i]
    BY <1>1, <1>3
<1>5. \A p \in AuthPlugins : \E x \in Alphabet, y \in Alphabet : CrdOf[p] = <<x, y>>
    <2>1. \E x \in Alphabet, y \in Alphabet : CrdOf["key-auth"] = <<x, y>>
        BY <1>2 DEF Alphabet
    <2>2. \E x \in Alphabet, y \in Alphabet : CrdOf["basic-auth"] = <<x, y>>
        BY <1>2 DEF Alphabet
    <2>3. \E x \in Alphabet, y \in Alphabet : CrdOf["oauth2"] = <<x, y>>
        BY <1>2 DEF Alphabet
    <2>. QED
        BY <1>3, <2>1, <2>2, <2>3, Zenon
<1>. QED
    BY <1>1, <1>2, <1>4, <1>5

(* Two types differ in the first word and in the second, and no type begins  *)
(* with the second word of another.                                          *)
LEMMA TypesDiffer ==
    ASSUME NEW p \in AuthPlugins, NEW i \in 1..3
    PROVE  /\ CrdOf[p][1] # Types[i][2]
           /\ CrdOf[p] = Types[i] <=> CrdOf[p][1] = Types[i][1] /\ CrdOf[p][2] = Types[i][2]
<1>1. /\ Types[1] = <<"api", "key">> /\ Types[2] = <<"http", "basic">>
      /\ Types[3] = <<"oauth", "secret">>
    BY TypeWords
<1>2. /\ CrdOf[p] = Types[1] \/ CrdOf[p] = Types[2] \/ CrdOf[p] = Types[3]
      /\ Types[i] = Types[1] \/ Types[i] = Types[2] \/ Types[i] = Types[3]
    <2>1. p = "key-auth" \/ p = "basic-auth" \/ p = "oauth2"
        BY DEF AuthPlugins
    <2>2. i = 1 \/ i = 2 \/ i = 3
        OBVIOUS
    <2>3. CrdOf[p] = Types[1] \/ CrdOf[p] = Types[2] \/ CrdOf[p] = Types[3]
        BY <1>1, <2>1, TypeWords
    <2>. QED
        BY <2>2, <2>3
<1>. QED
    BY <1>1, <1>2

(* A name of a definition: the words of the workspace, then the two words of *)
(* the type.                                                                 *)
LEMMA DefinitionName ==
    ASSUME NEW w \in Seq(Alphabet), NEW p \in AuthPlugins
    PROVE  LET name == WksPrefixName(w, CrdOf[p])
           IN  /\ name \in Seq(Alphabet)
               /\ Len(name) = Len(w) + 2
               /\ \A i \in 1..Len(w) : name[i] = w[i]
               /\ name[Len(w) + 1] = CrdOf[p][1]
               /\ name[Len(w) + 2] = CrdOf[p][2]
<1>1. Len(w) \in Nat
    OBVIOUS
<1>2. CrdOf[p] \in Seq(Alphabet) /\ Len(CrdOf[p]) = 2
    <2>1. PICK x \in Alphabet, y \in Alphabet : CrdOf[p] = <<x, y>>
        BY TypeWords
    <2>. QED
        BY <2>1, PairIsSeq
<1> DEFINE name == w \o CrdOf[p]
<1>3. /\ name \in Seq(Alphabet)
      /\ Len(name) = Len(w) + Len(CrdOf[p])
      /\ \A i \in 1..(Len(w) + Len(CrdOf[p])) :
            name[i] = IF i <= Len(w) THEN w[i] ELSE CrdOf[p][i - Len(w)]
    BY <1>2, ConcatProperties
<1>. HIDE DEF name
<1>4. /\ \A i \in 1..Len(w) : i \in 1..(Len(w) + Len(CrdOf[p])) /\ i <= Len(w)
      /\ Len(w) + 1 \in 1..(Len(w) + Len(CrdOf[p])) /\ ~(Len(w) + 1 <= Len(w))
      /\ Len(w) + 2 \in 1..(Len(w) + Len(CrdOf[p])) /\ ~(Len(w) + 2 <= Len(w))
      /\ Len(w) + 1 - Len(w) = 1 /\ Len(w) + 2 - Len(w) = 2
    BY <1>1, <1>2
<1>5. \A i \in 1..Len(w) : name[i] = w[i]
    BY <1>3, <1>4
<1>6. name[Len(w) + 1] = CrdOf[p][1] /\ name[Len(w) + 2] = CrdOf[p][2]
    BY <1>3, <1>4
<1>. QED
    BY <1>2, <1>3, <1>5, <1>6 DEF WksPrefixName, name

(* A name contains a type where both its words stand side by side.           *)
LEMMA ContainsType ==
    ASSUME NEW S, NEW name \in Seq(S), NEW i \in 1..3
    PROVE  ContainsName(name, Types[i]) <=>
               \E k \in 0..(Len(name) - 2) : name[k + 1] = Types[i][1] /\ name[k + 2] = Types[i][2]
<1>1. PICK x, y : Types[i] = <<x, y>>
    <2>1. i = 1 \/ i = 2 \/ i = 3
        OBVIOUS
    <2>. QED
        BY <2>1, TypeWords
<1>2. ASSUME NEW k \in 0..(Len(name) - 2)
      PROVE  SubSeq(name, k + 1, k + 2) = <<x, y>> <=> name[k + 1] = x /\ name[k + 2] = y
    <2>1. k + 1 \in 1..Len(name) /\ k + 2 \in 1..Len(name) /\ k + 2 = k + 1 + 1
        OBVIOUS
    <2>2. SubSeq(name, k + 1, k + 2) = <<name[k + 1], name[k + 2]>>
        BY <2>1, Neighbours
    <2>. QED
        BY <2>2
<1>3. Len(Types[i]) = 2 /\ Types[i][1] = x /\ Types[i][2] = y
    BY <1>1
<1>. QED
    BY <1>1, <1>2, <1>3 DEF ContainsName

(* The definition's name contains the type it is made for, and any other     *)
(* type only if the workspace does: no type ends in the middle of another.   *)
LEMMA WhereTypesAre ==
    ASSUME NEW w \in Seq(Alphabet), NEW p \in AuthPlugins, NEW i \in 1..3
    PROVE  ContainsName(WksPrefixName(w, CrdOf[p]), Types[i]) <=>
               ContainsName(w, Types[i]) \/ Types[i] = CrdOf[p]
<1> DEFINE name == WksPrefixName(w, CrdOf[p])
           At(s, k) == s[k + 1] = Types[i][1] /\ s[k + 2] = Types[i][2]
<1>1. /\ name \in Seq(Alphabet) /\ Len(w) \in Nat /\ Len(name) = Len(w) + 2
      /\ \A j \in 1..Len(w) : name[j] = w[j]
      /\ name[Len(w) + 1] = CrdOf[p][1] /\ name[Len(w) + 2] = CrdOf[p][2]
    BY DefinitionName
<1>2. /\ CrdOf[p][1] # Types[i][2]
      /\ CrdOf[p] = Types[i] <=> CrdOf[p][1] = Types[i][1] /\ CrdOf[p][2] = Types[i][2]
    BY TypesDiffer
<1>. HIDE DEF name
<1>3. /\ ContainsName(name, Types[i]) <=> \E k \in 0..Len(w) : At(name, k)
      /\ ContainsName(w, Types[i]) <=> \E k \in 0..(Len(w) - 2) : At(w, k)
    <2>1. Len(name) - 2 = Len(w)
        BY <1>1
    <2>2. ContainsName(name, Types[i]) <=> \E k \in 0..(Len(name) - 2) : At(name, k)
        BY <1>1, ContainsType, ZenonT(30)
    <2>3. ContainsName(w, Types[i]) <=> \E k \in 0..(Len(w) - 2) : At(w, k)
        BY ContainsType, ZenonT(30)
    <2>. QED
        BY <2>1, <2>2, <2>3
<1>4. \A k \in 0..(Len(w) - 2) : At(name, k) <=> At(w, k)
    BY <1>1
<1>5. At(name, Len(w)) <=> Types[i] = CrdOf[p]
    BY <1>1, <1>2
<1>6. \A k \in 0..Len(w) : k # Len(w) /\ k \notin 0..(Len(w) - 2) => ~At(name, k)
    <2>. SUFFICES ASSUME Len(w) > 0 PROVE ~At(name, Len(w) - 1)
        BY <1>1
    <2>. QED
        BY <1>1, <1>2
<1>. HIDE DEF At
<1>7. 0..(Len(w) - 2) \subseteq 0..Len(w) /\ Len(w) \in 0..Len(w)
    BY <1>1
<1>. QED
    BY <1>3, <1>4, <1>5, <1>6, <1>7 DEF name

(* A type is cut off where the definition was made for it; a name that ends  *)
(* in another type is left as it is.                                         *)
LEMMA WorkspaceParsed ==
    ASSUME NEW w \in Seq(Alphabet), Len(w) > 0, NEW p \in AuthPlugins, NEW i \in 1..3
    PROVE  LET name == WksPrefixName(w, CrdOf[p])
           IN  parseWorkspace(name, Types[i]) = IF Types[i] = CrdOf[p] THEN w ELSE name
<1> DEFINE name == WksPrefixName(w, CrdOf[p])
<1>1. /\ name \in Seq(Alphabet) /\ Len(w) \in Nat /\ Len(name) = Len(w) + 2
      /\ \A j \in 1..Len(w) : name[j] = w[j]
      /\ name[Len(w) + 1] = CrdOf[p][1] /\ name[Len(w) + 2] = CrdOf[p][2]
    BY DefinitionName
<1>2. PICK x, y : Types[i] = <<x, y>>
    <2>1. i = 1 \/ i = 2 \/ i = 3
        OBVIOUS
    <2>. QED
        BY <2>1, TypeWords
<1>3. PICK u, v : CrdOf[p] = <<u, v>>
    BY TypeWords DEF AuthPlugins
<1>. HIDE DEF name
<1>4. IsSuffix(Types[i], name) <=> Types[i] = CrdOf[p]
    <2> DEFINE t == Reverse(<<x, y>>)
               n == Reverse(name)
    <2>1. Len(<<x, y>>) = 2 /\ t = [j \in 1..2 |-> <<x, y>>[2 - j + 1]]
        BY DEF Reverse
    <2>2. t = <<y, x>> /\ Len(t) = 2
        BY <2>1
    <2>3. /\ n \in Seq(Alphabet) /\ Len(n) = Len(w) + 2
          /\ n[1] = v /\ n[2] = u
        BY <1>1, <1>3 DEF Reverse
    <2>. HIDE DEF t, n
    <2>4. SubSeq(n, 1, 2) = <<v, u>>
        <3>1. 1 \in 1..Len(n) /\ 2 \in 1..Len(n) /\ 2 = 1 + 1
            BY <1>1, <2>3
        <3>2. SubSeq(n, 1, 2) = <<n[1], n[2]>>
            BY <2>3, <3>1, Neighbours, Zenon
        <3>. QED
            BY <2>3, <3>2
    <2>5. SubSeq(t, 1, 2) = <<y, x>>
        <3>1. t \in Seq({x, y}) /\ t[1] = y /\ t[2] = x
            BY <2>2, PairIsSeq
        <3>2. 1 \in 1..Len(t) /\ 2 \in 1..Len(t) /\ 2 = 1 + 1
            BY <2>2
        <3>3. SubSeq(t, 1, 2) = <<t[1], t[2]>>
            BY <3>1, <3>2, Neighbours, Zenon
        <3>. QED
            BY <3>1, <3>3
    <2>6. Reverse(Types[i]) = t /\ Reverse(name) = n
        BY <1>2 DEF t, n
    <2>7. IsSuffix(Types[i], name) <=> Len(t) <= Len(n) /\ SubSeq(t, 1, Len(t)) = SubSeq(n, 1, Len(t))
        BY <2>6, Zenon DEF IsSuffix, IsPrefix
    <2>8. IsSuffix(Types[i], name) <=> <<y, x>> = <<v, u>>
        BY <1>1, <2>2, <2>3, <2>4, <2>5, <2>7
    <2>. QED
        BY <1>2, <1>3, <2>8
<1>5. SubSeq(name, 1, Len(w)) = w
    <2>1. /\ SubSeq(name, 1, Len(w)) \in Seq(Alphabet) /\ Len(SubSeq(name, 1, Len(w))) = Len(w)
          /\ \A j \in 1..Len(w) : SubSeq(name, 1, Len(w))[j] = name[j]
        BY <1>1
    <2>. QED
        BY <1>1, <2>1, SeqEqual
<1>6. Len(Types[i]) = 2
    BY <1>2
<1>. QED
    <2>1. Len(name) > Len(Types[i]) /\ Len(name) - Len(Types[i]) = Len(w)
        BY <1>1, <1>6
    <2>2. parseWorkspace(name, Types[i]) = IF Types[i] = CrdOf[p] THEN w ELSE name
        BY <1>4, <1>5, <2>1, Zenon DEF parseWorkspace
    <2>. QED
        BY <2>2 DEF name

(* What is parsed from a definition's name: the first type the name has.     *)
LEMMA FirstType ==
    ASSUME workspace \in Seq(Alphabet), Len(workspace) > 0, NEW p \in AuthPlugins
    PROVE  \E i \in 1..3 :
             /\ Parsed(p) = <<IF Types[i] = CrdOf[p] THEN workspace
                              ELSE WksPrefixName(workspace, CrdOf[p]), Types[i]>>
             /\ ContainsName(workspace, Types[i]) \/ Types[i] = CrdOf[p]
<1> DEFINE name == WksPrefixName(workspace, CrdOf[p])
           matches == {i \in DOMAIN Types : ContainsName(name, Types[i])}
           first == Least(matches)
<1>1. DOMAIN Types = 1..3
    BY TypeWords
<1>2. PICK k \in 1..3 : Types[k] = CrdOf[p]
    BY TypeWords
<1>3. k \in matches
    BY <1>1, <1>2, WhereTypesAre
<1>4. first \in matches
    <2>1. matches \in SUBSET Nat
        BY <1>1
    <2>. HIDE DEF matches
    <2>. QED
        BY <1>3, <2>1, LeastIsLeast
<1>5. Parsed(p) = <<parseWorkspace(name, Types[first]), Types[first]>>
    <2>1. matches # {}
        BY <1>3
    <2>2. parseCredentialType(name) = IF matches = {} THEN <<None, None>>
                                      ELSE <<parseWorkspace(name, Types[first]), Types[first]>>
        BY Zenon DEF parseCredentialType, Least
    <2>. HIDE DEF matches, first, name
    <2>3. parseCredentialType(name) = <<parseWorkspace(name, Types[first]), Types[first]>>
        BY <2>1, <2>2
    <2>. QED
        BY <2>3 DEF Parsed, name
<1>6. first \in 1..3 /\ ContainsName(name, Types[first])
    <2>. HIDE DEF first
    <2>. QED
        BY <1>1, <1>4
<1>. HIDE DEF first
<1>7. ContainsName(workspace, Types[first]) \/ Types[first] = CrdOf[p]
    BY <1>6, WhereTypesAre
<1>8. parseWorkspace(name, Types[first]) = IF Types[first] = CrdOf[p] THEN workspace ELSE name
    BY <1>6, WorkspaceParsed
<1>. QED
    BY <1>5, <1>6, <1>7, <1>8

(* The definition a credential is requested with leads back to the workspace *)
(* and type of its API, unless the workspace is named after a type           *)
(* (agent.go 390, credential.go 51-65).                                      *)
THEOREM NamesParseBack == Spec => []ParsesBack
<1>1. workspace \in Seq(Alphabet) /\ Len(workspace) > 0 => ParsesBack
    <2>. SUFFICES ASSUME workspace \in Seq(Alphabet), Len(workspace) > 0,
                         NEW p \in AuthPlugins, ~Names(workspace)
                  PROVE  Parsed(p) = <<workspace, CrdOf[p]>>
        BY DEF ParsesBack
    <2>1. \A i \in 1..3 : ~ContainsName(workspace, Types[i])
        BY TypeWords DEF Names
    <2>. QED
        BY <2>1, FirstType
<1>. QED
    BY <1>1, WorkspaceShape, PTL

(* Where the workspace is named after a type, a credential of another type   *)
(* goes to a workspace of the whole name, never to one of part of it.        *)
THEOREM NoOtherWorkspace == Spec => []NeverAnotherWorkspace
<1>1. workspace \in Seq(Alphabet) /\ Len(workspace) > 0 => NeverAnotherWorkspace
    <2>. SUFFICES ASSUME workspace \in Seq(Alphabet), Len(workspace) > 0,
                         NEW p \in AuthPlugins
                  PROVE  \/ Parsed(p) = <<workspace, CrdOf[p]>>
                         \/ Parsed(p)[1] = WksPrefixName(workspace, CrdOf[p])
        BY DEF NeverAnotherWorkspace
    <2>. QED
        BY FirstType
<1>. QED
    BY <1>1, WorkspaceShape, PTL
=============================================================================
