--------------------------- MODULE CredentialNames ---------------------------
(***************************************************************************)
(* The names of credential request definitions: how discovery gives them   *)
(* to an API, how the agent registers them in Central when it starts, and  *)
(* how credential provisioning reads the workspace and the type back.      *)
(*                                                                         *)
(* A name is the sequence of its words, those between the dashes.          *)
(***************************************************************************)
EXTENDS Naturals, Sequences, SequencesExt

CONSTANT None  \* no type, the empty string of the code

AuthPlugins == {"basic-auth", "key-auth", "oauth2"}

(* kongToCRDMapper: the type of credential an authentication plugin accepts. *)
CrdOf ==
    [p \in AuthPlugins |->
        CASE p = "key-auth"   -> <<"api", "key">>
          [] p = "basic-auth" -> <<"http", "basic">>
          [] p = "oauth2"     -> <<"oauth", "secret">>]

(* The types in the order in which parseCredentialType tries them. *)
Types == <<CrdOf["key-auth"], CrdOf["basic-auth"], CrdOf["oauth2"]>>

WksPrefixName(workspace, name) == workspace \o name

ContainsName(name, part) == \E k \in 0..(Len(name) - Len(part)) :
    SubSeq(name, k + 1, k + Len(part)) = part

(* Mutants: the workspace is what comes before the last dash; before the     *)
(* type, wherever the name contains it.                                      *)
M_parseWorkspace_dash(name, type) == SubSeq(name, 1, Len(name) - 1)

M_parseWorkspace_cut(name, type) ==
    SubSeq(name, 1, CHOOSE k \in 0..Len(name) : SubSeq(name, k + 1, k + Len(type)) = type)

(* strings.TrimSuffix: a name without the suffix stays as it is. *)
parseWorkspace(name, type) ==
    IF IsSuffix(type, name) /\ Len(name) > Len(type)
       THEN SubSeq(name, 1, Len(name) - Len(type)) ELSE name

(* The first type that the name contains, wherever it does. *)
parseCredentialType(name) ==
    LET matches == {i \in DOMAIN Types : ContainsName(name, Types[i])}
        first == CHOOSE i \in matches : \A j \in matches : i <= j
    IN  IF matches = {} THEN <<None, None>>
        ELSE <<parseWorkspace(name, Types[first]), Types[first]>>

(* NewProvisioner registers the definition of every type in every workspace. *)
Registered(workspaces) ==
    {WksPrefixName(w, CrdOf[p]) : w \in workspaces, p \in AuthPlugins}

(* The definitions that processSpecSecurity gives an API with these plugins. *)
CrdsOf(workspace, plugins) ==
    {WksPrefixName(workspace, CrdOf[p]) : p \in plugins \cap AuthPlugins}
=============================================================================
