---------------------------- MODULE SpecRetrieval ----------------------------
(***************************************************************************)
(* How the discovery agent looks for the specification of a service:       *)
(* GetSpecForService in pkg/discovery/kong/kongclient.go.                  *)
(*                                                                         *)
(* One of three sources is asked: the local directory, the developer       *)
(* portal, or the service's own backend under a list of paths.  Any        *)
(* request may fail, or be answered with a status other than 200 for the   *)
(* moment.                                                                 *)
(***************************************************************************)
EXTENDS Naturals

CONSTANTS
    MaxPaths,    \* bound on the paths to try at a backend
    MaxFaults    \* bound on what may go wrong

ASSUME BoundsAssumption == MaxPaths \in Nat /\ MaxFaults \in Nat

(* Where there may be a document: one that parses, one that does not, none.  *)
Contents == {"spec", "garbage", "missing"}

VARIABLES
    localPath, devPortal, createUnstructured,  \* settings of the client
    file,       \* the local file that the tags of the service name
    documents,  \* what the portal lists for the service: a document or nothing
    address,    \* whether the service has a protocol and a host
    backend,    \* backend[n]: what the backend has under path n
    searchPc,   \* the request that comes next
    next,       \* the path to try
    result,     \* what GetSpecForService returns, pending until then
    failed      \* how often each kind of fault struck

settings      == <<localPath, devPortal, createUnstructured>>
world         == <<settings, file, documents, address, backend>>
retrievalVars == <<world, searchPc, next, result, failed>>

RetrievalInit ==
    /\ localPath \in BOOLEAN /\ devPortal \in BOOLEAN /\ createUnstructured \in BOOLEAN
    /\ file \in Contents \cup {"noTag"}
    /\ documents \in Contents \cup {"noDocument"}
    /\ address \in BOOLEAN
    /\ backend \in UNION {[1..n -> Contents] : n \in 0..MaxPaths}
    /\ searchPc = "start"
    /\ next = 1
    /\ result = [is |-> "pending", path |-> 0]
    /\ failed = [transport |-> 0, status |-> 0]

Fault(kind) ==
    /\ failed["transport"] + failed["status"] < MaxFaults
    /\ failed' = [failed EXCEPT ![kind] = @ + 1]

Goto(step) == searchPc' = step /\ UNCHANGED result

(* What is returned: a document and the path it is from, if it is from one,  *)
(* or why there is none.                                                     *)
Return(what) == searchPc' = "done" /\ result' = [is |-> what, path |-> 0]

-----------------------------------------------------------------------------
(* GetSpecForService: the first source that is configured is the only one;   *)
(* the backend cannot be asked without an address.                           *)
GetSpecForService ==
    /\ searchPc = "start"
    /\ IF localPath THEN Goto("file")
       ELSE IF devPortal THEN Goto("documents")
       ELSE IF address THEN Goto("backend")
       ELSE Return("error")
    /\ UNCHANGED <<world, next, failed>>

(* A service has to name its file in a tag; a file that is not there counts  *)
(* as no specification, one that cannot be read as an error.                 *)
GetSpecFromLocal ==
    /\ searchPc = "file"
    /\ \/ /\ UNCHANGED failed
          /\ Return(CASE file = "noTag"   -> "error"
                      [] file = "missing" -> "none"
                      [] OTHER            -> "file")
       \/ Return("error") /\ Fault("transport")
    /\ UNCHANGED <<world, next>>

(* The portal is asked for the documents of the service first; an answer     *)
(* that lists none will do, whatever its status.                             *)
GetSpecFromDevPortal ==
    /\ searchPc = "documents"
    /\ \/ /\ UNCHANGED failed
          /\ IF documents = "noDocument" THEN Return("none") ELSE Goto("document")
       \/ Return("none") /\ Fault("status")
       \/ Return("error") /\ Fault("transport")
    /\ UNCHANGED <<world, next>>

(* getSpec: a document counts only with status 200 and if it parses; without *)
(* an answer there is an error.                                              *)
GetSpec(content, Success, NotFound, Error) ==
    \/ content = "spec" /\ Success /\ UNCHANGED failed
    \/ content # "spec" /\ NotFound /\ UNCHANGED failed
    \/ NotFound /\ Fault("status")
    \/ Error /\ Fault("transport")

GetDocument ==
    /\ searchPc = "document"
    /\ GetSpec(documents, Return("document"), Return("none"), Return("error"))
    /\ UNCHANGED <<world, next>>

NextPath   == next' = next + 1 /\ Goto("backend")
Stop(what) == Return(what) /\ UNCHANGED next
Found      == searchPc' = "done" /\ result' = [is |-> "backend", path |-> next] /\ UNCHANGED next

(* Mutants: a path that does not answer is passed over; one that has no      *)
(* specification ends the search.                                            *)
M_GetSpecFromBackend_passOver ==
    /\ searchPc = "backend"
    /\ next \in DOMAIN backend
    /\ GetSpec(backend[next], Found, NextPath, NextPath)
    /\ UNCHANGED world

M_GetSpecFromBackend_giveUp ==
    /\ searchPc = "backend"
    /\ next \in DOMAIN backend
    /\ GetSpec(backend[next], Found, Stop("none"), Stop("error"))
    /\ UNCHANGED world

(* The paths of the backend one after the other; an error ends the search.   *)
GetSpecFromBackend ==
    /\ searchPc = "backend"
    /\ next \in DOMAIN backend
    /\ GetSpec(backend[next], Found, NextPath, Stop("error"))
    /\ UNCHANGED world

(* Nothing was found under any path: this is where an unstructured API comes *)
(* in.                                                                       *)
NoSpecInBackend ==
    /\ searchPc = "backend"
    /\ next \notin DOMAIN backend
    /\ Stop(IF createUnstructured THEN "unstructured" ELSE "none")
    /\ UNCHANGED <<world, failed>>

RetrievalNext ==
    \/ GetSpecForService \/ GetSpecFromLocal \/ GetSpecFromDevPortal \/ GetDocument
    \/ GetSpecFromBackend \/ NoSpecInBackend

RetrievalSpec == RetrievalInit /\ [][RetrievalNext]_retrievalVars

-----------------------------------------------------------------------------
(* Properties. *)

Serving == {n \in DOMAIN backend : backend[n] = "spec"}

(* README.md:235: the paths of a backend that has an address are queried one *)
(* after the other and the first specification is the one: unless something  *)
(* went wrong, whatever else the paths hold.  With none, the API is          *)
(* unstructured if that is asked for.                                        *)
FirstSpecWins ==
    (/\ searchPc = "done" /\ ~localPath /\ ~devPortal /\ address
     /\ failed["transport"] + failed["status"] = 0) =>
        IF Serving # {}
           THEN result.is = "backend" /\ result.path \in Serving
                   /\ \A n \in Serving : result.path <= n
           ELSE result.is = IF createUnstructured THEN "unstructured" ELSE "none"

(* A source that does not answer is never taken for one that has nothing: no *)
(* other document takes the place of a published one, nor an unstructured    *)
(* API (kongclient.go:290, 313).                                             *)
NoAnswerIsAnError ==
    (searchPc = "done" /\ failed["transport"] > 0) => result.is = "error"
=============================================================================
