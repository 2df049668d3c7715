-------------------- MODULE CredentialProvisioning_proof --------------------
(***************************************************************************)
(* Proofs about the provisioning of applications and credentials, for any  *)
(* number of them and any number of failures and crashes: what Central     *)
(* shows as provisioned works, a rotation replaces the secret, a failure   *)
(* leaves one orphan at most, and a removed application is gone from Kong. *)
(***************************************************************************)
EXTENDS CredentialProvisioning, FiniteSetTheorems, SequenceTheorems, TLAPS

(* The requests for a credential that Central waits for. *)
Waiting == {c \in Credentials : status[c] \in {"pending", "updating", "deleting"}}

(* What answering the request in hand may yet have cost: one creation. *)
Spent == IF pc = "report" /\ cur.op \in {"provision", "update"} THEN 1 ELSE 0

(* No more credentials are made than requests and failures account for. *)
CountInv ==
    /\ IsFiniteSet(Waiting)
    /\ Len(creds) + Cardinality(Waiting) <= requests + faults + Spent

(* The request in hand is one that Central waits for. *)
HandInv ==
    pc \notin {"idle", "down"} =>
        /\ cur \in [op : Ops, on : Apps \cup Credentials]
        /\ cur.op = "provisionApp" => cur.on \in Apps /\ app[cur.on] = "pending"
        /\ cur.op = "deprovisionApp" => cur.on \in Apps /\ app[cur.on] = "deleting"
        /\ cur.op = "provision" => cur.on \in Credentials /\ status[cur.on] = "pending"
        /\ cur.op = "update" => cur.on \in Credentials /\ status[cur.on] = "updating"
        /\ cur.op = "deprovision" => cur.on \in Credentials /\ status[cur.on] = "deleting"

(* Each call serves the requests it is made for. *)
CallInv ==
    /\ pc \in {"getConsumer", "deleteConsumer"} => cur.op = "deprovisionApp" /\ todo # <<>>
    /\ pc = "create" => cur.op \in {"provision", "update"}
    /\ pc = "delete" => cur.op \in {"update", "deprovision"}
    /\ pc \in {"create", "delete"} =>
        /\ WsOf[cur.on] # None
        /\ cur.op # "provision" => rec[cur.on] # None
    /\ pc = "create" /\ cur.op = "update" => ~creds[rec[cur.on].id].live

(* r describes a credential that Kong has made for c. *)
Issued(c, r) ==
    /\ r.id \in 1..Len(creds)
    /\ r.consumer = <<AppOf[c], WsOf[c]>>
    /\ r.consumer \in recorded
    /\ r.secret = r.id
    /\ r.name = None <=> KindOf[c] = "api-key"
    /\ creds[r.id].consumer = r.consumer
    /\ creds[r.id].kind = KindOf[c]

(* What Central has on record is in Kong, each credential of its own. *)
RecordsInv ==
    /\ \A k \in 1..Len(creds) : creds[k].secret = k
    /\ \A c \in Credentials :
        /\ rec[c] # None => Issued(c, rec[c])
        /\ status[c] \in {"none", "pending", "failed"} => rec[c] = None
        /\ status[c] = "provisioned" =>
            /\ rec[c] # None
            /\ rec[c].consumer \in consumers => creds[rec[c].id].live
    /\ \A c, d \in Credentials :
        rec[c] # None /\ rec[d] # None /\ rec[c].id = rec[d].id => c = d

(* The answer to Central carries the credential just made. *)
AnswerInv ==
    pc = "report" =>
        /\ answer # None
        /\ cur.op \in {"provision", "update"} =>
            (answer.result = "success" <=> answer.record # None)
        /\ answer.record # None =>
            /\ cur.op \in {"provision", "update"}
            /\ Issued(cur.on, answer.record)
            /\ creds[answer.record.id].live
            /\ \A d \in Credentials : rec[d] # None => rec[d].id # answer.record.id
            /\ cur.op = "update" =>
                /\ rec[cur.on] # None
                /\ ~creds[rec[cur.on].id].live
                /\ rec[cur.on].name = answer.record.name

(* The deletion of c has been answered with success. *)
Leaving(c) ==
    pc = "report" /\ cur.op = "deprovision" /\ cur.on = c /\ answer.result = "success"

(* The credentials that work and that Central will know nothing of when it   *)
(* has the answer in hand.                                                   *)
Orphans ==
    {k \in Live :
        /\ \A c \in Credentials :
             rec[c] # None /\ status[c] # "deleted" /\ ~Leaving(c) => rec[c].id # k
        /\ pc = "report" /\ answer.record # None => answer.record.id # k}

OrphansInv == Cardinality(Orphans) <= faults

(* The consumers an application still has, of those it is recorded with, and *)
(* those that the deprovisioning in hand is yet to look up.                  *)
Left(a) == {x \in consumers \cap recorded : x[1] = a}

Ahead == {<<cur.on, todo[n]>> : n \in DOMAIN todo}

RemovalInv ==
    /\ IsFiniteSet(recorded)
    /\ recorded \subseteq Apps \X configured
    /\ pc \in {"getConsumer", "deleteConsumer"} => Cardinality(Left(cur.on) \ Ahead) <= faults
    /\ pc = "report" /\ cur.op = "deprovisionApp" /\ answer.result = "success" =>
        Cardinality(Left(cur.on)) <= faults
    /\ \A a \in Apps : app[a] = "removed" => Cardinality(Left(a)) <= faults

CredInv ==
    /\ TypeOK /\ CountInv /\ HandInv /\ CallInv
    /\ RecordsInv /\ AnswerInv /\ OrphansInv /\ RemovalInv

-----------------------------------------------------------------------------
(* What every step does to the credentials in Kong and to the details of the *)
(* applications.                                                             *)

(* A credential is never made again nor another one's, and it never works    *)
(* again.                                                                    *)
CredsKeep ==
    /\ Len(creds') \in Nat /\ Len(creds') >= Len(creds)
    /\ \A k \in 1..Len(creds) :
        /\ creds'[k].consumer = creds[k].consumer
        /\ creds'[k].kind = creds[k].kind
        /\ creds'[k].secret = creds[k].secret
        /\ creds'[k].live => creds[k].live

(* A set that grows by one element at most, and only with a failure. *)
LEMMA OneMore ==
    ASSUME NEW S, IsFiniteSet(S), NEW T, NEW x, NEW n \in Nat, NEW m \in Nat,
           Cardinality(S) <= n,
           \/ T \subseteq S /\ m >= n
           \/ T \subseteq S \cup {x} /\ m = n + 1
    PROVE  Cardinality(T) <= m
<1>1. CASE T \subseteq S /\ m >= n
    <2>1. Cardinality(S) \in Nat /\ IsFiniteSet(T) /\ Cardinality(T) \in Nat
          /\ Cardinality(T) <= Cardinality(S)
        BY <1>1, FS_Subset, FS_CardinalityType
    <2>. QED
        BY <1>1, <2>1
<1>2. CASE T \subseteq S \cup {x} /\ m = n + 1
    <2>1. /\ IsFiniteSet(S \cup {x}) /\ Cardinality(S) \in Nat
          /\ Cardinality(S \cup {x}) <= Cardinality(S) + 1
          /\ Cardinality(S \cup {x}) \in Nat
        BY FS_AddElement, FS_CardinalityType
    <2>2. Cardinality(T) \in Nat /\ Cardinality(T) <= Cardinality(S \cup {x})
        BY <1>2, <2>1, FS_Subset, FS_CardinalityType
    <2>. QED
        BY <1>2, <2>1, <2>2
<1>. QED
    BY <1>1, <1>2

(* A record of a credential stays one. *)
LEMMA IssuedKept ==
    ASSUME NEW c \in Credentials, NEW r \in Record, Issued(c, r),
           CredsKeep, recorded \subseteq recorded', Len(creds) \in Nat
    PROVE  Issued(c, r)'
<1>1. r.id \in 1..Len(creds) /\ r.id \in 1..Len(creds')
    BY DEF Issued, CredsKeep
<1>. QED
    BY <1>1 DEF Issued, CredsKeep

(* The types that steps rely on. *)
LEMMA Types ==
    ASSUME TypeOK
    PROVE  /\ creds \in Seq(Entity) /\ Len(creds) \in Nat /\ DOMAIN creds = 1..Len(creds)
           /\ \A k \in 1..Len(creds) : creds[k] \in Entity
           /\ \A c \in Credentials : rec[c] \in Record \cup {None}
           /\ requests \in Nat /\ faults \in Nat
           /\ Live \subseteq 1..Len(creds) /\ IsFiniteSet(Live)
           /\ IsFiniteSet(Orphans)
<1>1. creds \in Seq(Entity) /\ Len(creds) \in Nat /\ DOMAIN creds = 1..Len(creds)
    BY LenProperties DEF TypeOK
<1>2. \A k \in 1..Len(creds) : creds[k] \in Entity
    BY <1>1, ElementOfSeq
<1>3. Live \subseteq 1..Len(creds) /\ Orphans \subseteq Live
    BY <1>1 DEF Live, Orphans
<1>4. IsFiniteSet(1..Len(creds))
    BY <1>1, FS_Interval
<1>5. IsFiniteSet(Live)
    BY <1>3, <1>4, FS_Subset
<1>6. IsFiniteSet(Orphans)
    BY <1>3, <1>5, FS_Subset
<1>. QED
    BY <1>1, <1>2, <1>3, <1>5, <1>6, BoundsAssumption DEF TypeOK

(* A credential may be made whenever it comes to that. *)
LEMMA RoomForOne ==
    ASSUME CredInv, pc = "create"
    PROVE  Len(creds) + 1 <= requests + faults /\ Len(creds) + 1 \in Ids
<1>1. cur.on \in Waiting
    BY DEF CredInv, HandInv, CallInv, Waiting
<1>2. Cardinality(Waiting) \in Nat /\ Cardinality(Waiting) # 0
    BY <1>1, FS_CardinalityType, FS_EmptySet DEF CredInv, CountInv
<1>3. Len(creds) \in Nat /\ requests \in Nat /\ faults \in Nat
    BY Types DEF CredInv
<1>4. Len(creds) + Cardinality(Waiting) <= requests + faults
    BY <1>2, <1>3 DEF CredInv, CountInv, Spent
<1>5. requests <= MaxRequests /\ faults <= MaxFaults
    BY BoundsAssumption DEF CredInv, TypeOK
<1>. QED
    BY <1>2, <1>3, <1>4, <1>5, BoundsAssumption DEF Ids

-----------------------------------------------------------------------------
(* What the calls do. *)

(* The answer is some failure. *)
Refused(a) == a \in Answer /\ a.result = "failed" /\ a.record = None

(* A failed handler goes on to report the failure. *)
LEMMA FailedAnswers ==
    ASSUME Failed
    PROVE  pc' = "report" /\ Refused(answer')
BY DEF Failed, Respond, Refused, Answer

(* The credential that CreateCredential makes, and what is recorded of it.   *)
LEMMA NewCredential ==
    ASSUME CredInv, pc = "create", NEW x \in Consumers, x \in recorded,
           x = <<AppOf[cur.on], WsOf[cur.on]>>,
           NEW k, k = Len(creds) + 1, NEW e, e = NewEntity(cur.on, x, k),
           NEW r, r = RecordOf(k, e)
    PROVE  /\ e \in Entity /\ e.consumer = x /\ e.kind = KindOf[cur.on] /\ e.secret = k /\ e.live
           /\ r \in Record /\ r.consumer = x /\ r.id = k /\ r.secret = k
           /\ r.name = None <=> KindOf[cur.on] = "api-key"
           /\ cur.op = "update" => r.name = rec[cur.on].name
<1>1. /\ cur.on \in Credentials /\ k \in Ids
      /\ cur.op = "update" => rec[cur.on] # None
    BY RoomForOne DEF CredInv, HandInv, CallInv
<1>2. KindOf[cur.on] \in Kinds
    BY <1>1, CredentialsAssumption
<1>3. PICK n \in Ids :
        /\ n = NameFor(cur.on, k)
        /\ cur.op = "update" /\ rec[cur.on].name # None => n = rec[cur.on].name
    <2>1. CASE cur.op = "update" /\ rec[cur.on].name # None
        <3>1. rec[cur.on] \in Record
            BY <1>1, <2>1 DEF CredInv, TypeOK
        <3>2. NameFor(cur.on, k) = rec[cur.on].name
            BY <2>1 DEF NameFor, OrElse
        <3>. QED
            BY <2>1, <3>1, <3>2 DEF Record
    <2>2. CASE ~(cur.op = "update" /\ rec[cur.on].name # None)
        BY <1>1, <2>2 DEF NameFor, OrElse
    <2>. QED
        BY <2>1, <2>2
<1>4. e = [consumer |-> x, kind |-> KindOf[cur.on], name |-> n, secret |-> k, live |-> TRUE]
    BY <1>3 DEF NewEntity
<1>5. r = [consumer |-> x, id |-> k, secret |-> k,
           name |-> IF KindOf[cur.on] = "api-key" THEN None ELSE n]
    BY <1>4 DEF RecordOf
<1>6. e \in Entity /\ e.consumer = x /\ e.kind = KindOf[cur.on] /\ e.secret = k /\ e.live
    <2>1. PICK kind \in Kinds : kind = KindOf[cur.on]
        BY <1>2
    <2>2. e = [consumer |-> x, kind |-> kind, name |-> n, secret |-> k, live |-> TRUE]
        BY <1>4, <2>1
    <2>3. e \in Entity /\ e.consumer = x /\ e.kind = kind /\ e.secret = k /\ e.live = TRUE
        <3>1. \A y \in Consumers, q \in Kinds, m \in Ids, s \in Ids :
                [consumer |-> y, kind |-> q, name |-> m, secret |-> s, live |-> TRUE] \in Entity
            BY DEF Entity
        <3>. QED
            BY <1>1, <1>3, <2>1, <2>2, <3>1
    <2>. QED
        BY <2>1, <2>3
<1>7. r \in Record /\ r.consumer = x /\ r.id = k /\ r.secret = k
    BY <1>1, <1>5 DEF Record
<1>8. r.name = None <=> KindOf[cur.on] = "api-key"
    BY <1>5, NoneAssumption
<1>9. ASSUME cur.op = "update" PROVE r.name = rec[cur.on].name
    <2>1. rec[cur.on].name = None <=> KindOf[cur.on] = "api-key"
        BY <1>1, <1>9 DEF CredInv, RecordsInv, Issued
    <2>. QED
        BY <1>3, <1>5, <1>9, <2>1
<1>. QED
    BY <1>6, <1>7, <1>8, <1>9

(* A creation that took effect, answered with record r. *)
Created(r) ==
    /\ creds' \in Seq(Entity)
    /\ Len(creds') = Len(creds) + 1
    /\ \A k \in 1..Len(creds) : creds'[k] = creds[k]
    /\ LET new == creds'[Len(creds) + 1]
       IN  /\ new.consumer = <<AppOf[cur.on], WsOf[cur.on]>>
           /\ new.kind = KindOf[cur.on]
           /\ new.secret = Len(creds) + 1
           /\ new.live
    /\ <<AppOf[cur.on], WsOf[cur.on]>> \in recorded
    /\ r.consumer = <<AppOf[cur.on], WsOf[cur.on]>>
    /\ r.id = Len(creds) + 1 /\ r.secret = Len(creds) + 1
    /\ r.name = None <=> KindOf[cur.on] = "api-key"
    /\ cur.op = "update" => r.name = rec[cur.on].name

(* A creation succeeds, or takes effect and is answered with a failure, or   *)
(* has no effect.                                                            *)
LEMMA CreateFacts ==
    ASSUME CredInv, CreateCredential
    PROVE  /\ pc = "create" /\ pc' = "report"
           /\ UNCHANGED <<configured, consumers, central, cur, todo, requests>>
           /\ cur.on \in Credentials
           /\ \/ \E r \in Record :
                    /\ Created(r)
                    /\ \/ /\ answer' \in Answer
                          /\ answer'.result = "success" /\ answer'.record = r
                          /\ UNCHANGED faults
                       \/ Refused(answer') /\ Fault
              \/ UNCHANGED creds /\ Refused(answer') /\ (UNCHANGED faults \/ Fault)
<1>. DEFINE c == cur.on
            x == IF cur.op = "update" THEN rec[c].consumer ELSE ConsumerOf(c)
            k == Len(creds) + 1
            e == NewEntity(c, x, k)
            found == x \in consumers /\ x[2] = CallWs
            Made == creds' = Append(creds, e) /\ UNCHANGED <<consumers, configured>>
<1>1. /\ pc = "create" /\ UNCHANGED <<central, cur, todo, requests>>
      /\ cur.on \in Credentials
      /\ cur.op = "update" => rec[c] # None
    BY DEF CreateCredential, CredInv, HandInv, CallInv
<1>2. \/ found /\ Made /\ Respond("success", FALSE, RecordOf(k, e)) /\ UNCHANGED faults
      \/ found /\ Made /\ Failed /\ Fault
      \/ Failed /\ UNCHANGED kong /\ (UNCHANGED faults \/ Fault)
    BY DEF CreateCredential
<1>3. CASE Failed /\ UNCHANGED kong /\ (UNCHANGED faults \/ Fault)
    BY <1>1, <1>3, FailedAnswers DEF kong
<1>4. ASSUME found, Made
      PROVE  RecordOf(k, e) \in Record /\ Created(RecordOf(k, e))
    <2>1. x \in Consumers
        BY <1>4 DEF CredInv, TypeOK
    <2>2. x \in recorded /\ x = <<AppOf[c], WsOf[c]>>
        <3>1. CASE cur.op = "update"
            BY <1>1, <3>1 DEF CredInv, RecordsInv, Issued
        <3>2. CASE cur.op # "update"
            BY <2>1, <3>2, NoneAssumption DEF ConsumerOf
        <3>. QED
            BY <3>1, <3>2
    <2>3. PICK y \in Consumers : y = x
        BY <2>1
    <2>4. PICK f : f = e
        OBVIOUS
    <2>5. PICK r : r = RecordOf(k, e)
        OBVIOUS
    <2>6. /\ f \in Entity /\ f.consumer = y /\ f.kind = KindOf[c] /\ f.secret = k /\ f.live
          /\ r \in Record /\ r.consumer = y /\ r.id = k /\ r.secret = k
          /\ r.name = None <=> KindOf[c] = "api-key"
          /\ cur.op = "update" => r.name = rec[c].name
        <3>1. y \in recorded /\ y = <<AppOf[cur.on], WsOf[cur.on]>>
            BY <2>2, <2>3
        <3>2. f = NewEntity(cur.on, y, Len(creds) + 1) /\ r = RecordOf(Len(creds) + 1, f)
            BY <2>3, <2>4, <2>5
        <3>. HIDE DEF e, x, found, Made
        <3>. QED
            BY <1>1, <3>1, <3>2, NewCredential
    <2>7. creds \in Seq(Entity) /\ Len(creds) \in Nat
        BY Types DEF CredInv
    <2>8. creds' = Append(creds, f)
        BY <1>4, <2>4
    <2>9. /\ creds' \in Seq(Entity) /\ Len(creds') = Len(creds) + 1
          /\ \A n \in 1..Len(creds) : creds'[n] = creds[n]
          /\ creds'[Len(creds) + 1] = f
        BY <2>6, <2>7, <2>8
    <2>. HIDE DEF e, x, found, Made
    <2>. QED
        BY <2>2, <2>3, <2>5, <2>6, <2>9 DEF Created
<1>5. ASSUME Respond("success", FALSE, RecordOf(k, e)), RecordOf(k, e) \in Record
      PROVE  /\ pc' = "report" /\ answer' \in Answer
             /\ answer'.result = "success" /\ answer'.record = RecordOf(k, e)
    BY <1>5 DEF Respond, Answer
<1>. HIDE DEF e, x, found
<1>6. CASE found /\ Made /\ Respond("success", FALSE, RecordOf(k, e)) /\ UNCHANGED faults
    BY <1>1, <1>4, <1>5, <1>6
<1>7. CASE found /\ Made /\ Failed /\ Fault
    BY <1>1, <1>4, <1>7, FailedAnswers
<1>. QED
    BY <1>2, <1>3, <1>6, <1>7

(* Kong marks credentials as gone and changes them in no other way. *)
Killed(gone) ==
    /\ creds' \in Seq(Entity)
    /\ Len(creds') = Len(creds)
    /\ \A k \in 1..Len(creds) :
        /\ creds'[k].consumer = creds[k].consumer
        /\ creds'[k].kind = creds[k].kind
        /\ creds'[k].secret = creds[k].secret
        /\ creds'[k].live <=> creds[k].live /\ k \notin gone

(* A deletion that may have failed: an update goes on only when the          *)
(* credential is gone, and a credential is shown as deleted only when it is  *)
(* gone or the call failed.                                                  *)
LEMMA DeleteFacts ==
    ASSUME CredInv, DeleteCredential
    PROVE  /\ pc = "delete" /\ cur.on \in Credentials
           /\ rec[cur.on] \in Record /\ Issued(cur.on, rec[cur.on])
           /\ UNCHANGED <<configured, consumers, central, cur, todo, requests>>
           /\ \/ Killed({rec[cur.on].id}) \/ UNCHANGED creds
           /\ \/ /\ cur.op = "update" /\ pc' = "create" /\ UNCHANGED <<answer, faults>>
                 /\ ~creds'[rec[cur.on].id].live
              \/ /\ cur.op = "update" /\ pc' = "report" /\ Refused(answer')
                 /\ UNCHANGED faults \/ Fault
              \/ /\ cur.op = "deprovision" /\ pc' = "report"
                 /\ answer' \in Answer /\ answer'.result = "success" /\ answer'.record = None
                 /\ (UNCHANGED faults /\ ~creds'[rec[cur.on].id].live) \/ Fault
<1>. DEFINE k == rec[cur.on].id
            found == creds[k].live /\ creds[k].consumer[2] = CallWs
            Gone == creds' = [creds EXCEPT ![k].live = FALSE] /\ UNCHANGED <<consumers, configured>>
<1>1. /\ pc = "delete" /\ UNCHANGED <<central, cur, todo, requests>>
      /\ cur.on \in Credentials /\ cur.op \in {"update", "deprovision"}
      /\ rec[cur.on] # None /\ rec[cur.on] \in Record
    BY DEF DeleteCredential, CredInv, TypeOK, HandInv, CallInv
<1>2. Issued(cur.on, rec[cur.on])
    BY <1>1 DEF CredInv, RecordsInv
<1>3. /\ creds \in Seq(Entity) /\ Len(creds) \in Nat /\ DOMAIN creds = 1..Len(creds)
      /\ \A n \in 1..Len(creds) : creds[n] \in Entity
    BY Types DEF CredInv
<1>4. k \in 1..Len(creds) /\ creds[k].consumer = <<AppOf[cur.on], WsOf[cur.on]>>
    BY <1>2 DEF Issued
<1>5. ASSUME Gone PROVE Killed({k}) /\ UNCHANGED <<consumers, configured>> /\ ~creds'[k].live
    <2>1. PICK old \in Entity : old = creds[k]
        BY <1>3, <1>4
    <2>2. PICK e \in Entity : /\ e = [old EXCEPT !.live = FALSE]
                              /\ e.consumer = old.consumer /\ e.kind = old.kind
                              /\ e.secret = old.secret /\ e.live = FALSE
        <3>1. [old EXCEPT !.live = FALSE] \in Entity
            BY DEF Entity
        <3>. QED
            BY <3>1 DEF Entity
    <2>3. creds' = [creds EXCEPT ![k] = e]
        BY <1>5, <2>1, <2>2
    <2>4. /\ creds' \in Seq(Entity) /\ Len(creds') = Len(creds)
          /\ \A n \in 1..Len(creds) : creds'[n] = IF n = k THEN e ELSE creds[n]
        BY <1>3, <1>4, <2>3, ExceptSeq
    <2>5. \A n \in 1..Len(creds) : creds[n].live \in BOOLEAN
        BY <1>3 DEF Entity
    <2>. HIDE DEF k
    <2>. QED
        BY <1>4, <1>5, <2>1, <2>2, <2>4, <2>5 DEF Killed
<1>6. cur.op = "deprovision" => creds[k].consumer[2] = CallWs
    BY <1>4 DEF CallWs
<1>7. ASSUME DeleteFailed
      PROVE  /\ pc' = "report"
             /\ cur.op = "update" => Refused(answer')
             /\ cur.op = "deprovision" => /\ answer' \in Answer
                                          /\ answer'.result = "success" /\ answer'.record = None
    <2>1. CASE cur.op = "update"
        BY <1>7, <2>1, FailedAnswers DEF DeleteFailed
    <2>2. CASE cur.op = "deprovision"
        <3>1. pc' = "report" /\ answer' = [result |-> "success", gone |-> TRUE, record |-> None]
            BY <1>7, <2>2 DEF DeleteFailed, Respond
        <3>. QED
            BY <2>2, <3>1 DEF Answer
    <2>. QED
        BY <1>1, <2>1, <2>2
<1>8. ASSUME Deleted
      PROVE  /\ cur.op = "update" => pc' = "create" /\ UNCHANGED answer
             /\ cur.op = "deprovision" =>
                    /\ pc' = "report" /\ answer' \in Answer
                    /\ answer'.result = "success" /\ answer'.record = None
    <2>1. CASE cur.op = "update"
        BY <1>8, <2>1 DEF Deleted, Goto
    <2>2. CASE cur.op = "deprovision"
        <3>1. pc' = "report" /\ answer' = [result |-> "success", gone |-> FALSE, record |-> None]
            BY <1>8, <2>2 DEF Deleted, Success, Respond
        <3>. QED
            BY <2>2, <3>1 DEF Answer
    <2>. QED
        BY <1>1, <2>1, <2>2
<1>9. \/ found /\ Gone /\ Deleted /\ UNCHANGED faults
      \/ found /\ Gone /\ DeleteFailed /\ Fault
      \/ ~found /\ DeleteFailed /\ UNCHANGED <<kong, faults>>
      \/ DeleteFailed /\ UNCHANGED kong /\ Fault
    BY DEF DeleteCredential
<1>. HIDE DEF k, Gone
<1>10. CASE found /\ Gone /\ Deleted /\ UNCHANGED faults
    BY <1>1, <1>2, <1>5, <1>8, <1>10 DEF k
<1>11. CASE found /\ Gone /\ DeleteFailed /\ Fault
    BY <1>1, <1>2, <1>5, <1>7, <1>11 DEF k
<1>12. CASE ~found /\ DeleteFailed /\ UNCHANGED <<kong, faults>>
    <2>1. cur.op = "deprovision" => ~creds'[k].live
        BY <1>6, <1>12 DEF kong
    <2>. QED
        BY <1>1, <1>2, <1>7, <1>12, <2>1 DEF kong, k
<1>13. CASE DeleteFailed /\ UNCHANGED kong /\ Fault
    BY <1>1, <1>2, <1>7, <1>13 DEF kong, k
<1>. QED
    BY <1>9, <1>10, <1>11, <1>12, <1>13

(* With a consumer go its credentials. *)
LEMMA RemovedFacts ==
    ASSUME TypeOK, NEW x, Removed(x)
    PROVE  /\ consumers' = consumers \ {x} /\ UNCHANGED configured
           /\ Killed({k \in 1..Len(creds) : creds[k].consumer = x})
<1>1. /\ creds \in Seq(Entity) /\ Len(creds) \in Nat /\ DOMAIN creds = 1..Len(creds)
      /\ \A n \in 1..Len(creds) : creds[n] \in Entity
    BY Types
<1>2. creds' = [k \in 1..Len(creds) |->
                    IF creds[k].consumer = x THEN [creds[k] EXCEPT !.live = FALSE] ELSE creds[k]]
    BY <1>1 DEF Removed
<1>3. ASSUME NEW k \in 1..Len(creds)
      PROVE  /\ creds'[k] \in Entity
             /\ creds'[k].consumer = creds[k].consumer
             /\ creds'[k].kind = creds[k].kind
             /\ creds'[k].secret = creds[k].secret
             /\ creds'[k].live <=> creds[k].live /\ creds[k].consumer # x
    <2>1. PICK e \in Entity : e = creds[k]
        BY <1>1
    <2>2. creds'[k] = IF e.consumer = x THEN [e EXCEPT !.live = FALSE] ELSE e
        BY <1>2, <2>1
    <2>3. CASE e.consumer = x
        <3>1. creds'[k] = [e EXCEPT !.live = FALSE]
            BY <2>2, <2>3
        <3>2. [e EXCEPT !.live = FALSE] \in Entity
            BY DEF Entity
        <3>. QED
            BY <2>1, <2>3, <3>1, <3>2 DEF Entity
    <2>4. CASE e.consumer # x
        BY <2>1, <2>2, <2>4
    <2>. QED
        BY <2>3, <2>4
<1>4. creds' \in [1..Len(creds) -> Entity]
    BY <1>2, <1>3
<1>5. creds' \in Seq(Entity) /\ Len(creds') = Len(creds)
    <2>1. creds' \in Seq(Entity)
        BY <1>1, <1>4, SeqDef
    <2>2. DOMAIN creds' = 1..Len(creds) /\ DOMAIN creds' = 1..Len(creds') /\ Len(creds') \in Nat
        BY <1>4, <2>1, LenProperties
    <2>. QED
        BY <1>1, <2>1, <2>2
<1>. QED
    BY <1>3, <1>5 DEF Removed, Killed

-----------------------------------------------------------------------------
(* The workspaces of an application. *)

(* Those that it is recorded in, of the ones configured. *)
RecordedIn(a) == {w \in configured : <<a, w>> \in recorded}

(* The list to deprovision names every workspace the application is recorded *)
(* in, in some order.                                                        *)
LEMMA TodoIsAll ==
    ASSUME TypeOK, NEW a, NEW t, t \in SetToSeqs(RecordedIn(a))
    PROVE  /\ t \in Seq(Workspaces)
           /\ \A w \in configured : <<a, w>> \in recorded => \E n \in DOMAIN t : t[n] = w
<1>. DEFINE S == RecordedIn(a)
            D == 1..Cardinality(S)
<1>1. configured \in Configurations /\ configured \subseteq Workspaces
    BY DEF TypeOK, Workspaces
<1>2. IsFiniteSet(S) /\ S \subseteq Workspaces
    <2>1. IsFiniteSet(configured)
        BY <1>1, ConfigurationsAssumption
    <2>2. S \subseteq configured
        BY DEF RecordedIn
    <2>. QED
        BY <1>1, <2>1, <2>2, FS_Subset
<1>3. Cardinality(S) \in Nat
    BY <1>2, FS_CardinalityType
<1>4. t \in [D -> S] /\ \A m, n \in D : m # n => t[m] # t[n]
    BY DEF SetToSeqs
<1>. HIDE DEF S
<1>5. t \in Seq(Workspaces)
    <2>1. t \in [D -> Workspaces]
        BY <1>2, <1>4
    <2>. QED
        BY <1>3, <2>1, SeqDef
<1>6. t \in Injection(D, S)
    BY <1>4 DEF Injection, IsInjective
<1>7. Cardinality(D) = Cardinality(S)
    BY <1>3, FS_Interval
<1>. HIDE DEF D
<1>8. t \in Surjection(D, S)
    BY <1>2, <1>6, <1>7, FS_Injection
<1>9. \A w \in S : \E n \in D : t[n] = w
    BY <1>8 DEF Surjection
<1>10. DOMAIN t = D
    BY <1>4
<1>. QED
    BY <1>5, <1>9, <1>10 DEF S, RecordedIn

(* The deprovisioning goes on with the rest of the list, or is done.         *)
LEMMA NextConsumerFacts ==
    ASSUME TypeOK, todo # <<>>, NextConsumer
    PROVE  /\ todo' \in Seq(Workspaces) /\ Head(todo) \in Workspaces
           /\ \A n \in DOMAIN todo :
                todo[n] = Head(todo) \/ \E m \in DOMAIN todo' : todo'[m] = todo[n]
           /\ \/ pc' = "getConsumer" /\ todo' # <<>> /\ UNCHANGED answer
              \/ /\ pc' = "report" /\ todo' = <<>>
                 /\ answer' \in Answer /\ answer'.result = "success" /\ answer'.record = None
<1>1. todo \in Seq(Workspaces) /\ todo' = Tail(todo)
    BY DEF TypeOK, NextConsumer
<1>2. todo' \in Seq(Workspaces) /\ Head(todo) \in Workspaces
    BY <1>1
<1>3. /\ Len(todo) \in Nat /\ Len(todo) # 0 /\ DOMAIN todo = 1..Len(todo)
      /\ DOMAIN todo' = 1..(Len(todo) - 1)
      /\ \A m \in 1..(Len(todo) - 1) : todo'[m] = todo[m + 1]
      /\ Head(todo) = todo[1]
    BY <1>1, LenProperties, EmptySeq
<1>4. ASSUME NEW n \in DOMAIN todo, n # 1
      PROVE  \E m \in DOMAIN todo' : todo'[m] = todo[n]
    <2>1. n - 1 \in 1..(Len(todo) - 1) /\ (n - 1) + 1 = n
        BY <1>3, <1>4
    <2>. QED
        BY <1>3, <2>1
<1>5. \/ pc' = "getConsumer" /\ todo' # <<>> /\ UNCHANGED answer
      \/ /\ pc' = "report" /\ todo' = <<>>
         /\ answer' \in Answer /\ answer'.result = "success" /\ answer'.record = None
    <2>1. CASE todo' = <<>>
        <3>1. pc' = "report" /\ answer' = [result |-> "success", gone |-> FALSE, record |-> None]
            BY <2>1 DEF NextConsumer, Success, Respond
        <3>. QED
            BY <2>1, <3>1 DEF Answer
    <2>2. CASE todo' # <<>>
        BY <2>2 DEF NextConsumer, Goto
    <2>. QED
        BY <2>1, <2>2
<1>. QED
    BY <1>2, <1>3, <1>4, <1>5

(* A lookup leaves Kong as it is and goes on to the deletion or to the next  *)
(* workspace.                                                                *)
LEMMA GetConsumerFacts ==
    ASSUME CredInv, GetConsumer
    PROVE  /\ pc = "getConsumer" /\ todo # <<>> /\ cur.op = "deprovisionApp"
           /\ UNCHANGED <<kong, central, cur, requests>>
           /\ \/ pc' = "deleteConsumer" /\ UNCHANGED <<todo, answer, faults>>
              \/ NextConsumer /\ CurConsumer \notin consumers /\ UNCHANGED faults
              \/ NextConsumer /\ Fault
BY DEF GetConsumer, CredInv, CallInv, Goto

(* A deletion takes effect or not, and goes on or fails.                     *)
LEMMA DeleteConsumerFacts ==
    ASSUME CredInv, DeleteConsumer
    PROVE  /\ pc = "deleteConsumer" /\ todo # <<>> /\ cur.op = "deprovisionApp"
           /\ UNCHANGED <<configured, central, cur, requests>>
           /\ \/ Removed(CurConsumer) /\ NextConsumer /\ UNCHANGED faults
              \/ /\ Removed(CurConsumer) \/ UNCHANGED kong
                 /\ pc' = "report" /\ Refused(answer') /\ UNCHANGED todo /\ Fault
BY FailedAnswers DEF DeleteConsumer, CredInv, CallInv, Removed, kong

-----------------------------------------------------------------------------
(* The request taken in hand. *)

(* What taking a request in hand decides: the first call, or an answer at  *)
(* once.                                                                   *)
LEMMA StartFacts ==
    ASSUME TypeOK, Start
    PROVE  /\ pc = "idle" /\ UNCHANGED <<kong, central, requests, faults>>
           /\ cur' \in [op : Ops, on : Apps \cup Credentials]
           /\ pc' \in {"create", "delete", "getConsumer", "report"}
           /\ IF pc' = "report"
                 THEN Refused(answer') \/ /\ cur'.op = "provisionApp"
                                          /\ answer' \in Answer /\ answer'.record = None
                 ELSE UNCHANGED answer
           /\ HandInv' /\ CallInv'
           /\ \/ UNCHANGED todo /\ pc' # "getConsumer"
              \/ todo' \in SetToSeqs(RecordedIn(cur'.on))
<1>1. ASSUME NEW c \in Credentials, NEW op \in {"provision", "update", "deprovision"},
             Take(op, c)
      PROVE  /\ cur' \in [op : Ops, on : Apps \cup Credentials] /\ cur'.op = op /\ cur'.on = c
             /\ pc = "idle"
    BY <1>1 DEF Take, Ops
<1>2. ASSUME NEW a \in Apps, NEW op \in {"provisionApp", "deprovisionApp"}, Take(op, a)
      PROVE  /\ cur' \in [op : Ops, on : Apps \cup Credentials] /\ cur'.op = op /\ cur'.on = a
             /\ pc = "idle"
    BY <1>2 DEF Take, Ops
<1>3. ASSUME NEW a \in Apps, StartProvisionApp(a)
      PROVE  /\ cur'.op = "provisionApp" /\ cur'.on = a /\ app'[a] = "pending" /\ pc' = "report"
             /\ cur' \in [op : Ops, on : Apps \cup Credentials] /\ pc = "idle"
             /\ UNCHANGED <<kong, central, todo, requests, faults>>
             /\ answer' \in Answer /\ answer'.record = None
    <2>1. answer' = [result |-> "success", gone |-> FALSE, record |-> None] /\ pc' = "report"
        BY <1>3 DEF StartProvisionApp, Success, Respond
    <2>. QED
        BY <1>2, <1>3, <2>1 DEF StartProvisionApp, Answer, central
<1>4. ASSUME NEW a \in Apps, StartDeprovisionApp(a)
      PROVE  /\ cur'.op = "deprovisionApp" /\ cur'.on = a /\ app'[a] = "deleting"
             /\ cur' \in [op : Ops, on : Apps \cup Credentials] /\ pc = "idle"
             /\ UNCHANGED <<kong, central, requests, faults>>
             /\ todo' \in SetToSeqs(RecordedIn(a))
             /\ \/ pc' = "report" /\ Refused(answer')
                \/ pc' = "getConsumer" /\ UNCHANGED answer /\ todo' # <<>>
    BY <1>2, <1>4, FailedAnswers DEF StartDeprovisionApp, RecordedIn, Goto, central
<1>5. ASSUME NEW c \in Credentials, StartProvision(c)
      PROVE  /\ cur'.op = "provision" /\ cur'.on = c /\ status'[c] = "pending"
             /\ cur' \in [op : Ops, on : Apps \cup Credentials] /\ pc = "idle"
             /\ UNCHANGED <<kong, central, todo, requests, faults>>
             /\ \/ pc' = "report" /\ Refused(answer')
                \/ pc' = "create" /\ UNCHANGED answer /\ WsOf[c] # None
    BY <1>1, <1>5, FailedAnswers DEF StartProvision, Goto, central
<1>6. ASSUME NEW c \in Credentials, StartUpdate(c)
      PROVE  /\ cur'.op = "update" /\ cur'.on = c /\ status'[c] = "updating"
             /\ cur' \in [op : Ops, on : Apps \cup Credentials] /\ pc = "idle"
             /\ UNCHANGED <<kong, central, todo, requests, faults>>
             /\ \/ pc' = "report" /\ Refused(answer')
                \/ pc' = "delete" /\ UNCHANGED answer /\ WsOf[c] # None /\ rec'[c] # None
    BY <1>1, <1>6, FailedAnswers DEF StartUpdate, Goto, central
<1>7. ASSUME NEW c \in Credentials, StartDeprovision(c)
      PROVE  /\ cur'.op = "deprovision" /\ cur'.on = c /\ status'[c] = "deleting"
             /\ cur' \in [op : Ops, on : Apps \cup Credentials] /\ pc = "idle"
             /\ UNCHANGED <<kong, central, todo, requests, faults>>
             /\ \/ pc' = "report" /\ Refused(answer')
                \/ pc' = "delete" /\ UNCHANGED answer /\ WsOf[c] # None /\ rec'[c] # None
    BY <1>1, <1>7, FailedAnswers DEF StartDeprovision, Goto, central
<1>8. ASSUME NEW a \in Apps, StartProvisionApp(a) \/ StartDeprovisionApp(a)
      PROVE  HandInv' /\ CallInv'
    <2>1. CASE StartProvisionApp(a)
        BY <1>3, <2>1 DEF HandInv, CallInv
    <2>2. CASE StartDeprovisionApp(a)
        BY <1>4, <2>2 DEF HandInv, CallInv
    <2>. QED
        BY <1>8, <2>1, <2>2
<1>9. ASSUME NEW c \in Credentials, StartProvision(c) \/ StartUpdate(c) \/ StartDeprovision(c)
      PROVE  HandInv' /\ CallInv'
    <2>1. CASE StartProvision(c)
        BY <1>5, <2>1 DEF HandInv, CallInv
    <2>2. CASE StartUpdate(c)
        BY <1>6, <2>2 DEF HandInv, CallInv
    <2>3. CASE StartDeprovision(c)
        BY <1>7, <2>3 DEF HandInv, CallInv
    <2>. QED
        BY <1>9, <2>1, <2>2, <2>3
<1>. QED
    BY <1>3, <1>4, <1>5, <1>6, <1>7, <1>8, <1>9 DEF Start

(* The answer changes the state of the resource it is about, and the record  *)
(* of a credential if it carries one.                                        *)
LEMMA ReportFacts ==
    ASSUME CredInv, Report
    PROVE  /\ pc = "report" /\ pc' = "idle" /\ cur' = None /\ todo' = <<>> /\ answer' = None
           /\ UNCHANGED <<kong, recorded, requests, faults>>
           /\ answer \in Answer /\ cur.op \in Ops
           /\ cur.op \in {"provisionApp", "deprovisionApp"} =>
                /\ cur.on \in Apps /\ UNCHANGED <<status, rec>>
                /\ app' \in [Apps -> {"none", "pending", "active", "deleting", "deleteFailed",
                                      "removed"}]
                /\ \A a \in Apps : a # cur.on => app'[a] = app[a]
                /\ app'[cur.on] = "removed" =>
                    cur.op = "deprovisionApp" /\ answer.result = "success"
           /\ cur.op \in {"provision", "update", "deprovision"} =>
                /\ cur.on \in Credentials /\ UNCHANGED app
                /\ status' = [status EXCEPT ![cur.on] = StateAfter(cur.op, answer.result)]
                /\ rec' \in [Credentials -> Record \cup {None}]
                /\ \A c \in Credentials : c # cur.on => rec'[c] = rec[c]
                /\ answer.record = None => rec'[cur.on] = rec[cur.on]
                /\ answer.record # None => rec'[cur.on] = answer.record
<1>1. /\ pc = "report" /\ pc' = "idle" /\ cur' = None /\ todo' = <<>> /\ answer' = None
      /\ UNCHANGED <<kong, recorded, requests, faults>>
    BY DEF Report, Idle
<1>2. answer \in Answer /\ cur.op \in Ops
    BY <1>1 DEF CredInv, TypeOK, AnswerInv, HandInv
<1>3. ASSUME cur.op \in {"provisionApp", "deprovisionApp"}
      PROVE  /\ cur.on \in Apps /\ UNCHANGED <<status, rec>>
             /\ app' \in [Apps -> {"none", "pending", "active", "deleting", "deleteFailed",
                                   "removed"}]
             /\ \A a \in Apps : a # cur.on => app'[a] = app[a]
             /\ app'[cur.on] = "removed" =>
                 cur.op = "deprovisionApp" /\ answer.result = "success"
    <2>1. cur.on \in Apps
        BY <1>1, <1>3 DEF CredInv, HandInv
    <2>2. PICK new \in {"active", "removed", "deleteFailed"} :
            /\ new = StateAfter(cur.op, answer.result)
            /\ new = "removed" => cur.op = "deprovisionApp" /\ answer.result = "success"
        BY <1>3 DEF StateAfter
    <2>3. app' = [app EXCEPT ![cur.on] = new] /\ UNCHANGED <<status, rec>>
        BY <1>3, <2>2 DEF Report
    <2>. QED
        BY <2>1, <2>2, <2>3 DEF CredInv, TypeOK
<1>4. ASSUME cur.op \in {"provision", "update", "deprovision"}
      PROVE  /\ cur.on \in Credentials /\ UNCHANGED app
             /\ status' = [status EXCEPT ![cur.on] = StateAfter(cur.op, answer.result)]
             /\ rec' \in [Credentials -> Record \cup {None}]
             /\ \A c \in Credentials : c # cur.on => rec'[c] = rec[c]
             /\ answer.record = None => rec'[cur.on] = rec[cur.on]
             /\ answer.record # None => rec'[cur.on] = answer.record
    <2>1. cur.on \in Credentials
        BY <1>1, <1>4 DEF CredInv, HandInv
    <2>2. /\ UNCHANGED app
          /\ status' = [status EXCEPT ![cur.on] = StateAfter(cur.op, answer.result)]
          /\ rec' = [rec EXCEPT ![cur.on] = OrElse(answer.record, rec[cur.on])]
        BY <1>4 DEF Report
    <2>3. answer.record \in Record \cup {None}
        BY <1>2 DEF Answer
    <2>4. PICK new \in Record \cup {None} :
            /\ new = OrElse(answer.record, rec[cur.on])
            /\ answer.record = None => new = rec[cur.on]
            /\ answer.record # None => new = answer.record
        BY <2>1, <2>3 DEF OrElse, CredInv, TypeOK
    <2>. QED
        BY <2>1, <2>2, <2>4 DEF CredInv, TypeOK
<1>. QED
    BY <1>1, <1>2, <1>3, <1>4

(* The steps, but for those that make no difference to credentials. *)
LEMMA Steps ==
    ASSUME [Next]_vars
    PROVE  \/ UNCHANGED <<creds, consumers, recorded, rec, status>>
           \/ \E c \in Credentials : CredentialRequest(c)
           \/ \E a \in Apps, w \in Workspaces : ProvisionApp(a, w)
           \/ DeleteConsumer \/ CreateCredential \/ DeleteCredential \/ Report
<1>1. ASSUME NEW a \in Apps, AppRequest(a)
      PROVE  UNCHANGED <<creds, consumers, recorded, rec, status>>
    BY <1>1 DEF AppRequest, Request, kong
<1>2. ASSUME NEW a \in Apps, StartProvisionApp(a) \/ StartDeprovisionApp(a)
      PROVE  UNCHANGED <<creds, consumers, recorded, rec, status>>
    BY <1>2 DEF StartProvisionApp, StartDeprovisionApp, kong, central
<1>3. ASSUME NEW c \in Credentials, StartProvision(c) \/ StartUpdate(c) \/ StartDeprovision(c)
      PROVE  UNCHANGED <<creds, consumers, recorded, rec, status>>
    BY <1>3 DEF StartProvision, StartUpdate, StartDeprovision, kong, central
<1>4. CASE GetConsumer \/ Panic \/ Crash \/ Restart
    BY <1>4 DEF GetConsumer, Panic, Crash, Restart, kong, central
<1>5. CASE UNCHANGED vars
    BY <1>5 DEF vars, kong, central
<1>. QED
    BY <1>1, <1>2, <1>3, <1>4, <1>5 DEF Next, AgentStep, Start, Call

(* What Kong had of a credential it keeps, and recorded consumers stay so.   *)
LEMMA NextKeeps ==
    ASSUME CredInv, [Next]_vars
    PROVE  CredsKeep /\ recorded \subseteq recorded' /\ UNCHANGED configured
<1>1. Len(creds) \in Nat
    BY Types DEF CredInv
<1>2. UNCHANGED configured
    <2>1. CASE \E c \in Credentials : CredentialRequest(c)
        BY <2>1 DEF CredentialRequest, Request, kong
    <2>2. CASE \E a \in Apps : AppRequest(a)
        BY <2>2 DEF AppRequest, Request, kong
    <2>3. CASE \E a \in Apps, w \in Workspaces : ProvisionApp(a, w)
        BY <2>3 DEF ProvisionApp
    <2>4. CASE Start
        BY <2>4, StartFacts DEF CredInv, kong
    <2>5. CASE GetConsumer \/ Panic \/ Report \/ Restart \/ Crash \/ UNCHANGED vars
        BY <2>5 DEF GetConsumer, Panic, Report, Restart, Crash, vars, kong
    <2>6. CASE DeleteConsumer
        BY <2>6, DeleteConsumerFacts
    <2>7. CASE CreateCredential
        BY <2>7, CreateFacts
    <2>8. CASE DeleteCredential
        BY <2>8, DeleteFacts
    <2>. QED
        BY <2>1, <2>2, <2>3, <2>4, <2>5, <2>6, <2>7, <2>8 DEF Next, AgentStep, Call
<1>3. ASSUME NEW gone, Killed(gone) PROVE CredsKeep
    BY <1>1, <1>3 DEF Killed, CredsKeep
<1>4. ASSUME UNCHANGED creds PROVE CredsKeep
    BY <1>1, <1>4 DEF CredsKeep
<1>5. ASSUME NEW r, Created(r) PROVE CredsKeep
    BY <1>1, <1>5 DEF Created, CredsKeep
<1>6. CASE UNCHANGED <<creds, consumers, recorded, rec, status>>
    BY <1>2, <1>4, <1>6
<1>7. CASE \E c \in Credentials : CredentialRequest(c)
    BY <1>2, <1>4, <1>7 DEF CredentialRequest, Request, kong
<1>8. CASE \E a \in Apps, w \in Workspaces : ProvisionApp(a, w)
    BY <1>2, <1>4, <1>8 DEF ProvisionApp
<1>9. CASE DeleteConsumer
    <2>1. Removed(CurConsumer) \/ UNCHANGED kong
        BY <1>9, DeleteConsumerFacts
    <2>. QED
        BY <1>2, <1>3, <1>4, <1>9, <2>1, DeleteConsumerFacts, RemovedFacts DEF CredInv, kong, central
<1>10. CASE CreateCredential
    BY <1>2, <1>4, <1>5, <1>10, CreateFacts DEF central
<1>11. CASE DeleteCredential
    BY <1>2, <1>3, <1>4, <1>11, DeleteFacts DEF central
<1>12. CASE Report
    BY <1>2, <1>4, <1>12, ReportFacts DEF kong
<1>. QED
    BY <1>6, <1>7, <1>8, <1>9, <1>10, <1>11, <1>12, Steps

-----------------------------------------------------------------------------
(* Each part of the invariant is kept. *)

(* A creation is where a type could go wrong: it needs a free identifier. *)
LEMMA TypeNext == CredInv /\ [Next]_vars => TypeOK'
<1>. SUFFICES ASSUME CredInv, [Next]_vars PROVE TypeOK'
    OBVIOUS
<1>. USE BoundsAssumption
<1>0. TypeOK
    BY DEF CredInv
<1>1. ASSUME NEW a \in Apps, AppRequest(a) PROVE TypeOK'
    BY <1>0, <1>1 DEF AppRequest, Request, TypeOK, kong
<1>2. ASSUME NEW c \in Credentials, CredentialRequest(c) PROVE TypeOK'
    BY <1>0, <1>2 DEF CredentialRequest, Request, TypeOK, kong
<1>3. ASSUME NEW a \in Apps, NEW w \in Workspaces, ProvisionApp(a, w) PROVE TypeOK'
    BY <1>0, <1>3 DEF ProvisionApp, TypeOK, Consumers, Fault
<1>4. CASE Start
    <2>1. /\ UNCHANGED <<kong, central, requests, faults>>
          /\ cur' \in [op : Ops, on : Apps \cup Credentials]
          /\ pc' \in {"create", "delete", "getConsumer", "report"}
          /\ answer' \in Answer \cup {None}
        BY <1>0, <1>4, StartFacts DEF Refused, TypeOK
    <2>2. todo' \in Seq(Workspaces)
        BY <1>0, <1>4, StartFacts, TodoIsAll DEF TypeOK
    <2>. QED
        BY <1>0, <2>1, <2>2 DEF TypeOK, kong, central
<1>5. CASE GetConsumer
    <2>1. /\ UNCHANGED <<kong, central, cur, requests>>
          /\ UNCHANGED faults \/ Fault
          /\ \/ pc' = "deleteConsumer" /\ UNCHANGED <<todo, answer>>
             \/ NextConsumer /\ todo # <<>>
        BY <1>5, GetConsumerFacts
    <2>2. pc' \in {"getConsumer", "deleteConsumer", "report"} /\ todo' \in Seq(Workspaces)
          /\ answer' \in Answer \cup {None}
        BY <1>0, <2>1, NextConsumerFacts DEF TypeOK
    <2>3. faults' \in 0..MaxFaults
        BY <1>0, <2>1 DEF Fault, TypeOK
    <2>. QED
        BY <1>0, <2>1, <2>2, <2>3 DEF TypeOK, kong, central
<1>6. CASE DeleteConsumer
    <2>1. /\ UNCHANGED <<configured, central, cur, requests>>
          /\ Removed(CurConsumer) \/ UNCHANGED kong
          /\ UNCHANGED faults \/ Fault
          /\ \/ NextConsumer /\ todo # <<>>
             \/ pc' = "report" /\ Refused(answer') /\ UNCHANGED todo
        BY <1>6, DeleteConsumerFacts
    <2>2. /\ pc' \in {"getConsumer", "deleteConsumer", "report"} /\ todo' \in Seq(Workspaces)
          /\ answer' \in Answer \cup {None}
        BY <1>0, <2>1, NextConsumerFacts DEF TypeOK, Refused
    <2>3. faults' \in 0..MaxFaults
        BY <1>0, <2>1 DEF Fault, TypeOK
    <2>4. /\ consumers' \subseteq Consumers /\ creds' \in Seq(Entity)
          /\ Len(creds') <= MaxRequests + MaxFaults
        <3>1. CASE Removed(CurConsumer)
            BY <1>0, <3>1, RemovedFacts DEF TypeOK, Killed
        <3>2. CASE UNCHANGED kong
            BY <1>0, <3>2 DEF TypeOK, kong
        <3>. QED
            BY <2>1, <3>1, <3>2
    <2>. QED
        BY <1>0, <2>1, <2>2, <2>3, <2>4 DEF TypeOK, central
<1>7. CASE CreateCredential
    <2>1. /\ pc = "create" /\ pc' = "report"
          /\ UNCHANGED <<configured, consumers, central, cur, todo, requests>>
          /\ answer' \in Answer
          /\ UNCHANGED faults \/ Fault
          /\ (\E r \in Record : Created(r)) \/ UNCHANGED creds
        BY <1>7, CreateFacts DEF Refused
    <2>2. faults' \in 0..MaxFaults
        BY <1>0, <2>1 DEF Fault, TypeOK
    <2>3. creds' \in Seq(Entity) /\ Len(creds') <= MaxRequests + MaxFaults
        <3>1. Len(creds) + 1 <= MaxRequests + MaxFaults
            BY <2>1, RoomForOne DEF Ids
        <3>. QED
            BY <1>0, <2>1, <3>1 DEF Created, TypeOK
    <2>. QED
        BY <1>0, <2>1, <2>2, <2>3 DEF TypeOK, central
<1>8. CASE DeleteCredential
    <2>1. /\ UNCHANGED <<configured, consumers, central, cur, todo, requests>>
          /\ pc' \in {"create", "report"}
          /\ answer' \in Answer \/ UNCHANGED answer
          /\ UNCHANGED faults \/ Fault
          /\ (\E gone : Killed(gone)) \/ UNCHANGED creds
        BY <1>8, DeleteFacts DEF Refused
    <2>2. faults' \in 0..MaxFaults
        BY <1>0, <2>1 DEF Fault, TypeOK
    <2>3. creds' \in Seq(Entity) /\ Len(creds') <= MaxRequests + MaxFaults
        BY <1>0, <2>1 DEF Killed, TypeOK
    <2>. QED
        BY <1>0, <2>1, <2>2, <2>3 DEF TypeOK, central
<1>9. CASE Panic
    BY <1>0, <1>9 DEF Panic, TypeOK, kong, central
<1>10. CASE Report
    <2>1. /\ pc' = "idle" /\ cur' = None /\ todo' = <<>> /\ answer' = None
          /\ UNCHANGED <<kong, recorded, requests, faults>>
        BY <1>10, ReportFacts
    <2>2. todo' \in Seq(Workspaces)
        BY <2>1
    <2>3. CASE cur.op \in {"provisionApp", "deprovisionApp"}
        BY <1>0, <1>10, <2>1, <2>2, <2>3, ReportFacts DEF TypeOK, kong
    <2>4. CASE cur.op \in {"provision", "update", "deprovision"}
        <3>1. StateAfter(cur.op, answer.result) \in
                {"provisioned", "failed", "updateFailed", "deleted", "deleteFailed"}
            BY <2>4 DEF StateAfter
        <3>. QED
            BY <1>0, <1>10, <2>1, <2>2, <2>4, <3>1, ReportFacts DEF TypeOK, kong
    <2>. QED
        BY <1>10, <2>3, <2>4, ReportFacts DEF Ops
<1>11. CASE Crash
    BY <1>0, <1>11 DEF Crash, Fault, TypeOK, kong, central
<1>12. CASE Restart
    <2>1. todo' \in Seq(Workspaces)
        BY <1>12 DEF Restart, Idle
    <2>. QED
        BY <1>0, <1>12, <2>1 DEF Restart, Idle, TypeOK, kong, central
<1>13. CASE UNCHANGED vars
    BY <1>0, <1>13 DEF vars, TypeOK, kong, central
<1>. QED
    BY <1>1, <1>2, <1>3, <1>4, <1>5, <1>6, <1>7, <1>8, <1>9, <1>10, <1>11, <1>12, <1>13
       DEF Next, AgentStep, Call

(* A step that leaves the waiting requests alone keeps the count if what   *)
(* it makes is paid for.                                                   *)
LEMMA CountKept ==
    ASSUME TypeOK, TypeOK', CountInv, UNCHANGED status,
           Len(creds') + requests + faults + Spent <= Len(creds) + requests' + faults' + Spent'
    PROVE  CountInv'
<1>1. Waiting' = Waiting
    BY DEF Waiting
<1>2. Cardinality(Waiting) \in Nat
    BY FS_CardinalityType DEF CountInv
<1>3. /\ Len(creds) \in Nat /\ Len(creds') \in Nat
      /\ requests \in Nat /\ requests' \in Nat /\ faults \in Nat /\ faults' \in Nat
    BY LenProperties, BoundsAssumption DEF TypeOK
<1>4. Spent \in Nat /\ Spent' \in Nat
    BY DEF Spent
<1>5. IsFiniteSet(Waiting') /\ Cardinality(Waiting') = Cardinality(Waiting)
    BY <1>1 DEF CountInv
<1>6. PICK l \in Nat, r \in Nat, f \in Nat, s \in Nat :
        l = Len(creds') /\ r = requests' /\ f = faults' /\ s = Spent'
    BY <1>3, <1>4
<1>7. PICK m \in Nat, q \in Nat, g \in Nat, t \in Nat, w \in Nat :
        m = Len(creds) /\ q = requests /\ g = faults /\ t = Spent /\ w = Cardinality(Waiting)
    BY <1>2, <1>3, <1>4
<1>8. m + w <= q + g + t
    BY <1>7 DEF CountInv
<1>9. l + q + g + t <= m + r + f + s
    BY <1>6, <1>7
<1>10. l + w <= r + f + s
    <2>1. /\ l \in Nat /\ r \in Nat /\ f \in Nat /\ s \in Nat
          /\ m \in Nat /\ q \in Nat /\ g \in Nat /\ t \in Nat /\ w \in Nat
        BY <1>6, <1>7
    <2>. QED
        BY <1>8, <1>9, <2>1
<1>. QED
    BY <1>5, <1>6, <1>7, <1>10 DEF CountInv

(* Each request pays for one credential, and each failure for one more. *)
LEMMA CountNext == CredInv /\ [Next]_vars => CountInv'
<1>. SUFFICES ASSUME CredInv, [Next]_vars PROVE CountInv'
    OBVIOUS
<1>1. /\ TypeOK /\ TypeOK' /\ CountInv /\ Spent \in 0..1 /\ Spent' \in 0..1
    BY TypeNext DEF CredInv, Spent
<1>2. /\ Len(creds) \in Nat /\ Len(creds') \in Nat
      /\ requests \in Nat /\ requests' \in Nat /\ faults \in Nat /\ faults' \in Nat
    BY <1>1, LenProperties, BoundsAssumption DEF TypeOK
<1>3. Cardinality(Waiting) \in Nat /\ IsFiniteSet(Waiting)
    BY <1>1, FS_CardinalityType DEF CountInv
<1>4. ASSUME NEW a \in Apps, AppRequest(a) PROVE CountInv'
    <2>1. UNCHANGED <<creds, status, faults>> /\ requests' = requests + 1 /\ Spent' = Spent
        BY <1>4 DEF AppRequest, Request, kong, Spent
    <2>. QED
        BY <1>1, <1>2, <2>1, CountKept
<1>5. ASSUME NEW c \in Credentials, CredentialRequest(c) PROVE CountInv'
    <2>1. UNCHANGED <<creds, faults>> /\ requests' = requests + 1 /\ Spent' = Spent
        BY <1>5 DEF CredentialRequest, Request, kong, Spent
    <2>2. /\ c \notin Waiting /\ status'[c] \in {"pending", "updating", "deleting"}
          /\ \A d \in Credentials : d # c => status'[d] = status[d]
        BY <1>1, <1>5 DEF CredentialRequest, Waiting, TypeOK
    <2>3. Waiting' = Waiting \cup {c}
        BY <2>2 DEF Waiting
    <2>4. IsFiniteSet(Waiting') /\ Cardinality(Waiting') = Cardinality(Waiting) + 1
        BY <1>3, <2>2, <2>3, FS_AddElement
    <2>. QED
        BY <1>1, <1>2, <1>3, <2>1, <2>4 DEF CountInv
<1>6. ASSUME NEW a \in Apps, NEW w \in Workspaces, ProvisionApp(a, w) PROVE CountInv'
    <2>1. UNCHANGED <<creds, status, requests>> /\ faults' >= faults /\ Spent' = Spent
        BY <1>2, <1>6 DEF ProvisionApp, Fault, Spent
    <2>. QED
        BY <1>1, <1>2, <2>1, CountKept
<1>7. CASE Start
    <2>1. UNCHANGED <<creds, status, requests, faults>> /\ Spent = 0
        BY <1>1, <1>7, StartFacts DEF kong, central, Spent
    <2>. QED
        BY <1>1, <1>2, <2>1, CountKept
<1>8. CASE GetConsumer
    <2>1. UNCHANGED <<creds, status, requests>> /\ faults' >= faults /\ Spent = 0
        BY <1>2, <1>8, GetConsumerFacts DEF kong, central, Spent, Fault
    <2>. QED
        BY <1>1, <1>2, <2>1, CountKept
<1>9. CASE DeleteConsumer
    <2>1. UNCHANGED <<status, requests>> /\ faults' >= faults /\ Spent = 0
        BY <1>2, <1>9, DeleteConsumerFacts DEF central, Spent, Fault
    <2>2. Len(creds') = Len(creds)
        BY <1>1, <1>9, DeleteConsumerFacts, RemovedFacts DEF kong, Killed
    <2>. QED
        BY <1>1, <1>2, <2>1, <2>2, CountKept
<1>10. CASE CreateCredential
    <2>1. UNCHANGED <<status, requests>> /\ faults' >= faults /\ Spent = 0
        BY <1>2, <1>10, CreateFacts DEF central, Spent, Fault
    <2>2. Len(creds') <= Len(creds) + 1
        BY <1>2, <1>10, CreateFacts DEF Created
    <2>3. Spent' = 1
        BY <1>10, CreateFacts DEF Spent, CredInv, CallInv
    <2>. QED
        BY <1>1, <1>2, <2>1, <2>2, <2>3, CountKept
<1>11. CASE DeleteCredential
    <2>1. UNCHANGED <<status, requests>> /\ faults' >= faults /\ Spent = 0
        BY <1>2, <1>11, DeleteFacts DEF central, Spent, Fault
    <2>2. Len(creds') = Len(creds)
        BY <1>11, DeleteFacts DEF Killed
    <2>. QED
        BY <1>1, <1>2, <2>1, <2>2, CountKept
<1>12. CASE Panic
    <2>1. UNCHANGED <<creds, status, requests, faults>> /\ Spent = 0
        BY <1>12 DEF Panic, kong, central, Spent
    <2>. QED
        BY <1>1, <1>2, <2>1, CountKept
<1>13. CASE Crash
    <2>1. UNCHANGED <<creds, status, requests>> /\ faults' = faults + 1
        BY <1>13 DEF Crash, kong, central, Fault
    <2>. QED
        BY <1>1, <1>2, <2>1, CountKept
<1>14. CASE Restart
    <2>1. UNCHANGED <<creds, status, requests, faults>> /\ Spent = 0
        BY <1>14 DEF Restart, kong, central, Spent
    <2>. QED
        BY <1>1, <1>2, <2>1, CountKept
<1>15. CASE Report
    <2>1. UNCHANGED <<creds, requests, faults>> /\ cur.op \in Ops
        BY <1>15, ReportFacts DEF kong
    <2>2. CASE cur.op \in {"provisionApp", "deprovisionApp"}
        <3>1. UNCHANGED status /\ Spent = 0
            BY <1>15, <2>2, ReportFacts DEF Spent
        <3>. QED
            BY <1>1, <1>2, <2>1, <3>1, CountKept
    <2>3. CASE cur.op \in {"provision", "update", "deprovision"}
        <3>1. /\ cur.on \in Credentials
              /\ status' = [status EXCEPT ![cur.on] = StateAfter(cur.op, answer.result)]
            BY <1>15, <2>3, ReportFacts
        <3>2. StateAfter(cur.op, answer.result) \in
                {"provisioned", "failed", "updateFailed", "deleted", "deleteFailed"}
            BY <2>3 DEF StateAfter
        <3>3. cur.on \in Waiting
            BY <1>15, <2>3, ReportFacts DEF CredInv, HandInv, Waiting
        <3>4. Waiting' = Waiting \ {cur.on}
            BY <1>1, <3>1, <3>2 DEF Waiting, TypeOK
        <3>5. IsFiniteSet(Waiting') /\ Cardinality(Waiting') = Cardinality(Waiting) - 1
            BY <1>3, <3>3, <3>4, FS_RemoveElement
        <3>6. Spent' = 0
            BY <1>15, ReportFacts DEF Spent
        <3>7. Cardinality(Waiting') \in Nat
            BY <3>5, FS_CardinalityType
        <3>. QED
            BY <1>1, <1>2, <1>3, <2>1, <3>5, <3>6, <3>7 DEF CountInv
    <2>. QED
        BY <2>1, <2>2, <2>3 DEF Ops
<1>16. CASE UNCHANGED vars
    <2>1. UNCHANGED <<creds, status, requests, faults>> /\ Spent' = Spent
        BY <1>16 DEF vars, kong, central, Spent
    <2>. QED
        BY <1>1, <1>2, <2>1, CountKept
<1>. QED
    BY <1>4, <1>5, <1>6, <1>7, <1>8, <1>9, <1>10, <1>11, <1>12, <1>13, <1>14, <1>15, <1>16
       DEF Next, AgentStep, Call

(* Central changes nothing about a request it waits for, and each call is  *)
(* made for a request that needs it.                                       *)
LEMMA HandNext == CredInv /\ [Next]_vars => HandInv' /\ CallInv'
<1>. SUFFICES ASSUME CredInv, [Next]_vars PROVE HandInv' /\ CallInv'
    OBVIOUS
<1>1. TypeOK /\ HandInv /\ CallInv
    BY DEF CredInv
<1>2. ASSUME NEW a \in Apps, AppRequest(a) PROVE HandInv' /\ CallInv'
    <2>1. /\ UNCHANGED <<kong, status, rec, pc, cur, todo>>
          /\ app[a] \notin {"pending", "deleting"}
          /\ \A b \in Apps : b # a => app'[b] = app[b]
        BY <1>1, <1>2 DEF AppRequest, Request, TypeOK
    <2>2. HandInv'
        BY <1>1, <2>1 DEF HandInv
    <2>3. CallInv'
        BY <1>1, <2>1 DEF CallInv, kong
    <2>. QED
        BY <2>2, <2>3
<1>3. ASSUME NEW c \in Credentials, CredentialRequest(c) PROVE HandInv' /\ CallInv'
    <2>1. /\ UNCHANGED <<kong, app, rec, pc, cur, todo>>
          /\ status[c] \notin {"pending", "updating", "deleting"}
          /\ \A d \in Credentials : d # c => status'[d] = status[d]
        BY <1>1, <1>3 DEF CredentialRequest, Request, TypeOK
    <2>2. HandInv'
        BY <1>1, <2>1 DEF HandInv
    <2>3. CallInv'
        BY <1>1, <2>1 DEF CallInv, kong
    <2>. QED
        BY <2>2, <2>3
<1>4. CASE pc' \in {"idle", "down"}
    BY <1>4 DEF HandInv, CallInv
<1>5. ASSUME NEW a \in Apps, NEW w \in Workspaces, ProvisionApp(a, w) PROVE pc' = "idle"
    BY <1>5 DEF ProvisionApp
<1>6. CASE Start
    BY <1>1, <1>6, StartFacts
<1>7. ASSUME pc \notin {"idle", "down"}, UNCHANGED <<cur, app, status>> PROVE HandInv'
    BY <1>1, <1>7 DEF HandInv
<1>8. CASE GetConsumer
    <2>1. HandInv'
        BY <1>7, <1>8, GetConsumerFacts DEF central
    <2>2. cur'.op = "deprovisionApp" /\ (pc' = "deleteConsumer" \/ pc' = "getConsumer" => todo' # <<>>)
          /\ pc' \in {"getConsumer", "deleteConsumer", "report"}
        BY <1>1, <1>8, GetConsumerFacts, NextConsumerFacts
    <2>. QED
        BY <2>1, <2>2 DEF CallInv
<1>9. CASE DeleteConsumer
    <2>1. HandInv'
        BY <1>7, <1>9, DeleteConsumerFacts DEF central
    <2>2. /\ cur'.op = "deprovisionApp" /\ (pc' = "getConsumer" => todo' # <<>>)
          /\ pc' \in {"getConsumer", "report"}
        BY <1>1, <1>9, DeleteConsumerFacts, NextConsumerFacts
    <2>. QED
        BY <2>1, <2>2 DEF CallInv
<1>10. CASE CreateCredential
    <2>1. HandInv'
        BY <1>7, <1>10, CreateFacts DEF central
    <2>. QED
        BY <1>10, <2>1, CreateFacts DEF CallInv
<1>11. CASE DeleteCredential
    <2>1. HandInv'
        BY <1>7, <1>11, DeleteFacts DEF central
    <2>2. /\ UNCHANGED <<cur, rec>> /\ pc = "delete"
          /\ pc' = "report" \/ /\ pc' = "create" /\ cur.op = "update"
                               /\ ~creds'[rec[cur.on].id].live
        BY <1>11, DeleteFacts DEF central
    <2>. QED
        BY <1>1, <2>1, <2>2 DEF CallInv
<1>12. CASE Panic \/ Report \/ Crash \/ Restart
    BY <1>4, <1>12 DEF Panic, Report, Idle, Crash, Restart
<1>13. CASE UNCHANGED vars
    BY <1>1, <1>13 DEF vars, kong, central, HandInv, CallInv
<1>. QED
    BY <1>2, <1>3, <1>4, <1>5, <1>6, <1>8, <1>9, <1>10, <1>11, <1>12, <1>13
       DEF Next, AgentStep, Call

(* A credential on record may be deleted only while its request is         *)
(* pending, and is replaced only by the one just made.                     *)
LEMMA RecordsNext == CredInv /\ [Next]_vars => RecordsInv'
<1>. SUFFICES ASSUME CredInv, [Next]_vars PROVE RecordsInv'
    OBVIOUS
<1>1. TypeOK /\ HandInv /\ RecordsInv /\ AnswerInv
    BY DEF CredInv
<1>2. Len(creds) \in Nat /\ \A c \in Credentials : rec[c] \in Record \cup {None}
    BY <1>1, Types
<1>3. CredsKeep /\ recorded \subseteq recorded'
    BY NextKeeps
<1>4. /\ \A c \in Credentials : rec[c] # None => rec[c] \in Record /\ Issued(c, rec[c])
      /\ \A c \in Credentials, r \in Record : Issued(c, r) => Issued(c, r)'
    <2>1. \A c \in Credentials : rec[c] # None => rec[c] \in Record /\ Issued(c, rec[c])
        BY <1>1, <1>2 DEF RecordsInv
    <2>. QED
        BY <1>2, <1>3, <2>1, IssuedKept
<1>5. CASE UNCHANGED <<creds, consumers, recorded, rec, status>>
    <2>1. \A c \in Credentials : rec'[c] # None => Issued(c, rec[c])'
        BY <1>4, <1>5 DEF Issued
    <2>. QED
        BY <1>1, <1>5, <2>1 DEF RecordsInv
<1>6. ASSUME NEW c \in Credentials, CredentialRequest(c) PROVE RecordsInv'
    <2>1. /\ UNCHANGED <<creds, consumers, recorded, rec>>
          /\ status'[c] # "provisioned"
          /\ status'[c] = "pending" => rec[c] = None
          /\ status'[c] \notin {"none", "failed"}
          /\ \A d \in Credentials : d # c => status'[d] = status[d]
        BY <1>1, <1>6 DEF CredentialRequest, Request, TypeOK, kong, RecordsInv
    <2>2. \A d \in Credentials : rec'[d] # None => Issued(d, rec[d])'
        BY <1>4, <2>1 DEF Issued
    <2>. QED
        BY <1>1, <2>1, <2>2 DEF RecordsInv
<1>7. ASSUME NEW a \in Apps, NEW w \in Workspaces, ProvisionApp(a, w) PROVE RecordsInv'
    <2>1. /\ UNCHANGED <<creds, rec, status>>
          /\ <<a, w>> \notin recorded /\ consumers' = consumers \cup {<<a, w>>}
        BY <1>7 DEF ProvisionApp
    <2>2. \A c \in Credentials : rec'[c] # None => Issued(c, rec[c])'
        BY <1>4, <2>1 DEF Issued
    <2>3. \A c \in Credentials : rec[c] # None => rec[c].consumer # <<a, w>>
        BY <1>4, <2>1 DEF Issued
    <2>. QED
        BY <1>1, <2>1, <2>2, <2>3 DEF RecordsInv
<1>8. ASSUME NEW gone, Killed(gone), UNCHANGED <<recorded, rec, status>>,
             \/ UNCHANGED consumers /\ \A c \in Credentials :
                    status[c] = "provisioned" => rec[c].id \notin gone
             \/ \E x : /\ consumers' = consumers \ {x}
                       /\ gone = {k \in 1..Len(creds) : creds[k].consumer = x}
      PROVE  RecordsInv'
    <2>1. \A c \in Credentials : rec'[c] # None => Issued(c, rec[c])'
        BY <1>4, <1>8 DEF Issued
    <2>2. \A k \in 1..Len(creds') : creds'[k].secret = k
        BY <1>1, <1>8 DEF RecordsInv, Killed
    <2>3. ASSUME NEW c \in Credentials, status'[c] = "provisioned"
          PROVE  /\ rec'[c] # None
                 /\ rec'[c].consumer \in consumers' => creds'[rec'[c].id].live
        <3>1. rec[c] # None /\ (rec[c].consumer \in consumers => creds[rec[c].id].live)
            BY <1>1, <1>8, <2>3 DEF RecordsInv
        <3>2. rec[c].id \in 1..Len(creds) /\ creds[rec[c].id].consumer = rec[c].consumer
            BY <1>4, <3>1 DEF Issued
        <3>3. rec[c].consumer \in consumers' => rec[c].id \notin gone /\ rec[c].consumer \in consumers
            BY <1>8, <2>3, <3>2
        <3>. QED
            BY <1>8, <3>1, <3>2, <3>3 DEF Killed
    <2>4. /\ \A c \in Credentials : status'[c] \in {"none", "pending", "failed"} => rec'[c] = None
          /\ \A c, d \in Credentials :
                rec'[c] # None /\ rec'[d] # None /\ rec'[c].id = rec'[d].id => c = d
        BY <1>1, <1>8 DEF RecordsInv
    <2>. QED
        BY <2>1, <2>2, <2>3, <2>4 DEF RecordsInv
<1>9. CASE DeleteConsumer
    <2>1. CASE Removed(CurConsumer)
        <3>1. UNCHANGED <<recorded, rec, status>>
            BY <1>9, DeleteConsumerFacts DEF central
        <3>2. PICK x : x = CurConsumer
            OBVIOUS
        <3>3. PICK gone : gone = {k \in 1..Len(creds) : creds[k].consumer = x}
            OBVIOUS
        <3>4. consumers' = consumers \ {x} /\ Killed(gone)
            BY <1>1, <2>1, <3>2, <3>3, RemovedFacts
        <3>. QED
            BY <1>8, <3>1, <3>3, <3>4
    <2>2. CASE UNCHANGED kong
        BY <1>5, <1>9, <2>2, DeleteConsumerFacts DEF kong, central
    <2>. QED
        BY <1>9, <2>1, <2>2, DeleteConsumerFacts
<1>10. CASE DeleteCredential
    <2>1. /\ UNCHANGED <<consumers, recorded, rec, status>> /\ cur.on \in Credentials
          /\ rec[cur.on] # None /\ status[cur.on] # "provisioned"
          /\ Killed({rec[cur.on].id}) \/ UNCHANGED creds
        <3>1. cur.op \in {"update", "deprovision"} /\ pc = "delete"
            BY <1>10, DeleteFacts
        <3>. QED
            BY <1>1, <1>10, <3>1, DeleteFacts, NoneAssumption DEF HandInv, central
    <2>2. \A c \in Credentials : status[c] = "provisioned" => rec[c].id \notin {rec[cur.on].id}
        BY <1>1, <2>1 DEF RecordsInv
    <2>3. CASE Killed({rec[cur.on].id})
        BY <1>8, <2>1, <2>2, <2>3
    <2>. QED
        BY <1>5, <2>1, <2>3
<1>11. CASE CreateCredential
    <2>1. UNCHANGED <<consumers, recorded, rec, status>>
        BY <1>11, CreateFacts DEF central
    <2>2. CASE UNCHANGED creds
        BY <1>5, <2>1, <2>2
    <2>3. ASSUME NEW r, Created(r) PROVE RecordsInv'
        <3>1. \A c \in Credentials : rec'[c] # None => Issued(c, rec[c])'
            BY <1>4, <2>1 DEF Issued
        <3>2. \A k \in 1..Len(creds') : creds'[k].secret = k
            BY <1>1, <1>2, <2>3 DEF RecordsInv, Created
        <3>3. \A c \in Credentials : rec[c] # None => creds'[rec[c].id] = creds[rec[c].id]
            BY <1>4, <2>3 DEF Issued, Created
        <3>. QED
            BY <1>1, <2>1, <3>1, <3>2, <3>3 DEF RecordsInv
    <2>. QED
        BY <1>11, <2>2, <2>3, CreateFacts
<1>12. CASE Report
    <2>1. UNCHANGED <<creds, consumers, recorded>> /\ cur.op \in Ops
        BY <1>12, ReportFacts DEF kong
    <2>2. CASE cur.op \in {"provisionApp", "deprovisionApp"}
        BY <1>5, <1>12, <2>1, <2>2, ReportFacts
    <2>3. CASE cur.op \in {"provision", "update", "deprovision"}
        <3>1. /\ pc = "report" /\ cur.on \in Credentials
              /\ \A d \in Credentials : d # cur.on => status'[d] = status[d] /\ rec'[d] = rec[d]
              /\ status'[cur.on] = StateAfter(cur.op, answer.result)
              /\ answer.record = None => rec'[cur.on] = rec[cur.on]
              /\ answer.record # None => rec'[cur.on] = answer.record
            BY <1>1, <1>12, <2>3, ReportFacts DEF TypeOK
        <3>2. answer.record # None =>
                /\ Issued(cur.on, answer.record) /\ creds[answer.record.id].live
                /\ \A d \in Credentials : rec[d] # None => rec[d].id # answer.record.id
            BY <1>1, <3>1 DEF AnswerInv
        <3>3. \A d \in Credentials : rec'[d] # None => Issued(d, rec[d])'
            BY <1>4, <2>1, <3>1, <3>2 DEF Issued
        <3>4. \A d, e \in Credentials :
                rec'[d] # None /\ rec'[e] # None /\ rec'[d].id = rec'[e].id => d = e
            BY <1>1, <3>1, <3>2 DEF RecordsInv
        <3>5. /\ status'[cur.on] = "provisioned" => /\ rec'[cur.on] # None
                                                    /\ creds'[rec'[cur.on].id].live
              /\ status'[cur.on] \in {"none", "pending", "failed"} => rec'[cur.on] = None
            <4>1. CASE answer.result = "success" /\ cur.op \in {"provision", "update"}
                <5>1. answer.record # None /\ status'[cur.on] = "provisioned"
                    BY <1>1, <3>1, <4>1 DEF AnswerInv, StateAfter
                <5>. QED
                    BY <2>1, <3>1, <3>2, <5>1
            <4>2. CASE answer.result # "success" /\ cur.op = "provision"
                <5>1. answer.record = None /\ rec[cur.on] = None /\ status'[cur.on] = "failed"
                    BY <1>1, <3>1, <4>2 DEF AnswerInv, StateAfter, HandInv, RecordsInv
                <5>. QED
                    BY <3>1, <5>1
            <4>3. CASE (answer.result # "success" /\ cur.op = "update") \/ cur.op = "deprovision"
                BY <3>1, <4>3 DEF StateAfter
            <4>. QED
                BY <2>3, <4>1, <4>2, <4>3
        <3>6. \A d \in Credentials :
                /\ status'[d] \in {"none", "pending", "failed"} => rec'[d] = None
                /\ status'[d] = "provisioned" =>
                    /\ rec'[d] # None
                    /\ rec'[d].consumer \in consumers' => creds'[rec'[d].id].live
            BY <1>1, <2>1, <3>1, <3>5 DEF RecordsInv
        <3>7. \A k \in 1..Len(creds') : creds'[k].secret = k
            BY <1>1, <2>1 DEF RecordsInv
        <3>. QED
            BY <3>3, <3>4, <3>6, <3>7 DEF RecordsInv
    <2>. QED
        BY <2>1, <2>2, <2>3 DEF Ops
<1>. QED
    BY <1>5, <1>6, <1>7, <1>9, <1>10, <1>11, <1>12, Steps

(* A record is in the answer only after a creation, and what an update     *)
(* replaces was deleted before.                                            *)
LEMMA AnswerNext == CredInv /\ [Next]_vars => AnswerInv'
<1>. SUFFICES ASSUME CredInv, [Next]_vars PROVE AnswerInv'
    OBVIOUS
<1>1. TypeOK /\ HandInv /\ CallInv /\ RecordsInv /\ AnswerInv
    BY DEF CredInv
<1>2. Len(creds) \in Nat
    BY <1>1, Types
<1>3. CASE pc' # "report"
    BY <1>3 DEF AnswerInv
<1>4. CASE UNCHANGED <<creds, recorded, rec, pc, cur, answer>>
    BY <1>1, <1>4 DEF AnswerInv, Issued
<1>5. ASSUME answer' \in Answer, answer'.record = None,
             cur'.op \in {"provision", "update"} => answer'.result # "success"
      PROVE  AnswerInv'
    BY <1>5, NoneAssumption DEF AnswerInv
<1>6. ASSUME NEW a \in Apps, AppRequest(a) PROVE AnswerInv'
    BY <1>4, <1>6 DEF AppRequest, Request, kong
<1>7. ASSUME NEW c \in Credentials, CredentialRequest(c) PROVE AnswerInv'
    BY <1>4, <1>7 DEF CredentialRequest, Request, kong
<1>8. ASSUME NEW a \in Apps, NEW w \in Workspaces, ProvisionApp(a, w) PROVE AnswerInv'
    BY <1>3, <1>8 DEF ProvisionApp
<1>9. CASE Start
    <2>1. CASE pc' = "report"
        BY <1>1, <1>5, <1>9, <2>1, StartFacts DEF Refused
    <2>. QED
        BY <1>3, <2>1
<1>10. CASE GetConsumer
    <2>1. CASE pc' = "report"
        BY <1>1, <1>5, <1>10, <2>1, GetConsumerFacts, NextConsumerFacts
    <2>. QED
        BY <1>3, <2>1
<1>11. CASE DeleteConsumer
    <2>1. CASE pc' = "report"
        BY <1>1, <1>5, <1>11, <2>1, DeleteConsumerFacts, NextConsumerFacts DEF Refused
    <2>. QED
        BY <1>3, <2>1
<1>12. CASE DeleteCredential
    <2>1. CASE pc' = "report"
        BY <1>5, <1>12, <2>1, DeleteFacts DEF Refused
    <2>. QED
        BY <1>3, <2>1
<1>13. CASE CreateCredential
    <2>1. CASE Refused(answer')
        BY <1>5, <2>1 DEF Refused
    <2>2. ASSUME NEW r \in Record, Created(r), answer' \in Answer,
                 answer'.result = "success", answer'.record = r
          PROVE  AnswerInv'
        <3>1. /\ UNCHANGED <<consumers, recorded, rec, cur>> /\ pc = "create" /\ pc' = "report"
              /\ cur.on \in Credentials /\ cur.op \in {"provision", "update"}
            BY <1>1, <1>13, CreateFacts DEF central, CallInv
        <3>2. answer' # None /\ r # None
            BY <2>2, NoneAssumption
        <3>3. Issued(cur.on, answer.record)'
            <4>1. /\ r.id = Len(creds) + 1 /\ r.id \in 1..Len(creds')
                  /\ r.consumer = <<AppOf[cur.on], WsOf[cur.on]>> /\ r.consumer \in recorded
                  /\ r.secret = r.id
                  /\ r.name = None <=> KindOf[cur.on] = "api-key"
                  /\ creds'[r.id].consumer = r.consumer /\ creds'[r.id].kind = KindOf[cur.on]
                BY <1>2, <2>2 DEF Created
            <4>2. cur'.on = cur.on /\ answer'.record = r /\ recorded' = recorded
                BY <2>2, <3>1
            <4>. QED
                BY <4>1, <4>2 DEF Issued
        <3>4. creds'[r.id].live
            BY <2>2 DEF Created
        <3>5. \A d \in Credentials : rec[d] # None =>
                 /\ rec[d].id \in 1..Len(creds) /\ rec[d].id # r.id
                 /\ creds'[rec[d].id] = creds[rec[d].id]
            BY <1>1, <1>2, <2>2 DEF RecordsInv, Issued, Created
        <3>6. cur.op = "update" => /\ rec[cur.on] # None
                                   /\ ~creds'[rec[cur.on].id].live
                                   /\ rec[cur.on].name = r.name
            BY <1>1, <2>2, <3>1, <3>5 DEF CallInv, Created
        <3>. QED
            BY <2>2, <3>1, <3>2, <3>3, <3>4, <3>5, <3>6 DEF AnswerInv
    <2>. QED
        BY <1>13, <2>1, <2>2, CreateFacts
<1>14. CASE Panic \/ Report \/ Crash \/ Restart
    BY <1>3, <1>14 DEF Panic, Report, Idle, Crash, Restart
<1>15. CASE UNCHANGED vars
    BY <1>4, <1>15 DEF vars, kong, central
<1>. QED
    BY <1>6, <1>7, <1>8, <1>9, <1>10, <1>11, <1>12, <1>13, <1>14, <1>15 DEF Next, AgentStep, Call

(* The count of orphans is kept if one more comes with a failure only.       *)
LEMMA OrphansCount ==
    ASSUME CredInv, TypeOK', NEW x,
           \/ Orphans' \subseteq Orphans /\ faults' >= faults
           \/ Orphans' \subseteq Orphans \cup {x} /\ faults' = faults + 1
    PROVE  OrphansInv'
<1>1. /\ IsFiniteSet(Orphans) /\ faults \in Nat /\ faults' \in Nat
      /\ Cardinality(Orphans) <= faults
    BY Types, BoundsAssumption DEF CredInv, OrphansInv, TypeOK
<1>2. PICK n \in Nat, m \in Nat : n = faults /\ m = faults'
    BY <1>1
<1>3. PICK S : S = Orphans
    OBVIOUS
<1>4. PICK T : T = Orphans'
    OBVIOUS
<1>5. Cardinality(T) <= m
    <2>1. /\ IsFiniteSet(S) /\ Cardinality(S) <= n /\ n \in Nat /\ m \in Nat
          /\ \/ T \subseteq S /\ m >= n
             \/ T \subseteq S \cup {x} /\ m = n + 1
        BY <1>1, <1>2, <1>3, <1>4
    <2>. QED
        BY <2>1, OneMore
<1>. QED
    BY <1>2, <1>4, <1>5 DEF OrphansInv

(* A step that leaves the records alone and answers nothing with a record    *)
(* makes orphans of what is in X at most: credentials just made, and those   *)
(* whose deletion it answers with success.                                   *)
LEMMA OrphansFrom ==
    ASSUME pc # "report", NEW X, Live' \subseteq Live \cup X, UNCHANGED rec,
           \A c \in Credentials : status[c] # "deleted" => status'[c] # "deleted",
           \A c \in Credentials : Leaving(c)' /\ rec[c] # None =>
                rec[c].id \in X \/ rec[c].id \notin Live'
    PROVE  Orphans' \subseteq Orphans \cup X
<1>. SUFFICES ASSUME NEW k \in Orphans', k \notin X PROVE k \in Orphans
    OBVIOUS
<1>1. k \in Live' /\ k \in Live
    BY DEF Orphans
<1>2. ASSUME NEW c \in Credentials, rec[c] # None, status[c] # "deleted"
      PROVE  rec[c].id # k
    <2>1. CASE Leaving(c)'
        BY <1>1, <1>2, <2>1
    <2>2. CASE ~Leaving(c)'
        BY <1>2, <2>2 DEF Orphans
    <2>. QED
        BY <2>1, <2>2
<1>. QED
    BY <1>1, <1>2 DEF Orphans

(* A credential is lost sight of only by a failure: a creation or a        *)
(* deletion answered wrongly, or a crash with the record in hand.          *)
LEMMA OrphansNext == CredInv /\ [Next]_vars => OrphansInv'
<1>. SUFFICES ASSUME CredInv, [Next]_vars PROVE OrphansInv'
    OBVIOUS
<1>1. TypeOK /\ TypeOK' /\ HandInv /\ CallInv /\ RecordsInv /\ AnswerInv
    BY TypeNext DEF CredInv
<1>2. /\ Len(creds) \in Nat /\ faults \in Nat /\ faults' \in Nat
      /\ DOMAIN creds = 1..Len(creds) /\ DOMAIN creds' = 1..Len(creds')
    <2>1. DOMAIN creds = 1..Len(creds) /\ DOMAIN creds' = 1..Len(creds')
        BY <1>1, LenProperties DEF TypeOK
    <2>. QED
        BY <1>1, <2>1, Types, BoundsAssumption DEF TypeOK
<1>3. CASE UNCHANGED creds /\ UNCHANGED <<rec, pc, cur, answer>> /\ faults' >= faults
           /\ \A c \in Credentials : status[c] # "deleted" => status'[c] # "deleted"
    <2>1. Orphans' \subseteq Orphans
        BY <1>3 DEF Orphans, Live, Leaving
    <2>. QED
        BY <1>1, <1>3, <2>1, OrphansCount
<1>4. ASSUME pc # "report", \A c \in Credentials : ~Leaving(c)', UNCHANGED <<rec, status>>,
             (\E gone : Killed(gone)) \/ UNCHANGED creds, faults' >= faults
      PROVE  OrphansInv'
    <2>1. Live' \subseteq Live \cup {}
        BY <1>2, <1>4 DEF Live, Killed
    <2>2. Orphans' \subseteq Orphans \cup {}
        BY <1>4, <2>1, OrphansFrom
    <2>. QED
        BY <1>1, <1>4, <2>2, OrphansCount
<1>5. ASSUME NEW a \in Apps, AppRequest(a) PROVE OrphansInv'
    <2>1. UNCHANGED <<creds, rec, status, pc, cur, answer, faults>>
        BY <1>5 DEF AppRequest, Request, kong
    <2>. QED
        BY <1>2, <1>3, <2>1
<1>6. ASSUME NEW c \in Credentials, CredentialRequest(c) PROVE OrphansInv'
    <2>1. UNCHANGED <<creds, rec, pc, cur, answer, faults>>
        BY <1>6 DEF CredentialRequest, Request, kong
    <2>2. \A d \in Credentials : status[d] # "deleted" => status'[d] # "deleted"
        BY <1>1, <1>6 DEF CredentialRequest, TypeOK
    <2>. QED
        BY <1>2, <1>3, <2>1, <2>2
<1>7. ASSUME NEW a \in Apps, NEW w \in Workspaces, ProvisionApp(a, w) PROVE OrphansInv'
    <2>1. UNCHANGED <<creds, rec, status, pc, cur, answer>> /\ faults' >= faults
        BY <1>2, <1>7 DEF ProvisionApp, Fault
    <2>. QED
        BY <1>3, <2>1
<1>8. CASE Start
    <2>1. pc = "idle" /\ UNCHANGED <<creds, rec, status, faults>>
        BY <1>1, <1>8, StartFacts DEF kong, central
    <2>2. \A c \in Credentials : ~Leaving(c)'
        BY <1>1, <1>8, StartFacts DEF Leaving, Refused
    <2>. QED
        BY <1>2, <1>4, <2>1, <2>2
<1>9. CASE GetConsumer
    <2>1. /\ pc = "getConsumer" /\ UNCHANGED <<creds, rec, status>> /\ faults' >= faults
          /\ cur'.op = "deprovisionApp"
        BY <1>2, <1>9, GetConsumerFacts DEF kong, central, Fault
    <2>. QED
        BY <1>4, <2>1 DEF Leaving
<1>10. CASE DeleteConsumer
    <2>1. /\ pc = "deleteConsumer" /\ UNCHANGED <<rec, status>> /\ faults' >= faults
          /\ cur'.op = "deprovisionApp"
        BY <1>2, <1>10, DeleteConsumerFacts DEF central, Fault
    <2>2. (\E gone : Killed(gone)) \/ UNCHANGED creds
        BY <1>1, <1>10, DeleteConsumerFacts, RemovedFacts DEF kong
    <2>. QED
        BY <1>4, <2>1, <2>2 DEF Leaving
<1>11. CASE CreateCredential
    <2>1. /\ pc = "create" /\ pc' = "report" /\ UNCHANGED <<rec, status, cur>>
          /\ cur.op \in {"provision", "update"}
          /\ \A c \in Credentials : ~Leaving(c)'
        BY <1>1, <1>11, CreateFacts DEF central, CallInv, Leaving
    <2>2. CASE UNCHANGED creds /\ (UNCHANGED faults \/ Fault)
        BY <1>2, <1>4, <2>1, <2>2 DEF Fault
    <2>3. ASSUME NEW r \in Record, Created(r)
          PROVE  /\ Orphans' \subseteq Orphans \cup {Len(creds) + 1} /\ r.id = Len(creds) + 1
        <3>1. Live' \subseteq Live \cup {Len(creds) + 1}
            BY <1>2, <2>3 DEF Live, Created
        <3>. QED
            BY <2>1, <2>3, <3>1, OrphansFrom DEF Created
    <2>4. ASSUME NEW r \in Record, Created(r), answer'.record = r, UNCHANGED faults
          PROVE  OrphansInv'
        <3>1. Len(creds) + 1 \notin Orphans'
            BY <2>1, <2>3, <2>4, NoneAssumption DEF Orphans
        <3>2. Orphans' \subseteq Orphans
            BY <2>3, <2>4, <3>1
        <3>. QED
            BY <1>1, <1>2, <2>4, <3>2, OrphansCount
    <2>5. ASSUME NEW r \in Record, Created(r), Fault PROVE OrphansInv'
        <3>1. faults' = faults + 1
            BY <2>5 DEF Fault
        <3>. QED
            BY <1>1, <2>3, <2>5, <3>1, OrphansCount
    <2>. QED
        BY <1>11, <2>2, <2>4, <2>5, CreateFacts
<1>12. CASE DeleteCredential
    <2>1. /\ pc = "delete" /\ UNCHANGED <<rec, status, cur>>
          /\ (\E gone : Killed(gone)) \/ UNCHANGED creds
          /\ UNCHANGED faults \/ Fault
        BY <1>12, DeleteFacts DEF central
    <2>2. CASE cur.op = "update"
        BY <1>2, <1>4, <2>1, <2>2 DEF Leaving, Fault
    <2>3. CASE cur.op = "deprovision"
        <3>1. PICK k : k = rec[cur.on].id
            OBVIOUS
        <3>2. Live' \subseteq Live
            BY <1>2, <2>1 DEF Live, Killed
        <3>3. (UNCHANGED faults /\ k \notin Live') \/ faults' = faults + 1
            BY <1>12, <2>3, <3>1, DeleteFacts DEF Live, Fault
        <3>4. \A c \in Credentials : Leaving(c)' => rec[c].id = k
            BY <2>1, <3>1 DEF Leaving
        <3>5. CASE UNCHANGED faults /\ k \notin Live'
            <4>1. Orphans' \subseteq Orphans \cup {}
                BY <2>1, <3>2, <3>4, <3>5, OrphansFrom
            <4>. QED
                BY <1>1, <1>2, <3>5, <4>1, OrphansCount
        <3>6. CASE faults' = faults + 1
            <4>1. Orphans' \subseteq Orphans \cup {k}
                BY <2>1, <3>2, <3>4, OrphansFrom
            <4>. QED
                BY <1>1, <3>6, <4>1, OrphansCount
        <3>. QED
            BY <3>3, <3>5, <3>6
    <2>. QED
        BY <1>12, <2>2, <2>3, DeleteFacts
<1>13. CASE Panic \/ Restart
    <2>1. pc # "report" /\ pc' # "report" /\ UNCHANGED <<creds, rec, status, faults>>
        BY <1>13 DEF Panic, Restart, Idle, kong, central
    <2>. QED
        BY <1>2, <1>4, <2>1 DEF Leaving
<1>14. CASE Crash
    <2>1. pc' = "down" /\ UNCHANGED <<creds, rec, status>> /\ faults' = faults + 1
        BY <1>14 DEF Crash, Fault, kong, central
    <2>2. PICK k : k = answer.record.id
        OBVIOUS
    <2>3. Orphans' \subseteq Orphans \cup {k}
        BY <2>1, <2>2 DEF Orphans, Live, Leaving
    <2>. QED
        BY <1>1, <2>1, <2>3, OrphansCount
<1>15. CASE Report
    <2>1. /\ pc = "report" /\ pc' = "idle" /\ UNCHANGED <<creds, faults>> /\ cur.op \in Ops
          /\ answer \in Answer
        BY <1>15, ReportFacts DEF kong
    <2>2. CASE cur.op \in {"provisionApp", "deprovisionApp"}
        <3>1. UNCHANGED <<status, rec>> /\ answer.record = None
            BY <1>1, <1>15, <2>1, <2>2, ReportFacts DEF AnswerInv
        <3>2. Orphans' \subseteq Orphans
            BY <2>1, <2>2, <3>1 DEF Orphans, Live, Leaving
        <3>. QED
            BY <1>1, <1>2, <2>1, <3>2, OrphansCount
    <2>3. CASE cur.op \in {"provision", "update", "deprovision"}
        <3>1. /\ cur.on \in Credentials
              /\ \A c \in Credentials : c # cur.on => status'[c] = status[c] /\ rec'[c] = rec[c]
              /\ status'[cur.on] = StateAfter(cur.op, answer.result)
              /\ answer.record = None => rec'[cur.on] = rec[cur.on]
              /\ answer.record # None => rec'[cur.on] = answer.record
            BY <1>1, <1>15, <2>3, ReportFacts DEF TypeOK
        <3>2. status'[cur.on] = "deleted" => Leaving(cur.on)
            BY <1>1, <2>1, <2>3, <3>1 DEF StateAfter, Leaving
        <3>3. answer.record # None =>
                /\ status'[cur.on] # "deleted"
                /\ rec[cur.on] = None \/ ~creds[rec[cur.on].id].live
            <4>1. HAVE answer.record # None
            <4>2. cur.op \in {"provision", "update"}
                BY <1>1, <2>1, <4>1 DEF AnswerInv
            <4>3. cur.op = "provision" => rec[cur.on] = None
                BY <1>1, <2>1, <3>1 DEF HandInv, RecordsInv
            <4>4. cur.op = "update" => ~creds[rec[cur.on].id].live
                BY <1>1, <2>1, <4>1 DEF AnswerInv
            <4>. QED
                BY <3>2, <4>2, <4>3, <4>4 DEF Leaving
        <3>4. ASSUME NEW k \in Orphans' PROVE k \in Orphans
            <4>1. /\ k \in Live /\ creds[k].live
                  /\ \A c \in Credentials : rec'[c] # None /\ status'[c] # "deleted" =>
                        rec'[c].id # k
                BY <2>1, <3>4 DEF Orphans, Live, Leaving
            <4>2. ASSUME NEW c \in Credentials, rec[c] # None, status[c] # "deleted", ~Leaving(c)
                  PROVE  rec[c].id # k
                <5>1. CASE c # cur.on
                    BY <3>1, <4>1, <4>2, <5>1
                <5>2. CASE c = cur.on /\ answer.record = None
                    BY <3>1, <3>2, <4>1, <4>2, <5>2
                <5>3. CASE c = cur.on /\ answer.record # None
                    BY <3>3, <4>1, <4>2, <5>3
                <5>. QED
                    BY <5>1, <5>2, <5>3
            <4>3. answer.record # None => answer.record.id # k
                BY <3>1, <3>3, <4>1
            <4>. QED
                BY <4>1, <4>2, <4>3 DEF Orphans
        <3>5. Orphans' \subseteq Orphans
            BY <3>4
        <3>. QED
            BY <1>1, <1>2, <2>1, <3>5, OrphansCount
    <2>. QED
        BY <2>1, <2>2, <2>3 DEF Ops
<1>16. CASE UNCHANGED vars
    BY <1>2, <1>3, <1>16 DEF vars, kong, central
<1>. QED
    BY <1>5, <1>6, <1>7, <1>8, <1>9, <1>10, <1>11, <1>12, <1>13, <1>14, <1>15, <1>16
       DEF Next, AgentStep, Call

(* How a step may change what an application is recorded with and has, and   *)
(* that only the answer to its request makes it a removed one.               *)
LEMMA AppSteps ==
    ASSUME CredInv, [Next]_vars
    PROVE  /\ faults' \in Nat /\ faults' >= faults
           /\ \/ consumers' \subseteq consumers /\ UNCHANGED recorded
              \/ \E a \in Apps, w \in Workspaces : ProvisionApp(a, w)
           /\ \A a \in Apps : app'[a] = "removed" =>
                \/ app[a] = "removed"
                \/ /\ pc = "report" /\ cur.op = "deprovisionApp" /\ cur.on = a
                   /\ answer.result = "success"
<1>1. /\ TypeOK /\ faults \in Nat /\ faults' \in Nat
    BY TypeNext, BoundsAssumption DEF CredInv, TypeOK
<1>. DEFINE Kept == consumers' \subseteq consumers /\ UNCHANGED recorded
            Stays == faults' >= faults /\ UNCHANGED app
<1>2. ASSUME NEW a \in Apps, AppRequest(a)
      PROVE  /\ Kept /\ faults' >= faults
             /\ \A b \in Apps : app'[b] = "removed" => app[b] = "removed"
    BY <1>1, <1>2 DEF AppRequest, Request, kong, TypeOK
<1>3. ASSUME NEW c \in Credentials, CredentialRequest(c) PROVE Kept /\ Stays
    BY <1>1, <1>3 DEF CredentialRequest, Request, kong
<1>4. ASSUME NEW a \in Apps, NEW w \in Workspaces, ProvisionApp(a, w) PROVE Stays
    BY <1>1, <1>4 DEF ProvisionApp, Fault
<1>5. CASE Start
    BY <1>1, <1>5, StartFacts DEF kong, central
<1>6. CASE GetConsumer
    BY <1>1, <1>6, GetConsumerFacts DEF kong, central, Fault
<1>7. CASE DeleteConsumer
    BY <1>1, <1>7, DeleteConsumerFacts DEF kong, central, Fault, Removed
<1>8. CASE CreateCredential
    BY <1>1, <1>8, CreateFacts DEF central, Fault
<1>9. CASE DeleteCredential
    BY <1>1, <1>9, DeleteFacts DEF central, Fault
<1>10. CASE Panic \/ Crash \/ Restart
    BY <1>1, <1>10 DEF Panic, Crash, Restart, Fault, kong, central
<1>11. CASE Report
    <2>1. pc = "report" /\ UNCHANGED <<consumers, recorded, faults>> /\ cur.op \in Ops
        BY <1>11, ReportFacts DEF kong
    <2>2. CASE cur.op \in {"provisionApp", "deprovisionApp"}
        BY <1>1, <1>11, <2>1, <2>2, ReportFacts
    <2>3. CASE cur.op \in {"provision", "update", "deprovision"}
        BY <1>1, <1>11, <2>1, <2>3, ReportFacts
    <2>. QED
        BY <2>1, <2>2, <2>3 DEF Ops
<1>12. CASE UNCHANGED vars
    BY <1>1, <1>12 DEF vars, kong, central
<1>. QED
    BY <1>1, <1>2, <1>3, <1>4, <1>5, <1>6, <1>7, <1>8, <1>9, <1>10, <1>11, <1>12
       DEF Next, AgentStep, Call

(* Going on to the next workspace leaves behind the consumer just dealt with *)
(* at most.                                                                  *)
LEMMA GoingOn ==
    ASSUME TypeOK, todo # <<>>, NextConsumer, UNCHANGED <<cur, recorded>>,
           consumers' \subseteq consumers
    PROVE  /\ Left(cur.on)' \ Ahead' \subseteq (Left(cur.on) \ Ahead) \cup {CurConsumer}
           /\ pc' = "report" => Ahead' = {}
<1>1. /\ \A n \in DOMAIN todo :
            todo[n] = Head(todo) \/ \E m \in DOMAIN todo' : todo'[m] = todo[n]
      /\ pc' = "report" => todo' = <<>>
    BY NextConsumerFacts
<1>2. pc' = "report" => Ahead' = {}
    BY <1>1 DEF Ahead
<1>3. ASSUME NEW x \in Left(cur.on)' \ Ahead', x # CurConsumer
      PROVE  x \in Left(cur.on) \ Ahead
    <2>1. x \in Left(cur.on)
        BY <1>3 DEF Left
    <2>2. ASSUME NEW n \in DOMAIN todo, x = <<cur.on, todo[n]>> PROVE FALSE
        <3>1. todo[n] # Head(todo)
            BY <1>3, <2>2 DEF CurConsumer
        <3>2. PICK m \in DOMAIN todo' : todo'[m] = todo[n]
            BY <1>1, <2>2, <3>1
        <3>. QED
            BY <1>3, <2>2, <3>2 DEF Ahead
    <2>. QED
        BY <2>1, <2>2 DEF Ahead
<1>. QED
    BY <1>2, <1>3

(* A consumer is passed over only by a lookup that failed. *)
LEMMA RemovalNext == CredInv /\ [Next]_vars => RemovalInv'
<1>. SUFFICES ASSUME CredInv, [Next]_vars PROVE RemovalInv'
    OBVIOUS
<1>1. TypeOK /\ HandInv /\ CallInv /\ RemovalInv /\ configured \subseteq Workspaces
    BY DEF CredInv, TypeOK, Workspaces
<1>2. faults \in Nat /\ faults' \in Nat /\ faults' >= faults
    BY <1>1, Types, AppSteps
<1>3. IsFiniteSet(recorded') /\ recorded' \subseteq Apps \X configured'
    <2>1. UNCHANGED configured
        BY NextKeeps
    <2>2. CASE UNCHANGED recorded
        BY <1>1, <2>1, <2>2 DEF RemovalInv
    <2>3. ASSUME NEW a \in Apps, NEW w \in Workspaces, ProvisionApp(a, w)
          PROVE  IsFiniteSet(recorded') /\ recorded' \subseteq Apps \X configured
        <3>1. w \in configured /\ (recorded' = recorded \/ recorded' = recorded \cup {<<a, w>>})
            BY <2>3 DEF ProvisionApp
        <3>2. IsFiniteSet(recorded) /\ recorded \subseteq Apps \X configured
            BY <1>1 DEF RemovalInv
        <3>3. IsFiniteSet(recorded \cup {<<a, w>>})
            BY <3>2, FS_AddElement
        <3>4. recorded \cup {<<a, w>>} \subseteq Apps \X configured
            BY <3>1, <3>2
        <3>. QED
            BY <3>1, <3>2, <3>3, <3>4
    <2>. QED
        BY <2>1, <2>2, <2>3, AppSteps
<1>4. ASSUME NEW S, NEW T, NEW x, IsFiniteSet(S), Cardinality(S) <= faults,
             T \subseteq S \/ (T \subseteq S \cup {x} /\ faults' = faults + 1)
      PROVE  Cardinality(T) <= faults'
    <2>1. PICK n \in Nat, m \in Nat : n = faults /\ m = faults'
        BY <1>2
    <2>2. /\ n \in Nat /\ m \in Nat /\ Cardinality(S) <= n
          /\ \/ T \subseteq S /\ m >= n
             \/ T \subseteq S \cup {x} /\ m = n + 1
        BY <1>2, <1>4, <2>1
    <2>3. Cardinality(T) <= m
        BY <1>4, <2>2, OneMore
    <2>. QED
        BY <2>1, <2>3
<1>5. \A a : IsFiniteSet(Left(a)) /\ IsFiniteSet(Left(a) \ Ahead)
    <2>1. TAKE a
    <2>2. IsFiniteSet(recorded) /\ Left(a) \subseteq recorded /\ Left(a) \ Ahead \subseteq recorded
        BY <1>1 DEF Left, RemovalInv
    <2>. QED
        BY <2>2, FS_Subset
<1>6. ASSUME NEW a \in Apps, app'[a] = "removed" PROVE Cardinality(Left(a)') <= faults'
    <2>1. /\ IsFiniteSet(Left(a))
          /\ Cardinality(Left(a)) <= faults
        BY <1>1, <1>5, <1>6, AppSteps DEF RemovalInv
    <2>2. Left(a)' \subseteq Left(a)
        <3>1. CASE consumers' \subseteq consumers /\ UNCHANGED recorded
            BY <3>1 DEF Left
        <3>2. ASSUME NEW b \in Apps, NEW w \in Workspaces, ProvisionApp(b, w)
              PROVE  Left(a)' \subseteq Left(a)
            <4>1. /\ a # b /\ consumers' = consumers \cup {<<b, w>>}
                  /\ recorded' \subseteq recorded \cup {<<b, w>>}
                BY <1>6, <3>2 DEF ProvisionApp
            <4>. QED
                BY <4>1 DEF Left
        <3>. QED
            BY <3>1, <3>2, AppSteps
    <2>3. PICK S : S = Left(a)
        OBVIOUS
    <2>4. PICK T : T = Left(a)'
        OBVIOUS
    <2>. QED
        BY <1>4, <2>1, <2>2, <2>3, <2>4
<1>. DEFINE Half ==
                /\ pc' \in {"getConsumer", "deleteConsumer"} =>
                    Cardinality(Left(cur.on)' \ Ahead') <= faults'
                /\ pc' = "report" /\ cur'.op = "deprovisionApp" /\ answer'.result = "success" =>
                    Cardinality(Left(cur.on)') <= faults'
<1>7. ASSUME UNCHANGED <<consumers, recorded, pc, cur, todo, answer>> PROVE Half
    <2>1. Left(cur.on)' = Left(cur.on) /\ Ahead' = Ahead
        BY <1>7 DEF Left, Ahead
    <2>2. PICK n \in Nat, m \in Nat : n = faults /\ m = faults' /\ m >= n
        BY <1>2
    <2>3. Cardinality(Left(cur.on)) \in Nat /\ Cardinality(Left(cur.on) \ Ahead) \in Nat
        BY <1>5, FS_CardinalityType
    <2>. QED
        BY <1>1, <1>7, <2>1, <2>2, <2>3 DEF RemovalInv
<1>8. ASSUME pc' \notin {"getConsumer", "deleteConsumer", "report"} PROVE Half
    BY <1>8
<1>9. ASSUME pc' = "report" /\ (cur'.op # "deprovisionApp" \/ Refused(answer')) PROVE Half
    BY <1>9 DEF Refused
<1>10. ASSUME pc \in {"getConsumer", "deleteConsumer"}, todo # <<>>, NextConsumer,
              UNCHANGED <<cur, recorded>>, consumers' \subseteq consumers,
              CurConsumer \notin consumers' \/ faults' = faults + 1
       PROVE  Half
    <2>1. PICK S : S = Left(cur.on) \ Ahead
        OBVIOUS
    <2>2. PICK T : T = Left(cur.on)' \ Ahead'
        OBVIOUS
    <2>3. PICK x : x = CurConsumer
        OBVIOUS
    <2>4. IsFiniteSet(S) /\ Cardinality(S) <= faults
        BY <1>1, <1>5, <1>10, <2>1 DEF RemovalInv
    <2>5. T \subseteq S \/ (T \subseteq S \cup {x} /\ faults' = faults + 1)
        <3>1. T \subseteq S \cup {x}
            BY <1>1, <1>10, <2>1, <2>2, <2>3, GoingOn
        <3>2. CurConsumer \notin consumers' => x \notin T
            BY <2>2, <2>3 DEF Left
        <3>. QED
            BY <1>10, <3>1, <3>2
    <2>6. Cardinality(T) <= faults'
        BY <1>4, <2>4, <2>5
    <2>7. pc' = "report" => T = Left(cur.on)'
        BY <1>1, <1>10, <2>2, GoingOn
    <2>. QED
        BY <2>2, <2>6, <2>7
<1>11. ASSUME NEW a \in Apps, AppRequest(a) PROVE Half
    BY <1>7, <1>11 DEF AppRequest, Request, kong
<1>12. ASSUME NEW c \in Credentials, CredentialRequest(c) PROVE Half
    BY <1>7, <1>12 DEF CredentialRequest, Request, kong
<1>13. ASSUME NEW a \in Apps, NEW w \in Workspaces, ProvisionApp(a, w) PROVE Half
    BY <1>8, <1>13 DEF ProvisionApp
<1>14. ASSUME Start PROVE Half
    <2>1. CASE pc' = "report"
        BY <1>1, <1>9, <1>14, <2>1, StartFacts
    <2>2. CASE pc' = "getConsumer"
        <3>1. /\ UNCHANGED <<consumers, recorded, configured>>
              /\ todo' \in SetToSeqs(RecordedIn(cur'.on))
            BY <1>1, <1>14, <2>2, StartFacts DEF kong, central
        <3>2. PICK a : a = cur'.on
            OBVIOUS
        <3>3. PICK t : t = todo'
            OBVIOUS
        <3>4. \A w \in configured : <<a, w>> \in recorded => \E n \in DOMAIN t : t[n] = w
            <4>1. t \in SetToSeqs(RecordedIn(a))
                BY <3>1, <3>2, <3>3
            <4>2. TypeOK
                BY <1>1
            <4>. QED
                BY <4>1, <4>2, TodoIsAll
        <3>5. Left(cur.on)' \ Ahead' = {}
            <4>1. SUFFICES ASSUME NEW x \in Left(cur.on)' PROVE x \in Ahead'
                OBVIOUS
            <4>2. x \in recorded /\ x[1] = a
                BY <3>1, <3>2 DEF Left
            <4>3. PICK w \in configured : x = <<a, w>>
                BY <1>1, <4>2 DEF RemovalInv
            <4>4. PICK n \in DOMAIN t : t[n] = w
                BY <3>4, <4>2, <4>3
            <4>. QED
                BY <3>2, <3>3, <4>3, <4>4 DEF Ahead
        <3>6. Cardinality(Left(cur.on)' \ Ahead') = 0
            BY <3>5, FS_EmptySet
        <3>. QED
            BY <1>2, <2>2, <3>6
    <2>3. CASE pc' \notin {"report", "getConsumer"}
        BY <1>1, <1>8, <1>14, <2>3, StartFacts
    <2>. QED
        BY <2>1, <2>2, <2>3
<1>15. ASSUME GetConsumer PROVE Half
    <2>1. /\ pc = "getConsumer" /\ todo # <<>> /\ UNCHANGED <<cur, recorded, consumers>>
          /\ \/ pc' = "deleteConsumer" /\ UNCHANGED todo
             \/ NextConsumer /\ (CurConsumer \notin consumers \/ faults' = faults + 1)
        BY <1>15, GetConsumerFacts DEF kong, central, Fault
    <2>2. CASE pc' = "deleteConsumer" /\ UNCHANGED todo
        <3>1. Left(cur.on)' = Left(cur.on) /\ Ahead' = Ahead
            BY <2>1, <2>2 DEF Left, Ahead
        <3>2. PICK n \in Nat, m \in Nat : n = faults /\ m = faults' /\ m >= n
            BY <1>2
        <3>3. Cardinality(Left(cur.on) \ Ahead) \in Nat
            BY <1>5, FS_CardinalityType
        <3>. QED
            BY <1>1, <2>1, <2>2, <3>1, <3>2, <3>3 DEF RemovalInv
    <2>3. CASE NextConsumer /\ (CurConsumer \notin consumers \/ faults' = faults + 1)
        BY <1>10, <2>1, <2>3
    <2>. QED
        BY <2>1, <2>2, <2>3
<1>16. ASSUME DeleteConsumer PROVE Half
    <2>1. /\ pc = "deleteConsumer" /\ todo # <<>> /\ UNCHANGED <<cur, recorded>>
          /\ \/ /\ consumers' = consumers \ {CurConsumer} /\ NextConsumer
             \/ pc' = "report" /\ Refused(answer')
        BY <1>16, DeleteConsumerFacts DEF central, Removed
    <2>2. CASE consumers' = consumers \ {CurConsumer} /\ NextConsumer
        BY <1>10, <2>1, <2>2
    <2>. QED
        BY <1>9, <2>1, <2>2
<1>17. ASSUME CreateCredential PROVE Half
    BY <1>1, <1>9, <1>17, CreateFacts DEF CallInv
<1>18. ASSUME DeleteCredential PROVE Half
    <2>1. pc' \in {"create", "report"} /\ cur'.op # "deprovisionApp"
        BY <1>18, DeleteFacts
    <2>. QED
        BY <1>8, <1>9, <2>1
<1>19. ASSUME Panic \/ Report \/ Crash \/ Restart PROVE Half
    BY <1>8, <1>19 DEF Panic, Report, Idle, Crash, Restart
<1>20. ASSUME UNCHANGED vars PROVE Half
    BY <1>7, <1>20 DEF vars, kong, central
<1>21. Half
    BY <1>11, <1>12, <1>13, <1>14, <1>15, <1>16, <1>17, <1>18, <1>19, <1>20
       DEF Next, AgentStep, Call
<1>. QED
    BY <1>3, <1>6, <1>21 DEF RemovalInv

-----------------------------------------------------------------------------
(* The theorems. *)

(* Nothing has been made or asked for yet. *)
LEMMA CredInit == Init => CredInv
<1>. SUFFICES ASSUME Init PROVE CredInv
    OBVIOUS
<1>1. /\ creds = <<>> /\ consumers = {} /\ recorded = {} /\ todo = <<>>
      /\ pc = "idle" /\ cur = None /\ answer = None /\ requests = 0 /\ faults = 0
      /\ configured \in Configurations
      /\ \A a \in Apps : app[a] = "none"
      /\ \A c \in Credentials : status[c] = "none" /\ rec[c] = None
    BY DEF Init
<1>2. /\ Len(creds) = 0 /\ creds \in Seq(Entity) /\ todo \in Seq(Workspaces) /\ DOMAIN creds = {}
    BY <1>1
<1>3. IsFiniteSet({}) /\ Cardinality({}) = 0
    BY FS_EmptySet
<1>4. TypeOK
    BY <1>1, <1>2, BoundsAssumption DEF Init, TypeOK
<1>5. CountInv
    <2>1. Waiting = {} /\ Spent = 0
        BY <1>1 DEF Waiting, Spent
    <2>. QED
        BY <1>1, <1>2, <1>3, <2>1 DEF CountInv
<1>6. HandInv /\ CallInv /\ AnswerInv
    BY <1>1 DEF HandInv, CallInv, AnswerInv
<1>7. RecordsInv
    BY <1>1, <1>2 DEF RecordsInv
<1>8. OrphansInv
    <2>1. Orphans = {}
        BY <1>2 DEF Orphans, Live
    <2>. QED
        BY <1>1, <1>3, <2>1 DEF OrphansInv
<1>9. RemovalInv
    BY <1>1, <1>3 DEF RemovalInv
<1>. QED
    BY <1>4, <1>5, <1>6, <1>7, <1>8, <1>9 DEF CredInv

(* Every step keeps the invariant. *)
LEMMA CredNext == CredInv /\ [Next]_vars => CredInv'
BY TypeNext, CountNext, HandNext, RecordsNext, AnswerNext, OrphansNext, RemovalNext DEF CredInv

(* The inductive invariant.  Its parts lean on one another: that a creation  *)
(* has an identifier left needs the count of requests, that no two records   *)
(* share a credential needs what the answer in hand carries, and the orphans *)
(* need both.                                                                *)
THEOREM CredInvariant == Spec => []CredInv
BY CredInit, CredNext, PTL DEF Spec

(* Every variable keeps its type: in particular there is room for every      *)
(* credential that requests and retries after failures make.                 *)
THEOREM TypeCorrect == Spec => []TypeOK
<1>1. CredInv => TypeOK
    BY DEF CredInv
<1>. QED
    BY <1>1, CredInvariant, PTL

(* What Central shows as provisioned is in Kong and works with the secret    *)
(* handed out, after any number of rotations, failures and crashes.          *)
THEOREM ProvisionedDoesWork == Spec => []ProvisionedWorks
<1>1. ASSUME CredInv PROVE ProvisionedWorks
    <2>1. RecordsInv
        BY <1>1 DEF CredInv
    <2>2. ASSUME NEW c \in Credentials, status[c] = "provisioned", NEW x,
                 x = <<AppOf[c], WsOf[c]>>
          PROVE  /\ rec[c] # None /\ rec[c].consumer = x
                 /\ creds[rec[c].id].consumer = x
                 /\ creds[rec[c].id].kind = KindOf[c]
                 /\ creds[rec[c].id].secret = rec[c].secret
                 /\ x \in consumers => creds[rec[c].id].live
        <3>1. rec[c] # None /\ Issued(c, rec[c])
            BY <2>1, <2>2 DEF RecordsInv
        <3>2. rec[c].id \in 1..Len(creds) /\ rec[c].consumer = x /\ rec[c].secret = rec[c].id
            BY <2>2, <3>1 DEF Issued
        <3>3. creds[rec[c].id].secret = rec[c].id
            BY <2>1, <3>2 DEF RecordsInv
        <3>4. rec[c].consumer \in consumers => creds[rec[c].id].live
            BY <2>1, <2>2 DEF RecordsInv
        <3>. QED
            BY <3>1, <3>2, <3>3, <3>4 DEF Issued
    <2>. QED
        BY <2>2 DEF ProvisionedWorks
<1>. QED
    BY <1>1, CredInvariant, PTL

(* Each failure or crash leaves one credential at most that works and that   *)
(* Central knows nothing of.                                                 *)
THEOREM OrphansAreFew == Spec => []FewOrphans
<1>1. ASSUME CredInv PROVE FewOrphans
    <2>1. Live \ Accounted \subseteq Orphans
        BY <1>1 DEF Accounted, Orphans, CredInv, AnswerInv
    <2>2. IsFiniteSet(Orphans) /\ faults \in Nat /\ Cardinality(Orphans) <= faults
        BY <1>1, Types DEF CredInv, OrphansInv
    <2>3. /\ Cardinality(Orphans) \in Nat /\ Cardinality(Live \ Accounted) \in Nat
          /\ Cardinality(Live \ Accounted) <= Cardinality(Orphans)
        BY <2>1, <2>2, FS_Subset, FS_CardinalityType
    <2>. QED
        BY <2>2, <2>3 DEF FewOrphans
<1>. QED
    BY <1>1, CredInvariant, PTL

(* A removed application has no consumer left that it was recorded with, but *)
(* for one for each failure.                                                 *)
THEOREM RemovedIsGone == Spec => []RemovedAppIsGone
<1>1. ASSUME CredInv PROVE RemovedAppIsGone
    BY <1>1 DEF CredInv, RemovalInv, RemovedAppIsGone, Left
<1>. QED
    BY <1>1, CredInvariant, PTL

(* A rotation shown as done has a new secret, and the one it replaced works  *)
(* no more; the user name or client identifier is kept.                      *)
THEOREM RotationDoesReplace == Spec => RotationReplaces
<1>1. ASSUME CredInv, [Next]_vars, NEW c \in Credentials,
             status[c] = "updating", status'[c] = "provisioned"
      PROVE  /\ rec'[c].secret # rec[c].secret
             /\ rec'[c].name = rec[c].name
             /\ \A k \in Live' : creds'[k].secret # rec[c].secret
    <2>1. TypeOK /\ HandInv /\ RecordsInv /\ AnswerInv
        BY <1>1 DEF CredInv
    <2>2. Report
        <3>1. ASSUME NEW d \in Credentials, CredentialRequest(d) PROVE FALSE
            BY <1>1, <2>1, <3>1 DEF CredentialRequest, TypeOK
        <3>2. ASSUME NEW a \in Apps, NEW w \in Workspaces, ProvisionApp(a, w) PROVE FALSE
            BY <1>1, <3>2 DEF ProvisionApp
        <3>3. CASE DeleteConsumer
            BY <1>1, <3>3, DeleteConsumerFacts DEF central
        <3>4. CASE CreateCredential
            BY <1>1, <3>4, CreateFacts DEF central
        <3>5. CASE DeleteCredential
            BY <1>1, <3>5, DeleteFacts DEF central
        <3>. QED
            BY <1>1, <3>1, <3>2, <3>3, <3>4, <3>5, Steps
    <2>3. pc = "report" /\ UNCHANGED creds /\ cur.op \in Ops
        BY <1>1, <2>2, ReportFacts DEF kong
    <2>4. CASE cur.op \in {"provisionApp", "deprovisionApp"}
        BY <1>1, <2>2, <2>4, ReportFacts
    <2>5. CASE cur.op \in {"provision", "update", "deprovision"}
        <3>1. cur.on \in Credentials
              /\ status' = [status EXCEPT ![cur.on] = StateAfter(cur.op, answer.result)]
            BY <1>1, <2>2, <2>5, ReportFacts
        <3>2. c = cur.on /\ StateAfter(cur.op, answer.result) = "provisioned"
            BY <1>1, <2>1, <3>1 DEF TypeOK
        <3>3. cur.op = "update" /\ answer.result = "success"
            BY <1>1, <2>1, <2>3, <2>5, <3>2 DEF HandInv, StateAfter
        <3>4. /\ answer.record # None /\ Issued(c, answer.record) /\ rec[c] # None
              /\ rec[c].id # answer.record.id /\ ~creds[rec[c].id].live
              /\ rec[c].name = answer.record.name
            BY <2>1, <2>3, <3>1, <3>2, <3>3 DEF AnswerInv
        <3>5. rec'[c] = answer.record
            BY <1>1, <2>2, <2>5, <3>2, <3>4, ReportFacts
        <3>6. Issued(c, rec[c])
            BY <2>1, <3>4 DEF RecordsInv
        <3>7. \A k \in Live' : creds'[k].secret # rec[c].secret
            <4>1. TAKE k \in Live'
            <4>2. k \in 1..Len(creds) /\ creds[k].live /\ creds'[k] = creds[k]
                BY <1>1, <2>1, <2>3, Types DEF Live
            <4>3. creds'[k].secret = k
                BY <2>1, <4>2 DEF RecordsInv
            <4>4. rec[c].secret = rec[c].id
                BY <3>6 DEF Issued
            <4>. QED
                BY <3>4, <4>2, <4>3, <4>4
        <3>. QED
            BY <3>4, <3>5, <3>6, <3>7 DEF Issued
    <2>. QED
        BY <2>3, <2>4, <2>5 DEF Ops
<1>2. CredInv /\ [Next]_vars =>
        [\A c \in Credentials : status[c] = "updating" /\ status'[c] = "provisioned" =>
            /\ rec'[c].secret # rec[c].secret
            /\ rec'[c].name = rec[c].name
            /\ \A k \in Live' : creds'[k].secret # rec[c].secret]_vars
    BY <1>1
<1>. QED
    BY <1>2, CredInvariant, PTL DEF Spec, RotationReplaces

-----------------------------------------------------------------------------
(* The contract with Central. *)

(* What works belongs to a consumer that exists and that the details of its  *)
(* application name: no secret outlives a removed application.               *)
AtConsumers == \A k \in Live : creds[k].consumer \in consumers \cap recorded

(* Kong accepts secret s at consumer x. *)
Accepted(x, s) == s \in 1..Len(creds) /\ creds[s].live /\ creds[s].consumer = x

PairsWork ==
    /\ \A p \in Working : \E x, s : p = <<x, s>>
    /\ \A x, s : <<x, s>> \in Working <=> Accepted(x, s)

(* The secret of a credential is its own: a pair that works tells which      *)
(* credential it is.                                                         *)
LEMMA WorkingPairs == CredInv => PairsWork
<1>. SUFFICES ASSUME CredInv PROVE PairsWork
    OBVIOUS
<1>1. DOMAIN creds = 1..Len(creds) /\ \A k \in 1..Len(creds) : creds[k].secret = k
    BY Types DEF CredInv, RecordsInv
<1>2. Working = {<<creds[k].consumer, creds[k].secret>> : k \in Live}
    BY DEF Working
<1>3. \A p \in Working : \E x, s : p = <<x, s>>
    BY <1>2
<1>4. ASSUME NEW x, NEW s PROVE <<x, s>> \in Working <=> Accepted(x, s)
    <2>1. ASSUME <<x, s>> \in Working PROVE Accepted(x, s)
        <3>1. PICK k \in Live : <<x, s>> = <<creds[k].consumer, creds[k].secret>>
            BY <1>2, <2>1
        <3>. QED
            BY <1>1, <3>1 DEF Live, Accepted
    <2>2. ASSUME Accepted(x, s) PROVE <<x, s>> \in Working
        <3>1. s \in Live /\ <<x, s>> = <<creds[s].consumer, creds[s].secret>>
            BY <1>1, <2>2 DEF Live, Accepted
        <3>. QED
            BY <1>2, <3>1
    <2>. QED
        BY <2>1, <2>2
<1>. QED
    BY <1>3, <1>4 DEF PairsWork

(* Two sets of pairs with the same pairs are the same. *)
LEMMA SamePairs ==
    ASSUME NEW A, NEW B,
           \A p \in A : \E x, s : p = <<x, s>>, \A p \in B : \E x, s : p = <<x, s>>,
           \A x, s : <<x, s>> \in A <=> <<x, s>> \in B
    PROVE  A = B
<1>1. ASSUME NEW p \in A PROVE p \in B
    OBVIOUS
<1>2. ASSUME NEW p \in B PROVE p \in A
    OBVIOUS
<1>. QED
    BY <1>1, <1>2

(* What was handed out is what the record says, and it is that of a          *)
(* credential of the consumer it was asked for.                              *)
LEMMA ShownIs ==
    ASSUME CredInv, NEW c \in Credentials
    PROVE  /\ rec[c] = None => Shown[c] = None
           /\ rec[c] # None =>
                /\ Shown[c] = rec[c].id /\ Shown[c] \in 1..Len(creds)
                /\ creds[Shown[c]].consumer = <<AppOf[c], WsOf[c]>>
           /\ None \notin 1..Len(creds) /\ None \notin Ids
<1>1. rec[c] # None => Issued(c, rec[c])
    BY DEF CredInv, RecordsInv
<1>2. Len(creds) \in Nat /\ Len(creds) <= MaxRequests + MaxFaults
    BY Types DEF CredInv, TypeOK
<1>3. None \notin 1..Len(creds)
    BY <1>2, BoundsAssumption, NoneAssumption DEF Ids
<1>. QED
    BY <1>1, <1>3, NoneAssumption DEF Shown, Issued

Rests == pc = "idle"

(* What Kong accepts and Central does not show are orphans. *)
LEMMA FewLeft == CredInv /\ Rests => Contract!FewLeftBehind
<1>. SUFFICES ASSUME CredInv, pc = "idle" PROVE Cardinality(Contract!LeftBehind) <= faults
    BY DEF Contract!FewLeftBehind, Contract!Cardinality, Cardinality, Rests
<1>. DEFINE f == [k \in Orphans |-> <<creds[k].consumer, k>>]
            T == {f[k] : k \in Orphans}
<1>1. IsFiniteSet(Orphans) /\ faults \in Nat /\ Cardinality(Orphans) <= faults
      /\ Cardinality(Orphans) \in Nat
    BY Types, FS_CardinalityType DEF CredInv, OrphansInv
<1>2. Contract!LeftBehind \subseteq T
    <2>1. SUFFICES ASSUME NEW p \in Contract!LeftBehind PROVE p \in T
        OBVIOUS
    <2>2. /\ p \in Working
          /\ \A c \in Credentials : status[c] # "deleted" =>
                p # <<<<AppOf[c], WsOf[c]>>, Shown[c]>>
        BY <2>1 DEF Contract!LeftBehind, Contract!Consumer
    <2>3. PICK x, k : p = <<x, k>> /\ Accepted(x, k)
        BY <2>2, WorkingPairs DEF PairsWork
    <2>4. k \in Live
        BY <2>3, Types DEF Accepted, Live, CredInv
    <2>5. ASSUME NEW c \in Credentials, rec[c] # None, status[c] # "deleted", rec[c].id = k
          PROVE  FALSE
        <3>1. Shown[c] = k /\ creds[k].consumer = <<AppOf[c], WsOf[c]>>
            BY <2>5, ShownIs
        <3>. QED
            BY <2>2, <2>3, <2>5, <3>1 DEF Accepted
    <2>6. k \in Orphans
        BY <2>4, <2>5 DEF Orphans
    <2>7. p = f[k]
        BY <2>3, <2>6 DEF Accepted
    <2>. HIDE DEF f
    <2>. QED
        BY <2>6, <2>7
<1>3. IsFiniteSet(T) /\ Cardinality(T) <= Cardinality(Orphans) /\ Cardinality(T) \in Nat
    <2>1. f \in Surjection(Orphans, T)
        BY DEF Surjection
    <2>. HIDE DEF f, T
    <2>. QED
        BY <1>1, <2>1, FS_Surjection, FS_CardinalityType
<1>. HIDE DEF T
<1>4. /\ Cardinality(Contract!LeftBehind) \in Nat
      /\ Cardinality(Contract!LeftBehind) <= Cardinality(T)
    BY <1>2, <1>3, FS_Subset, FS_CardinalityType
<1>. QED
    BY <1>1, <1>3, <1>4

(* Both after a step. *)
LEMMA ShownNext ==
    /\ CredInv' => PairsWork'
    /\ CredInv' /\ Rests' => Contract!FewLeftBehind'
BY WorkingPairs, FewLeft, PTL

-----------------------------------------------------------------------------
(* What a step of the agent is to Central. *)

MayFail == UNCHANGED faults \/ Fault

(* A step that neither Central nor Kong shows, or a failure. *)
LEMMA Quiet ==
    ASSUME UNCHANGED <<app, status, Shown, Working>>, MayFail
    PROVE  [Contract!Next]_(Contract!vars)
<1>1. CASE UNCHANGED faults
    BY <1>1 DEF Contract!vars
<1>2. CASE Fault
    BY <1>2 DEF Fault, Contract!Fail, Contract!Next
<1>. QED
    BY <1>1, <1>2 DEF MayFail

(* The same, where it is the credentials and records that stay. *)
LEMMA QuietRecords ==
    ASSUME UNCHANGED <<app, status, rec, creds>>, MayFail
    PROVE  [Contract!Next]_(Contract!vars)
<1>1. UNCHANGED <<Shown, Working>>
    BY DEF Shown, Working, Live
<1>. QED
    BY <1>1, Quiet

(* Working secrets change by one pair, or by those of one consumer. *)
LEMMA WorkingIs ==
    ASSUME CredInv, CredInv', NEW P, \A p \in P : \E x, s : p = <<x, s>>,
           \A x, s : <<x, s>> \in P <=> Accepted(x, s)'
    PROVE  Working' = P
<1>1. PairsWork'
    BY ShownNext
<1>. QED
    BY <1>1, SamePairs DEF PairsWork

(* Credentials that Kong loses are pairs that Kong accepts no longer. *)
LEMMA KilledPairs ==
    ASSUME CredInv, NEW gone, Killed(gone), NEW x, NEW s
    PROVE  Accepted(x, s)' <=> Accepted(x, s) /\ s \notin gone
<1>1. Len(creds) \in Nat /\ Len(creds') = Len(creds)
    BY Types DEF CredInv, Killed
<1>. QED
    BY <1>1 DEF Killed, Accepted

(* A creation that took effect issues the secret. *)
LEMMA CreateIsIssue ==
    ASSUME CredInv, CredInv', CreateCredential, NEW r, Created(r), MayFail
    PROVE  Contract!Next
<1>1. PICK c \in Credentials : c = cur.on
    BY CreateFacts
<1>2. PICK s \in Ids : s = Len(creds) + 1
    BY RoomForOne, CreateFacts
<1>3. UNCHANGED <<app, status, rec>> /\ status[c] \in {"pending", "updating"}
    BY <1>1, CreateFacts DEF central, CredInv, CallInv, HandInv
<1>4. Len(creds) \in Nat /\ s \notin 1..Len(creds)
    BY <1>2, Types DEF CredInv
<1>5. \A x, t : Accepted(x, t)' <=> Accepted(x, t) \/ (t = s /\ x = <<AppOf[c], WsOf[c]>>)
    BY <1>1, <1>2, <1>4 DEF Accepted, Created
<1>6. PairsWork
    BY WorkingPairs
<1>7. Working' = Working \cup {<<<<AppOf[c], WsOf[c]>>, s>>}
    <2>1. PICK y : y = <<AppOf[c], WsOf[c]>>
        OBVIOUS
    <2>2. PICK P : P = Working \cup {<<y, s>>}
        OBVIOUS
    <2>3. \A p \in P : \E x, t : p = <<x, t>>
        BY <1>6, <2>2 DEF PairsWork
    <2>4. ASSUME NEW x, NEW t PROVE <<x, t>> \in P <=> Accepted(x, t)'
        <3>1. <<x, t>> \in P <=> <<x, t>> \in Working \/ (x = y /\ t = s)
            BY <2>2
        <3>. QED
            BY <1>5, <1>6, <2>1, <3>1 DEF PairsWork
    <2>. QED
        BY <2>1, <2>2, <2>3, <2>4, WorkingIs
<1>8. Contract!New(s)
    <2>1. \A d \in Credentials : Shown[d] # s
        BY <1>2, <1>4, ShownIs
    <2>2. \A p \in Working : p[2] # s
        BY <1>4, <1>6 DEF PairsWork, Accepted
    <2>. QED
        BY <2>1, <2>2 DEF Contract!New
<1>9. Shown' = Shown /\ faults' \in {faults, faults + 1}
    BY <1>3 DEF Shown, MayFail, Fault
<1>10. Contract!Issue(c, s)
    BY <1>3, <1>7, <1>8, <1>9 DEF Contract!Issue, Contract!MayFail, Contract!Consumer
<1>. QED
    BY <1>10 DEF Contract!Next

(* A deletion that took effect revokes the secret handed out. *)
LEMMA DeleteIsRevoke ==
    ASSUME CredInv, CredInv', DeleteCredential, Killed({rec[cur.on].id})
    PROVE  Contract!Next
<1>1. PICK c \in Credentials : c = cur.on
    BY DeleteFacts
<1>2. /\ UNCHANGED <<app, status, rec>> /\ status[c] \in {"updating", "deleting"}
      /\ rec[c] # None
    BY <1>1, DeleteFacts DEF central, CredInv, CallInv, HandInv
<1>3. PICK k : k = Shown[c] /\ k = rec[c].id
    BY <1>2, ShownIs
<1>4. \A x, s : Accepted(x, s)' <=> Accepted(x, s) /\ s # k
    BY <1>1, <1>3, KilledPairs
<1>5. \A x : Accepted(x, k) => x = <<AppOf[c], WsOf[c]>>
    BY <1>2, <1>3, ShownIs DEF Accepted
<1>6. PairsWork
    BY WorkingPairs
<1>7. Working' = Working \ {<<<<AppOf[c], WsOf[c]>>, k>>}
    <2>1. PICK y : y = <<AppOf[c], WsOf[c]>>
        OBVIOUS
    <2>2. PICK P : P = Working \ {<<y, k>>}
        OBVIOUS
    <2>3. \A p \in P : \E x, s : p = <<x, s>>
        BY <1>6, <2>2 DEF PairsWork
    <2>4. ASSUME NEW x, NEW s PROVE <<x, s>> \in P <=> Accepted(x, s)'
        <3>1. <<x, s>> \in P <=> <<x, s>> \in Working /\ ~(x = y /\ s = k)
            BY <2>2
        <3>. QED
            BY <1>4, <1>5, <1>6, <2>1, <3>1 DEF PairsWork
    <2>. QED
        BY <2>1, <2>2, <2>3, <2>4, WorkingIs
<1>8. Shown' = Shown /\ faults' \in {faults, faults + 1}
    BY <1>2, DeleteFacts DEF Shown, Fault
<1>9. Contract!Revoke(c)
    BY <1>2, <1>3, <1>7, <1>8 DEF Contract!Revoke, Contract!MayFail, Contract!Consumer
<1>. QED
    BY <1>9 DEF Contract!Next

(* A consumer goes with what works at it. *)
LEMMA DeleteIsRemove ==
    ASSUME CredInv, CredInv', DeleteConsumer, Removed(CurConsumer)
    PROVE  [Contract!Next]_(Contract!vars)
<1>1. /\ UNCHANGED <<app, status, rec>> /\ MayFail
      /\ cur.on \in Apps /\ app[cur.on] = "deleting"
    BY DeleteConsumerFacts DEF central, CredInv, HandInv, MayFail
<1>2. PICK a \in Apps : a = cur.on
    BY <1>1
<1>3. PICK x : x = CurConsumer /\ x[1] = a
    BY <1>2 DEF CurConsumer
<1>4. Killed({k \in 1..Len(creds) : creds[k].consumer = x})
    BY <1>3, RemovedFacts DEF CredInv
<1>5. ASSUME NEW y, NEW s PROVE Accepted(y, s)' <=> Accepted(y, s) /\ y # x
    <2>1. PICK gone : gone = {k \in 1..Len(creds) : creds[k].consumer = x}
        OBVIOUS
    <2>2. Accepted(y, s)' <=> Accepted(y, s) /\ s \notin gone
        BY <1>4, <2>1, KilledPairs
    <2>3. Accepted(y, s) => (s \notin gone <=> y # x)
        BY <2>1 DEF Accepted
    <2>. QED
        BY <2>2, <2>3
<1>6. PairsWork
    BY WorkingPairs
<1>7. Working' = {p \in Working : p[1] # x}
    <2>1. PICK P : P = {p \in Working : p[1] # x}
        OBVIOUS
    <2>2. \A p \in P : \E y, s : p = <<y, s>>
        BY <1>6, <2>1 DEF PairsWork
    <2>3. ASSUME NEW y, NEW s PROVE <<y, s>> \in P <=> Accepted(y, s)'
        <3>1. <<y, s>> \in P <=> <<y, s>> \in Working /\ y # x
            BY <2>1
        <3>. QED
            BY <1>5, <1>6, <3>1 DEF PairsWork
    <2>. QED
        BY <2>1, <2>2, <2>3, WorkingIs
<1>8. Shown' = Shown
    BY <1>1 DEF Shown
<1>9. CASE \E p \in Working : p[1] = x
    <2>1. x \in {p[1] : p \in Working}
        BY <1>9
    <2>2. faults' \in {faults, faults + 1}
        BY <1>1 DEF MayFail, Fault
    <2>3. Contract!Remove(a)
        BY <1>1, <1>2, <1>3, <1>7, <1>8, <2>1, <2>2 DEF Contract!Remove, Contract!MayFail
    <2>. QED
        BY <2>3 DEF Contract!Next
<1>10. CASE \A p \in Working : p[1] # x
    <2>1. Working' = Working
        BY <1>7, <1>10
    <2>. QED
        BY <1>1, <1>8, <2>1, Quiet
<1>. QED
    BY <1>9, <1>10

(* Kong creates a credential for a consumer that it has. *)
LEMMA CreatedAt ==
    ASSUME CredInv, CreateCredential, NEW r, Created(r)
    PROVE  <<AppOf[cur.on], WsOf[cur.on]>> \in consumers \cap recorded
<1>. DEFINE x == IF cur.op = "update" THEN rec[cur.on].consumer ELSE ConsumerOf(cur.on)
<1>1. creds' # creds
    <2>1. Len(creds) \in Nat /\ Len(creds') = Len(creds) + 1
        BY Types DEF Created, CredInv
    <2>. QED
        BY <2>1
<1>2. x \in consumers
    BY <1>1 DEF CreateCredential, kong
<1>3. cur.op = "update" => /\ cur.on \in Credentials
                           /\ rec[cur.on] # None
    BY DEF CreateCredential, CredInv, HandInv, CallInv
<1>4. x = <<AppOf[cur.on], WsOf[cur.on]>> /\ x \in recorded
    <2>1. CASE cur.op = "update"
        BY <1>3, <2>1 DEF CredInv, RecordsInv, Issued
    <2>2. CASE cur.op # "update"
        <3>1. x \in Consumers
            BY <1>2 DEF CredInv, TypeOK
        <3>. QED
            BY <2>2, <3>1, NoneAssumption DEF ConsumerOf
    <2>. QED
        BY <2>1, <2>2
<1>. QED
    BY <1>2, <1>4

(* A credential is made at a consumer that is there, and goes with it. *)
LEMMA AtConsumersNext ==
    ASSUME CredInv, CredInv', AtConsumers, [Next]_vars
    PROVE  AtConsumers'
<1>1. /\ Live = {k \in 1..Len(creds) : creds[k].live}
      /\ Live' = {k \in 1..Len(creds') : creds'[k].live}
      /\ Len(creds) \in Nat
    BY LenProperties, Types DEF Live, CredInv, TypeOK
<1>2. CredsKeep /\ recorded \subseteq recorded'
    BY NextKeeps
<1>3. ASSUME consumers \subseteq consumers', UNCHANGED creds PROVE AtConsumers'
    BY <1>1, <1>2, <1>3 DEF AtConsumers
<1>4. CASE UNCHANGED <<creds, consumers, recorded, rec, status>>
    BY <1>3, <1>4
<1>5. CASE \E c \in Credentials : CredentialRequest(c)
    BY <1>3, <1>5 DEF CredentialRequest, Request, kong
<1>6. CASE \E a \in Apps, w \in Workspaces : ProvisionApp(a, w)
    BY <1>3, <1>6 DEF ProvisionApp
<1>7. CASE DeleteConsumer
    <2>1. CASE UNCHANGED kong
        BY <1>3, <2>1 DEF kong
    <2>2. CASE Removed(CurConsumer)
        <3>1. /\ consumers' = consumers \ {CurConsumer}
              /\ Killed({k \in 1..Len(creds) : creds[k].consumer = CurConsumer})
            BY <2>2, RemovedFacts DEF CredInv
        <3>. QED
            BY <1>1, <1>2, <3>1 DEF AtConsumers, Killed
    <2>. QED
        BY <1>7, <2>1, <2>2, DeleteConsumerFacts
<1>8. CASE CreateCredential
    <2>1. UNCHANGED <<consumers, recorded>>
        BY <1>8, CreateFacts DEF central
    <2>2. ASSUME NEW r, Created(r) PROVE AtConsumers'
        <3>1. PICK x : x = <<AppOf[cur.on], WsOf[cur.on]>>
            OBVIOUS
        <3>2. x \in consumers \cap recorded
            BY <1>8, <2>2, <3>1, CreatedAt
        <3>3. \A k \in Live' : k \in Live \/ creds'[k].consumer = x
            BY <1>1, <2>2, <3>1 DEF Created
        <3>. QED
            BY <1>1, <1>2, <2>1, <3>2, <3>3 DEF AtConsumers, CredsKeep
    <2>. QED
        BY <1>3, <1>8, <2>1, <2>2, CreateFacts
<1>9. CASE DeleteCredential
    <2>1. /\ UNCHANGED <<consumers, recorded>>
          /\ UNCHANGED creds \/ Killed({rec[cur.on].id})
        BY <1>9, DeleteFacts DEF central
    <2>. QED
        BY <1>1, <1>3, <2>1 DEF AtConsumers, Killed
<1>10. CASE Report
    BY <1>3, <1>10, ReportFacts DEF kong
<1>. QED
    BY <1>4, <1>5, <1>6, <1>7, <1>8, <1>9, <1>10, Steps

(* Where something works there is a consumer on record, and a removed        *)
(* application has few of them.                                              *)
LEMMA RemovedFew ==
    ASSUME CredInv, AtConsumers, pc = "report", cur.op = "deprovisionApp",
           answer.result = "success", NEW a \in Apps, a = cur.on
    PROVE  Contract!FewStillThere(a)
<1>1. IsFiniteSet(Left(a)) /\ Cardinality(Left(a)) <= faults /\ faults \in Nat
    <2>1. IsFiniteSet(recorded) /\ Left(a) \subseteq recorded
        BY DEF CredInv, RemovalInv, Left
    <2>. QED
        BY <2>1, Types, FS_Subset DEF CredInv, RemovalInv
<1>2. PICK S : S = {x \in {p[1] : p \in Working} : x[1] = a}
    OBVIOUS
<1>3. S \subseteq Left(a)
    <2>1. SUFFICES ASSUME NEW x \in S PROVE x \in Left(a)
        OBVIOUS
    <2>2. PICK p \in Working : x = p[1] /\ x[1] = a
        BY <1>2, <2>1
    <2>3. PICK y, s : p = <<y, s>> /\ Accepted(y, s)
        BY <2>2, WorkingPairs DEF PairsWork
    <2>4. s \in Live /\ creds[s].consumer = y
        BY <2>3, Types DEF Accepted, Live, CredInv
    <2>. QED
        BY <2>2, <2>3, <2>4 DEF AtConsumers, Left
<1>4. Cardinality(S) <= faults
    <2>1. /\ Cardinality(S) \in Nat /\ Cardinality(Left(a)) \in Nat
          /\ Cardinality(S) <= Cardinality(Left(a))
        BY <1>1, <1>3, FS_Subset, FS_CardinalityType
    <2>. QED
        BY <1>1, <2>1
<1>. QED
    BY <1>2, <1>4 DEF Contract!FewStillThere, Contract!StillThere, Contract!Cardinality, Cardinality

(* The request in hand is answered with what it has come to. *)
LEMMA ReportIsAnswer ==
    ASSUME CredInv, CredInv', AtConsumers, Report
    PROVE  Contract!Next
<1>1. /\ pc = "report" /\ UNCHANGED <<kong, recorded, faults>>
      /\ answer \in Answer /\ cur.op \in Ops /\ Rests'
    BY ReportFacts DEF Rests
<1>2. Working' = Working
    BY <1>1 DEF kong, Working, Live
<1>3. CASE cur.op \in {"provisionApp", "deprovisionApp"}
    <2>1. PICK a \in Apps : a = cur.on
        BY <1>3, ReportFacts
    <2>2. /\ app' = [app EXCEPT ![a] = StateAfter(cur.op, answer.result)]
          /\ UNCHANGED <<status, rec>>
        BY <1>3, <2>1 DEF Report
    <2>3. Shown' = Shown
        BY <2>2 DEF Shown
    <2>4. Contract!AnswerApp(a)
        <3>1. CASE cur.op = "provisionApp"
            <4>1. app[a] = "pending" /\ StateAfter(cur.op, answer.result) = "active"
                BY <1>1, <2>1, <3>1 DEF CredInv, HandInv, StateAfter
            <4>. QED
                BY <1>1, <1>2, <2>2, <2>3, <4>1 DEF Contract!AnswerApp, Contract!AppBecomes
        <3>2. CASE cur.op = "deprovisionApp" /\ answer.result # "success"
            <4>1. app[a] = "deleting" /\ StateAfter(cur.op, answer.result) = "deleteFailed"
                BY <1>1, <2>1, <3>2 DEF CredInv, HandInv, StateAfter
            <4>. QED
                BY <1>1, <1>2, <2>2, <2>3, <4>1 DEF Contract!AnswerApp, Contract!AppBecomes
        <3>3. CASE cur.op = "deprovisionApp" /\ answer.result = "success"
            <4>1. app[a] = "deleting" /\ StateAfter(cur.op, answer.result) = "removed"
                BY <1>1, <2>1, <3>3 DEF CredInv, HandInv, StateAfter
            <4>2. Contract!FewStillThere(a)
                BY <1>1, <2>1, <3>3, RemovedFew
            <4>. QED
                BY <1>1, <1>2, <2>2, <2>3, <4>1, <4>2 DEF Contract!AnswerApp, Contract!AppBecomes
        <3>. QED
            BY <1>3, <3>1, <3>2, <3>3
    <2>. QED
        BY <2>4 DEF Contract!Next
<1>4. CASE cur.op \in {"provision", "update", "deprovision"}
    <2>1. PICK c \in Credentials : c = cur.on
        BY <1>4, ReportFacts
    <2>2. /\ UNCHANGED app
          /\ status' = [status EXCEPT ![c] = StateAfter(cur.op, answer.result)]
          /\ \A d \in Credentials : d # c => rec'[d] = rec[d]
          /\ answer.record = None => rec'[c] = rec[c]
          /\ answer.record # None => rec'[c] = answer.record
        BY <1>4, <2>1, ReportFacts
    <2>3. Contract!Answer(c)
        <3>1. Contract!FewLeftBehind'
            BY <1>1, ShownNext
        <3>. QED
            BY <1>1, <1>2, <2>2, <3>1 DEF Contract!Answer
    <2>4. answer # None /\ (answer.record # None => cur.op \in {"provision", "update"})
          /\ (cur.op \in {"provision", "update"} =>
                (answer.result = "success" <=> answer.record # None))
        BY <1>1 DEF CredInv, AnswerInv
    <2>5. CASE answer.record = None
        <3>1. Shown' = Shown
            <4>1. \A d \in Credentials : rec'[d] = rec[d]
                BY <2>2, <2>5
            <4>. QED
                BY <4>1 DEF Shown
        <3>2. CASE cur.op = "deprovision" /\ answer.result = "success"
            <4>1. status[c] = "deleting" /\ StateAfter(cur.op, answer.result) = "deleted"
                BY <1>1, <2>1, <3>2 DEF CredInv, HandInv, StateAfter
            <4>2. Contract!AnswerDeleted(c)
                BY <2>2, <2>3, <3>1, <4>1 DEF Contract!AnswerDeleted, Contract!Becomes
            <4>. QED
                BY <4>2 DEF Contract!Next
        <3>3. CASE ~(cur.op = "deprovision" /\ answer.result = "success")
            <4>1. answer.result # "success"
                BY <1>4, <2>4, <2>5, <3>3
            <4>2. \/ status[c] = "pending"  /\ StateAfter(cur.op, answer.result) = "failed"
                  \/ status[c] = "updating" /\ StateAfter(cur.op, answer.result) = "updateFailed"
                  \/ status[c] = "deleting" /\ StateAfter(cur.op, answer.result) = "deleteFailed"
                BY <1>1, <1>4, <2>1, <4>1 DEF CredInv, HandInv, StateAfter
            <4>3. Contract!AnswerFailed(c)
                BY <2>2, <2>3, <3>1, <4>2 DEF Contract!AnswerFailed, Contract!Becomes
            <4>. QED
                BY <4>3 DEF Contract!Next
        <3>. QED
            BY <3>2, <3>3
    <2>6. CASE answer.record # None
        <3>1. PICK r \in Record : r = answer.record /\ r # None
            BY <1>1, <2>6 DEF Answer
        <3>2. /\ cur.op \in {"provision", "update"} /\ answer.result = "success"
              /\ status[c] \in {"pending", "updating"}
              /\ StateAfter(cur.op, answer.result) = "provisioned"
            BY <1>1, <2>1, <2>4, <2>6 DEF CredInv, HandInv, StateAfter
        <3>3. /\ Issued(c, r) /\ creds[r.id].live
              /\ \A d \in Credentials : rec[d] # None => rec[d].id # r.id
            BY <1>1, <2>1, <2>6, <3>1 DEF CredInv, AnswerInv
        <3>4. PICK s \in Ids : s = r.secret /\ s = r.id
            BY <3>3 DEF Record, Issued
        <3>5. <<<<AppOf[c], WsOf[c]>>, s>> \in Working
            <4>1. Accepted(<<AppOf[c], WsOf[c]>>, s)
                BY <3>3, <3>4 DEF Issued, Accepted
            <4>. QED
                BY <4>1, WorkingPairs DEF PairsWork
        <3>6. <<<<AppOf[c], WsOf[c]>>, Shown[c]>> \notin Working
            <4>1. cur.op = "provision" => rec[c] = None
                BY <1>1, <2>1 DEF CredInv, HandInv, RecordsInv
            <4>2. cur.op = "update" => rec[c] # None /\ ~creds[rec[c].id].live
                BY <1>1, <2>1, <2>6 DEF CredInv, AnswerInv
            <4>3. ~Accepted(<<AppOf[c], WsOf[c]>>, Shown[c])
                BY <3>2, <4>1, <4>2, ShownIs DEF Accepted
            <4>. QED
                BY <4>3, WorkingPairs DEF PairsWork
        <3>7. \A d \in Credentials : Shown[d] # s
            BY <3>3, <3>4, ShownIs
        <3>8. Shown' = [Shown EXCEPT ![c] = s]
            <4>1. rec'[c] = r /\ r # None
                BY <2>2, <2>6, <3>1
            <4>2. \A d \in Credentials : d # c => rec'[d] = rec[d]
                BY <2>2
            <4>. QED
                BY <3>4, <4>1, <4>2 DEF Shown
        <3>9. Contract!AnswerProvisioned(c, s)
            BY <2>2, <2>3, <3>2, <3>5, <3>6, <3>7, <3>8
               DEF Contract!AnswerProvisioned, Contract!Becomes, Contract!Consumer
        <3>. QED
            BY <3>9 DEF Contract!Next
    <2>. QED
        BY <2>5, <2>6
<1>. QED
    BY <1>1, <1>3, <1>4 DEF Ops

(* Every step is one of the contract, or changes nothing the contract speaks *)
(* of.                                                                       *)
LEMMA ContractStep ==
    ASSUME CredInv, CredInv', AtConsumers, [Next]_vars
    PROVE  [Contract!Next]_(Contract!vars)
<1>1. ASSUME NEW a \in Apps, AppRequest(a) PROVE Contract!Next
    <2>1. UNCHANGED <<Shown, Working>>
        BY <1>1 DEF AppRequest, Request, kong, Shown, Working, Live
    <2>2. Contract!AskApp(a)
        BY <1>1, <2>1 DEF AppRequest, Request, Contract!AskApp, Contract!AppBecomes
    <2>. QED
        BY <2>2 DEF Contract!Next
<1>2. ASSUME NEW c \in Credentials, CredentialRequest(c) PROVE Contract!Next
    <2>1. UNCHANGED <<Shown, Working>>
        BY <1>2 DEF CredentialRequest, Request, kong, Shown, Working, Live
    <2>2. Contract!Ask(c)
        BY <1>2, <2>1 DEF CredentialRequest, Request, Contract!Ask, Contract!Becomes
    <2>. QED
        BY <2>2 DEF Contract!Next
<1>3. CASE \E a \in Apps, w \in Workspaces : ProvisionApp(a, w)
    BY <1>3, QuietRecords DEF ProvisionApp, MayFail
<1>4. CASE Start
    BY <1>4, StartFacts, QuietRecords DEF CredInv, kong, central, MayFail
<1>5. CASE GetConsumer
    BY <1>5, GetConsumerFacts, QuietRecords DEF kong, central, MayFail
<1>6. CASE DeleteConsumer
    <2>1. CASE Removed(CurConsumer)
        BY <1>6, <2>1, DeleteIsRemove
    <2>2. CASE UNCHANGED kong
        BY <1>6, <2>2, DeleteConsumerFacts, QuietRecords DEF kong, central, MayFail
    <2>. QED
        BY <1>6, <2>1, <2>2, DeleteConsumerFacts
<1>7. CASE CreateCredential
    <2>1. UNCHANGED <<app, status, rec>> /\ MayFail
        BY <1>7, CreateFacts DEF central, MayFail
    <2>2. CASE UNCHANGED creds
        BY <2>1, <2>2, QuietRecords
    <2>3. ASSUME NEW r, Created(r) PROVE Contract!Next
        BY <1>7, <2>1, <2>3, CreateIsIssue
    <2>. QED
        BY <1>7, <2>2, <2>3, CreateFacts
<1>8. CASE DeleteCredential
    <2>1. UNCHANGED <<app, status, rec>> /\ MayFail
        BY <1>8, DeleteFacts DEF central, MayFail
    <2>2. CASE UNCHANGED creds
        BY <2>1, <2>2, QuietRecords
    <2>3. CASE Killed({rec[cur.on].id})
        BY <1>8, <2>3, DeleteIsRevoke
    <2>. QED
        BY <1>8, <2>2, <2>3, DeleteFacts
<1>9. CASE Report
    BY <1>9, ReportIsAnswer
<1>10. CASE Panic \/ Restart \/ Crash \/ UNCHANGED vars
    BY <1>10, QuietRecords DEF Panic, Restart, Crash, vars, kong, central, MayFail
<1>. QED
    BY <1>1, <1>2, <1>3, <1>4, <1>5, <1>6, <1>7, <1>8, <1>9, <1>10 DEF Next, AgentStep, Call

(* Nothing has been handed out yet, and nothing works. *)
LEMMA ContractInit ==
    ASSUME Init
    PROVE  Contract!Init /\ AtConsumers
<1>1. /\ creds = <<>> /\ faults = 0
      /\ app = [a \in Apps |-> "none"] /\ status = [c \in Credentials |-> "none"]
      /\ \A c \in Credentials : rec[c] = None
    BY DEF Init
<1>2. Live = {}
    BY <1>1 DEF Live
<1>3. Working = {} /\ Shown = [c \in Credentials |-> None]
    BY <1>1, <1>2 DEF Working, Shown
<1>. QED
    BY <1>1, <1>2, <1>3 DEF Contract!Init, AtConsumers

(* The provisioning of credentials implements the contract with Central. *)
THEOREM CredentialRefinement == Spec => ImplementsContract
<1>1. Init => Contract!Init /\ AtConsumers
    BY ContractInit
<1>2. CredInv /\ CredInv' /\ AtConsumers /\ [Next]_vars =>
        AtConsumers' /\ [Contract!Next]_(Contract!vars)
    BY AtConsumersNext, ContractStep
<1>. QED
    BY <1>1, <1>2, CredInvariant, PTL DEF Spec, ImplementsContract, Contract!Spec

=============================================================================
