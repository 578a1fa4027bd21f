---------------------------- MODULE UploadProofs ----------------------------
(***************************************************************************)
(* Proofs about Upload, for every set of payloads and keys, any number of  *)
(* calls, retries and adapters where nothing else is said.                 *)
(***************************************************************************)
EXTENDS Upload, TLAPS

LEMMA AdapterCount == Len(Adapters) \in Nat \ {0}
  BY UploadAssumption

(* What a step of an upload does to pc, k and told.                        *)
LEMMA FailTypes ==
  ASSUME TypeOK, NEW u \in Uploads, Fail(u)
  PROVE  /\ pc' \in [Uploads -> {"idle", "trying", "posted"}]
         /\ k' \in [Uploads -> 1..Len(Adapters)]
         /\ told' \in [Uploads -> {"nothing", "stored", "refused"}]
  <1>1. k[u] \in 1..Len(Adapters)
    BY DEF TypeOK
  <1>2. k[u] < Len(Adapters) => k[u] + 1 \in 1..Len(Adapters)
    BY <1>1, AdapterCount
  <1>3. /\ pc \in [Uploads -> {"idle", "trying", "posted"}]
        /\ k \in [Uploads -> 1..Len(Adapters)]
        /\ told \in [Uploads -> {"nothing", "stored", "refused"}]
    BY DEF TypeOK
  <1>4. CASE k[u] < Len(Adapters)
    BY ONLY <1>2, <1>3, <1>4, Fail(u) DEF Fail
  <1>5. CASE ~(k[u] < Len(Adapters))
    BY ONLY <1>3, <1>5, Fail(u) DEF Fail
  <1>. QED BY <1>4, <1>5

LEMMA SucceedTypes ==
  ASSUME TypeOK, NEW u \in Uploads, Succeed(u)
  PROVE  /\ pc' \in [Uploads -> {"idle", "trying", "posted"}]
         /\ k' \in [Uploads -> 1..Len(Adapters)]
         /\ told' \in [Uploads -> {"nothing", "stored", "refused"}]
  BY DEF Succeed, TypeOK

LEMMA SendTypes ==
  ASSUME TypeOK, NEW u \in Uploads, NEW n \in 1..(MaxRetries + 1), Send(u, n)
  PROVE  flight' \subseteq Requests /\ sent' \in [Uploads -> 0..(MaxRetries + 1)]
  <1>1. /\ payload[u].uri \in {"none", "db", "ext"} /\ Posted(u) \in {"none", "raw", "cut"}
        /\ calls[u] \in Nat
    BY DEF TypeOK, Posted
  <1>2. [up |-> u, call |-> calls[u], n |-> n,
         uri |-> payload[u].uri, data |-> Posted(u)] \in Requests
    BY <1>1 DEF Requests
  <1>. QED BY <1>2, UploadAssumption DEF Send, TypeOK

(* A payload without a URI holds its data.                                 *)
Filled == \A u \in Uploads : payload[u].uri = "none" => payload[u].data

Inv == TypeOK /\ Filled /\ NoOrphanData

LEMMA InitInv == Init => Inv
  <1>. SUFFICES ASSUME Init PROVE Inv
    OBVIOUS
  <1>1. 1 \in 1..Len(Adapters) /\ 0 \in 0..(MaxRetries + 1) /\ content \in [Uploads -> Kinds]
    BY AdapterCount, UploadAssumption DEF Init
  <1>. QED BY <1>1 DEF Init, Inv, TypeOK, Filled, NoOrphanData

LEMMA CallInv ==
  ASSUME Inv, NEW u \in Uploads, Call(u), UNCHANGED content
  PROVE  Inv'
  <1>1. 1 \in 1..Len(Adapters) /\ 0 \in 0..(MaxRetries + 1)
    BY AdapterCount, UploadAssumption
  <1>2. /\ payload' \in [Uploads -> [uri : {"none", "db", "ext"}, data : BOOLEAN]]
        /\ Filled'
    <2>1. CASE UNCHANGED payload
      BY <2>1 DEF Inv, TypeOK, Filled
    <2>2. CASE payload' = [payload EXCEPT ![u].data = TRUE]
      <3>1. payload \in [Uploads -> [uri : {"none", "db", "ext"}, data : BOOLEAN]]
            /\ \A v \in Uploads : payload[v].uri = "none" => payload[v].data
        BY DEF Inv, TypeOK, Filled
      <3>. QED BY ONLY <2>2, <3>1 DEF Filled
    <2>. QED BY <2>1, <2>2 DEF Call
  <1>3. calls' \in [Uploads -> Nat] /\ k' \in [Uploads -> 1..Len(Adapters)]
    BY <1>1 DEF Inv, TypeOK, Call
  <1>4. TypeOK'
    BY <1>1, <1>2, <1>3 DEF Inv, TypeOK, Call, tables
  <1>. QED BY <1>2, <1>4 DEF Inv, Call, NoOrphanData, tables

LEMMA SetURITypes ==
  ASSUME Inv, NEW u \in Uploads, SetURI(u)
  PROVE  /\ payload' \in [Uploads -> [uri : {"none", "db", "ext"}, data : BOOLEAN]]
         /\ Filled'
  <1>1. CASE HoldsData(u)
    BY <1>1 DEF SetURI, Inv, TypeOK, Filled
  <1>2. CASE ~HoldsData(u)
    BY <1>2 DEF SetURI, Inv, TypeOK, Filled
  <1>. QED BY <1>1, <1>2

(* Steps that leave requests and tables alone.                             *)
LEMMA LocalInv ==
  ASSUME Inv, NEW u \in Uploads, Fail(u) \/ Succeed(u),
         UNCHANGED <<content, calls, sent, flight, tables>>,
         UNCHANGED payload \/ SetURI(u), spent' \subseteq Uploads
  PROVE  Inv'
  <1>1. /\ payload' \in [Uploads -> [uri : {"none", "db", "ext"}, data : BOOLEAN]]
        /\ Filled'
    BY SetURITypes DEF Inv, TypeOK, Filled
  <1>2. TypeOK'
    BY <1>1, FailTypes, SucceedTypes DEF Inv, TypeOK, tables
  <1>. QED BY <1>1, <1>2 DEF Inv, NoOrphanData, tables

LEMMA DbInsertInv ==
  ASSUME Inv, NEW u \in Uploads, DbInsert(u), Fail(u) \/ Succeed(u), UNCHANGED content
  PROVE  Inv'
  <1>1. /\ payload' \in [Uploads -> [uri : {"none", "db", "ext"}, data : BOOLEAN]]
        /\ Filled'
    BY SetURITypes DEF DbInsert, Inv
  <1>2. iov[u] = "absent" /\ blob[u] = "absent"
    BY DEF DbInsert, Fits, Inv, NoOrphanData
  <1>3. HoldsData(u) => payload'[u].uri = "db"
    BY DEF DbInsert, SetURI, Inv, TypeOK
  <1>4. payload'[u].uri \in {"db", "ext"}
    <2>1. CASE HoldsData(u)
      BY <2>1, <1>3
    <2>2. CASE ~HoldsData(u)
      BY <2>2 DEF DbInsert, SetURI, HoldsData, Inv, TypeOK, Filled
    <2>. QED BY <2>1, <2>2
  <1>5. /\ blob' \in [Uploads -> {"absent", "base64", "raw", "cut"}]
        /\ iov' \in [Uploads -> {"absent", "db", "ext", "tb", "mangled"}]
    BY <1>4 DEF DbInsert, Inv, TypeOK
  <1>6. TypeOK'
    BY <1>1, <1>5, FailTypes, SucceedTypes DEF DbInsert, Inv, TypeOK
  <1>7. NoOrphanData'
    BY <1>2, <1>3 DEF DbInsert, Inv, NoOrphanData, TypeOK
  <1>. QED BY <1>1, <1>6, <1>7 DEF Inv

LEMMA DbStepInv ==
  ASSUME Inv, NEW u \in Uploads, DbStep(u), UNCHANGED content
  PROVE  Inv'
  <1>. spent \subseteq Uploads
    BY DEF Inv, TypeOK
  <1>1. CASE DbDataFails(u)
    BY <1>1, LocalInv DEF DbDataFails
  <1>2. CASE DbRollback(u)
    BY <1>2, LocalInv DEF DbRollback
  <1>3. CASE DbCommit(u) \/ DbCommitUnheard(u)
    BY <1>3, DbInsertInv DEF DbCommit, DbCommitUnheard
  <1>. QED BY <1>1, <1>2, <1>3 DEF DbStep

LEMMA SendInv ==
  ASSUME Inv, NEW u \in Uploads, NEW n \in 1..(MaxRetries + 1), Send(u, n),
         UNCHANGED <<content, payload, k, calls, tables, told, spent>>,
         UNCHANGED pc \/ pc' = [pc EXCEPT ![u] = "posted"]
  PROVE  Inv'
  <1>1. flight' \subseteq Requests /\ sent' \in [Uploads -> 0..(MaxRetries + 1)]
    BY SendTypes DEF Inv
  <1>2. pc' \in [Uploads -> {"idle", "trying", "posted"}]
    BY DEF Inv, TypeOK
  <1>. QED BY <1>1, <1>2 DEF Inv, TypeOK, Filled, NoOrphanData, tables

LEMMA HttpStepInv ==
  ASSUME Inv, NEW u \in Uploads, HttpStep(u), UNCHANGED content
  PROVE  Inv'
  <1>. spent \subseteq Uploads
    BY DEF Inv, TypeOK
  <1>1. CASE Post(u)
    <2>1. 1 \in 1..(MaxRetries + 1)
      BY UploadAssumption
    <2>. QED BY <1>1, <2>1, SendInv DEF Post
  <1>2. CASE GatewayError(u)
    <2>1. CASE sent[u] <= MaxRetries
      <3>1. sent[u] + 1 \in 1..(MaxRetries + 1)
        BY <2>1, UploadAssumption DEF Inv, TypeOK
      <3>. QED BY <1>2, <2>1, <3>1, SendInv DEF GatewayError
    <2>2. CASE ~(sent[u] <= MaxRetries)
      BY <1>2, <2>2, LocalInv DEF GatewayError
    <2>. QED BY <2>1, <2>2
  <1>3. CASE Timeout(u)
    BY <1>3, LocalInv DEF Timeout
  <1>. QED BY <1>1, <1>2, <1>3 DEF HttpStep

(* What the answer to a request does to the client.                        *)
LEMMA AnswerTypes ==
  ASSUME Inv, NEW r \in Requests,
         \/ Awaited(r) /\ (Fail(r.up) \/ Succeed(r.up))
         \/ Quiet
  PROVE  /\ pc' \in [Uploads -> {"idle", "trying", "posted"}]
         /\ k' \in [Uploads -> 1..Len(Adapters)]
         /\ told' \in [Uploads -> {"nothing", "stored", "refused"}]
  <1>. r.up \in Uploads
    BY DEF Requests
  <1>1. CASE Fail(r.up) \/ Succeed(r.up)
    BY <1>1, FailTypes, SucceedTypes DEF Inv
  <1>2. CASE Quiet
    BY <1>2 DEF Quiet, Inv, TypeOK
  <1>. QED BY <1>1, <1>2

LEMMA ServerInv ==
  ASSUME Inv, NEW r \in flight, ServerStores(r) \/ ServerRejects(r), UNCHANGED content
  PROVE  Inv'
  <1>1. r \in Requests /\ r.up \in Uploads /\ r.data \in {"none", "raw", "cut"}
    BY DEF Inv, TypeOK, Requests
  <1>2. /\ pc' \in [Uploads -> {"idle", "trying", "posted"}]
        /\ k' \in [Uploads -> 1..Len(Adapters)]
        /\ told' \in [Uploads -> {"nothing", "stored", "refused"}]
    BY <1>1, AnswerTypes DEF ServerStores, ServerRejects
  <1>3. UNCHANGED <<payload, calls, sent, spent>> /\ flight' \subseteq flight
    BY DEF ServerStores, ServerRejects
  <1>4. Filled'
    BY <1>3 DEF Inv, Filled
  <1>5. CASE ServerRejects(r)
    BY <1>2, <1>3, <1>4, <1>5 DEF ServerRejects, Inv, TypeOK, NoOrphanData, tables
  <1>6. CASE ServerStores(r)
    <2>. DEFINE u == r.up
    <2>1. iov[u] = "absent" /\ blob[u] = "absent"
      BY <1>1, <1>6 DEF ServerStores, payload_set, Fits, Inv, NoOrphanData
    <2>2. /\ iov' = [iov EXCEPT ![u] = ServerUri(r.uri)]
          /\ blob' = IF r.uri = "none" THEN [blob EXCEPT ![u] = r.data] ELSE blob
      BY <1>6 DEF ServerStores, payload_set
    <2>. HIDE DEF u
    <2>3. /\ iov' \in [Uploads -> {"absent", "db", "ext", "tb", "mangled"}]
          /\ blob' \in [Uploads -> {"absent", "base64", "raw", "cut"}]
      <3>1. r.uri = "none" => r.data \in {"raw", "cut"}
        BY <1>1, <1>6 DEF ServerStores, payload_set
      <3>. QED BY <2>2, <3>1 DEF ServerUri, Inv, TypeOK
    <2>4. NoOrphanData'
      BY <2>1, <2>2 DEF ServerUri, Inv, TypeOK, NoOrphanData
    <2>. QED BY <1>2, <1>3, <1>4, <2>3, <2>4 DEF Inv, TypeOK
  <1>. QED BY <1>5, <1>6

LEMMA NextInv ==
  ASSUME Inv, [Next]_vars
  PROVE  Inv'
  <1>1. ASSUME NEW u \in Uploads, Call(u), UNCHANGED content
        PROVE  Inv'
    BY <1>1, CallInv
  <1>2. ASSUME NEW u \in Uploads, Refuse(u), UNCHANGED content
        PROVE  Inv'
    <2>. spent \subseteq Uploads
      BY DEF Inv, TypeOK
    <2>. QED BY <1>2, LocalInv DEF Refuse
  <1>3. ASSUME NEW u \in Uploads, DbStep(u), UNCHANGED content
        PROVE  Inv'
    BY <1>3, DbStepInv
  <1>4. ASSUME NEW u \in Uploads, HttpStep(u), UNCHANGED content
        PROVE  Inv'
    BY <1>4, HttpStepInv
  <1>5. ASSUME NEW r \in flight, ServerStores(r) \/ ServerRejects(r), UNCHANGED content
        PROVE  Inv'
    BY <1>5, ServerInv
  <1>6. CASE UNCHANGED vars
    BY <1>6 DEF vars, Inv, TypeOK, Filled, NoOrphanData, client, tables
  <1>. QED BY <1>1, <1>2, <1>3, <1>4, <1>5, <1>6 DEF Next, OwnStep

(* The inductive invariant: besides the types, no payload lacks both data  *)
(* and URI, and no data lacks its interval.                                *)
THEOREM Invariance == Spec => []Inv
  BY InitInv, NextInv, PTL DEF Spec

(* Every variable stays within its type: the position of setPayload never  *)
(* runs past the last adapter, nor a request past the retry bound.         *)
THEOREM TypeCorrect == Spec => []TypeOK
  BY Invariance, PTL DEF Inv

(* No data without an interval that leads to it: setPayload of the db      *)
(* adapter and payload_set of the service write or roll back both tables.  *)
THEOREM NoOrphanDataHolds == Spec => []NoOrphanData
  BY Invariance, PTL DEF Inv
-----------------------------------------------------------------------------
(* How far a call of setPayload is from its end: an adapter takes at most  *)
(* a request, MaxRetries others, the last answer and the step to it.       *)
Patience == MaxRetries + 3

Turn(u) == IF pc[u] = "trying" THEN Patience ELSE MaxRetries + 2 - sent[u]

ToGo(u) ==
  IF pc[u] = "idle" THEN 0 ELSE (Len(Adapters) - k[u]) * Patience + Turn(u)

LEMMA AheadTypes ==
  ASSUME NEW n \in 1..Len(Adapters)
  PROVE  /\ (Len(Adapters) - n) * Patience \in Nat
         /\ n < Len(Adapters) =>
              (Len(Adapters) - n) * Patience = (Len(Adapters) - (n + 1)) * Patience + Patience
  <1>1. Patience \in Nat
    BY UploadAssumption DEF Patience
  <1>2. \A m, p \in Nat : m * p \in Nat /\ (m + 1) * p = m * p + p
    OBVIOUS
  <1>3. Len(Adapters) - n \in Nat
    BY AdapterCount
  <1>4. n < Len(Adapters) =>
          Len(Adapters) - (n + 1) \in Nat /\ Len(Adapters) - n = (Len(Adapters) - (n + 1)) + 1
    BY AdapterCount
  <1>. QED BY <1>1, <1>2, <1>3, <1>4

LEMMA ToGoTypes ==
  ASSUME TypeOK, NEW u \in Uploads
  PROVE  /\ ToGo(u) \in Nat
         /\ pc[u] # "idle" => /\ Turn(u) \in 1..Patience /\ Patience \in Nat
                             /\ ToGo(u) = (Len(Adapters) - k[u]) * Patience + Turn(u)
         /\ pc[u] = "idle" <=> ToGo(u) = 0
  <1>1. k[u] \in 1..Len(Adapters) /\ sent[u] \in 0..(MaxRetries + 1) /\ MaxRetries \in Nat
    BY UploadAssumption DEF TypeOK
  <1>2. Turn(u) \in 1..Patience /\ Patience \in Nat
    BY <1>1 DEF Turn, Patience
  <1>3. (Len(Adapters) - k[u]) * Patience \in Nat
    BY <1>1, AheadTypes
  <1>. DEFINE ahead == (Len(Adapters) - k[u]) * Patience
  <1>4. ahead \in Nat /\ ToGo(u) = (IF pc[u] = "idle" THEN 0 ELSE ahead + Turn(u))
    BY <1>3 DEF ToGo
  <1>. HIDE DEF ahead
  <1>. QED BY <1>2, <1>4 DEF ahead

LEMMA FailNearer ==
  ASSUME TypeOK, NEW u \in Uploads, pc[u] # "idle", Fail(u)
  PROVE  ToGo(u)' < ToGo(u)
  <1>1. k[u] \in 1..Len(Adapters) /\ pc'[u] \in {"idle", "trying"}
    BY DEF TypeOK, Fail
  <1>2. /\ Turn(u) \in 1..Patience /\ Patience \in Nat
        /\ ToGo(u) = (Len(Adapters) - k[u]) * Patience + Turn(u)
        /\ (Len(Adapters) - k[u]) * Patience \in Nat
    BY <1>1, ToGoTypes, AheadTypes
  <1>3. CASE k[u] < Len(Adapters)
    <2>1. pc'[u] = "trying" /\ k'[u] = k[u] + 1
      BY <1>3 DEF Fail, TypeOK
    <2>2. ToGo(u)' = (Len(Adapters) - (k[u] + 1)) * Patience + Patience
      BY <2>1 DEF ToGo, Turn
    <2>3. ToGo(u)' = (Len(Adapters) - k[u]) * Patience
      BY <1>1, <1>3, <2>2, AheadTypes, Zenon
    <2>. DEFINE ahead == (Len(Adapters) - k[u]) * Patience
    <2>4. ahead \in Nat /\ ToGo(u)' = ahead /\ ToGo(u) = ahead + Turn(u)
      BY <1>2, <2>3
    <2>. HIDE DEF ahead
    <2>. QED BY <1>2, <2>4
  <1>4. CASE ~(k[u] < Len(Adapters))
    <2>1. pc'[u] = "idle"
      BY <1>4 DEF Fail, TypeOK
    <2>2. ToGo(u)' = 0
      BY <2>1 DEF ToGo
    <2>3. ToGo(u) \in Nat /\ ToGo(u) # 0
      BY ToGoTypes
    <2>. QED BY <2>2, <2>3
  <1>. QED BY <1>3, <1>4

LEMMA SucceedNearer ==
  ASSUME TypeOK, NEW u \in Uploads, pc[u] # "idle", Succeed(u)
  PROVE  ToGo(u)' < ToGo(u)
  <1>1. pc'[u] = "idle"
    BY DEF Succeed, TypeOK
  <1>2. ToGo(u)' = 0
    BY <1>1 DEF ToGo
  <1>. QED BY <1>2, ToGoTypes

LEMMA SendNearer ==
  ASSUME TypeOK, NEW u \in Uploads, NEW n \in 1..(MaxRetries + 1), Send(u, n), k' = k,
         pc[u] = "trying" \/ (pc[u] = "posted" /\ n = sent[u] + 1), pc'[u] = "posted"
  PROVE  ToGo(u)' < ToGo(u)
  <1>. DEFINE ahead == (Len(Adapters) - k[u]) * Patience
  <1>1. k[u] \in 1..Len(Adapters) /\ sent[u] \in 0..(MaxRetries + 1) /\ MaxRetries \in Nat
    BY UploadAssumption DEF TypeOK
  <1>2. sent'[u] = n
    BY DEF Send, TypeOK
  <1>3. ahead \in Nat /\ ToGo(u) = ahead + Turn(u) /\ ToGo(u)' = ahead + Turn(u)'
    BY <1>1, AheadTypes DEF ToGo
  <1>4. Turn(u)' = MaxRetries + 2 - n
    BY <1>2 DEF Turn
  <1>5. Turn(u) = IF pc[u] = "trying" THEN MaxRetries + 3 ELSE MaxRetries + 3 - n
    BY <1>1 DEF Turn, Patience
  <1>. HIDE DEF ahead
  <1>6. ToGo(u)' = ahead + (MaxRetries + 2 - n)
    BY <1>3, <1>4
  <1>. QED BY <1>1, <1>3, <1>5, <1>6

(* Every step of a call brings it nearer to its end.                       *)
LEMMA OwnStepNearer ==
  ASSUME TypeOK, NEW u \in Uploads, OwnStep(u)
  PROVE  ToGo(u)' < ToGo(u)
  <1>1. pc[u] # "idle"
    BY DEF OwnStep, Refuse, DbStep, DbDataFails, DbRollback, DbCommit, DbCommitUnheard, DbInsert,
       At, HttpStep, Post, GatewayError, Timeout
  <1>2. CASE Refuse(u) \/ DbStep(u) \/ Timeout(u)
    BY <1>1, <1>2, FailNearer, SucceedNearer
    DEF Refuse, DbStep, DbDataFails, DbRollback, DbCommit, DbCommitUnheard, Timeout
  <1>3. CASE Post(u)
    <2>1. 1 \in 1..(MaxRetries + 1)
      BY UploadAssumption
    <2>2. pc[u] = "trying" /\ pc'[u] = "posted"
      BY <1>3 DEF Post, At, TypeOK
    <2>. QED BY <1>3, <2>1, <2>2, SendNearer DEF Post
  <1>4. CASE GatewayError(u) /\ sent[u] <= MaxRetries
    <2>1. sent[u] + 1 \in 1..(MaxRetries + 1)
      BY <1>4, UploadAssumption DEF TypeOK
    <2>. QED BY <1>4, <2>1, SendNearer DEF GatewayError
  <1>5. CASE GatewayError(u) /\ ~(sent[u] <= MaxRetries)
    BY <1>1, <1>5, FailNearer DEF GatewayError
  <1>. QED BY <1>2, <1>3, <1>4, <1>5 DEF OwnStep, HttpStep

(* The steps of the other calls and of the service leave it there, or they *)
(* are the answer it waits for.                                            *)
LEMMA OtherStepKeeps ==
  ASSUME TypeOK, NEW u \in Uploads, pc[u] # "idle", [Next]_vars, ~OwnStep(u)
  PROVE  ToGo(u)' = ToGo(u) \/ ToGo(u)' < ToGo(u)
  <1>1. ASSUME pc'[u] = pc[u], k'[u] = k[u], sent'[u] = sent[u]
        PROVE  ToGo(u)' = ToGo(u)
    BY <1>1 DEF ToGo, Turn
  <1>2. ASSUME NEW v \in Uploads, v # u, Fail(v) \/ Succeed(v) \/ UNCHANGED <<pc, k>>
        PROVE  pc'[u] = pc[u] /\ k'[u] = k[u]
    BY <1>2 DEF TypeOK, Fail, Succeed
  <1>3. ASSUME NEW v \in Uploads, Call(v)
        PROVE  v # u /\ pc'[u] = pc[u] /\ k'[u] = k[u] /\ sent'[u] = sent[u]
    BY <1>3 DEF Call, TypeOK
  <1>4. ASSUME NEW v \in Uploads, v # u, Refuse(v) \/ DbStep(v) \/ HttpStep(v)
        PROVE  pc'[u] = pc[u] /\ k'[u] = k[u] /\ sent'[u] = sent[u]
    BY <1>2, <1>4 DEF Refuse, DbStep, DbDataFails, DbRollback, DbCommit, DbCommitUnheard, DbInsert,
       HttpStep, Post, GatewayError, Timeout, Send, TypeOK
  <1>5. ASSUME NEW r \in flight, ServerStores(r) \/ ServerRejects(r)
        PROVE  ToGo(u)' = ToGo(u) \/ ToGo(u)' < ToGo(u)
    <2>. DEFINE v == r.up
    <2>1. v \in Uploads /\ sent' = sent
      BY <1>5 DEF TypeOK, Requests, ServerStores, ServerRejects
    <2>2. Fail(v) \/ Succeed(v) \/ UNCHANGED <<pc, k>>
      BY <1>5 DEF ServerStores, ServerRejects, Quiet
    <2>. HIDE DEF v
    <2>3. CASE v # u
      BY <1>1, <1>2, <2>1, <2>2, <2>3
    <2>4. CASE v = u
      BY <1>1, <2>1, <2>2, <2>4, FailNearer, SucceedNearer
    <2>. QED BY <2>3, <2>4
  <1>6. CASE UNCHANGED vars
    BY <1>1, <1>6 DEF vars, client
  <1>. QED BY <1>1, <1>3, <1>4, <1>5, <1>6 DEF Next, OwnStep

(* No call takes more steps of its own than this.                          *)
LEMMA ToGoBound ==
  ASSUME TypeOK, NEW u \in Uploads
  PROVE  ToGo(u) <= Len(Adapters) * Patience
  <1>1. k[u] \in 1..Len(Adapters) /\ Patience \in Nat
    BY UploadAssumption DEF TypeOK, Patience
  <1>2. \A n, m, p \in Nat : n <= m => n * p <= m * p
    OBVIOUS
  <1>3. \A m, p \in Nat : m * p \in Nat /\ (m + 1) * p = m * p + p
    OBVIOUS
  <1>. DEFINE rest == Len(Adapters) - k[u]
  <1>4. rest \in Nat /\ rest + 1 \in Nat /\ rest + 1 <= Len(Adapters)
    BY <1>1, AdapterCount
  <1>5. ToGo(u) = 0 \/ (ToGo(u) = rest * Patience + Turn(u) /\ Turn(u) \in 1..Patience)
    BY ToGoTypes
  <1>. HIDE DEF rest
  <1>6. rest * Patience + Patience <= Len(Adapters) * Patience
    BY <1>1, <1>2, <1>3, <1>4, AdapterCount
  <1>. DEFINE all == Len(Adapters) * Patience
              some == rest * Patience
  <1>7. all \in Nat /\ some \in Nat /\ some + Patience <= all
    BY <1>1, <1>3, <1>4, <1>6, AdapterCount
  <1>8. ToGo(u) = 0 \/ (ToGo(u) = some + Turn(u) /\ Turn(u) \in 1..Patience)
    BY <1>5
  <1>. HIDE DEF all, some
  <1>9. ToGo(u) <= all
    BY <1>1, <1>7, <1>8
  <1>. QED BY <1>9 DEF all

(* That a call can always go on: what ENABLED says of its steps.           *)
Unhindered(u) == pc[u] # "idle" => ENABLED <<UNCHANGED content /\ OwnStep(u)>>_vars

AwayBy(u, n) == ToGo(u) = n
Nearer(u, n) == ToGo(u) < n

(* As long as a call of setPayload is under way it comes nearer to its     *)
(* end, which is never more than Len(Adapters) * (MaxRetries + 3) steps of *)
(* its own away: so it returns, whatever the other calls, the database and *)
(* the service do.                                                         *)
THEOREM CallAdvances ==
  ASSUME NEW u \in Uploads, NEW n \in Nat \ {0}
  PROVE  Spec /\ Fair(u) /\ []Unhindered(u) =>
           /\ [](ToGo(u) <= Len(Adapters) * (MaxRetries + 3))
           /\ AwayBy(u, n) ~> Nearer(u, n)
  <1>1. TypeOK /\ AwayBy(u, n) => pc[u] # "idle"
    BY ToGoTypes DEF AwayBy
  <1>2. TypeOK /\ AwayBy(u, n) /\ [Next]_vars => AwayBy(u, n)' \/ Nearer(u, n)'
    BY <1>1, OwnStepNearer, OtherStepKeeps DEF AwayBy, Nearer
  <1>3. TypeOK /\ AwayBy(u, n) /\ <<UNCHANGED content /\ OwnStep(u)>>_vars => Nearer(u, n)'
    BY OwnStepNearer DEF AwayBy, Nearer
  <1>4. TypeOK => ToGo(u) <= Len(Adapters) * (MaxRetries + 3)
    BY ToGoBound DEF Patience
  <1>. QED BY <1>1, <1>2, <1>3, <1>4, TypeCorrect, PTL DEF Spec, Fair, Unhindered
-----------------------------------------------------------------------------
Uses(adapter) == \E i \in 1..Len(Adapters) : Adapters[i] = adapter

(* The payload object and its content belong together, and a URI set by    *)
(* the db adapter was stored, or its transaction was rolled back.          *)
Prepared == \A u \in Uploads :
  /\ payload[u].uri = "ext" => content[u] = "none"
  /\ payload[u].uri = "none" => content[u] # "none"
  /\ payload[u].uri = "db" => u \in spent \/ iov[u] = "db"
  /\ pc[u] = "posted" => Uses("http")

(* What a request without a URI carries: all of a text, a part of other    *)
(* data, or nothing.                                                       *)
Carried == \A r \in flight :
  /\ Uses("http")
  /\ r.uri = "ext" => content[r.up] = "none"
  /\ r.uri = "db" => r.up \in spent \/ iov[r.up] # "absent"
  /\ r.uri = "none" => \/ content[r.up] = "text" /\ r.data = "raw"
                       \/ content[r.up] = "binary"
                       \/ r.data = "none"

(* A row matches what is in the data table, or what it lacks is excused.   *)
Matching == \A u \in Uploads :
  /\ iov[u] = "db" => u \in spent \/ (blob[u] = "base64" /\ Uses("db"))
  /\ iov[u] = "tb" => content[u] = "binary" \/ (blob[u] = "raw" /\ Uses("http"))
  /\ iov[u] = "mangled" => u \in spent \/ content[u] = "none"

Told == \A u \in Uploads : told[u] = "stored" => iov[u] # "absent"

WholeInv == Inv /\ Prepared /\ Carried /\ Matching /\ Told

LEMMA InitWhole == Init => WholeInv
  <1>. SUFFICES ASSUME Init PROVE WholeInv
    OBVIOUS
  <1>1. Inv
    BY InitInv
  <1>2. Prepared
    BY DEF Init, Prepared
  <1>3. Carried /\ Matching /\ Told
    BY DEF Init, Carried, Matching, Told
  <1>. QED BY <1>1, <1>2, <1>3 DEF WholeInv

(* Where a client is, the adapter is one of those in use.                  *)
LEMMA AtUses ==
  ASSUME Inv, NEW u \in Uploads, NEW adapter, At(u, adapter)
  PROVE  Uses(adapter)
  BY DEF Inv, TypeOK, At, Uses

(* The end of an adapter's turn: posts nothing, reports nothing new as     *)
(* stored, or ends the call.                                               *)
LEMMA TurnEnds ==
  ASSUME Inv, NEW u \in Uploads, Fail(u) \/ Succeed(u)
  PROVE  /\ \A v \in Uploads : pc'[v] = "posted" => pc[v] = "posted"
         /\ \A v \in Uploads : v # u => told'[v] = told[v]
         /\ Fail(u) => \A v \in Uploads : told'[v] = "stored" => told[v] = "stored"
  BY DEF Fail, Succeed, Inv, TypeOK

LEMMA CallWhole ==
  ASSUME WholeInv, NEW u \in Uploads, Call(u), UNCHANGED content, Inv'
  PROVE  WholeInv'
  <1>1. /\ \A v \in Uploads : payload'[v].uri = payload[v].uri
        /\ \A v \in Uploads : pc'[v] = "posted" => pc[v] = "posted"
        /\ \A v \in Uploads : told'[v] = "stored" => told[v] = "stored"
        /\ UNCHANGED <<flight, iov, blob, spent>>
    <2>1. \A v \in Uploads : payload'[v].uri = payload[v].uri
      <3>1. CASE UNCHANGED payload
        BY <3>1
      <3>2. CASE payload' = [payload EXCEPT ![u].data = TRUE]
        BY <3>2 DEF WholeInv, Inv, TypeOK
      <3>. QED BY <3>1, <3>2 DEF Call
    <2>2. /\ \A v \in Uploads : pc'[v] = "posted" => pc[v] = "posted"
          /\ \A v \in Uploads : told'[v] = "stored" => told[v] = "stored"
          /\ UNCHANGED <<flight, iov, blob, spent>>
      BY DEF Call, WholeInv, Inv, TypeOK, tables
    <2>. QED BY <2>1, <2>2
  <1>2. Prepared'
    BY <1>1 DEF WholeInv, Prepared
  <1>3. Carried' /\ Matching' /\ Told'
    BY <1>1 DEF WholeInv, Carried, Matching, Told
  <1>. QED BY <1>2, <1>3 DEF WholeInv

(* A failed adapter that leaves the payload alone.                         *)
LEMMA FailWhole ==
  ASSUME WholeInv, NEW u \in Uploads, Fail(u), Inv',
         UNCHANGED <<content, payload, flight, tables, spent>>
  PROVE  WholeInv'
  <1>1. /\ \A v \in Uploads : pc'[v] = "posted" => pc[v] = "posted"
        /\ \A v \in Uploads : told'[v] = "stored" => told[v] = "stored"
    BY TurnEnds DEF WholeInv
  <1>. QED BY <1>1 DEF WholeInv, Prepared, Carried, Matching, Told, tables

(* What the db adapter leaves of the payload.                              *)
LEMMA SetURIChanges ==
  ASSUME WholeInv, NEW u \in Uploads, SetURI(u)
  PROVE  /\ \A v \in Uploads : v # u => payload'[v] = payload[v]
         /\ HoldsData(u) => payload'[u].uri = "db"
         /\ ~HoldsData(u) => payload'[u].uri = payload[u].uri /\ payload[u].uri \in {"db", "ext"}
  <1>1. CASE HoldsData(u)
    BY <1>1 DEF SetURI, WholeInv, Inv, TypeOK
  <1>2. CASE ~HoldsData(u)
    BY <1>2 DEF SetURI, HoldsData, WholeInv, Inv, TypeOK, Filled
  <1>. QED BY <1>1, <1>2

LEMMA RollbackWhole ==
  ASSUME WholeInv, NEW u \in Uploads, DbRollback(u), UNCHANGED content, Inv'
  PROVE  WholeInv'
  <1>1. /\ \A v \in Uploads : pc'[v] = "posted" => pc[v] = "posted"
        /\ \A v \in Uploads : told'[v] = "stored" => told[v] = "stored"
    BY TurnEnds DEF WholeInv, DbRollback
  <1>2. UNCHANGED <<flight, iov, blob>> /\ spent \subseteq spent'
    BY DEF DbRollback, tables
  <1>3. HoldsData(u) => u \in spent'
    BY DEF DbRollback
  <1>4. SetURI(u)
    BY DEF DbRollback
  <1>5. ASSUME NEW v \in Uploads
        PROVE  /\ payload'[v].uri = "ext" => content[v] = "none"
               /\ payload'[v].uri = "none" => content[v] # "none"
               /\ payload'[v].uri = "db" => v \in spent' \/ iov[v] = "db"
    BY <1>2, <1>3, <1>4, SetURIChanges DEF WholeInv, Prepared
  <1>6. Prepared'
    BY <1>1, <1>2, <1>5 DEF WholeInv, Prepared
  <1>7. Carried' /\ Matching' /\ Told'
    BY <1>1, <1>2 DEF WholeInv, Carried, Matching, Told
  <1>. QED BY <1>6, <1>7 DEF WholeInv

LEMMA InsertWhole ==
  ASSUME WholeInv, NEW u \in Uploads, DbInsert(u), Fail(u) \/ Succeed(u), UNCHANGED content, Inv'
  PROVE  WholeInv'
  <1>1. /\ \A v \in Uploads : pc'[v] = "posted" => pc[v] = "posted"
        /\ \A v \in Uploads : v # u => told'[v] = told[v]
    BY TurnEnds DEF WholeInv
  <1>2. SetURI(u) /\ At(u, "db") /\ iov[u] = "absent" /\ UNCHANGED <<flight, spent>>
    BY DEF DbInsert, Fits
  <1>3. /\ iov' = [iov EXCEPT ![u] = payload'[u].uri]
        /\ blob' = IF HoldsData(u) THEN [blob EXCEPT ![u] = "base64"] ELSE blob
    BY DEF DbInsert
  <1>4. /\ iov'[u] = payload'[u].uri
        /\ HoldsData(u) => blob'[u] = "base64"
        /\ \A v \in Uploads : v # u => iov'[v] = iov[v] /\ blob'[v] = blob[v]
    BY <1>3 DEF WholeInv, Inv, TypeOK
  <1>5. Uses("db")
    BY <1>2, AtUses DEF WholeInv
  <1>6. HoldsData(u) => payload'[u].uri = "db"
    BY <1>2, SetURIChanges
  <1>7. ~HoldsData(u) =>
          /\ payload'[u].uri = payload[u].uri
          /\ payload[u].uri = "ext" \/ (payload[u].uri = "db" /\ u \in spent)
    BY <1>2, SetURIChanges DEF WholeInv, Prepared
  <1>8. \A v \in Uploads : v # u => payload'[v] = payload[v]
    BY <1>2, SetURIChanges
  <1>9. Prepared'
    <2>1. ASSUME NEW v \in Uploads, v # u
          PROVE  /\ payload'[v].uri = "ext" => content[v] = "none"
                 /\ payload'[v].uri = "none" => content[v] # "none"
                 /\ payload'[v].uri = "db" => v \in spent \/ iov'[v] = "db"
      BY <1>4, <1>8, <2>1 DEF WholeInv, Prepared
    <2>2. /\ payload'[u].uri = "ext" => content[u] = "none"
          /\ payload'[u].uri # "none"
          /\ payload'[u].uri = "db" => iov'[u] = "db"
      BY <1>4, <1>6, <1>7 DEF WholeInv, Prepared
    <2>3. \A v \in Uploads : pc'[v] = "posted" => Uses("http")
      BY <1>1 DEF WholeInv, Prepared
    <2>. QED BY <1>2, <2>1, <2>2, <2>3 DEF Prepared
  <1>10. \A v \in Uploads : iov[v] # "absent" => iov'[v] # "absent"
    BY <1>2, <1>4
  <1>11. Carried'
    BY <1>2, <1>10 DEF WholeInv, Inv, TypeOK, Requests, Carried
  <1>12. Matching'
    <2>1. /\ iov'[u] = "db" => u \in spent \/ (blob'[u] = "base64" /\ Uses("db"))
          /\ iov'[u] \in {"db", "ext"}
      BY <1>4, <1>5, <1>6, <1>7
    <2>. QED BY <1>2, <1>4, <2>1 DEF WholeInv, Matching
  <1>13. Told'
    <2>1. iov'[u] # "absent"
      BY <1>4, <1>6, <1>7
    <2>. QED BY <1>1, <1>4, <2>1 DEF WholeInv, Told
  <1>. QED BY <1>9, <1>11, <1>12, <1>13 DEF WholeInv

LEMMA DbStepWhole ==
  ASSUME WholeInv, NEW u \in Uploads, DbStep(u), UNCHANGED content, Inv'
  PROVE  WholeInv'
  <1>1. CASE DbDataFails(u)
    BY <1>1, FailWhole DEF DbDataFails
  <1>2. CASE DbRollback(u)
    BY <1>2, RollbackWhole
  <1>3. CASE DbCommit(u) \/ DbCommitUnheard(u)
    BY <1>3, InsertWhole DEF DbCommit, DbCommitUnheard
  <1>. QED BY <1>1, <1>2, <1>3 DEF DbStep

LEMMA SendWhole ==
  ASSUME WholeInv, NEW u \in Uploads, NEW n, Send(u, n), Uses("http"),
         UNCHANGED <<content, payload, k, calls, tables, told, spent>>, Inv'
  PROVE  WholeInv'
  <1>. DEFINE new == [up |-> u, call |-> calls[u], n |-> n,
                      uri |-> payload[u].uri, data |-> Posted(u)]
  <1>1. flight' = flight \union {new}
    BY DEF Send
  <1>2. new.up = u /\ new.uri = payload[u].uri /\ new.data = Posted(u)
    OBVIOUS
  <1>. HIDE DEF new
  <1>3. /\ new.uri = "ext" => content[new.up] = "none"
        /\ new.uri = "db" => new.up \in spent \/ iov[new.up] # "absent"
    BY <1>2 DEF WholeInv, Prepared
  <1>4. new.uri = "none" => \/ content[new.up] = "text" /\ new.data = "raw"
                            \/ content[new.up] = "binary"
                            \/ new.data = "none"
    BY <1>2 DEF Posted
  <1>5. Carried'
    BY <1>1, <1>3, <1>4 DEF WholeInv, Carried, tables
  <1>. QED BY <1>5 DEF WholeInv, Prepared, Matching, Told, tables

LEMMA HttpStepWhole ==
  ASSUME WholeInv, NEW u \in Uploads, HttpStep(u), UNCHANGED content, Inv'
  PROVE  WholeInv'
  <1>1. CASE Post(u)
    BY <1>1, SendWhole, AtUses DEF Post, WholeInv
  <1>2. CASE GatewayError(u)
    <2>1. CASE sent[u] <= MaxRetries
      BY <1>2, <2>1, SendWhole DEF GatewayError, WholeInv, Prepared
    <2>2. CASE ~(sent[u] <= MaxRetries)
      BY <1>2, <2>2, FailWhole DEF GatewayError
    <2>. QED BY <2>1, <2>2
  <1>3. CASE Timeout(u)
    BY <1>3, FailWhole DEF Timeout
  <1>. QED BY <1>1, <1>2, <1>3 DEF HttpStep

(* What the service does to the tables with a request it stores.           *)
LEMMA StoredRow ==
  ASSUME WholeInv, NEW r \in flight, ServerStores(r)
  PROVE  /\ r.up \in Uploads /\ iov[r.up] = "absent"
         /\ \A v \in Uploads : v # r.up => iov'[v] = iov[v] /\ blob'[v] = blob[v]
         /\ \/ iov'[r.up] = "tb" /\ content[r.up] = "binary"
            \/ iov'[r.up] = "tb" /\ blob'[r.up] = "raw" /\ Uses("http")
            \/ iov'[r.up] = "mangled" /\ (r.up \in spent \/ content[r.up] = "none")
  <1>. DEFINE u == r.up
  <1>1. u \in Uploads /\ r.uri \in {"none", "db", "ext"}
    BY DEF WholeInv, Inv, TypeOK, Requests
  <1>2. /\ iov[u] = "absent"
        /\ r.uri = "none" => r.data # "none"
        /\ iov' = [iov EXCEPT ![u] = ServerUri(r.uri)]
        /\ blob' = IF r.uri = "none" THEN [blob EXCEPT ![u] = r.data] ELSE blob
    BY DEF ServerStores, payload_set, Fits
  <1>3. /\ Uses("http")
        /\ r.uri = "ext" => content[u] = "none"
        /\ r.uri = "db" => u \in spent \/ iov[u] # "absent"
        /\ r.uri = "none" => \/ content[u] = "text" /\ r.data = "raw"
                             \/ content[u] = "binary"
                             \/ r.data = "none"
    BY DEF WholeInv, Carried
  <1>. HIDE DEF u
  <1>4. \A v \in Uploads : v # u => iov'[v] = iov[v] /\ blob'[v] = blob[v]
    BY <1>1, <1>2 DEF WholeInv, Inv, TypeOK
  <1>5. /\ r.uri = "none" => iov'[u] = "tb" /\ blob'[u] = r.data
        /\ r.uri # "none" => iov'[u] = "mangled"
    BY <1>1, <1>2 DEF ServerUri, WholeInv, Inv, TypeOK
  <1>6. \/ iov'[u] = "tb" /\ content[u] = "binary"
        \/ iov'[u] = "tb" /\ blob'[u] = "raw" /\ Uses("http")
        \/ iov'[u] = "mangled" /\ (u \in spent \/ content[u] = "none")
    BY <1>1, <1>2, <1>3, <1>5
  <1>. QED BY <1>1, <1>2, <1>4, <1>6 DEF u

LEMMA ServerWhole ==
  ASSUME WholeInv, NEW r \in flight, ServerStores(r) \/ ServerRejects(r), UNCHANGED content, Inv'
  PROVE  WholeInv'
  <1>1. r.up \in Uploads
    BY DEF WholeInv, Inv, TypeOK, Requests
  <1>2. UNCHANGED <<payload, spent>> /\ flight' \subseteq flight
    BY DEF ServerStores, ServerRejects
  <1>3. CASE ServerStores(r)
    <2>1. /\ \A v \in Uploads : pc'[v] = "posted" => pc[v] = "posted"
          /\ \A v \in Uploads : v # r.up => told'[v] = told[v]
      <3>1. Succeed(r.up) \/ UNCHANGED <<pc, told>>
        BY <1>3 DEF ServerStores, Quiet
      <3>. QED BY <1>1, <3>1, TurnEnds DEF WholeInv
    <2>2. /\ iov[r.up] = "absent"
          /\ \A v \in Uploads : v # r.up => iov'[v] = iov[v] /\ blob'[v] = blob[v]
          /\ \/ iov'[r.up] = "tb" /\ content[r.up] = "binary"
             \/ iov'[r.up] = "tb" /\ blob'[r.up] = "raw" /\ Uses("http")
             \/ iov'[r.up] = "mangled" /\ (r.up \in spent \/ content[r.up] = "none")
      BY <1>3, StoredRow
    <2>3. PICK u \in Uploads : u = r.up
      BY <1>1
    <2>4. Prepared'
      <3>1. \A v \in Uploads : iov[v] = "db" => iov'[v] = "db"
        BY <2>2, <2>3
      <3>. QED BY <1>2, <2>1, <3>1 DEF WholeInv, Prepared
    <2>5. Carried'
      <3>1. \A v \in Uploads : iov[v] # "absent" => iov'[v] # "absent"
        BY <2>2, <2>3
      <3>. QED BY <1>2, <3>1 DEF WholeInv, Inv, TypeOK, Requests, Carried
    <2>6. Matching'
      <3>1. ASSUME NEW v \in Uploads, v # u
            PROVE  iov'[v] = iov[v] /\ blob'[v] = blob[v]
        BY <2>2, <2>3, <3>1
      <3>2. /\ iov'[u] # "db"
            /\ iov'[u] = "tb" => content[u] = "binary" \/ (blob'[u] = "raw" /\ Uses("http"))
            /\ iov'[u] = "mangled" => u \in spent \/ content[u] = "none"
        BY <2>2, <2>3
      <3>. QED BY <1>2, <3>1, <3>2 DEF WholeInv, Matching
    <2>7. Told'
      BY <2>1, <2>2, <2>3 DEF WholeInv, Told
    <2>. QED BY <2>4, <2>5, <2>6, <2>7 DEF WholeInv
  <1>4. CASE ServerRejects(r)
    <2>1. /\ \A v \in Uploads : pc'[v] = "posted" => pc[v] = "posted"
          /\ \A v \in Uploads : told'[v] = "stored" => told[v] = "stored"
      <3>1. Fail(r.up) \/ UNCHANGED <<pc, told>>
        BY <1>4 DEF ServerRejects, Quiet
      <3>. QED BY <1>1, <3>1, TurnEnds DEF WholeInv
    <2>2. UNCHANGED <<iov, blob>>
      BY <1>4 DEF ServerRejects, tables
    <2>. QED BY <1>2, <2>1, <2>2 DEF WholeInv, Prepared, Carried, Matching, Told
  <1>. QED BY <1>3, <1>4

LEMMA NextWhole ==
  ASSUME WholeInv, [Next]_vars
  PROVE  WholeInv'
  <1>. Inv'
    BY NextInv DEF WholeInv
  <1>1. ASSUME NEW u \in Uploads, Call(u), UNCHANGED content
        PROVE  WholeInv'
    BY <1>1, CallWhole
  <1>2. ASSUME NEW u \in Uploads, Refuse(u), UNCHANGED content
        PROVE  WholeInv'
    BY <1>2, FailWhole DEF Refuse
  <1>3. ASSUME NEW u \in Uploads, DbStep(u), UNCHANGED content
        PROVE  WholeInv'
    BY <1>3, DbStepWhole
  <1>4. ASSUME NEW u \in Uploads, HttpStep(u), UNCHANGED content
        PROVE  WholeInv'
    BY <1>4, HttpStepWhole
  <1>5. ASSUME NEW r \in flight, ServerStores(r) \/ ServerRejects(r), UNCHANGED content
        PROVE  WholeInv'
    BY <1>5, ServerWhole
  <1>6. CASE UNCHANGED vars
    BY <1>6 DEF vars, WholeInv, Prepared, Carried, Matching, Told, client, tables
  <1>. QED BY <1>1, <1>2, <1>3, <1>4, <1>5, <1>6 DEF Next, OwnStep

(* A row is readable, or there is a reason why it is not.                  *)
LEMMA RowsAccounted ==
  ASSUME WholeInv, NEW u \in Uploads, iov[u] # "absent"
  PROVE  Readable(u) \/ Excused(u)
  <1>1. CASE iov[u] = "ext"
    BY <1>1, AdapterCount DEF Readable, ReadsBack
  <1>2. CASE iov[u] = "db"
    BY <1>2 DEF WholeInv, Matching, Uses, Readable, ReadsBack, DbReads, HttpReads, Excused
  <1>3. CASE iov[u] = "tb"
    BY <1>3 DEF WholeInv, Matching, Uses, Readable, ReadsBack, DbReads, HttpReads, Excused
  <1>4. CASE iov[u] = "mangled"
    BY <1>4 DEF WholeInv, Matching, Excused
  <1>. QED BY <1>1, <1>2, <1>3, <1>4 DEF WholeInv, Inv, TypeOK

(* What setPayload reports as stored can be read back in full by one of    *)
(* the adapters, or it was lost in one of the three ways that Excused      *)
(* names: for any payloads, adapters in any order, calls and retries.      *)
THEOREM StoredIsReadableHolds == Spec => []StoredIsReadable
  <1>1. Init => WholeInv
    BY InitWhole
  <1>2. WholeInv /\ [Next]_vars => WholeInv'
    BY NextWhole
  <1>3. WholeInv => StoredIsReadable
    BY RowsAccounted DEF WholeInv, Told, StoredIsReadable
  <1>. QED BY <1>1, <1>2, <1>3, PTL DEF Spec
-----------------------------------------------------------------------------
(* The tables alone tell what an upload looks like.                        *)
Form(u) ==
  IF iov[u] = "absent" THEN "absent" ELSE IF Readable(u) THEN "whole" ELSE "short"

Rows == [u \in Uploads |-> Form(u)]

LEMMA EntriesAreRows == WholeInv => [u \in Uploads |-> Entry(u)] = Rows
  <1>. SUFFICES ASSUME WholeInv, NEW u \in Uploads PROVE Entry(u) = Form(u)
    BY DEF Rows
  <1>. QED BY RowsAccounted DEF Entry, Form

LEMMA EntriesStayRows == WholeInv' => [u \in Uploads |-> Entry(u)]' = Rows'
  <1>1. (WholeInv => [u \in Uploads |-> Entry(u)] = Rows)'
    BY EntriesAreRows, PTL
  <1>. QED BY <1>1

LEMMA FormStays ==
  ASSUME NEW u \in Uploads, iov'[u] = iov[u], blob'[u] = blob[u]
  PROVE  Form(u)' = Form(u)
  BY DEF Form, Readable, ReadsBack, DbReads, HttpReads

LEMMA FailRefuses ==
  ASSUME Inv, NEW u \in Uploads, Fail(u)
  PROVE  UNCHANGED told \/ told' = [told EXCEPT ![u] = "refused"]
  BY DEF Fail

(* A row that is free in the table is free in the abstract store.          *)
LEMMA StoreRefines ==
  ASSUME WholeInv, WholeInv', NEW u \in Uploads, Fits(u), iov'[u] # "absent",
         \A v \in Uploads : v # u => iov'[v] = iov[v] /\ blob'[v] = blob[v],
         \/ UNCHANGED told
         \/ \E answer \in {"stored", "refused"} : told' = [told EXCEPT ![u] = answer]
  PROVE  Atomic!Next
  <1>1. Form(u)' \in {"whole", "short"}
    BY DEF Form
  <1>2. \A v \in Uploads : v # u => Form(v)' = Form(v)
    BY FormStays
  <1>3. PICK form \in {"whole", "short"} : Form(u)' = form
    BY <1>1
  <1>4. Rows' = [v \in Uploads |-> Form(v)'] /\ Rows = [v \in Uploads |-> Form(v)]
    BY DEF Rows
  <1>5. Rows' = [Rows EXCEPT ![u] = form]
    BY <1>2, <1>3, <1>4
  <1>6. \A v \in Uploads : Rows[v] # "absent" => Key[v] # Key[u]
    BY <1>4 DEF Form, Fits
  <1>7. /\ [v \in Uploads |-> Entry(v)] = Rows
        /\ [v \in Uploads |-> Entry(v)]' = Rows'
    BY EntriesAreRows, EntriesStayRows
  <1>8. Atomic!Enter(u)
    BY <1>3, <1>5, <1>6, <1>7 DEF Atomic!Enter, Atomic!Free
  <1>9. Atomic!Put(u) \/ Atomic!PutUnasked(u)
    BY <1>8 DEF Atomic!Put, Atomic!PutUnasked
  <1>. QED BY <1>9 DEF Atomic!Next

(* Steps that store nothing and report nothing as stored.                  *)
LEMMA OtherRefines ==
  ASSUME WholeInv, WholeInv', NEW u \in Uploads, UNCHANGED <<iov, blob>>,
         \/ UNCHANGED told
         \/ told' = [told EXCEPT ![u] = "refused"]
         \/ told[u] # "stored" /\ told' = [told EXCEPT ![u] = "nothing"]
  PROVE  [Atomic!Next]_(Atomic!vars)
  <1>1. UNCHANGED Rows
    BY FormStays DEF Rows
  <1>2. UNCHANGED [v \in Uploads |-> Entry(v)]
    BY <1>1, EntriesAreRows, EntriesStayRows
  <1>3. Atomic!Ask(u) \/ Atomic!Refuse(u) \/ UNCHANGED Atomic!vars
    BY <1>2 DEF Atomic!Ask, Atomic!Refuse, Atomic!vars
  <1>. QED BY <1>3 DEF Atomic!Next

LEMMA StepRefines ==
  ASSUME WholeInv, WholeInv', [Next]_vars
  PROVE  [Atomic!Next]_(Atomic!vars)
  <1>. Inv
    BY DEF WholeInv
  <1>1. ASSUME NEW u \in Uploads, Call(u)
        PROVE  [Atomic!Next]_(Atomic!vars)
    BY <1>1, OtherRefines DEF Call, tables
  <1>2. ASSUME NEW u \in Uploads, Refuse(u) \/ DbDataFails(u) \/ DbRollback(u)
        PROVE  [Atomic!Next]_(Atomic!vars)
    BY <1>2, FailRefuses, OtherRefines DEF Refuse, DbDataFails, DbRollback, tables
  <1>3. ASSUME NEW u \in Uploads, DbCommit(u) \/ DbCommitUnheard(u)
        PROVE  [Atomic!Next]_(Atomic!vars)
    <2>1. DbInsert(u) /\ (Fail(u) \/ Succeed(u))
      BY <1>3 DEF DbCommit, DbCommitUnheard
    <2>2. /\ Fits(u) /\ SetURI(u)
          /\ iov' = [iov EXCEPT ![u] = payload'[u].uri]
          /\ blob' = IF HoldsData(u) THEN [blob EXCEPT ![u] = "base64"] ELSE blob
      BY <2>1 DEF DbInsert
    <2>3. payload'[u].uri # "absent"
      BY DEF WholeInv, Inv, TypeOK
    <2>4. /\ iov'[u] # "absent"
          /\ \A v \in Uploads : v # u => iov'[v] = iov[v] /\ blob'[v] = blob[v]
      BY <2>2, <2>3 DEF Inv, TypeOK
    <2>5. \/ UNCHANGED told
          \/ \E answer \in {"stored", "refused"} : told' = [told EXCEPT ![u] = answer]
      BY <2>1, FailRefuses DEF Succeed
    <2>. QED BY <2>2, <2>4, <2>5, StoreRefines
  <1>4. ASSUME NEW u \in Uploads, HttpStep(u)
        PROVE  [Atomic!Next]_(Atomic!vars)
    <2>1. UNCHANGED <<iov, blob>> /\ (UNCHANGED told \/ told' = [told EXCEPT ![u] = "refused"])
      BY <1>4, FailRefuses DEF HttpStep, Post, GatewayError, Timeout, tables
    <2>. QED BY <2>1, OtherRefines
  <1>5. ASSUME NEW r \in flight, ServerStores(r)
        PROVE  [Atomic!Next]_(Atomic!vars)
    <2>1. /\ r.up \in Uploads /\ iov'[r.up] # "absent"
          /\ \A v \in Uploads : v # r.up => iov'[v] = iov[v] /\ blob'[v] = blob[v]
      BY <1>5, StoredRow
    <2>2. Fits(r.up)
      BY <1>5 DEF ServerStores, payload_set
    <2>3. \/ UNCHANGED told
          \/ \E answer \in {"stored", "refused"} : told' = [told EXCEPT ![r.up] = answer]
      BY <1>5 DEF ServerStores, Succeed, Quiet
    <2>. QED BY <2>1, <2>2, <2>3, StoreRefines
  <1>6. ASSUME NEW r \in flight, ServerRejects(r)
        PROVE  [Atomic!Next]_(Atomic!vars)
    <2>1. r.up \in Uploads
      BY DEF Inv, TypeOK, Requests
    <2>2. /\ UNCHANGED <<iov, blob>>
          /\ UNCHANGED told \/ told' = [told EXCEPT ![r.up] = "refused"]
      BY <1>6, <2>1, FailRefuses DEF ServerRejects, Quiet, tables
    <2>. QED BY <2>1, <2>2, OtherRefines
  <1>7. CASE UNCHANGED vars
    <2>1. UNCHANGED told /\ UNCHANGED <<iov, blob>>
      BY <1>7 DEF vars, tables
    <2>2. UNCHANGED Rows
      BY <2>1, FormStays DEF Rows
    <2>3. UNCHANGED [v \in Uploads |-> Entry(v)]
      BY <2>2, EntriesAreRows, EntriesStayRows
    <2>. QED BY <2>1, <2>3 DEF Atomic!vars
  <1>. QED BY <1>1, <1>2, <1>3, <1>4, <1>5, <1>6, <1>7 DEF Next, OwnStep, DbStep

(* Uploads implement AtomicUpload, for any payloads, adapters, calls and   *)
(* retries: the interval and what there is of its data appear in one step, *)
(* once, only if nothing is in their place, stay as they are, and only     *)
(* then is the payload reported as stored.                                 *)
THEOREM Refinement == Spec => AtomicSpec
  <1>1. Init => WholeInv
    BY InitWhole
  <1>2. WholeInv /\ [Next]_vars => WholeInv'
    BY NextWhole
  <1>3. Init => Atomic!Init
    BY DEF Init, Atomic!Init, Entry
  <1>4. WholeInv /\ WholeInv' /\ [Next]_vars => [Atomic!Next]_(Atomic!vars)
    BY StepRefines
  <1>. QED BY <1>1, <1>2, <1>3, <1>4, PTL DEF Spec, AtomicSpec, Atomic!Spec
=============================================================================
