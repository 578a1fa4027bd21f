------------------------------- MODULE TagProofs -------------------------------
(***************************************************************************)
(* Proofs about TagStore, for every tree of tags, any table names, any     *)
(* clients and imports, where nothing else is said.                        *)
(***************************************************************************)
EXTENDS TagStore, TLAPS

LEMMA EmptyJob == <<>> \in Seq(Items) /\ Len(<<>>) = 0
  OBVIOUS

LEMMA OneItem ==
  ASSUME NEW i \in Items
  PROVE  <<i>> \in Seq(Items) /\ Len(<<i>>) = 1 /\ <<i>>[1] = i
  OBVIOUS

LEMMA ItemType ==
  ASSUME ProgressOK, NEW c \in Clients, pc[c] # "idle"
  PROVE  Item(c) \in Items
  BY DEF ProgressOK, Item

LEMMA CreatesType ==
  ASSUME NEW items \in Seq(Items)
  PROVE  Creates(items) \subseteq Tags
  <1>1. \A i \in DOMAIN items : items[i] \in Items
    OBVIOUS
  <1>2. \A i \in Items : i.tag \in Tags
    BY DEF Items
  <1>. QED BY <1>1, <1>2 DEF Creates

LEMMA ReturnTypes ==
  ASSUME ProgressOK, NEW c \in Clients, Return(c), made' \subseteq Tags
  PROVE  ProgressOK'
  BY EmptyJob DEF Return, ProgressOK

(* The end of an item.                                                     *)
LEMMA EndItemTypes ==
  ASSUME ProgressOK, NEW c \in Clients, pc[c] # "idle", NEW ok \in BOOLEAN, EndItem(c, ok)
  PROVE  ProgressOK'
  <1>1. CASE at[c] < Len(job[c])
    <2>1. at[c] \in Nat /\ at[c] >= 1 /\ Len(job[c]) \in Nat
      BY DEF ProgressOK
    <2>2. at[c] + 1 \in 1..Len(job[c])
      BY <1>1, <2>1
    <2>3. at' \in [Clients -> Nat]
      <3>1. at[c] + 1 \in Nat /\ at' = [at EXCEPT ![c] = at[c] + 1]
        BY <1>1, <2>1 DEF EndItem
      <3>. QED BY <3>1 DEF ProgressOK
    <2>4. good' \in [Clients -> BOOLEAN]
      <3>. DEFINE well == good[c] /\ ok
      <3>1. well \in BOOLEAN /\ good' = [good EXCEPT ![c] = well]
        BY <1>1 DEF EndItem, ProgressOK
      <3>. HIDE DEF well
      <3>. QED BY <3>1 DEF ProgressOK
    <2>. QED BY <1>1, <2>2, <2>3, <2>4 DEF EndItem, ProgressOK
  <1>2. CASE ~(at[c] < Len(job[c]))
    <2>1. Creates(job[c]) \subseteq Tags
      BY CreatesType DEF ProgressOK
    <2>2. made' \subseteq Tags
      BY <1>2, <2>1 DEF EndItem, ProgressOK
    <2>. QED BY <1>2, <2>2, ReturnTypes DEF EndItem
  <1>. QED BY <1>1, <1>2

LEMMA BeginTypes ==
  ASSUME ProgressOK, NEW c \in Clients, NEW items \in Seq(Items) \ {<<>>},
         Begin(c, items)
  PROVE  ProgressOK'
  <1>1. 1 \in 1..Len(items)
    OBVIOUS
  <1>. QED BY <1>1 DEF Begin, ProgressOK

LEMMA SeenType ==
  ASSUME TypeOK, NEW c \in Clients
  PROVE  Seen(c) \in [Tags -> Kinds]
  BY DEF TypeOK, TablesOK, MetadataOK, Seen, Downloaded, Kinds

LEMMA EnsureTypes ==
  ASSUME TypeOK, NEW c \in Clients, EnsureMetadata(c)
  PROVE  known' \in [HttpClients -> [Tags -> Kinds]] /\ fresh' \subseteq HttpClients
  BY SeenType DEF TypeOK, MetadataOK, EnsureMetadata, metadata

LEMMA SendTypes ==
  ASSUME TypeOK, NEW c \in HttpClients, pc[c] # "idle", NEW n \in 1..(MaxRetries + 1),
         Send(c, n)
  PROVE  requests' \subseteq Requests /\ sent' \in [Clients -> 0..(MaxRetries + 1)]
  <1>1. c \in Clients /\ MaxRetries \in Nat
    BY TagAssumption
  <1>2. calls[c] \in Nat /\ at[c] \in Nat /\ Item(c) \in Items
    BY <1>1, ItemType DEF TypeOK, ProgressOK, RequestsOK
  <1>3. [by |-> c, call |-> calls[c], at |-> at[c], n |-> n, item |-> Item(c), stage |-> "write"]
        \in Requests
    BY <1>2 DEF Requests
  <1>. QED BY <1>1, <1>3 DEF Send, TypeOK, RequestsOK

LEMMA WriteTypes ==
  ASSUME TypeOK, NEW i \in Items, NEW form \in {"json", "base64"}, Write(i, form)
  PROVE  /\ row' \in [Tags -> Kinds]
         /\ schema' \in [Tags -> {"none", "json", "base64"}]
         /\ iov' = iov /\ data' = data
  <1>1. i.tag \in Tags /\ (i.op \in {"folder", "struct"} => i.op \in Kinds)
    BY DEF Items, Kinds
  <1>. QED BY <1>1 DEF Write, InsertTag, InsertSchema, DeleteSchema, TypeOK, TablesOK


LEMMA AnswerTypes ==
  ASSUME TypeOK, NEW r \in requests, NEW ok \in BOOLEAN, Answer(r, ok)
  PROVE  ProgressOK' /\ requests' \subseteq Requests
  <1>1. r.by \in Clients
    BY TagAssumption DEF TypeOK, RequestsOK, Requests
  <1>2. CASE Awaited(r) /\ EndItem(r.by, ok)
    <2>1. pc[r.by] # "idle"
      BY <1>2 DEF Awaited
    <2>. QED BY <1>1, <1>2, <2>1, EndItemTypes DEF TypeOK, RequestsOK, Answer
  <1>3. CASE UNCHANGED progress
    BY <1>3 DEF Answer, TypeOK, RequestsOK, ProgressOK, progress
  <1>. QED BY <1>2, <1>3 DEF Answer

LEMMA ProceedTypes ==
  ASSUME TypeOK, NEW r \in requests, NEW stage \in {"iov", "data"}, Proceed(r, stage)
  PROVE  ProgressOK' /\ requests' \subseteq Requests
  <1>1. r \in Requests
    BY DEF TypeOK, RequestsOK
  <1>2. [r EXCEPT !.stage = stage] \in Requests
    BY <1>1 DEF Requests
  <1>. QED BY <1>2 DEF Proceed, TypeOK, RequestsOK, ProgressOK, progress

LEMMA CallTypes ==
  ASSUME TypeOK, NEW c \in Clients,
         createTag(c) \/ setTagSchema(c) \/ importTagsSchemas(c)
  PROVE  TypeOK'
  <1>. USE DEF TypeOK
  <1>1. ASSUME NEW items \in Seq(Items) \ {<<>>}, Begin(c, items)
        PROVE  ProgressOK' /\ TablesOK' /\ RequestsOK'
    <2>1. ProgressOK'
      BY <1>1, BeginTypes
    <2>2. TablesOK'
      BY <1>1 DEF Begin, tables, TablesOK
    <2>3. RequestsOK'
      BY <1>1 DEF Begin, RequestsOK
    <2>. QED BY <2>1, <2>2, <2>3
  <1>2. ASSUME NEW i \in Items PROVE <<i>> \in Seq(Items) \ {<<>>}
    BY OneItem, EmptyJob
  <1>3. CASE createTag(c)
    <2>1. PICK p \in Tags, kind \in {"folder", "struct"} :
            EnsureMetadata(c) /\ Begin(c, <<[op |-> kind, tag |-> p]>>)
      BY <1>3 DEF createTag
    <2>2. [op |-> kind, tag |-> p] \in Items
      BY DEF Items, Ops
    <2>3. MetadataOK'
      BY <2>1, EnsureTypes DEF MetadataOK
    <2>. QED BY <1>1, <1>2, <2>1, <2>2, <2>3
  <1>4. CASE setTagSchema(c)
    <2>1. PICK p \in Tags, op \in {"schema", "drop"} :
            Begin(c, <<[op |-> op, tag |-> p]>>) /\ UNCHANGED metadata
      BY <1>4 DEF setTagSchema
    <2>2. [op |-> op, tag |-> p] \in Items
      BY DEF Items, Ops
    <2>3. MetadataOK'
      BY <2>1 DEF MetadataOK, metadata
    <2>. QED BY <1>1, <1>2, <2>1, <2>2, <2>3
  <1>5. CASE importTagsSchemas(c)
    <2>1. MetadataOK'
      BY <1>5 DEF importTagsSchemas, MetadataOK, metadata
    <2>. QED BY <1>1, <1>5, <2>1, TagAssumption DEF importTagsSchemas
  <1>. QED BY <1>3, <1>4, <1>5

LEMMA LookTypes ==
  ASSUME TypeOK, NEW c \in Clients, Look(c)
  PROVE  TypeOK'
  <1>1. MetadataOK'
    BY EnsureTypes DEF Look, MetadataOK
  <1>. QED BY <1>1 DEF Look, TypeOK, TablesOK, ProgressOK, RequestsOK, tables, progress

LEMMA CrashTypes ==
  ASSUME TypeOK, NEW c \in Clients, Crash(c)
  PROVE  TypeOK'
  <1>1. ProgressOK'
    BY ReturnTypes DEF Crash, TypeOK, ProgressOK
  <1>2. MetadataOK'
    BY DEF Crash, TypeOK, MetadataOK, Nothing, Kinds
  <1>. QED BY <1>1, <1>2 DEF Crash, TypeOK, TablesOK, RequestsOK, tables

(* Progress when a call goes on with the same item.                        *)
LEMMA StayTypes ==
  ASSUME ProgressOK, NEW c \in Clients, pc[c] # "idle",
         NEW place \in IF c \in HttpClients THEN {"posted"} ELSE {"write", "tables"},
         pc' = [pc EXCEPT ![c] = place], UNCHANGED <<job, at, good, made>>
  PROVE  ProgressOK'
  BY DEF ProgressOK

LEMMA TablesTypes ==
  ASSUME TypeOK, NEW p \in Tags, CreateTables(p)
  PROVE  TablesOK'
  BY DEF CreateTables, TypeOK, TablesOK

LEMMA DbTypes ==
  ASSUME TypeOK, NEW c \in Clients, DbStep(c)
  PROVE  TypeOK'
  <1>. pc[c] # "idle" /\ Item(c) \in Items /\ Item(c).tag \in Tags
    <2>1. pc[c] # "idle"
      BY DEF DbStep, DbItem, DbWrite, DbTables, DbFails
    <2>2. Item(c) \in Items
      BY <2>1, ItemType DEF TypeOK
    <2>. QED BY <2>1, <2>2 DEF Items
  <1>0. MetadataOK' /\ RequestsOK'
    BY DEF DbStep, DbItem, DbWrite, DbTables, DbFails, TypeOK, MetadataOK, RequestsOK, metadata
  <1>1. CASE DbItem(c)
    <2>1. ProgressOK'
      BY <1>1, StayTypes, EndItemTypes DEF DbItem, TypeOK
    <2>. QED BY <1>0, <1>1, <2>1 DEF DbItem, TypeOK, TablesOK, tables
  <1>2. CASE DbWrite(c)
    <2>1. ProgressOK'
      <3>1. c \notin HttpClients
        BY <1>2 DEF DbWrite, TypeOK, ProgressOK
      <3>. QED BY <1>2, <3>1, StayTypes, EndItemTypes DEF DbWrite, TypeOK
    <2>2. TablesOK'
      BY <1>2, WriteTypes DEF DbWrite, TypeOK, TablesOK
    <2>. QED BY <1>0, <2>1, <2>2 DEF TypeOK
  <1>3. CASE DbTables(c)
    <2>1. ProgressOK'
      BY <1>3, EndItemTypes DEF DbTables, TypeOK
    <2>. QED BY <1>0, <1>3, <2>1, TablesTypes DEF DbTables, TypeOK
  <1>4. CASE DbFails(c)
    <2>1. ProgressOK'
      BY <1>4, EndItemTypes DEF DbFails, TypeOK
    <2>2. TablesOK'
      <3>1. CASE UNCHANGED tables
        BY <3>1 DEF TypeOK, TablesOK, tables
      <3>2. CASE Write(Item(c), "json")
        BY <3>2, WriteTypes DEF TypeOK, TablesOK
      <3>3. CASE CreateTables(Item(c).tag)
        BY <3>3, TablesTypes
      <3>. QED BY <1>4, <3>1, <3>2, <3>3 DEF DbFails
    <2>. QED BY <1>0, <2>1, <2>2 DEF TypeOK
  <1>. QED BY <1>1, <1>2, <1>3, <1>4 DEF DbStep

LEMMA HttpTypes ==
  ASSUME TypeOK, NEW c \in Clients, HttpStep(c)
  PROVE  TypeOK'
  <1>. pc[c] # "idle"
    BY DEF HttpStep, HttpItem, HttpFails, HttpRetries
  <1>0. TablesOK'
    BY DEF HttpStep, HttpItem, HttpFails, HttpRetries, TypeOK, TablesOK, tables
  <1>. MaxRetries \in Nat
    BY TagAssumption
  <1>1. CASE HttpItem(c)
    <2>1. MetadataOK'
      BY <1>1, EnsureTypes DEF HttpItem, MetadataOK
    <2>2. ProgressOK'
      BY <1>1, StayTypes, EndItemTypes DEF HttpItem, TypeOK
    <2>3. requests' \subseteq Requests /\ sent' \in [Clients -> 0..(MaxRetries + 1)]
      <3>1. CASE Send(c, 1)
        <4>1. 1 \in 1..(MaxRetries + 1)
          OBVIOUS
        <4>. QED BY <1>1, <3>1, <4>1, SendTypes DEF HttpItem
      <3>2. CASE UNCHANGED <<sent, requests>>
        BY <3>2 DEF TypeOK, RequestsOK
      <3>. QED BY <1>1, <3>1, <3>2 DEF HttpItem
    <2>. QED BY <1>0, <1>1, <2>1, <2>2, <2>3 DEF HttpItem, TypeOK, RequestsOK
  <1>2. CASE HttpFails(c)
    <2>1. ProgressOK'
      BY <1>2, EndItemTypes DEF HttpFails, TypeOK
    <2>. QED BY <1>0, <1>2, <2>1 DEF HttpFails, TypeOK, MetadataOK, RequestsOK, metadata
  <1>3. CASE HttpRetries(c)
    <2>1. c \in HttpClients /\ sent[c] + 1 \in 1..(MaxRetries + 1)
      <3>1. c \in HttpClients
        BY <1>3 DEF HttpRetries, TypeOK, ProgressOK
      <3>2. sent[c] \in Nat /\ sent[c] <= MaxRetries
        BY <1>3 DEF HttpRetries, TypeOK, RequestsOK
      <3>. QED BY <3>1, <3>2
    <2>2. requests' \subseteq Requests /\ sent' \in [Clients -> 0..(MaxRetries + 1)]
      BY <1>3, <2>1, SendTypes DEF HttpRetries
    <2>. QED BY <1>0, <1>3, <2>2
             DEF HttpRetries, TypeOK, MetadataOK, ProgressOK, RequestsOK, metadata, progress
  <1>. QED BY <1>1, <1>2, <1>3 DEF HttpStep

LEMMA ServerTypes ==
  ASSUME TypeOK, NEW r \in requests, ServerStep(r)
  PROVE  TypeOK'
  <1>. r.item \in Items /\ r.item.tag \in Tags
    BY DEF TypeOK, RequestsOK, Requests, Items
  <1>0. MetadataOK' /\ calls' = calls /\ sent' = sent
    BY DEF ServerStep, ServerWrite, ServerIov, ServerData, ServerFails, TypeOK, MetadataOK, metadata
  <1>1. ProgressOK' /\ requests' \subseteq Requests
    <2>1. CASE \E ok \in BOOLEAN : Answer(r, ok)
      BY <2>1, AnswerTypes
    <2>2. CASE \E stage \in {"iov", "data"} : Proceed(r, stage)
      BY <2>2, ProceedTypes
    <2>3. \/ \E ok \in BOOLEAN : Answer(r, ok)
          \/ \E stage \in {"iov", "data"} : Proceed(r, stage)
      BY DEF ServerStep, ServerWrite, ServerIov, ServerData, ServerFails
    <2>. QED BY <2>1, <2>2, <2>3
  <1>2. TablesOK'
    <2>1. CASE ServerWrite(r)
      BY <2>1, WriteTypes DEF ServerWrite, TypeOK, TablesOK
    <2>2. CASE ServerIov(r)
      BY <2>2 DEF ServerIov, TypeOK, TablesOK
    <2>3. CASE ServerData(r)
      BY <2>3 DEF ServerData, TypeOK, TablesOK
    <2>4. CASE ServerFails(r)
      BY <2>4 DEF ServerFails, TypeOK, TablesOK, tables
    <2>. QED BY <2>1, <2>2, <2>3, <2>4 DEF ServerStep
  <1>. QED BY <1>0, <1>1, <1>2 DEF TypeOK, RequestsOK

LEMMA InitTypes == Init => TypeOK
  <1>. SUFFICES ASSUME Init PROVE TypeOK
    OBVIOUS
  <1>1. TablesOK /\ MetadataOK
    BY DEF Init, TablesOK, MetadataOK, Nothing, Kinds
  <1>2. ProgressOK
    BY EmptyJob DEF Init, ProgressOK
  <1>3. RequestsOK
    BY TagAssumption DEF Init, RequestsOK
  <1>. QED BY <1>1, <1>2, <1>3 DEF TypeOK

LEMMA TypeStep == TypeOK /\ [Next]_vars => TypeOK'
  <1>. SUFFICES ASSUME TypeOK, [Next]_vars PROVE TypeOK'
    OBVIOUS
  <1>1. ASSUME NEW c \in Clients, createTag(c) \/ setTagSchema(c) \/ importTagsSchemas(c)
        PROVE  TypeOK'
    BY <1>1, CallTypes
  <1>2. ASSUME NEW c \in Clients, Look(c) \/ Crash(c)
        PROVE  TypeOK'
    BY <1>2, LookTypes, CrashTypes
  <1>3. ASSUME NEW c \in Clients, DbStep(c) \/ HttpStep(c)
        PROVE  TypeOK'
    BY <1>3, DbTypes, HttpTypes
  <1>4. ASSUME NEW r \in requests, ServerStep(r)
        PROVE  TypeOK'
    BY <1>4, ServerTypes
  <1>5. CASE UNCHANGED vars
    BY <1>5 DEF vars, tables, metadata, progress, TypeOK, TablesOK, MetadataOK, ProgressOK, RequestsOK
  <1>. QED BY <1>1, <1>2, <1>3, <1>4, <1>5 DEF Next

(* Processes, requests and tables stay within their types.                 *)
THEOREM TypeCorrect == Spec => []TypeOK
  BY InitTypes, TypeStep, PTL DEF Spec
-----------------------------------------------------------------------------
(* What calls and requests know of the tables. Rows and tables only grow,  *)
(* so that all of it stays true whatever others do meanwhile.              *)
NoHttpImports == Importers \intersect HttpClients = {}

Creating == {"folder", "struct"}

Rooted(p) == \A q \in Above[p] : row[q] # "absent"

Legal(i) ==
  /\ NoHttpImports /\ i.op \in Creating => Rooted(i.tag)
  /\ i.op \in {"schema", "drop"} => row[i.tag] = "struct"

WholeIn(i, rows, both) ==
  /\ i.op = "folder" => rows[i.tag] = "folder"
  /\ i.op = "struct" => rows[i.tag] = "struct" /\ Table[i.tag] \in both

KnownInv ==
  \A c \in HttpClients, p \in Tags : known[c][p] # "absent" => row[p] = known[c][p]

(* The http adapter has seen the parents of what it is asked to create.    *)
RootedJob(c) ==
  NoHttpImports /\ c \in HttpClients =>
    \A j \in 1..Len(job[c]) : job[c][j].op \in Creating => Rooted(job[c][j].tag)

JobInv == \A c \in Clients : pc[c] # "idle" => RootedJob(c)

CallInv ==
  \A c \in Clients :
    /\ pc[c] \in {"write", "posted"} => Legal(Item(c))
    /\ pc[c] = "tables" => Item(c).op = "struct" /\ row[Item(c).tag] = "struct"

(* While an import has not failed, all it has passed is there.             *)
GoodInv ==
  \A c \in Clients :
    good[c] => \A j \in 1..(at[c] - 1) : WholeIn(job[c][j], row, iov \intersect data)

RequestInv ==
  \A r \in requests :
    /\ Legal(r.item)
    /\ r.stage # "write" => r.item.op = "struct" /\ row[r.item.tag] = "struct"
    /\ r.stage = "data" => Table[r.item.tag] \in iov

(* A request of the call in progress carries an item of this call.         *)
IdentityInv ==
  \A r \in requests :
    /\ r.call <= calls[r.by]
    /\ r.call = calls[r.by] /\ pc[r.by] # "idle" =>
         r.at \in 1..Len(job[r.by]) /\ r.item = job[r.by][r.at]

MadeInv == \A p \in made : Tree!Usable(p)

Inv ==
  /\ TypeOK
  /\ KnownInv
  /\ JobInv
  /\ CallInv
  /\ GoodInv
  /\ RequestInv
  /\ IdentityInv
  /\ MadeInv
  /\ NoHttpImports => NoOrphans
-----------------------------------------------------------------------------
(* A step, as its effects on each client, on the requests and on the       *)
(* tables. F holds the tag whose tables it has created, if any.            *)
InHand == {r.item.tag : r \in {q \in requests : q.stage = "data"}}

EndedWell(c, F) ==
  /\ WholeIn(Item(c), row', iov' \intersect data')
  /\ Item(c).op = "struct" => Item(c).tag \in F \union InHand

SameCall(c) == job'[c] = job[c] /\ calls'[c] = calls[c]

Kept(c) == SameCall(c) /\ pc'[c] = pc[c] /\ at'[c] = at[c] /\ good'[c] = good[c]

Placed(c) ==
  /\ SameCall(c) /\ pc[c] # "idle" /\ at'[c] = at[c] /\ good'[c] = good[c]
  /\ \/ pc'[c] \in {"write", "posted"} /\ Legal(Item(c))
     \/ pc'[c] = "tables" /\ Item(c).op = "struct" /\ row'[Item(c).tag] = "struct"

Advanced(c, F) ==
  /\ SameCall(c) /\ pc[c] # "idle" /\ pc'[c] = "item" /\ at'[c] = at[c] + 1
  /\ good'[c] => good[c] /\ EndedWell(c, F)

Returned(c) == calls'[c] = calls[c] /\ pc'[c] = "idle" /\ at'[c] = 1

Began(c) ==
  /\ calls'[c] = calls[c] + 1 /\ pc'[c] = "item" /\ at'[c] = 1
  /\ NoHttpImports /\ c \in HttpClients =>
       \A j \in 1..Len(job'[c]) : job'[c][j].op \in Creating => Rooted(job'[c][j].tag)

Moved(c, F) == Kept(c) \/ Placed(c) \/ Advanced(c, F) \/ Returned(c) \/ Began(c)

Reported(F) ==
  \/ made' = made
  \/ \E c \in Clients :
       /\ pc[c] # "idle" /\ good[c] /\ at[c] = Len(job[c])
       /\ EndedWell(c, F)
       /\ made' = made \union Creates(job[c])

Sent(q) ==
  /\ pc[q.by] # "idle" /\ SameCall(q.by)
  /\ q.call = calls[q.by] /\ q.at = at[q.by] /\ q.item = Item(q.by)
  /\ q.stage = "write" /\ Legal(q.item)

WentOn(q, r, F) ==
  /\ q = [r EXCEPT !.stage = q.stage]
  /\ q.item.op = "struct" /\ row'[q.item.tag] = "struct"
  /\ q.stage = "data" => Table[q.item.tag] \in iov' /\ q.item.tag \in F

Handled(F) ==
  \A q \in requests' : q \in requests \/ Sent(q) \/ \E r \in requests : WentOn(q, r, F)

Grown ==
  /\ \A p \in Tags : row[p] # "absent" => row'[p] = row[p]
  /\ \A p \in Tags : row'[p] # row[p] => (NoHttpImports => Rooted(p))
  /\ iov \subseteq iov' /\ data \subseteq data'

Backing(F) ==
  /\ \A p, q \in F : p = q
  /\ ~IfNotExists => \A p \in F : Table[p] \notin iov

Effects(F) ==
  /\ Grown
  /\ \A c \in Clients : Moved(c, F)
  /\ Handled(F)
  /\ Reported(F)
-----------------------------------------------------------------------------
(* These effects preserve the invariant.                                   *)
LEMMA LegalStays ==
  ASSUME TypeOK, Grown, NEW i \in Items, Legal(i)
  PROVE  Legal(i)'
  BY TagAssumption DEF Grown, Legal, Rooted, Items, Creating, TypeOK, TablesOK

LEMMA WholeStays ==
  ASSUME TypeOK, Grown, NEW i \in Items, WholeIn(i, row, iov \intersect data)
  PROVE  WholeIn(i, row', iov' \intersect data')
  BY DEF Grown, WholeIn, Items

LEMMA UsableStays ==
  ASSUME TypeOK, Grown, NEW p \in Tags, Tree!Usable(p)
  PROVE  Tree!Usable(p)'
  BY DEF Grown, Tree!Usable

LEMMA JobItem ==
  ASSUME TypeOK, NEW c \in Clients, NEW j \in 1..Len(job[c])
  PROVE  job[c][j] \in Items
  BY DEF TypeOK, ProgressOK

LEMMA JobStep ==
  ASSUME Inv, TypeOK', NEW F, Effects(F)
  PROVE  JobInv'
  <1>. SUFFICES ASSUME NEW c \in Clients, pc'[c] # "idle", NoHttpImports, c \in HttpClients,
                       NEW j \in 1..Len(job'[c]), job'[c][j].op \in Creating,
                       NEW q \in Above[job'[c][j].tag]
                PROVE  row'[q] # "absent"
    BY DEF JobInv, RootedJob, Rooted
  <1>1. job'[c][j].tag \in Tags /\ q \in Tags
    <2>1. job'[c][j] \in Items
      BY DEF TypeOK, ProgressOK
    <2>. QED BY <2>1, TagAssumption DEF Items
  <1>2. row[q] # "absent" => row'[q] # "absent"
    BY <1>1 DEF Effects, Grown
  <1>3. CASE SameCall(c) /\ pc[c] # "idle"
    BY <1>2, <1>3 DEF SameCall, Inv, JobInv, RootedJob, Rooted
  <1>4. CASE Began(c)
    BY <1>2, <1>4 DEF Began, Rooted
  <1>. QED BY <1>3, <1>4 DEF Effects, Moved, Kept, Placed, Advanced, Returned

LEMMA CallStep ==
  ASSUME Inv, NEW F, Effects(F)
  PROVE  CallInv'
  <1>. SUFFICES ASSUME NEW c \in Clients, pc'[c] \in {"write", "posted", "tables"}
                PROVE  /\ pc'[c] \in {"write", "posted"} => Legal(Item(c))'
                       /\ pc'[c] = "tables" =>
                            Item(c)'.op = "struct" /\ row'[Item(c)'.tag] = "struct"
    BY DEF CallInv
  <1>1. Kept(c) \/ Placed(c)
    BY DEF Effects, Moved, Advanced, Returned, Began
  <1>2. pc[c] # "idle" /\ Item(c)' = Item(c)
    BY <1>1 DEF Kept, Placed, SameCall, Item
  <1>3. Item(c) \in Items /\ Item(c).tag \in Tags
    BY <1>2, ItemType DEF Inv, TypeOK, Items
  <1>4. ASSUME Legal(Item(c)) PROVE Legal(Item(c))'
    <2>. DEFINE i == Item(c)
    <2>1. i \in Items /\ i' = i /\ Legal(i)
      BY <1>2, <1>3, <1>4
    <2>. QED BY <2>1, TagAssumption
             DEF Effects, Grown, Legal, Rooted, Items, Creating, Inv, TypeOK, TablesOK
  <1>5. row[Item(c).tag] = "struct" => row'[Item(c).tag] = "struct"
    BY <1>3 DEF Effects, Grown
  <1>6. CASE Kept(c)
    BY <1>2, <1>4, <1>5, <1>6 DEF Kept, Inv, CallInv
  <1>7. CASE Placed(c)
    BY <1>2, <1>4, <1>5, <1>7 DEF Placed
  <1>. QED BY <1>1, <1>6, <1>7

LEMMA GoodStep ==
  ASSUME Inv, NEW F, Effects(F)
  PROVE  GoodInv'
  <1>. SUFFICES ASSUME NEW c \in Clients, good'[c], NEW j \in 1..(at'[c] - 1)
                PROVE  WholeIn(job'[c][j], row', iov' \intersect data')
    BY DEF GoodInv, WholeIn
  <1>1. at[c] \in Nat /\ j \in Nat /\ Len(job[c]) \in Nat
        /\ (pc[c] # "idle" => at[c] <= Len(job[c])) /\ (pc[c] = "idle" => at[c] = 1)
    BY DEF Inv, TypeOK, ProgressOK
  <1>2. at'[c] # 1
    OBVIOUS
  <1>3. CASE job'[c] = job[c] /\ good[c] /\ j \in 1..(at[c] - 1)
    <2>1. j \in 1..Len(job[c])
      BY <1>1, <1>3
    <2>. QED BY <1>3, <2>1, JobItem, WholeStays DEF Inv, GoodInv, Effects
  <1>4. CASE Kept(c) \/ Placed(c)
    BY <1>3, <1>4 DEF Kept, Placed, SameCall
  <1>5. CASE Advanced(c, F)
    <2>1. j \in 1..(at[c] - 1) \/ j = at[c]
      BY <1>1, <1>5 DEF Advanced
    <2>2. CASE j = at[c]
      BY <1>5, <2>2 DEF Advanced, SameCall, EndedWell, Item
    <2>. QED BY <1>3, <1>5, <2>1, <2>2 DEF Advanced, SameCall
  <1>. QED BY <1>2, <1>4, <1>5 DEF Effects, Moved, Returned, Began

LEMMA RequestStep ==
  ASSUME Inv, TypeOK', NEW F, Effects(F)
  PROVE  RequestInv'
  <1>. SUFFICES ASSUME NEW q \in requests'
                PROVE  /\ Legal(q.item)'
                       /\ q.stage # "write" => q.item.op = "struct" /\ row'[q.item.tag] = "struct"
                       /\ q.stage = "data" => Table[q.item.tag] \in iov'
    BY DEF RequestInv
  <1>1. q.item \in Items /\ q.item.tag \in Tags
    BY DEF TypeOK, RequestsOK, Requests, Items
  <1>2. Legal(q.item) => Legal(q.item)'
    BY <1>1, LegalStays DEF Inv, Effects
  <1>3. CASE q \in requests
    BY <1>1, <1>2, <1>3 DEF Inv, RequestInv, Effects, Grown
  <1>4. CASE Sent(q)
    BY <1>2, <1>4 DEF Sent
  <1>5. ASSUME NEW r \in requests, WentOn(q, r, F)
        PROVE  /\ Legal(q.item)
               /\ q.item.op = "struct" /\ row'[q.item.tag] = "struct"
               /\ q.stage = "data" => Table[q.item.tag] \in iov'
    <2>1. q.item = r.item
      BY <1>5 DEF WentOn, Inv, TypeOK, RequestsOK, Requests
    <2>. QED BY <1>5, <2>1 DEF WentOn, Inv, RequestInv
  <1>. QED BY <1>2, <1>3, <1>4, <1>5 DEF Effects, Handled

LEMMA IdentityStep ==
  ASSUME Inv, TypeOK', NEW F, Effects(F)
  PROVE  IdentityInv'
  <1>. SUFFICES ASSUME NEW q \in requests'
                PROVE  /\ q.call <= calls'[q.by]
                       /\ q.call = calls'[q.by] /\ pc'[q.by] # "idle" =>
                            q.at \in 1..Len(job'[q.by]) /\ q.item = job'[q.by][q.at]
    BY DEF IdentityInv
  <1>1. q.by \in Clients /\ q.call \in Nat
    BY TagAssumption DEF TypeOK, RequestsOK, Requests
  <1>2. calls[q.by] \in Nat
    BY <1>1 DEF Inv, TypeOK, RequestsOK
  <1>3. Moved(q.by, F)
    BY <1>1 DEF Effects
  <1>4. ASSUME q.call <= calls[q.by],
               q.call = calls[q.by] /\ pc[q.by] # "idle" =>
                 q.at \in 1..Len(job[q.by]) /\ q.item = job[q.by][q.at]
        PROVE  /\ q.call <= calls'[q.by]
               /\ q.call = calls'[q.by] /\ pc'[q.by] # "idle" =>
                    q.at \in 1..Len(job'[q.by]) /\ q.item = job'[q.by][q.at]
    <2>1. CASE SameCall(q.by) /\ (pc'[q.by] # "idle" => pc[q.by] # "idle")
      BY <1>4, <2>1 DEF SameCall
    <2>2. CASE Returned(q.by)
      BY <1>4, <2>2 DEF Returned
    <2>3. CASE Began(q.by)
      <3>1. calls'[q.by] = calls[q.by] + 1
        BY <2>3 DEF Began
      <3>. QED BY <1>1, <1>2, <1>4, <3>1
    <2>. QED BY <1>3, <2>1, <2>2, <2>3 DEF Moved, Kept, Placed, Advanced
  <1>5. CASE q \in requests
    BY <1>4, <1>5 DEF Inv, IdentityInv
  <1>6. CASE Sent(q)
    <2>1. at[q.by] \in 1..Len(job[q.by])
      BY <1>1, <1>6 DEF Sent, Inv, TypeOK, ProgressOK
    <2>. QED BY <1>2, <1>6, <2>1 DEF Sent, SameCall, Item
  <1>7. ASSUME NEW r \in requests, WentOn(q, r, F)
        PROVE  q.by = r.by /\ q.call = r.call /\ q.at = r.at /\ q.item = r.item
    BY <1>7 DEF WentOn, Inv, TypeOK, RequestsOK, Requests
  <1>8. CASE \E r \in requests : WentOn(q, r, F)
    BY <1>4, <1>7, <1>8 DEF Inv, IdentityInv
  <1>. QED BY <1>5, <1>6, <1>8 DEF Effects, Handled

(* What is reported has been passed or is the item that ends.              *)
LEMMA CreatesWhole ==
  ASSUME Inv, NEW F, Effects(F), NEW c \in Clients, pc[c] # "idle", good[c],
         at[c] = Len(job[c]), EndedWell(c, F), NEW p \in Creates(job[c])
  PROVE  \E i \in Items :
           /\ i.tag = p /\ i.op \in Creating
           /\ WholeIn(i, row', iov' \intersect data')
           /\ i.op = "struct" =>
                \/ p \in F \union InHand
                \/ \E j \in 1..(at[c] - 1) : job[c][j].op = "struct" /\ job[c][j].tag = p
  <1>1. PICK j \in 1..Len(job[c]) : job[c][j].op \in Creating /\ job[c][j].tag = p
    BY DEF Creates, Creating, Inv, TypeOK, ProgressOK
  <1>2. job[c][j] \in Items
    BY JobItem DEF Inv
  <1>3. CASE j = at[c]
    BY <1>1, <1>2, <1>3 DEF EndedWell, Item
  <1>4. CASE j # at[c]
    <2>1. j \in 1..(at[c] - 1)
      BY <1>4 DEF Inv, TypeOK, ProgressOK
    <2>2. WholeIn(job[c][j], row', iov' \intersect data')
      BY <1>2, <2>1, WholeStays DEF Inv, GoodInv, Effects
    <2>. QED BY <1>1, <1>2, <2>1, <2>2
  <1>. QED BY <1>3, <1>4

LEMMA MadeStep ==
  ASSUME Inv, NEW F, Effects(F)
  PROVE  MadeInv' /\ made \subseteq made'
  <1>1. \A p \in made : Tree!Usable(p)'
    BY UsableStays DEF Inv, MadeInv, TypeOK, ProgressOK, Effects
  <1>2. CASE made' = made
    BY <1>1, <1>2 DEF MadeInv
  <1>3. ASSUME NEW c \in Clients, pc[c] # "idle", good[c], at[c] = Len(job[c]),
               EndedWell(c, F), made' = made \union Creates(job[c])
        PROVE  MadeInv' /\ made \subseteq made'
    <2>1. ASSUME NEW p \in Creates(job[c]) PROVE Tree!Usable(p)'
      BY <1>3, <2>1, CreatesWhole DEF Creating, WholeIn, Tree!Usable
    <2>. QED BY <1>1, <1>3, <2>1 DEF MadeInv
  <1>. QED BY <1>2, <1>3 DEF Effects, Reported

LEMMA OrphanStep ==
  ASSUME Inv, NEW F, Effects(F)
  PROVE  (NoHttpImports => NoOrphans)'
  <1>. SUFFICES ASSUME NoHttpImports, NEW p \in Tags, row'[p] # "absent", NEW q \in Above[p]
                PROVE  row'[q] # "absent"
    BY DEF NoOrphans, NoHttpImports
  <1>1. row[q] # "absent"
    BY DEF Effects, Grown, Inv, NoOrphans, Rooted
  <1>. QED BY <1>1, TagAssumption DEF Effects, Grown

LEMMA EffectsInv ==
  ASSUME Inv, TypeOK', KnownInv', NEW F, Effects(F)
  PROVE  Inv' /\ made \subseteq made'
  BY JobStep, CallStep, GoodStep, RequestStep, IdentityStep, MadeStep, OrphanStep DEF Inv
-----------------------------------------------------------------------------
(* Steps and their effects. The end of an item first.                      *)
LEMMA EndItemEffects ==
  ASSUME TypeOK, NEW c \in Clients, pc[c] # "idle", NEW F, NEW ok \in BOOLEAN,
         EndItem(c, ok), ok => EndedWell(c, F), UNCHANGED calls
  PROVE  (\A d \in Clients : Moved(d, F)) /\ Reported(F)
  <1>1. CASE at[c] < Len(job[c])
    <2>1. /\ pc' = [pc EXCEPT ![c] = "item"] /\ at' = [at EXCEPT ![c] = at[c] + 1]
          /\ good' = [good EXCEPT ![c] = good[c] /\ ok]
          /\ job' = job /\ made' = made
      BY <1>1 DEF EndItem
    <2>2. good'[c] => good[c] /\ ok
      BY <2>1 DEF TypeOK, ProgressOK
    <2>3. Advanced(c, F)
      BY <2>1, <2>2 DEF Advanced, SameCall, TypeOK, ProgressOK
    <2>4. \A d \in Clients \ {c} : Kept(d)
      BY <2>1 DEF Kept, SameCall, TypeOK, ProgressOK
    <2>. QED BY <2>1, <2>3, <2>4 DEF Moved, Reported
  <1>2. CASE ~(at[c] < Len(job[c]))
    <2>1. Return(c) /\ made' = IF good[c] /\ ok THEN made \union Creates(job[c]) ELSE made
      BY <1>2 DEF EndItem
    <2>2. at[c] = Len(job[c])
      BY <1>2 DEF TypeOK, ProgressOK
    <2>3. Returned(c)
      BY <2>1 DEF Return, Returned, TypeOK, ProgressOK
    <2>4. \A d \in Clients \ {c} : Kept(d)
      BY <2>1 DEF Return, Kept, SameCall, TypeOK, ProgressOK
    <2>. QED BY <2>1, <2>2, <2>3, <2>4 DEF Moved, Reported
  <1>. QED BY <1>1, <1>2

LEMMA StillEffects ==
  ASSUME UNCHANGED progress, UNCHANGED calls, NEW F
  PROVE  (\A d \in Clients : Moved(d, F)) /\ Reported(F)
  BY DEF progress, Moved, Kept, SameCall, Reported

LEMMA PlacedEffects ==
  ASSUME TypeOK, NEW c \in Clients, pc[c] # "idle", NEW F, NEW place,
         pc' = [pc EXCEPT ![c] = place], UNCHANGED <<job, at, good, made, calls>>,
         \/ place \in {"write", "posted"} /\ Legal(Item(c))
         \/ place = "tables" /\ Item(c).op = "struct" /\ row'[Item(c).tag] = "struct"
  PROVE  (\A d \in Clients : Moved(d, F)) /\ Reported(F)
  <1>1. Placed(c)
    BY DEF Placed, SameCall, TypeOK, ProgressOK
  <1>2. \A d \in Clients \ {c} : Kept(d)
    BY DEF Kept, SameCall, TypeOK, ProgressOK
  <1>. QED BY <1>1, <1>2 DEF Moved, Reported

LEMMA SteadyTables == ASSUME UNCHANGED tables PROVE Grown
  BY DEF tables, Grown

LEMMA SteadyRequests == ASSUME UNCHANGED requests, NEW F PROVE Handled(F)
  BY DEF Handled

LEMMA SeenTrue ==
  ASSUME Inv, NEW c \in Clients, NEW p \in Tags, Seen(c)[p] # "absent"
  PROVE  row[p] = Seen(c)[p]
  BY DEF Seen, Downloaded, Inv, KnownInv, TypeOK, MetadataOK

LEMMA WriteGrown ==
  ASSUME Inv, NEW i \in Items, NEW form, Legal(i), Write(i, form)
  PROVE  Grown /\ (i.op \in Creating => row'[i.tag] = i.op)
  <1>1. i.tag \in Tags
    BY DEF Items
  <1>2. CASE i.op \in Creating /\ InsertTag(i) /\ UNCHANGED <<iov, data>>
    BY <1>1, <1>2 DEF InsertTag, Grown, Legal, Inv, TypeOK, TablesOK
  <1>3. CASE i.op \notin Creating /\ UNCHANGED <<row, iov, data>>
    BY <1>3 DEF Grown
  <1>. QED BY <1>2, <1>3 DEF Write, Creating

LEMMA TablesGrown ==
  ASSUME NEW p \in Tags, CreateTables(p)
  PROVE  Grown /\ Table[p] \in iov' \intersect data'
  BY DEF CreateTables, Grown

LEMMA AnswerEffects ==
  ASSUME Inv, NEW r \in requests, NEW F, NEW ok \in BOOLEAN, Answer(r, ok), UNCHANGED calls,
         ok => /\ WholeIn(r.item, row', iov' \intersect data')
               /\ r.item.op = "struct" => r.item.tag \in F \union InHand
  PROVE  (\A d \in Clients : Moved(d, F)) /\ Reported(F) /\ Handled(F)
  <1>1. r.by \in Clients
    BY TagAssumption DEF Inv, TypeOK, RequestsOK, Requests
  <1>2. CASE Awaited(r) /\ EndItem(r.by, ok)
    <2>1. pc[r.by] # "idle" /\ r.item = Item(r.by)
      BY <1>2 DEF Awaited, Inv, IdentityInv, Item
    <2>. QED BY <1>1, <1>2, <2>1, EndItemEffects DEF EndedWell, Inv, Answer, Handled
  <1>3. CASE UNCHANGED progress
    BY <1>3, StillEffects DEF Answer, Handled
  <1>. QED BY <1>2, <1>3 DEF Answer

LEMMA ProceedEffects ==
  ASSUME NEW r \in requests, NEW F, NEW stage \in {"iov", "data"}, Proceed(r, stage),
         Inv, UNCHANGED calls, r.item.op = "struct", row'[r.item.tag] = "struct",
         stage = "data" => Table[r.item.tag] \in iov' /\ r.item.tag \in F
  PROVE  (\A d \in Clients : Moved(d, F)) /\ Reported(F) /\ Handled(F)
  <1>1. r \in Requests
    BY DEF Inv, TypeOK, RequestsOK
  <1>2. WentOn([r EXCEPT !.stage = stage], r, F)
    BY <1>1 DEF WentOn, Requests
  <1>3. Handled(F)
    BY <1>2 DEF Proceed, Handled
  <1>. QED BY <1>3, StillEffects DEF Proceed

NoTags == {}

LEMMA NoBacking == Backing(NoTags)
  BY DEF Backing, NoTags

LEMMA BeginEffects ==
  ASSUME Inv, NEW c \in Clients,
         createTag(c) \/ setTagSchema(c) \/ importTagsSchemas(c)
  PROVE  Effects(NoTags)
  <1>1. ASSUME NEW items, Begin(c, items),
               NoHttpImports /\ c \in HttpClients =>
                 \A j \in 1..Len(items) : items[j].op \in Creating => Rooted(items[j].tag)
        PROVE  Effects(NoTags)
    <2>1. Began(c)
      BY <1>1 DEF Begin, Began, Inv, TypeOK, ProgressOK, RequestsOK
    <2>2. \A d \in Clients \ {c} : Kept(d)
      BY <1>1 DEF Begin, Kept, SameCall, Inv, TypeOK, ProgressOK, RequestsOK
    <2>. QED BY <1>1, <2>1, <2>2, SteadyTables, SteadyRequests DEF Begin, Effects, Moved, Reported
  <1>2. CASE createTag(c)
    <2>1. PICK p \in Tags, kind \in {"folder", "struct"} :
            Creatable(c, p) /\ Begin(c, <<[op |-> kind, tag |-> p]>>)
      BY <1>2 DEF createTag
    <2>2. Rooted(p)
      BY <2>1, SeenTrue, TagAssumption DEF Creatable, Rooted
    <2>. QED BY <1>1, <2>1, <2>2
  <1>3. CASE setTagSchema(c)
    <2>1. PICK p \in Tags, op \in {"schema", "drop"} : Begin(c, <<[op |-> op, tag |-> p]>>)
      BY <1>3 DEF setTagSchema
    <2>. QED BY <1>1, <2>1 DEF Creating
  <1>4. CASE importTagsSchemas(c)
    BY <1>1, <1>4 DEF importTagsSchemas, NoHttpImports
  <1>. QED BY <1>2, <1>3, <1>4

LEMMA LookCrashEffects ==
  ASSUME Inv, NEW c \in Clients, Look(c) \/ Crash(c)
  PROVE  Effects(NoTags)
  <1>1. CASE Look(c)
    BY <1>1, StillEffects, SteadyTables, SteadyRequests DEF Look, Effects
  <1>2. CASE Crash(c)
    <2>1. Returned(c)
      BY <1>2 DEF Crash, Return, Returned, Inv, TypeOK, ProgressOK
    <2>2. \A d \in Clients \ {c} : Kept(d)
      BY <1>2 DEF Crash, Return, Kept, SameCall, Inv, TypeOK, ProgressOK
    <2>. QED BY <1>2, <2>1, <2>2, SteadyTables, SteadyRequests DEF Crash, Effects, Moved, Reported
  <1>. QED BY <1>1, <1>2

LEMMA DbEffects ==
  ASSUME Inv, NEW c \in Clients, DbStep(c), ~DbTables(c)
  PROVE  Effects(NoTags)
  <1>. pc[c] # "idle" /\ Item(c) \in Items /\ Item(c).tag \in Tags
       /\ UNCHANGED <<calls, requests>>
    <2>1. pc[c] # "idle" /\ UNCHANGED <<calls, requests>>
      BY DEF DbStep, DbItem, DbWrite, DbTables, DbFails
    <2>. QED BY <2>1, ItemType DEF Inv, TypeOK, Items
  <1>1. CASE DbItem(c)
    <2>1. DbPermits(c, Item(c)) => Legal(Item(c))
      BY SeenTrue, TagAssumption DEF DbPermits, IsStruct, Legal, Rooted, Creating
    <2>2. (\A d \in Clients : Moved(d, NoTags)) /\ Reported(NoTags)
      BY <1>1, <2>1, PlacedEffects, EndItemEffects DEF DbItem, Inv
    <2>. QED BY <1>1, <2>2, SteadyTables, SteadyRequests DEF DbItem, Effects
  <1>2. CASE DbWrite(c)
    <2>1. Legal(Item(c)) /\ Write(Item(c), "json")
      BY <1>2 DEF DbWrite, Inv, CallInv
    <2>2. Grown /\ (Item(c).op \in Creating => row'[Item(c).tag] = Item(c).op)
      BY <2>1, WriteGrown
    <2>3. CASE Item(c).op = "struct"
      BY <1>2, <2>2, <2>3, PlacedEffects, SteadyRequests DEF DbWrite, Effects, Creating, Inv
    <2>4. CASE Item(c).op # "struct"
      <3>1. EndedWell(c, NoTags)
        BY <2>2, <2>4 DEF EndedWell, WholeIn, Creating
      <3>. QED BY <1>2, <2>2, <2>4, <3>1, EndItemEffects, SteadyRequests DEF DbWrite, Effects, Inv
    <2>. QED BY <2>3, <2>4
  <1>3. CASE DbFails(c)
    <2>1. Grown
      <3>1. CASE UNCHANGED tables
        BY <3>1, SteadyTables
      <3>2. CASE pc[c] = "write" /\ Write(Item(c), "json")
        BY <3>2, WriteGrown DEF Inv, CallInv
      <3>3. CASE CreateTables(Item(c).tag)
        BY <3>3, TablesGrown
      <3>. QED BY <1>3, <3>1, <3>2, <3>3 DEF DbFails
    <2>2. (\A d \in Clients : Moved(d, NoTags)) /\ Reported(NoTags)
      BY <1>3, EndItemEffects DEF DbFails, Inv
    <2>. QED BY <2>1, <2>2, SteadyRequests DEF Effects
  <1>. QED BY <1>1, <1>2, <1>3 DEF DbStep

LEMMA DbTablesEffects ==
  ASSUME Inv, NEW c \in Clients, DbTables(c)
  PROVE  Effects({Item(c).tag}) /\ Backing({Item(c).tag})
  <1>1. Item(c).tag \in Tags /\ pc[c] = "tables"
    BY ItemType DEF DbTables, Inv, TypeOK, Items
  <1>2. Grown /\ Table[Item(c).tag] \in iov' \intersect data'
    BY <1>1, TablesGrown DEF DbTables
  <1>3. Item(c).op = "struct" /\ row'[Item(c).tag] = "struct"
    BY <1>1, <1>2 DEF Inv, CallInv, Grown
  <1>4. EndedWell(c, {Item(c).tag})
    BY <1>2, <1>3 DEF EndedWell, WholeIn
  <1>5. (\A d \in Clients : Moved(d, {Item(c).tag})) /\ Reported({Item(c).tag})
    BY <1>1, <1>4, EndItemEffects DEF DbTables, Inv
  <1>6. Effects({Item(c).tag})
    BY <1>2, <1>5, SteadyRequests DEF DbTables, Effects
  <1>. QED BY <1>6 DEF DbTables, CreateTables, Backing

LEMMA HttpEffects ==
  ASSUME Inv, NEW c \in Clients, HttpStep(c)
  PROVE  Effects(NoTags)
  <1>1. ASSUME NEW n, Send(c, n), pc[c] # "idle", Legal(Item(c)), SameCall(c)
        PROVE  Handled(NoTags)
    <2>. DEFINE new == [by |-> c, call |-> calls[c], at |-> at[c], n |-> n, item |-> Item(c),
                        stage |-> "write"]
    <2>1. Sent(new)
      BY <1>1 DEF Sent
    <2>2. requests' = requests \union {new}
      BY <1>1 DEF Send
    <2>. QED BY <2>1, <2>2 DEF Handled
  <1>2. Grown /\ UNCHANGED calls /\ pc[c] # "idle"
    BY SteadyTables DEF HttpStep, HttpItem, HttpFails, HttpRetries
  <1>3. CASE HttpItem(c)
    <2>1. Item(c) \in Items /\ Item(c).tag \in Tags
      BY <1>2, ItemType DEF Inv, TypeOK, Items
    <2>2. HttpPermits(c, Item(c)) => Legal(Item(c))
      <3>1. NoHttpImports /\ Item(c).op \in Creating => Rooted(Item(c).tag)
        BY <1>2, <1>3 DEF HttpItem, Item, Inv, JobInv, RootedJob, TypeOK, ProgressOK
      <3>. QED BY <2>1, <3>1, SeenTrue DEF HttpPermits, IsStruct, Legal
    <2>3. CASE HttpPermits(c, Item(c))
      <3>1. SameCall(c)
        BY <1>3, <2>3 DEF HttpItem, SameCall
      <3>2. Handled(NoTags)
        BY <1>1, <1>2, <1>3, <2>2, <2>3, <3>1 DEF HttpItem
      <3>3. (\A d \in Clients : Moved(d, NoTags)) /\ Reported(NoTags)
        BY <1>2, <1>3, <2>2, <2>3, PlacedEffects DEF HttpItem, Inv
      <3>. QED BY <1>2, <3>2, <3>3 DEF Effects
    <2>4. CASE ~HttpPermits(c, Item(c))
      BY <1>2, <1>3, <2>4, EndItemEffects, SteadyRequests DEF HttpItem, Effects, Inv
    <2>. QED BY <2>3, <2>4
  <1>4. CASE HttpFails(c)
    BY <1>2, <1>4, EndItemEffects, SteadyRequests DEF HttpFails, Effects, Inv
  <1>5. CASE HttpRetries(c)
    <2>1. Legal(Item(c)) /\ SameCall(c)
      BY <1>5 DEF HttpRetries, Inv, CallInv, SameCall, progress
    <2>. QED BY <1>1, <1>2, <1>5, <2>1, StillEffects DEF HttpRetries, Effects
  <1>. QED BY <1>3, <1>4, <1>5 DEF HttpStep

LEMMA ServerEffects ==
  ASSUME Inv, NEW r \in requests, ServerWrite(r) \/ ServerData(r) \/ ServerFails(r)
  PROVE  Effects(NoTags)
  <1>. /\ r.item \in Items /\ r.item.tag \in Tags /\ r.item.op \in Ops
       /\ Legal(r.item) /\ r \in Requests
    BY DEF Inv, RequestInv, TypeOK, RequestsOK, Requests, Items
  <1>1. CASE ServerWrite(r)
    <2>1. Grown /\ (r.item.op \in Creating => row'[r.item.tag] = r.item.op)
      BY <1>1, WriteGrown DEF ServerWrite
    <2>2. CASE r.item.op = "struct"
      BY <1>1, <2>1, <2>2, ProceedEffects DEF ServerWrite, Effects, Creating
    <2>3. CASE r.item.op # "struct"
      <3>1. WholeIn(r.item, row', iov' \intersect data')
        BY <2>1, <2>3 DEF WholeIn, Creating
      <3>. QED BY <1>1, <2>1, <2>3, <3>1, AnswerEffects DEF ServerWrite, Effects
    <2>. QED BY <2>2, <2>3
  <1>2. CASE ServerData(r)
    <2>1. Grown
      BY <1>2 DEF ServerData, Grown
    <2>2. /\ WholeIn(r.item, row', iov' \intersect data')
          /\ r.item.tag \in InHand
      BY <1>2 DEF ServerData, WholeIn, Inv, RequestInv, InHand
    <2>. QED BY <1>2, <2>1, <2>2, AnswerEffects DEF ServerData, Effects
  <1>3. CASE ServerFails(r)
    BY <1>3, SteadyTables, AnswerEffects DEF ServerFails, Effects
  <1>. QED BY <1>1, <1>2, <1>3

LEMMA ServerIovEffects ==
  ASSUME Inv, NEW r \in requests, ServerIov(r)
  PROVE  Effects({r.item.tag}) /\ Backing({r.item.tag})
  <1>1. r.item.tag \in Tags
    BY DEF Inv, TypeOK, RequestsOK, Requests, Items
  <1>2. Grown
    BY DEF ServerIov, Grown
  <1>3. r.item.op = "struct" /\ row'[r.item.tag] = "struct" /\ Table[r.item.tag] \in iov'
    BY DEF ServerIov, Inv, RequestInv
  <1>4. Effects({r.item.tag})
    BY <1>2, <1>3, ProceedEffects DEF ServerIov, Effects
  <1>. QED BY <1>4 DEF ServerIov, Backing

LEMMA KnownStep ==
  ASSUME Inv, TypeOK', Grown, [Next]_vars
  PROVE  KnownInv'
  <1>. SUFFICES ASSUME NEW c \in HttpClients, NEW p \in Tags, known'[c][p] # "absent"
                PROVE  row'[p] = known'[c][p]
    BY DEF KnownInv
  <1>1. c \in Clients
    BY TagAssumption
  <1>2. CASE known'[c] = known[c]
    BY <1>2 DEF Inv, KnownInv, Grown
  <1>3. CASE known'[c] = Seen(c)
    BY <1>1, <1>3, SeenTrue DEF Grown
  <1>4. known'[c] = known[c] \/ known'[c] = Seen(c) \/ known'[c] = Nothing
    <2>1. CASE UNCHANGED metadata
      BY <2>1 DEF metadata
    <2>2. CASE \E d \in Clients : EnsureMetadata(d)
      BY <2>2 DEF EnsureMetadata, metadata, Inv, TypeOK, MetadataOK
    <2>3. CASE \E d \in Clients : Crash(d)
      BY <2>3 DEF Crash, Inv, TypeOK, MetadataOK
    <2>4. \/ UNCHANGED metadata
          \/ \E d \in Clients : EnsureMetadata(d) \/ Crash(d)
      BY DEF Next, vars, createTag, setTagSchema, importTagsSchemas, Look,
             DbStep, DbItem, DbWrite, DbTables, DbFails, HttpStep, HttpItem, HttpFails, HttpRetries,
             ServerStep, ServerWrite, ServerIov, ServerData, ServerFails
    <2>. QED BY <2>1, <2>2, <2>3, <2>4
  <1>. QED BY <1>2, <1>3, <1>4 DEF Nothing

LEMMA NextEffects ==
  ASSUME Inv, [Next]_vars
  PROVE  \E F : Effects(F) /\ Backing(F)
  <1>1. ASSUME NEW c \in Clients, createTag(c) \/ setTagSchema(c) \/ importTagsSchemas(c)
        PROVE  Effects(NoTags)
    BY <1>1, BeginEffects
  <1>2. ASSUME NEW c \in Clients, Look(c) \/ Crash(c)
        PROVE  Effects(NoTags)
    BY <1>2, LookCrashEffects
  <1>3. ASSUME NEW c \in Clients, DbStep(c)
        PROVE  Effects(NoTags) \/ (Effects({Item(c).tag}) /\ Backing({Item(c).tag}))
    BY <1>3, DbEffects, DbTablesEffects
  <1>4. ASSUME NEW c \in Clients, HttpStep(c)
        PROVE  Effects(NoTags)
    BY <1>4, HttpEffects
  <1>5. ASSUME NEW r \in requests, ServerStep(r)
        PROVE  Effects(NoTags) \/ (Effects({r.item.tag}) /\ Backing({r.item.tag}))
    BY <1>5, ServerEffects, ServerIovEffects DEF ServerStep
  <1>6. CASE UNCHANGED vars
    <2>1. UNCHANGED tables /\ UNCHANGED progress /\ UNCHANGED calls /\ UNCHANGED requests
      BY <1>6 DEF vars
    <2>. QED BY <2>1, StillEffects, SteadyTables, SteadyRequests, NoBacking DEF Effects
  <1>. QED BY <1>1, <1>2, <1>3, <1>4, <1>5, <1>6, NoBacking DEF Next

LEMMA InitInv == Init => Inv
  <1>. SUFFICES ASSUME Init PROVE Inv
    OBVIOUS
  <1>1. \A c \in Clients : pc[c] = "idle" /\ at[c] = 1
    BY DEF Init
  <1>2. KnownInv
    BY DEF Init, KnownInv, Nothing
  <1>3. GoodInv
    BY <1>1 DEF GoodInv
  <1>4. JobInv /\ CallInv
    BY <1>1 DEF JobInv, CallInv
  <1>5. RequestInv /\ IdentityInv /\ MadeInv /\ NoOrphans
    BY DEF Init, RequestInv, IdentityInv, MadeInv, NoOrphans, Nothing
  <1>. QED BY <1>2, <1>3, <1>4, <1>5, InitTypes DEF Inv

LEMMA StepInv ==
  ASSUME Inv, [Next]_vars
  PROVE  Inv' /\ made \subseteq made'
  <1>1. TypeOK'
    BY TypeStep DEF Inv
  <1>2. PICK F : Effects(F)
    BY NextEffects
  <1>3. KnownInv'
    BY <1>1, <1>2, KnownStep DEF Effects
  <1>. QED BY <1>1, <1>2, <1>3, EffectsInv

LEMMA Invariance == Spec => []Inv
  <1>1. Inv /\ [Next]_vars => Inv'
    BY StepInv
  <1>. QED BY <1>1, InitInv, PTL DEF Spec

(* No client puts a tag where its parent is missing, with whatever stale   *)
(* metadata, as long as imports go through the db adapter, which checks    *)
(* parents, and not through the http adapter, which does not.              *)
THEOREM NoOrphansHolds == ASSUME NoHttpImports PROVE Spec => []NoOrphans
  <1>1. Inv => NoOrphans
    BY NoHttpImports DEF Inv
  <1>. QED BY <1>1, Invariance, PTL
-----------------------------------------------------------------------------
(* Structs that have their tables to themselves: those that are reported,  *)
(* those whose request has made the first table, and those that a call has *)
(* passed without failure.                                                 *)
Claimed(p) ==
  \/ p \in made /\ row[p] = "struct"
  \/ p \in InHand
  \/ \E c \in Clients :
       good[c] /\ \E j \in 1..(at[c] - 1) : job[c][j].op = "struct" /\ job[c][j].tag = p

OwnInv == \A p, q \in Tags : Claimed(p) /\ Claimed(q) /\ p # q => Table[p] # Table[q]

LEMMA ClaimedHas ==
  ASSUME Inv, NEW p \in Tags, Claimed(p)
  PROVE  Table[p] \in iov
  <1>1. CASE p \in made /\ row[p] = "struct"
    BY <1>1 DEF Inv, MadeInv, Tree!Usable
  <1>2. CASE p \in InHand
    BY <1>2 DEF Inv, RequestInv, InHand
  <1>3. CASE \E c \in Clients :
          good[c] /\ \E j \in 1..(at[c] - 1) : job[c][j].op = "struct" /\ job[c][j].tag = p
    BY <1>3 DEF Inv, GoodInv, WholeIn
  <1>. QED BY <1>1, <1>2, <1>3 DEF Claimed

LEMMA ClaimStep ==
  ASSUME Inv, Inv', NEW F, Effects(F), NEW p \in Tags, Claimed(p)'
  PROVE  Claimed(p) \/ p \in F
  <1>1. CASE p \in made /\ row'[p] = "struct"
    <2>1. row[p] # "absent"
      BY <1>1 DEF Inv, MadeInv, Tree!Usable
    <2>. QED BY <1>1, <2>1 DEF Effects, Grown, Claimed
  <1>2. CASE p \notin made /\ p \in made' /\ row'[p] = "struct"
    <2>1. PICK c \in Clients :
            /\ pc[c] # "idle" /\ good[c] /\ at[c] = Len(job[c])
            /\ EndedWell(c, F) /\ p \in Creates(job[c])
      BY <1>2 DEF Effects, Reported
    <2>. QED BY <1>2, <2>1, CreatesWhole DEF WholeIn, Creating, Claimed
  <1>3. CASE p \in InHand'
    <2>1. PICK q \in requests' : q.stage = "data" /\ q.item.tag = p
      BY <1>3 DEF InHand
    <2>. QED BY <2>1 DEF Effects, Handled, Sent, WentOn, Claimed, InHand
  <1>4. ASSUME NEW c \in Clients, good'[c], NEW j \in 1..(at'[c] - 1),
               job'[c][j].op = "struct", job'[c][j].tag = p
        PROVE  Claimed(p) \/ p \in F
    <2>1. at[c] \in Nat /\ at'[c] # 1
      BY <1>4 DEF Inv, TypeOK, ProgressOK
    <2>2. CASE Kept(c) \/ Placed(c)
      BY <1>4, <2>2 DEF Kept, Placed, SameCall, Claimed
    <2>3. CASE Advanced(c, F)
      <3>1. j \in 1..(at[c] - 1) \/ j = at[c]
        BY <1>4, <2>1, <2>3 DEF Advanced
      <3>2. CASE j = at[c]
        BY <1>4, <2>3, <3>2 DEF Advanced, SameCall, EndedWell, Item, Claimed
      <3>. QED BY <1>4, <2>3, <3>1, <3>2 DEF Advanced, SameCall, Claimed
    <2>. QED BY <2>1, <2>2, <2>3 DEF Effects, Moved, Returned, Began
  <1>. QED BY <1>1, <1>2, <1>3, <1>4 DEF Claimed

LEMMA OwnStep ==
  ASSUME ~IfNotExists, Inv, Inv', OwnInv, [Next]_vars
  PROVE  OwnInv'
  <1>1. PICK F : Effects(F) /\ Backing(F)
    BY NextEffects
  <1>2. ASSUME NEW p \in Tags, NEW q \in Tags, Claimed(p)', Claimed(q)', p # q
        PROVE  Table[p] # Table[q]
    <2>1. (Claimed(p) \/ p \in F) /\ (Claimed(q) \/ q \in F)
      BY <1>1, <1>2, ClaimStep
    <2>2. CASE Claimed(p) /\ Claimed(q)
      BY <1>2, <2>2 DEF OwnInv
    <2>3. CASE p \in F \/ q \in F
      BY <1>1, <1>2, <2>1, <2>3, ClaimedHas DEF Backing
    <2>. QED BY <2>1, <2>2, <2>3
  <1>. QED BY <1>2 DEF OwnInv

(* Two structs that were reported as created do not share tables, where    *)
(* the recipes of the REST service do not say IF NOT EXISTS.               *)
THEOREM OwnTablesHolds == ASSUME ~IfNotExists PROVE Spec => []OwnTables
  <1>1. Init => OwnInv
    <2>1. Init => \A p \in Tags : ~Claimed(p)
      <3>1. Init => made = {} /\ InHand = {} /\ \A c \in Clients : at[c] - 1 = 0
        BY DEF Init, InHand
      <3>. QED BY <3>1 DEF Claimed
    <2>. QED BY <2>1 DEF OwnInv
  <1>2. Inv /\ Inv' /\ OwnInv /\ [Next]_vars => OwnInv'
    BY OwnStep
  <1>3. Inv /\ OwnInv => OwnTables
    BY DEF OwnInv, OwnTables, Claimed, Inv, TypeOK, ProgressOK
  <1>. QED BY <1>1, <1>2, <1>3, Invariance, PTL DEF Spec
-----------------------------------------------------------------------------
LEMMA WriteSimulates ==
  ASSUME Inv, NoHttpImports, NEW i \in Items, NEW form \in {"json", "base64"},
         Legal(i), Write(i, form)
  PROVE  Tree!Change
  <1>1. i.tag \in Tags
    BY DEF Items
  <1>2. CASE i.op \in Creating /\ InsertTag(i) /\ UNCHANGED <<iov, data, schema>>
    <2>1. Tree!Grow(i.tag, i.op)
      BY <1>2 DEF InsertTag, Tree!Grow, Legal, Rooted
    <2>. QED BY <1>1, <1>2, <2>1 DEF Tree!Change, Creating
  <1>3. CASE i.op = "schema" /\ InsertSchema(i, form) /\ UNCHANGED <<row, iov, data>>
    <2>1. Tree!SetSchema(i.tag, form)
      BY <1>3 DEF InsertSchema, Tree!SetSchema, Legal
    <2>. QED BY <1>1, <2>1 DEF Tree!Change
  <1>4. CASE i.op = "drop" /\ DeleteSchema(i) /\ UNCHANGED <<row, iov, data>>
    <2>1. Tree!DropSchema(i.tag)
      BY <1>4 DEF DeleteSchema, Tree!DropSchema
    <2>. QED BY <1>1, <2>1 DEF Tree!Change
  <1>. QED BY <1>2, <1>3, <1>4 DEF Write, Creating

LEMMA TablesSimulate ==
  ASSUME NEW p \in Tags, row[p] = "struct", UNCHANGED <<row, schema>>,
         \/ iov' \intersect data' = (iov \intersect data) \union {Table[p]}
         \/ iov' \intersect data' = iov \intersect data
  PROVE  Tree!Change
  <1>1. CASE iov' \intersect data' = (iov \intersect data) \union {Table[p]}
    <2>1. Tree!Equip(p)
      BY <1>1 DEF Tree!Equip
    <2>. QED BY <2>1 DEF Tree!Change
  <1>2. CASE iov' \intersect data' = iov \intersect data
    BY <1>2 DEF Tree!Change
  <1>. QED BY <1>1, <1>2

LEMMA CreateSimulates ==
  ASSUME NEW p \in Tags, row[p] = "struct", CreateTables(p)
  PROVE  Tree!Change
  BY TablesSimulate DEF CreateTables

LEMMA DbSimulates ==
  ASSUME Inv, NoHttpImports, NEW c \in Clients, DbStep(c)
  PROVE  Tree!Change
  <1>1. Item(c) \in Items /\ Item(c).tag \in Tags
    <2>1. pc[c] # "idle"
      BY DEF DbStep, DbItem, DbWrite, DbTables, DbFails
    <2>. QED BY <2>1, ItemType DEF Inv, TypeOK, Items
  <1>2. CASE UNCHANGED tables
    BY <1>2 DEF tables, Tree!Change
  <1>3. CASE pc[c] = "write" /\ Write(Item(c), "json")
    BY <1>1, <1>3, WriteSimulates DEF Inv, CallInv
  <1>4. CASE pc[c] = "tables" /\ CreateTables(Item(c).tag)
    BY <1>1, <1>4, CreateSimulates DEF Inv, CallInv
  <1>. QED BY <1>2, <1>3, <1>4 DEF DbStep, DbItem, DbWrite, DbTables, DbFails

LEMMA ServerSimulates ==
  ASSUME Inv, NoHttpImports, NEW r \in requests, ServerStep(r)
  PROVE  Tree!Change
  <1>1. r.item \in Items /\ r.item.tag \in Tags /\ Legal(r.item)
    BY DEF Inv, RequestInv, TypeOK, RequestsOK, Requests, Items
  <1>2. CASE ServerWrite(r)
    BY <1>1, <1>2, WriteSimulates DEF ServerWrite
  <1>3. CASE ServerIov(r)
    <2>1. row[r.item.tag] = "struct"
      BY <1>3 DEF ServerIov, Inv, RequestInv
    <2>. QED BY <1>1, <1>3, <2>1, TablesSimulate DEF ServerIov
  <1>4. CASE ServerData(r)
    <2>1. row[r.item.tag] = "struct" /\ Table[r.item.tag] \in iov
      BY <1>4 DEF ServerData, Inv, RequestInv
    <2>. QED BY <1>1, <1>4, <2>1, TablesSimulate DEF ServerData
  <1>5. CASE ServerFails(r)
    BY <1>5 DEF ServerFails, tables, Tree!Change
  <1>. QED BY <1>2, <1>3, <1>4, <1>5 DEF ServerStep

LEMMA StepSimulates ==
  ASSUME Inv, NoHttpImports, [Next]_vars
  PROVE  [Tree!Next]_(Tree!vars)
  <1>1. Tree!Announce
    BY StepInv DEF Tree!Announce, Inv, MadeInv
  <1>2. CASE \E c \in Clients : DbStep(c)
    BY <1>1, <1>2, DbSimulates DEF Tree!Next
  <1>3. CASE \E r \in requests : ServerStep(r)
    BY <1>1, <1>3, ServerSimulates DEF Tree!Next
  <1>4. CASE UNCHANGED tables
    BY <1>1, <1>4 DEF tables, Tree!Next, Tree!Change
  <1>5. \/ \E c \in Clients : DbStep(c)
        \/ \E r \in requests : ServerStep(r)
        \/ UNCHANGED tables
    BY DEF Next, vars, createTag, setTagSchema, importTagsSchemas, Begin, Look, Crash,
           HttpStep, HttpItem, HttpFails, HttpRetries
  <1>. QED BY <1>2, <1>3, <1>4, <1>5

(* Tags and schemas implement TagTree, through both adapters and the REST  *)
(* service, with the same exception for imports as NoOrphansHolds.         *)
THEOREM Refinement == ASSUME NoHttpImports PROVE Spec => TreeSpec
  <1>1. Init => Tree!Init
    BY DEF Init, Tree!Init, Nothing
  <1>2. Inv /\ [Next]_vars => [Tree!Next]_(Tree!vars)
    BY StepSimulates
  <1>. QED BY <1>1, <1>2, Invariance, PTL DEF Spec, TreeSpec, Tree!Spec
=================================================================================
