-------------------------------- MODULE TagStore --------------------------------
(***************************************************************************)
(* Tags, structs and schemas of a conditions database, changed by several  *)
(* processes: some through the db adapter, which downloads the tags again  *)
(* in every call, some through the http adapter, which downloads them once *)
(* and posts to the REST service. A struct takes an INSERT and a creation  *)
(* of tables, a schema a look and an INSERT; processes and requests end    *)
(* between any two of these, and answers are lost, late or repeated.       *)
(*                                                                         *)
(* deactivateTag sets a time that nothing reads: no step here. The tables  *)
(* cdb_tags and cdb_schemas exist throughout.                              *)
(*                                                                         *)
(* Definitions F_faulty and F_overruns are wrong versions of F that        *)
(* nothing uses; they show what a property can tell.                       *)
(***************************************************************************)
EXTENDS Naturals, Sequences

CONSTANTS
  Tags,         \* the tags, by path; a tag's id is a hash of its path
  Above,        \* Above[p]: the tags on the path to p
  Table,        \* Table[p]: its tbname, the path in lower case with '_' for '/'
  Clients,      \* processes, one thread each
  HttpClients,  \* those that use the http adapter
  Importers,    \* those that import an export of another database
  File,         \* its items, parents first
  IfNotExists,  \* whether the REST service's recipes say IF NOT EXISTS
  MaxCalls,     \* bound on the calls of each client
  MaxRetries    \* max_retries of the http configuration

Ops == {"folder", "struct", "schema", "drop"}
Items == [op : Ops, tag : Tags]

ASSUME TagAssumption ==
  /\ Above \in [Tags -> SUBSET Tags]
  /\ \A p \in Tags : p \notin Above[p] /\ \A q \in Above[p] : Above[q] \subseteq Above[p]
  /\ HttpClients \subseteq Clients
  /\ Importers \subseteq Clients
  /\ File \in Seq(Items) \ {<<>>}
  /\ IfNotExists \in BOOLEAN
  /\ MaxCalls \in [Clients -> Nat]
  /\ MaxRetries \in Nat

VARIABLES
  row,      \* cdb_tags: what the row of each tag says it is
  iov,      \* names of the tables cdb_iov_<tbname>
  data,     \* names of the tables cdb_data_<tbname>
  schema,   \* cdb_schemas: the form in which the schema of a tag is stored
  known,    \* mPaths of each http client
  fresh,    \* those whose mMetadataAvailable is set
  pc,       \* where each client's call is
  job,      \* the items of its call: one, or those of the file
  at,       \* the one it has reached
  good,     \* whether none of them has failed
  calls,    \* number of its calls
  sent,     \* posts of this item
  requests, \* requests the REST service has yet to finish
  made      \* tags whose creation was reported

tables == <<row, iov, data, schema>>
metadata == <<known, fresh>>
progress == <<pc, job, at, good, made>>
vars == <<tables, metadata, progress, calls, sent, requests>>

Nothing == [p \in Tags |-> "absent"]

Init ==
  /\ row = Nothing
  /\ iov = {}
  /\ data = {}
  /\ schema = [p \in Tags |-> "none"]
  /\ known = [c \in HttpClients |-> Nothing]
  /\ fresh = {}
  /\ pc = [c \in Clients |-> "idle"]
  /\ job = [c \in Clients |-> <<>>]
  /\ at = [c \in Clients |-> 1]
  /\ good = [c \in Clients |-> TRUE]
  /\ calls = [c \in Clients |-> 0]
  /\ sent = [c \in Clients |-> 0]
  /\ requests = {}
  /\ made = {}

(* Rows without one of their parents are not found under their path.       *)
Downloaded ==
  [p \in Tags |-> IF \E q \in Above[p] : row[q] = "absent" THEN "absent" ELSE row[p]]

(* ensureMetadata. The db adapter never sets mMetadataAvailable and so      *)
(* downloads in every call; what its maps hold in between is never used.   *)
Seen(c) == IF c \in fresh THEN known[c] ELSE Downloaded

EnsureMetadata(c) ==
  IF c \in HttpClients
    THEN known' = [known EXCEPT ![c] = Seen(c)] /\ fresh' = fresh \union {c}
    ELSE UNCHANGED metadata

Item(c) == job[c][at[c]]
Creates(items) ==
  {items[i].tag : i \in {j \in DOMAIN items : items[j].op \in {"folder", "struct"}}}

Return(c) ==
  /\ pc' = [pc EXCEPT ![c] = "idle"]
  /\ job' = [job EXCEPT ![c] = <<>>]
  /\ at' = [at EXCEPT ![c] = 1]
  /\ good' = [good EXCEPT ![c] = TRUE]

(* An item ends well or not; an import goes on with the next one.          *)
EndItem_overruns(c, ok) ==
  IF at[c] <= Len(job[c])
    THEN /\ pc' = [pc EXCEPT ![c] = "item"]
         /\ at' = [at EXCEPT ![c] = at[c] + 1]
         /\ good' = [good EXCEPT ![c] = good[c] /\ ok]
         /\ UNCHANGED <<job, made>>
    ELSE Return(c) /\ UNCHANGED made

EndItem(c, ok) ==
  IF at[c] < Len(job[c])
    THEN /\ pc' = [pc EXCEPT ![c] = "item"]
         /\ at' = [at EXCEPT ![c] = at[c] + 1]
         /\ good' = [good EXCEPT ![c] = good[c] /\ ok]
         /\ UNCHANGED <<job, made>>
    ELSE /\ Return(c)
         /\ made' = IF good[c] /\ ok THEN made \union Creates(job[c]) ELSE made
-----------------------------------------------------------------------------
(* Calls.                                                                  *)
Begin(c, items) ==
  /\ pc[c] = "idle"
  /\ calls[c] < MaxCalls[c]
  /\ calls' = [calls EXCEPT ![c] = calls[c] + 1]
  /\ pc' = [pc EXCEPT ![c] = "item"]
  /\ job' = [job EXCEPT ![c] = items]
  /\ UNCHANGED <<tables, at, good, made, sent, requests>>

(* A getter, or a call that is refused for what the metadata says.         *)
Look(c) ==
  /\ pc[c] = "idle"
  /\ EnsureMetadata(c)
  /\ UNCHANGED <<tables, progress, calls, sent, requests>>

Creatable_faulty(c, p) == Seen(c)[p] = "absent"

Creatable(c, p) ==
  /\ Seen(c)[p] = "absent"
  /\ \A q \in Above[p] : Seen(c)[q] # "absent"

createTag(c) ==
  \E p \in Tags, kind \in {"folder", "struct"} :
    /\ EnsureMetadata(c)
    /\ Creatable(c, p)
    /\ Begin(c, <<[op |-> kind, tag |-> p]>>)

setTagSchema(c) ==
  \E p \in Tags, op \in {"schema", "drop"} :
    /\ Begin(c, <<[op |-> op, tag |-> p]>>)
    /\ UNCHANGED metadata

importTagsSchemas(c) ==
  /\ c \in Importers
  /\ Begin(c, File)
  /\ UNCHANGED metadata

(* The process ends, and starts again with nothing.                        *)
Crash(c) ==
  /\ Return(c)
  /\ known' = IF c \in HttpClients THEN [known EXCEPT ![c] = Nothing] ELSE known
  /\ fresh' = fresh \ {c}
  /\ UNCHANGED <<tables, made, calls, sent, requests>>
-----------------------------------------------------------------------------
(* One item. Statements common to the db adapter and the REST service.     *)
InsertTag(i) ==
  /\ row[i.tag] = "absent"
  /\ row' = [row EXCEPT ![i.tag] = i.op]

InsertSchema(i, form) ==
  /\ schema[i.tag] = "none"
  /\ schema' = [schema EXCEPT ![i.tag] = form]

DeleteSchema(i) == schema' = [schema EXCEPT ![i.tag] = "none"]

(* The statement that an item comes down to; form is how the schema is     *)
(* passed on.                                                              *)
Write(i, form) ==
  \/ i.op \in {"folder", "struct"} /\ InsertTag(i) /\ UNCHANGED <<iov, data, schema>>
  \/ i.op = "schema" /\ InsertSchema(i, form) /\ UNCHANGED <<row, iov, data>>
  \/ i.op = "drop" /\ DeleteSchema(i) /\ UNCHANGED <<row, iov, data>>

IsStruct(c, i) == Seen(c)[i.tag] = "struct"
-----------------------------------------------------------------------------
(* The db adapter.                                                         *)
DbPermits(c, i) ==
  CASE i.op \in {"folder", "struct"} -> \A q \in Above[i.tag] : Seen(c)[q] # "absent"
    [] i.op = "schema" -> IsStruct(c, i) /\ schema[i.tag] = "none"
    [] i.op = "drop"   -> IsStruct(c, i)

DbItem(c) ==
  /\ pc[c] = "item" /\ c \notin HttpClients
  /\ IF DbPermits(c, Item(c))
       THEN pc' = [pc EXCEPT ![c] = "write"] /\ UNCHANGED <<job, at, good, made>>
       ELSE EndItem(c, FALSE)
  /\ UNCHANGED <<tables, metadata, calls, sent, requests>>

DbWrite(c) ==
  /\ pc[c] = "write"
  /\ Write(Item(c), "json")
  /\ IF Item(c).op = "struct"
       THEN pc' = [pc EXCEPT ![c] = "tables"] /\ UNCHANGED <<job, at, good, made>>
       ELSE EndItem(c, TRUE)
  /\ UNCHANGED <<metadata, calls, sent, requests>>

(* createIOVDataTables: both or none.                                      *)
CreateTables_faulty(p) ==
  /\ iov' = iov \union {Table[p]}
  /\ data' = data \union {Table[p]}
  /\ UNCHANGED <<row, schema>>

CreateTables(p) ==
  /\ Table[p] \notin iov \union data
  /\ iov' = iov \union {Table[p]}
  /\ data' = data \union {Table[p]}
  /\ UNCHANGED <<row, schema>>

DbTables(c) ==
  /\ pc[c] = "tables"
  /\ CreateTables(Item(c).tag)
  /\ EndItem(c, TRUE)
  /\ UNCHANGED <<metadata, calls, sent, requests>>

(* An exception: of a key or name that is taken, or of the connection,     *)
(* which may be lost after a statement has taken effect.                   *)
DbFails_faulty(c) ==
  /\ pc[c] \in {"item", "write", "tables"} /\ c \notin HttpClients
  /\ EndItem(c, pc[c] = "tables")
  /\ \/ UNCHANGED tables
     \/ pc[c] = "write" /\ Write(Item(c), "json")
     \/ pc[c] = "tables" /\ CreateTables(Item(c).tag)
  /\ UNCHANGED <<metadata, calls, sent, requests>>

DbFails(c) ==
  /\ pc[c] \in {"item", "write", "tables"} /\ c \notin HttpClients
  /\ EndItem(c, FALSE)
  /\ \/ UNCHANGED tables
     \/ pc[c] = "write" /\ Write(Item(c), "json")
     \/ pc[c] = "tables" /\ CreateTables(Item(c).tag)
  /\ UNCHANGED <<metadata, calls, sent, requests>>
-----------------------------------------------------------------------------
(* The http adapter. Importing, it does not ask for the parents of a tag.  *)
HttpPermits(c, i) == i.op \in {"schema", "drop"} => IsStruct(c, i)

Send(c, n) ==
  /\ sent' = [sent EXCEPT ![c] = n]
  /\ requests' = requests \union
       {[by |-> c, call |-> calls[c], at |-> at[c], n |-> n, item |-> Item(c), stage |-> "write"]}

HttpItem(c) ==
  /\ pc[c] = "item" /\ c \in HttpClients
  /\ EnsureMetadata(c)
  /\ IF HttpPermits(c, Item(c))
       THEN Send(c, 1) /\ pc' = [pc EXCEPT ![c] = "posted"] /\ UNCHANGED <<job, at, good, made>>
       ELSE EndItem(c, FALSE) /\ UNCHANGED <<sent, requests>>
  /\ UNCHANGED <<tables, calls>>

(* No metadata, no access, a timeout, or a 5xx answer after the last retry *)
(* or before the next one.                                                 *)
HttpFails(c) ==
  /\ pc[c] \in {"item", "posted"} /\ c \in HttpClients
  /\ EndItem(c, FALSE)
  /\ UNCHANGED <<tables, metadata, calls, sent, requests>>

HttpRetries(c) ==
  /\ pc[c] = "posted"
  /\ sent[c] <= MaxRetries
  /\ Send(c, sent[c] + 1)
  /\ UNCHANGED <<tables, metadata, progress, calls>>

Awaited(r) ==
  pc[r.by] = "posted" /\ calls[r.by] = r.call /\ at[r.by] = r.at /\ sent[r.by] = r.n

(* The answer to a request, if it is heard.                                *)
Answer(r, ok) ==
  /\ requests' = requests \ {r}
  /\ \/ Awaited(r) /\ EndItem(r.by, ok)
     \/ UNCHANGED progress

Proceed(r, stage) ==
  /\ requests' = (requests \ {r}) \union {[r EXCEPT !.stage = stage]}
  /\ UNCHANGED progress

(* tag and schema_post of the REST service. The answer to a drop names the *)
(* pid, where the client looks for an id.                                  *)
ServerWrite(r) ==
  /\ r.stage = "write"
  /\ Write(r.item, "base64")
  /\ IF r.item.op = "struct" THEN Proceed(r, "iov") ELSE Answer(r, r.item.op # "drop")
  /\ UNCHANGED <<metadata, calls, sent>>

ServerIov(r) ==
  /\ r.stage = "iov"
  /\ IfNotExists \/ Table[r.item.tag] \notin iov
  /\ iov' = iov \union {Table[r.item.tag]}
  /\ Proceed(r, "data")
  /\ UNCHANGED <<row, data, schema, metadata, calls, sent>>

ServerData(r) ==
  /\ r.stage = "data"
  /\ IfNotExists \/ Table[r.item.tag] \notin data
  /\ data' = data \union {Table[r.item.tag]}
  /\ Answer(r, TRUE)
  /\ UNCHANGED <<row, iov, schema, metadata, calls, sent>>

(* An exception and status 400; a request that is lost looks the same to a *)
(* client that hears nothing.                                              *)
ServerFails(r) ==
  /\ Answer(r, FALSE)
  /\ UNCHANGED <<tables, metadata, calls, sent>>

DbStep(c) == DbItem(c) \/ DbWrite(c) \/ DbTables(c) \/ DbFails(c)
HttpStep(c) == HttpItem(c) \/ HttpFails(c) \/ HttpRetries(c)
ServerStep(r) == ServerWrite(r) \/ ServerIov(r) \/ ServerData(r) \/ ServerFails(r)

Next ==
  \/ \E c \in Clients :
       \/ createTag(c) \/ setTagSchema(c) \/ importTagsSchemas(c) \/ Look(c) \/ Crash(c)
       \/ DbStep(c) \/ HttpStep(c)
  \/ \E r \in requests : ServerStep(r)

Spec == Init /\ [][Next]_vars
-----------------------------------------------------------------------------
Kinds == {"absent", "folder", "struct"}

Requests ==
  [by : HttpClients, call : Nat, at : Nat, n : 1..(MaxRetries + 1), item : Items,
   stage : {"write", "iov", "data"}]

TablesOK ==
  /\ row \in [Tags -> Kinds]
  /\ iov \subseteq {Table[p] : p \in Tags}
  /\ data \subseteq {Table[p] : p \in Tags}
  /\ schema \in [Tags -> {"none", "json", "base64"}]

MetadataOK ==
  /\ known \in [HttpClients -> [Tags -> Kinds]]
  /\ fresh \subseteq HttpClients

ProgressOK ==
  /\ pc \in [Clients -> {"idle", "item", "write", "tables", "posted"}]
  /\ \A c \in Clients : pc[c] \notin (IF c \in HttpClients THEN {"write", "tables"} ELSE {"posted"})
  /\ job \in [Clients -> Seq(Items)]
  /\ at \in [Clients -> Nat]
  /\ good \in [Clients -> BOOLEAN]
  /\ \A c \in Clients :
       IF pc[c] = "idle" THEN at[c] = 1 ELSE at[c] \in 1..Len(job[c])
  /\ made \subseteq Tags

RequestsOK ==
  /\ calls \in [Clients -> Nat]
  /\ sent \in [Clients -> 0..(MaxRetries + 1)]
  /\ requests \subseteq Requests

TypeOK == TablesOK /\ MetadataOK /\ ProgressOK /\ RequestsOK

(* Tags form a tree, so that no download finds a tag without its parents:  *)
(* stale metadata never lets a client put a tag where there is no parent.  *)
NoOrphans == \A p \in Tags : row[p] # "absent" => \A q \in Above[p] : row[q] # "absent"

(* Two structs that were both reported as created do not share tables,     *)
(* although different paths may have the same table name.                  *)
OwnTables ==
  \A p, q \in made : p # q /\ row[p] = "struct" /\ row[q] = "struct" => Table[p] # Table[q]

(* Tags and schemas change only as TagTree allows: a struct that is        *)
(* reported, alone or in an import, has its row and both tables, through   *)
(* failures between the statements, lost answers and repeated requests;    *)
(* only a struct has a schema, and of two clients that have both seen that *)
(* there is none, one prevails: nothing is ever replaced.                  *)
Tree == INSTANCE TagTree WITH tag <- row, storage <- iov \intersect data
TreeSpec == Tree!Spec
=================================================================================
