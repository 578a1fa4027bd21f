-------------------------------- MODULE Upload --------------------------------
(***************************************************************************)
(* Uploads: Service::setPayload tries the adapters in order; the db        *)
(* adapter writes both tables in one transaction and alters the payload    *)
(* object on the way, the http adapter posts the payload to the REST       *)
(* service, whose payload_set writes the same tables, and which may answer *)
(* late, not at all, or behind a gateway that gave up on it.               *)
(*                                                                         *)
(* Definitions F_faulty and F_overruns are wrong versions of F that        *)
(* nothing uses; they show what a property can tell.                       *)
(***************************************************************************)
EXTENDS Naturals, Sequences

CONSTANTS
  Uploads,     \* payloads prepared for upload, each with a uuid of its own
  Key,         \* Key[u]: the primary key of its row: pid, bt, run, seq, flavor
  Contents,    \* what payloads may hold; of c, c[u] is "text" (no NUL), "binary"
               \* (a NUL after the first byte), "nul" (one in the first byte), or
               \* "none": it refers to external data by URI
  Adapters,    \* mEnabledAdapters, of "db" and "http"
  MaxCalls,    \* MaxCalls[u]: bound on the calls of setPayload with u
  MaxRetries   \* max_retries of the http configuration, below the largest
               \* unsigned int, to which the loop bound adds one

Kinds == {"text", "binary", "nul", "none"}

ASSUME UploadAssumption ==
  /\ Contents \subseteq [Uploads -> Kinds]
  /\ Adapters \in Seq({"db", "http"})
  /\ Len(Adapters) > 0
  /\ MaxCalls \in [Uploads -> Nat]
  /\ MaxRetries \in Nat

VARIABLES
  content,  \* what each payload has been prepared with
  payload,  \* the caller's object: its URI, and whether it holds the data
  pc,       \* where the call of setPayload is
  k,        \* position of the adapter it has reached
  calls,    \* number of calls so far
  sent,     \* requests sent by HttpCurlHolder::Perform in this call
  flight,   \* requests that the REST service has yet to handle
  iov,      \* cdb_iov_<tbname>: the uri of each row, "absent" without a row
  blob,     \* cdb_data_<tbname>: how the data is encoded, "absent" without
  told,     \* what the last call has returned
  spent     \* history, nothing reads it: payloads whose data a transaction
            \* that was rolled back has dropped

client == <<payload, pc, k, calls, sent>>
tables == <<iov, blob>>
vars == <<content, payload, pc, k, calls, sent, flight, iov, blob, told, spent>>

Requests ==
  [up : Uploads, call : Nat, n : 1..(MaxRetries + 1),
   uri : {"none", "db", "ext"}, data : {"none", "raw", "cut"}]

Init ==
  /\ content \in Contents
  /\ payload = [u \in Uploads |->
       IF content[u] = "none" THEN [uri |-> "ext", data |-> FALSE]
                           ELSE [uri |-> "none", data |-> TRUE]]
  /\ pc = [u \in Uploads |-> "idle"]
  /\ k = [u \in Uploads |-> 1]
  /\ calls = [u \in Uploads |-> 0]
  /\ sent = [u \in Uploads |-> 0]
  /\ flight = {}
  /\ iov = [u \in Uploads |-> "absent"]
  /\ blob = [u \in Uploads |-> "absent"]
  /\ told = [u \in Uploads |-> "nothing"]
  /\ spent = {}

(* The caller, who may set the data again before trying again.             *)
Call(u) ==
  /\ pc[u] = "idle"
  /\ told[u] # "stored"
  /\ calls[u] < MaxCalls[u]
  /\ calls' = [calls EXCEPT ![u] = calls[u] + 1]
  /\ pc' = [pc EXCEPT ![u] = "trying"]
  /\ k' = [k EXCEPT ![u] = 1]
  /\ sent' = [sent EXCEPT ![u] = 0]
  /\ told' = [told EXCEPT ![u] = "nothing"]
  /\ \/ UNCHANGED payload
     \/ content[u] # "none" /\ payload' = [payload EXCEPT ![u].data = TRUE]
  /\ UNCHANGED <<flight, tables, spent>>

At(u, adapter) == pc[u] = "trying" /\ Adapters[k[u]] = adapter

(* An adapter's result is valid: setPayload returns it.                    *)
Succeed(u) ==
  /\ pc' = [pc EXCEPT ![u] = "idle"]
  /\ told' = [told EXCEPT ![u] = "stored"]
  /\ UNCHANGED k

(* An adapter's result is invalid: the next one is tried.                  *)
Fail_overruns(u) ==
  IF k[u] <= Len(Adapters)
    THEN /\ k' = [k EXCEPT ![u] = k[u] + 1]
         /\ pc' = [pc EXCEPT ![u] = "trying"]
         /\ UNCHANGED told
    ELSE /\ pc' = [pc EXCEPT ![u] = "idle"]
         /\ told' = [told EXCEPT ![u] = "refused"]
         /\ UNCHANGED k

Fail(u) ==
  IF k[u] < Len(Adapters)
    THEN /\ k' = [k EXCEPT ![u] = k[u] + 1]
         /\ pc' = [pc EXCEPT ![u] = "trying"]
         /\ UNCHANGED told
    ELSE /\ pc' = [pc EXCEPT ![u] = "idle"]
         /\ told' = [told EXCEPT ![u] = "refused"]
         /\ UNCHANGED k

(* Not ready, no metadata, no such tag, against the schema, no access, no  *)
(* connection.                                                             *)
Refuse(u) ==
  /\ pc[u] = "trying"
  /\ Fail(u)
  /\ UNCHANGED <<payload, calls, sent, flight, tables, spent>>
-----------------------------------------------------------------------------
(* PayloadAdapterDb::setPayload, from the first statement on.              *)
HoldsData(u) == payload[u].uri = "none" /\ payload[u].data

(* payload->setURI, which also drops the data the payload holds.           *)
SetURI(u) ==
  payload' = IF HoldsData(u)
               THEN [payload EXCEPT ![u] = [uri |-> "db", data |-> FALSE]]
               ELSE payload

Fits_faulty(u) == iov[u] = "absent"

Fits(u) == iov[u] = "absent" /\ \A v \in Uploads : iov[v] # "absent" => Key[v] # Key[u]

DbDataFails(u) ==
  /\ At(u, "db")
  /\ HoldsData(u)
  /\ Fail(u)
  /\ UNCHANGED <<payload, calls, sent, flight, tables, spent>>

(* The second INSERT or the commit fails: both tables are rolled back, the *)
(* payload object is not.                                                  *)
DbRollback_faulty(u) ==
  /\ At(u, "db")
  /\ SetURI(u)
  /\ Fail(u)
  /\ blob' = IF HoldsData(u) THEN [blob EXCEPT ![u] = "base64"] ELSE blob
  /\ UNCHANGED <<calls, sent, flight, iov, spent>>

DbRollback(u) ==
  /\ At(u, "db")
  /\ SetURI(u)
  /\ Fail(u)
  /\ spent' = IF HoldsData(u) THEN spent \union {u} ELSE spent
  /\ UNCHANGED <<calls, sent, flight, tables>>

DbInsert(u) ==
  /\ At(u, "db")
  /\ Fits(u)
  /\ HoldsData(u) => blob[u] = "absent"
  /\ SetURI(u)
  /\ iov' = [iov EXCEPT ![u] = payload'[u].uri]
  /\ blob' = IF HoldsData(u) THEN [blob EXCEPT ![u] = "base64"] ELSE blob
  /\ UNCHANGED <<calls, sent, flight, spent>>

DbCommit(u) == DbInsert(u) /\ Succeed(u)

(* The connection is lost after the commit has taken effect.               *)
DbCommitUnheard(u) == DbInsert(u) /\ Fail(u)
-----------------------------------------------------------------------------
(* PayloadAdapterHttp::setPayload and the loop of HttpCurlHolder::Perform. *)
(* curl_mime_data with CURL_ZERO_TERMINATED copies the data up to its      *)
(* first NUL; of a payload without data the service finds none.            *)
Posted(u) ==
  IF ~payload[u].data THEN "none"
  ELSE CASE content[u] = "text" -> "raw"
         [] content[u] = "binary" -> "cut"
         [] OTHER -> "none"

Send(u, n) ==
  /\ sent' = [sent EXCEPT ![u] = n]
  /\ flight' = flight \union
       {[up |-> u, call |-> calls[u], n |-> n,
         uri |-> payload[u].uri, data |-> Posted(u)]}

Post(u) ==
  /\ At(u, "http")
  /\ Send(u, 1)
  /\ pc' = [pc EXCEPT ![u] = "posted"]
  /\ UNCHANGED <<payload, k, calls, tables, told, spent>>

(* A 5xx answer while the service may still be at it: post again.          *)
GatewayError_faulty(u) ==
  /\ pc[u] = "posted"
  /\ Send(u, sent[u])
  /\ UNCHANGED <<payload, pc, k, calls, tables, told, spent>>

GatewayError(u) ==
  /\ pc[u] = "posted"
  /\ IF sent[u] <= MaxRetries
       THEN Send(u, sent[u] + 1) /\ UNCHANGED <<pc, k, told>>
       ELSE Fail(u) /\ UNCHANGED <<sent, flight>>
  /\ UNCHANGED <<payload, calls, tables, spent>>

(* No answer in time: http code 0, no other round.                         *)
Timeout(u) ==
  /\ pc[u] = "posted"
  /\ Fail(u)
  /\ UNCHANGED <<payload, calls, sent, flight, tables, spent>>
-----------------------------------------------------------------------------
(* payload_set of the REST service.                                        *)
Awaited(r) == pc[r.up] = "posted" /\ calls[r.up] = r.call /\ sent[r.up] = r.n

(* sanitize_alnum leaves nothing of a URI that could be resolved; without  *)
(* a URI the row refers to the table of the data.                          *)
ServerUri(uri) == IF uri = "none" THEN "tb" ELSE "mangled"

payload_set(r) ==
  /\ Fits(r.up)
  /\ r.uri = "none" => r.data # "none" /\ blob[r.up] = "absent"
  /\ iov' = [iov EXCEPT ![r.up] = ServerUri(r.uri)]
  /\ blob' = IF r.uri = "none" THEN [blob EXCEPT ![r.up] = r.data] ELSE blob

Quiet == UNCHANGED <<pc, k, told>>

(* The answer reaches the client, or it is lost or too late.               *)
ServerStores(r) ==
  /\ payload_set(r)
  /\ \/ Awaited(r) /\ Succeed(r.up)
     \/ Quiet
  /\ flight' = flight \ {r}
  /\ UNCHANGED <<payload, calls, sent, spent>>

ServerRejects_faulty(r) ==
  /\ \/ Awaited(r) /\ Succeed(r.up)
     \/ Quiet
  /\ flight' = flight \ {r}
  /\ UNCHANGED <<payload, calls, sent, tables, spent>>

(* No URI and no data, a taken key or id, or a database exception:         *)
(* rollback and status 400. A request that is lost looks the same to a     *)
(* client that hears nothing.                                              *)
ServerRejects(r) ==
  /\ \/ Awaited(r) /\ Fail(r.up)
     \/ Quiet
  /\ flight' = flight \ {r}
  /\ UNCHANGED <<payload, calls, sent, tables, spent>>

DbStep(u) == DbDataFails(u) \/ DbRollback(u) \/ DbCommit(u) \/ DbCommitUnheard(u)
HttpStep(u) == Post(u) \/ GatewayError(u) \/ Timeout(u)

OwnStep(u) == Refuse(u) \/ DbStep(u) \/ HttpStep(u)

Next ==
  /\ UNCHANGED content
  /\ \/ \E u \in Uploads : Call(u) \/ OwnStep(u)
     \/ \E r \in flight : ServerStores(r) \/ ServerRejects(r)

Spec == Init /\ [][Next]_vars

(* setPayload keeps running, and curl gives up after its timeout.          *)
Fair(u) == WF_vars(UNCHANGED content /\ OwnStep(u))

FairSpec == Spec /\ \A u \in Uploads : Fair(u)
-----------------------------------------------------------------------------
TypeOK ==
  /\ content \in [Uploads -> Kinds]
  /\ payload \in [Uploads -> [uri : {"none", "db", "ext"}, data : BOOLEAN]]
  /\ pc \in [Uploads -> {"idle", "trying", "posted"}]
  /\ k \in [Uploads -> 1..Len(Adapters)]
  /\ calls \in [Uploads -> Nat]
  /\ sent \in [Uploads -> 0..(MaxRetries + 1)]
  /\ flight \subseteq Requests
  /\ iov \in [Uploads -> {"absent", "db", "ext", "tb", "mangled"}]
  /\ blob \in [Uploads -> {"absent", "base64", "raw", "cut"}]
  /\ told \in [Uploads -> {"nothing", "stored", "refused"}]
  /\ spent \subseteq Uploads

(* downloadData of the db adapter needs an id in the URI, decodes base64.  *)
DbReads(u) == iov[u] = "db" /\ blob[u] = "base64"

(* The http adapter rewrites any db:// URI to a download by id, and its    *)
(* downloadData decodes nothing.                                           *)
HttpReads(u) == iov[u] \in {"db", "tb"} /\ blob[u] = "raw"

(* resolveURI of what an adapter has found.                                *)
ReadsBack(u, adapter) ==
  \/ iov[u] = "ext"
  \/ adapter = "db" /\ DbReads(u)
  \/ adapter = "http" /\ HttpReads(u)

Readable(u) == \E i \in 1..Len(Adapters) : ReadsBack(u, Adapters[i])

(* What a row may lack, and why: its data, which a rolled-back transaction *)
(* had dropped from the payload; what follows a NUL in data that was       *)
(* posted; or the URI of a reference that was posted.                      *)
Excused(u) ==
  \/ u \in spent
  \/ content[u] = "binary" /\ iov[u] = "tb"
  \/ content[u] = "none" /\ iov[u] = "mangled"

Entry(u) ==
  IF iov[u] = "absent" THEN "absent"
  ELSE IF Readable(u) THEN "whole"
  ELSE IF Excused(u) THEN "short" ELSE "broken"

(* Uploads look as AtomicUpload promises, through failures between the two *)
(* INSERTs, lost answers, timeouts, calls that are repeated, and requests  *)
(* that arrive after the client has given up or posted again.              *)
Atomic == INSTANCE AtomicUpload WITH entry <- [u \in Uploads |-> Entry(u)]
AtomicSpec == Atomic!Spec

(* No data without an interval that leads to it.                           *)
NoOrphanData == \A u \in Uploads : blob[u] # "absent" => iov[u] \in {"db", "tb"}

(* A call of setPayload returns, whatever the database and network do.     *)
CallsReturn == \A u \in Uploads : pc[u] # "idle" ~> pc[u] = "idle"

(* What setPayload reports as stored ("upload succeeded, uuid: ", line 57  *)
(* of examples/simple-set/simple-set.cpp) can be read back in full by one  *)
(* of the adapters, but for the three ways to lose data that Excused names *)
(* and no other: no fallback, retry, late request or unheard commit loses  *)
(* any.                                                                    *)
StoredIsReadable ==
  \A u \in Uploads : told[u] = "stored" => Readable(u) \/ Excused(u)
=============================================================================
