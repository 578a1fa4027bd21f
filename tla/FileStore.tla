-------------------------------- MODULE FileStore --------------------------------
(***************************************************************************)
(* The directory of the file adapter (lib/src/payload_adapter_file.cpp):   *)
(* one folder, one struct in it and the schema of the struct, used by the  *)
(* threads of several processes. Threads of one process share              *)
(* cdbnpp_file_mutex; processes share nothing but the file system. A file  *)
(* is truncated by one step and written by the next, and the process may   *)
(* end between them. Data is downloaded without the mutex.                 *)
(*                                                                         *)
(* A critical section is one step, except those that write a file and the  *)
(* one in which getPayloads holds the mutex and asks for it again. A call  *)
(* that waits for the mutex has done nothing yet; only the wait of         *)
(* setPayload is a state. Which file answers a query is in FileQuery.      *)
(*                                                                         *)
(* Definitions F_faulty, F_first, F_always and F_late are wrong versions   *)
(* of F that nothing uses; they show what a property can tell.             *)
(***************************************************************************)
EXTENDS Naturals

CONSTANTS
  Threads,
  Process,   \* Process[t]: the process of the thread
  Getters,   \* threads that call getPayloads and downloadData
  Payloads,  \* payload objects
  Teams,     \* combinations of administrators and payloads to consider
  Owner,     \* Owner[p]: the thread that uploads the object
  Key,       \* Key[p]: flavor, begin, end, run and seq as a file name has them
  Bad,       \* the payloads whose data the schema rejects
  MaxTime    \* bound on the clock, in seconds

Times == 1..MaxTime
Names == {Key[p] : p \in Payloads} \X Times
NoName == <<>>

ASSUME FileAssumption ==
  /\ DOMAIN Process = Threads
  /\ Getters \subseteq Threads
  /\ Teams \subseteq [admins : SUBSET Threads, payloads : SUBSET Payloads]
  /\ Owner \in [Payloads -> Threads]
  /\ DOMAIN Key = Payloads
  /\ Bad \subseteq Payloads
  /\ MaxTime \in Nat \ {0}
  /\ {"absent", "torn", "none"} \intersect Payloads = {}

VARIABLES
  team,      \* the threads that create tags and change the schema, and the
             \* payloads that are uploaded
  clock,
  level,     \* 1 when the folder exists, 2 when the struct's directory does
  schema,    \* the file in .schemas: what it holds
  setter,    \* history: the process that set it last
  files,     \* the files of the struct: what they hold
  ct,        \* create time of each payload object, 0 before it has one
  prepared,  \* the payload objects prepareUpload has returned
  stored,    \* those setPayload has reported stored
  cut,       \* history: those whose data has not been written to the end
  pc,        \* where each thread is
  job,       \* the payload it uploads
  found      \* the file it has found

tree == <<level, schema, setter, files>>
objects == <<ct, prepared, stored, cut>>
vars == <<team, clock, tree, objects, pc, job, found>>

Init ==
  /\ team \in Teams
  /\ clock = 1
  /\ level = 0
  /\ schema = "no directory"
  /\ setter = "none"
  /\ files = [n \in Names |-> "absent"]
  /\ ct = [p \in Payloads |-> 0]
  /\ prepared = {}
  /\ stored = {}
  /\ cut = {}
  /\ pc = [t \in Threads |-> "idle"]
  /\ job = [t \in Threads |-> "none"]
  /\ found = [t \in Threads |-> NoName]

(* The name has no finer time than the second of the upload.               *)
Name_faulty(p) == <<Key[p], 1>>
Name(p) == <<Key[p], ct[p]>>

(* createTime is set when it is not set yet; a failed upload keeps it.     *)
Stamp_late(p) == ct' = IF ct[p] = 0 THEN [ct EXCEPT ![p] = clock + 1] ELSE ct
Stamp_always(p) == ct' = [ct EXCEPT ![p] = clock]
Stamp(p) == ct' = IF ct[p] = 0 THEN [ct EXCEPT ![p] = clock] ELSE ct

(* A schema file that is empty is taken for none.                          *)
Rejected(p) == schema = "torn" \/ (schema = "set" /\ p \in Bad)

Others(t) == {u \in Threads \ {t} : Process[u] = Process[t]}
Writing == {"write", "save"}
Holding == {"again"} \union Writing

(* The mutex, as glibc has it: a reader does not wait for waiting writers. *)
MayRead_faulty(t) == TRUE
MayRead_first(t) == \A u \in Others(t) : pc[u] \notin {"set"} \union Writing
MayRead(t) == \A u \in Others(t) : pc[u] \notin Writing

MayWrite_faulty(t) == \A u \in Others(t) : pc[u] # "again"
MayWrite(t) == \A u \in Others(t) : pc[u] \notin Holding

Goto(t, place) == pc' = [pc EXCEPT ![t] = place]

End(t) ==
  /\ Goto(t, "idle")
  /\ job' = [job EXCEPT ![t] = "none"]
  /\ found' = [found EXCEPT ![t] = NoName]

Tick ==
  /\ clock < MaxTime
  /\ clock' = clock + 1
  /\ UNCHANGED <<team, tree, objects, pc, job, found>>
-----------------------------------------------------------------------------
(* Uploads. prepareUpload looks without the mutex and makes the directory  *)
(* under a read lock; a directory another thread has made meanwhile, like  *)
(* one that cannot be made, is an error.                                   *)
Prepare(t) ==
  /\ pc[t] = "idle"
  /\ \E p \in team.payloads \ prepared :
       /\ Owner[p] = t
       /\ \/ level = 2 /\ prepared' = prepared \union {p} /\ UNCHANGED <<pc, job>>
          \/ level = 1 /\ job' = [job EXCEPT ![t] = p] /\ Goto(t, "mkdir") /\ UNCHANGED prepared
  /\ UNCHANGED <<team, clock, tree, ct, stored, cut, found>>

MakeDirectory(t) ==
  /\ pc[t] = "mkdir"
  /\ MayRead(t)
  /\ \/ level < 2 /\ level' = 2 /\ prepared' = prepared \union {job[t]}
     \/ UNCHANGED <<level, prepared>>
  /\ End(t)
  /\ UNCHANGED <<team, clock, schema, setter, files, ct, stored, cut>>

SetPayload(t) ==
  /\ pc[t] = "idle"
  /\ \E p \in prepared : Owner[p] = t /\ job' = [job EXCEPT ![t] = p]
  /\ Goto(t, "set")
  /\ UNCHANGED <<team, clock, tree, objects, found>>

(* The schema rejects the data, or the directory cannot be made.           *)
Refuse(t) ==
  /\ pc[t] = "set"
  /\ MayWrite(t)
  /\ Rejected(job[t]) \/ level < 2
  /\ End(t)
  /\ UNCHANGED <<team, clock, tree, objects>>

Ready(t) ==
  /\ pc[t] = "set"
  /\ MayWrite(t)
  /\ ~Rejected(job[t])
  /\ level' = 2
  /\ Stamp(job[t])

OpenFails(t) ==
  /\ Ready(t)
  /\ End(t)
  /\ UNCHANGED <<team, clock, schema, setter, files, prepared, stored, cut>>

Open(t) ==
  /\ Ready(t)
  /\ files' = [files EXCEPT ![<<Key[job[t]], ct'[job[t]]>>] = "torn"]
  /\ Goto(t, "write")
  /\ UNCHANGED <<team, clock, schema, setter, prepared, stored, cut, job, found>>

(* A file that another process has opened and written meanwhile may end up *)
(* with some data of each. Nothing tests whether the write succeeds.       *)
Write(t) ==
  /\ pc[t] = "write"
  /\ LET p == job[t]
         n == Name(p)
     IN /\ \/ files' = [files EXCEPT ![n] = p] /\ UNCHANGED cut
           \/ files[n] # "torn" /\ files' = [files EXCEPT ![n] = "torn"] /\ UNCHANGED cut
           \/ cut' = cut \union {p} /\ UNCHANGED files
        /\ stored' = stored \union {p}
  /\ End(t)
  /\ UNCHANGED <<team, clock, level, schema, setter, ct, prepared>>
-----------------------------------------------------------------------------
(* Queries. getPayloads holds the mutex when getPayload asks for it again; *)
(* the data is read later, through the URI, without it.                    *)
Get(t) ==
  /\ t \in Getters
  /\ pc[t] = "idle"
  /\ MayRead(t)
  /\ Goto(t, "again")
  /\ UNCHANGED <<team, clock, tree, objects, job, found>>

Find(t) ==
  /\ pc[t] = "again"
  /\ MayRead(t)
  /\ \E n \in Names : files[n] # "absent" /\ found' = [found EXCEPT ![t] = n]
  /\ Goto(t, "read")
  /\ UNCHANGED <<team, clock, tree, objects, job>>

FindNone(t) ==
  /\ pc[t] = "again"
  /\ MayRead(t)
  /\ End(t)
  /\ UNCHANGED <<team, clock, tree, objects>>

Download(t) ==
  /\ pc[t] = "read"
  /\ End(t)
  /\ UNCHANGED <<team, clock, tree, objects>>
-----------------------------------------------------------------------------
(* Tags and schemas.                                                       *)
Administers(t) == t \in team.admins /\ pc[t] = "idle" /\ MayWrite(t)

CreateTag(t) ==
  /\ Administers(t)
  /\ level' \in {1, 2}
  /\ level' > level
  /\ UNCHANGED <<team, clock, schema, setter, files, objects, pc, job, found>>

(* The folder for the schemas may be made and the file not be opened.      *)
SetTagSchema(t) ==
  /\ Administers(t)
  /\ \/ schema' = "empty" /\ Goto(t, "save")
     \/ schema = "no directory" /\ schema' = "absent" /\ UNCHANGED pc
  /\ UNCHANGED <<team, clock, level, setter, files, objects, job, found>>

(* importTagsSchemas makes the folders, and saves schemas only where their *)
(* directory exists.                                                       *)
Import(t) ==
  /\ Administers(t)
  /\ level' = IF level = 0 THEN 1 ELSE level
  /\ IF schema = "no directory" THEN UNCHANGED <<schema, pc>>
                               ELSE schema' = "empty" /\ Goto(t, "save")
  /\ UNCHANGED <<team, clock, setter, files, objects, job, found>>

Save(t) ==
  /\ pc[t] = "save"
  /\ schema' \in {"set", "empty", "torn"}
  /\ setter' = Process[t]
  /\ End(t)
  /\ UNCHANGED <<team, clock, level, files, objects>>

DropTagSchema(t) ==
  /\ Administers(t)
  /\ schema \notin {"no directory", "absent"}
  /\ schema' = "absent"
  /\ UNCHANGED <<team, clock, level, setter, files, objects, pc, job, found>>
-----------------------------------------------------------------------------
(* A process ends, in the middle of whatever its threads do.               *)
Ends(p) ==
  LET Its == {t \in Threads : Process[t] = p}
  IN /\ \E t \in Its : pc[t] # "ended"
     /\ pc' = [t \in Threads |-> IF t \in Its THEN "ended" ELSE pc[t]]
     /\ job' = [t \in Threads |-> IF t \in Its THEN "none" ELSE job[t]]
     /\ found' = [t \in Threads |-> IF t \in Its THEN NoName ELSE found[t]]
     /\ cut' = cut \union {job[t] : t \in {u \in Its : pc[u] = "write"}}
     /\ \/ UNCHANGED schema
        \/ schema' = "torn" /\ \E t \in Its : pc[t] = "save"
     /\ UNCHANGED <<team, clock, level, setter, files, ct, prepared, stored>>

Step(t) ==
  \/ MakeDirectory(t)
  \/ Refuse(t)
  \/ OpenFails(t)
  \/ Open(t)
  \/ Write(t)
  \/ Find(t)
  \/ FindNone(t)
  \/ Download(t)
  \/ Save(t)

Starts(t) ==
  \/ Prepare(t)
  \/ SetPayload(t)
  \/ Get(t)
  \/ CreateTag(t)
  \/ SetTagSchema(t)
  \/ Import(t)
  \/ DropTagSchema(t)

Next ==
  \/ Tick
  \/ \E t \in Threads : Starts(t) \/ Step(t)
  \/ \E t \in Threads : Ends(Process[t])

Spec == Init /\ [][Next]_vars

(* A thread that can go on in its call does; callers owe nothing.          *)
Fair(t) == WF_vars(Step(t))

FairSpec == Spec /\ \A t \in Threads : Fair(t)
-----------------------------------------------------------------------------
Places == {"idle", "mkdir", "set", "again", "read", "ended"} \union Writing
Uploading == {"mkdir", "set", "write"}

TreeOK ==
  /\ team \in Teams
  /\ clock \in Times
  /\ level \in {0, 1, 2}
  /\ schema \in {"no directory", "absent", "empty", "torn", "set"}
  /\ setter \in {Process[t] : t \in Threads} \union {"none"}
  /\ files \in [Names -> Payloads \union {"absent", "torn"}]

ObjectsOK ==
  /\ ct \in [Payloads -> {0} \union Times]
  /\ \A p \in Payloads : ct[p] <= clock
  /\ prepared \in SUBSET Payloads
  /\ stored \in SUBSET prepared
  /\ cut \in SUBSET prepared

ThreadOK(t) ==
  /\ pc[t] \in Uploading => job[t] \in Payloads /\ Owner[job[t]] = t
  /\ pc[t] \notin Uploading => job[t] = "none"
  /\ IF pc[t] = "read" THEN found[t] \in Names ELSE found[t] = NoName

ThreadsOK ==
  /\ pc \in [Threads -> Places]
  /\ job \in [Threads -> Payloads \union {"none"}]
  /\ found \in [Threads -> Names \union {NoName}]
  /\ \A t \in Threads : ThreadOK(t)

TypeOK == TreeOK /\ ObjectsOK /\ ThreadsOK

Rewritten(p) == \E t \in Threads : pc[t] = "write" /\ job[t] = p
Rivals(p) == {q \in Payloads \ {p} : ct[q] = ct[p] /\ Key[q] = Key[p]}

(* A payload reported stored can be read back for good, whatever becomes   *)
(* of its process and of later uploads, unless its write was cut short, it *)
(* is stored a second time right now, or another payload has the same      *)
(* coordinates and was first uploaded in the same second.                  *)
StoredStays ==
  \A p \in stored \ cut :
    files[Name(p)] = p \/ Rewritten(p) \/ Rivals(p) # {}

(* An upload repeated after an error, or after a success, never makes a    *)
(* second file: the object keeps the create time of its first attempt.     *)
StoredOnce ==
  \A p \in Payloads : \A m, n \in Names : files[m] = p /\ files[n] = p => m = n

(* What a query has found is whole when downloadData reads it, though it   *)
(* reads without the mutex, unless the write was cut short, the file was   *)
(* stored before and is overwritten, or another process writes it.         *)
FoundWhole ==
  \A t \in Threads :
    pc[t] = "read" /\ files[found[t]] = "torn" =>
      \E p \in Payloads :
        /\ Name(p) = found[t]
        /\ \/ p \in cut \union stored
           \/ \E u \in Threads : pc[u] = "write" /\ job[u] = p /\ Process[u] # Process[t]

(* While the schema a process has set is in place, none of its threads     *)
(* stores data that the schema rejects.                                    *)
SchemaHolds ==
  [][\A p \in stored' \ stored :
       schema = "set" /\ p \in Bad => setter # Process[Owner[p]]]_vars

(* A call ends, unless other threads of the process hold the mutex again   *)
(* and again: a reader is let in before a writer that waits.               *)
CallsEnd ==
  \A t \in Threads :
    \/ []<>(pc[t] \in {"idle", "ended"})
    \/ []<>(\E u \in Others(t) : pc[u] \in Holding)
=================================================================================
