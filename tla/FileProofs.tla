------------------------------- MODULE FileProofs -------------------------------
(***************************************************************************)
(* Proofs about FileStore, for any threads and processes, any payloads and *)
(* coordinates, any administrators and any bound on the clock.             *)
(***************************************************************************)
EXTENDS FileStore, TLAPS

(* What a thread uploads is prepared, and has a create time once it is     *)
(* written.                                                                *)
UploadOK(t) ==
  /\ pc[t] \in {"set", "write"} => job[t] \in prepared
  /\ pc[t] = "write" => ct[job[t]] # 0

UploadInv ==
  /\ \A t \in Threads : UploadOK(t)
  /\ \A p \in stored \union cut : ct[p] # 0

Types == TypeOK /\ UploadInv

LEMMA KeyName ==
  ASSUME NEW p \in Payloads, NEW c \in Times
  PROVE  <<Key[p], c>> \in Names
  BY DEF Names

LEMMA ZeroTime == 0 \notin Times /\ Times \subseteq Nat
  BY DEF Times

(* A step of thread t: where it goes, what it uploads, what it has found.  *)
Moves(t, place, p, n) ==
  /\ pc' = [pc EXCEPT ![t] = place]
  /\ job' = [job EXCEPT ![t] = p]
  /\ found' = [found EXCEPT ![t] = n]

(* The step leaves create times that are set, and adds to the histories.   *)
Keeps ==
  /\ \A p \in Payloads : ct[p] # 0 => ct'[p] = ct[p]
  /\ prepared \subseteq prepared' /\ stored \subseteq stored' /\ cut \subseteq cut'

LEMMA MovesTypes ==
  ASSUME ThreadsOK, NEW t \in Threads, NEW place \in Places, NEW p, NEW n,
         Moves(t, place, p, n),
         IF place \in Uploading THEN p \in Payloads /\ Owner[p] = t ELSE p = "none",
         IF place = "read" THEN n \in Names ELSE n = NoName
  PROVE  ThreadsOK'
  <1>1. /\ pc' \in [Threads -> Places]
        /\ job' \in [Threads -> Payloads \union {"none"}]
        /\ found' \in [Threads -> Names \union {NoName}]
    BY DEF ThreadsOK, Moves
  <1>2. ASSUME NEW u \in Threads PROVE ThreadOK(u)'
    <2>1. CASE u = t
      BY <2>1 DEF ThreadsOK, ThreadOK, Moves
    <2>2. CASE u # t
      BY <2>2 DEF ThreadsOK, ThreadOK, Moves
    <2>. QED BY <2>1, <2>2
  <1>. QED BY <1>1, <1>2 DEF ThreadsOK

LEMMA MovesUpload ==
  ASSUME Types, NEW t \in Threads, NEW place \in Places, NEW p, NEW n,
         Moves(t, place, p, n), Keeps, ObjectsOK',
         place \in {"set", "write"} => p \in prepared',
         place = "write" => ct'[p] # 0,
         \A q \in (stored' \union cut') \ (stored \union cut) : ct'[q] # 0
  PROVE  UploadInv'
  <1>1. ASSUME NEW u \in Threads PROVE UploadOK(u)'
    <2>1. CASE u = t
      BY <2>1 DEF Types, TypeOK, ThreadsOK, UploadOK, Moves
    <2>2. CASE u # t
      <3>1. pc'[u] = pc[u] /\ job'[u] = job[u] /\ UploadOK(u) /\ ThreadOK(u)
        BY <2>2 DEF Types, TypeOK, ThreadsOK, UploadInv, Moves
      <3>. QED BY <3>1 DEF UploadOK, ThreadOK, Keeps, Uploading
    <2>. QED BY <2>1, <2>2
  <1>2. ASSUME NEW q \in (stored \union cut)' PROVE (ct[q] # 0)'
    <2>1. q \in Payloads
      BY DEF ObjectsOK
    <2>. QED BY <2>1 DEF Types, UploadInv, Keeps
  <1>. QED BY <1>1, <1>2 DEF UploadInv

LEMMA Stays ==
  ASSUME ThreadsOK, NEW t \in Threads
  PROVE  /\ job = [job EXCEPT ![t] = job[t]]
         /\ found = [found EXCEPT ![t] = found[t]]
         /\ pc = [pc EXCEPT ![t] = pc[t]]
         /\ ThreadOK(t)
  BY DEF ThreadsOK

LEMMA EndMoves ==
  ASSUME NEW t, End(t)
  PROVE  Moves(t, "idle", "none", NoName)
  BY DEF End, Goto, Moves

LEMMA StampTypes ==
  ASSUME Types, NEW p \in Payloads, Stamp(p)
  PROVE  /\ ct' \in [Payloads -> {0} \union Times]
         /\ ct'[p] \in Times
         /\ \A q \in Payloads : ct[q] # 0 => ct'[q] = ct[q]
         /\ \A q \in Payloads : ct'[q] <= clock
  <1>1. /\ clock \in Times /\ ct \in [Payloads -> {0} \union Times]
        /\ \A q \in Payloads : ct[q] <= clock
    BY DEF Types, TypeOK, TreeOK, ObjectsOK
  <1>2. clock <= clock
    BY <1>1, ZeroTime
  <1>. QED BY <1>1, <1>2 DEF Stamp

LEMMA ClockGrows ==
  ASSUME Types, [Next]_vars
  PROVE  clock \in Times /\ clock' \in {clock, clock + 1} /\ MaxTime \in Nat
  <1>1. clock \in Times /\ MaxTime \in Nat
    BY FileAssumption DEF Types, TypeOK, TreeOK
  <1>2. ASSUME NEW t \in Threads, Starts(t) PROVE clock' = clock
    BY <1>2 DEF Starts, Prepare, SetPayload, Get, CreateTag, SetTagSchema, Import, DropTagSchema
  <1>3. ASSUME NEW t \in Threads, Step(t) PROVE clock' = clock
    BY <1>3 DEF Step, MakeDirectory, Refuse, OpenFails, Open, Write, Find, FindNone, Download, Save
  <1>4. ASSUME NEW p, Ends(p) PROVE clock' = clock
    BY <1>4 DEF Ends
  <1>5. CASE Tick
    BY <1>1, <1>5 DEF Tick
  <1>6. CASE UNCHANGED vars
    BY <1>1, <1>6 DEF vars
  <1>. QED BY <1>1, <1>2, <1>3, <1>4, <1>5, <1>6 DEF Next

(* Create times that stay are not ahead of a clock that goes on.           *)
LEMMA CreatedBefore ==
  ASSUME Types, [Next]_vars,
         \/ UNCHANGED ct
         \/ /\ ct' \in [Payloads -> {0} \union Times]
            /\ \A q \in Payloads : ct'[q] <= clock
  PROVE  \A q \in Payloads : ct'[q] <= clock'
  <1>1. \A n \in {0} \union Times : n \in Nat
    BY ZeroTime
  <1>2. clock \in Nat /\ clock' \in {clock, clock + 1}
    BY <1>1, ClockGrows
  <1>3. /\ ct' \in [Payloads -> {0} \union Times]
        /\ \A q \in Payloads : ct'[q] <= clock
    BY DEF Types, TypeOK, ObjectsOK
  <1>4. \A i, c, d \in Nat : i <= c /\ d \in {c, c + 1} => i <= d
    OBVIOUS
  <1>5. \A q \in Payloads : ct'[q] \in Nat
    BY <1>1, <1>3
  <1>6. clock' \in Nat
    BY ONLY <1>2
  <1>. QED BY ONLY <1>2, <1>3, <1>4, <1>5, <1>6, Zenon

LEMMA InitTypes == Init => Types
  <1>. SUFFICES ASSUME Init PROVE Types
    OBVIOUS
  <1>1. TreeOK
    <2>1. 1 \in Times
      BY FileAssumption DEF Times
    <2>. QED BY <2>1 DEF Init, TreeOK
  <1>2. ObjectsOK
    <2>1. clock = 1 /\ ct = [p \in Payloads |-> 0]
      BY Zenon DEF Init
    <2>2. \A p \in Payloads : ct[p] <= clock
      BY ONLY <2>1
    <2>. QED BY <2>2 DEF Init, ObjectsOK
  <1>3. ThreadsOK
    BY DEF Init, ThreadsOK, ThreadOK, Places, Uploading
  <1>4. UploadInv
    BY DEF Init, UploadInv, UploadOK
  <1>. QED BY <1>1, <1>2, <1>3, <1>4 DEF Types, TypeOK

LEMMA TypeStep == Types /\ [Next]_vars => Types' /\ Keeps
  <1>. SUFFICES ASSUME Types, [Next]_vars PROVE Types' /\ Keeps
    OBVIOUS
  <1>. USE DEF tree, objects
  <1>0. TreeOK /\ ObjectsOK /\ ThreadsOK /\ UploadInv
    BY DEF Types, TypeOK
  (* Steps that change nothing but the tree and, for one thread, where it  *)
  (* is and what it has found.                                             *)
  <1>1. ASSUME NEW t \in Threads, NEW place \in Places \ Uploading, NEW n,
               Moves(t, place, "none", n), UNCHANGED objects, TreeOK',
               IF place = "read" THEN n \in Names ELSE n = NoName
        PROVE  Types' /\ Keeps
    <2>1. ObjectsOK' /\ Keeps
      BY <1>0, <1>1, CreatedBefore DEF ObjectsOK, Keeps
    <2>2. ThreadsOK'
      BY <1>0, <1>1, MovesTypes
    <2>3. place \notin {"set", "write"}
      BY <1>1 DEF Uploading
    <2>4. UploadInv'
      BY <1>1, <2>1, <2>3, MovesUpload
    <2>. QED BY <1>1, <2>1, <2>2, <2>4 DEF Types, TypeOK
  <1>2. CASE Tick
    <2>0. MaxTime \in Nat
      BY FileAssumption
    <2>1. clock' \in Times
      <3>1. clock \in Times /\ clock < MaxTime /\ clock' = clock + 1
        BY <1>0, <1>2 DEF Tick, TreeOK
      <3>. QED BY <2>0, <3>1 DEF Times
    <2>2. TreeOK'
      BY <1>0, <1>2, <2>1 DEF Tick, TreeOK
    <2>3. \A q \in Payloads : ct'[q] <= clock'
      BY <1>2, CreatedBefore DEF Tick
    <2>. QED
      BY <1>0, <1>2, <2>2, <2>3
      DEF Tick, Types, TypeOK, ObjectsOK, ThreadsOK, ThreadOK, UploadInv, UploadOK, Keeps
  <1>3. ASSUME NEW t \in Threads, Prepare(t) PROVE Types' /\ Keeps
    <2>1. TreeOK'
      BY <1>0, <1>3 DEF Prepare, TreeOK
    <2>2. PICK p \in team.payloads \ prepared :
            /\ Owner[p] = t
            /\ \/ prepared' = prepared \union {p} /\ UNCHANGED <<pc, job>>
               \/ job' = [job EXCEPT ![t] = p] /\ Goto(t, "mkdir") /\ UNCHANGED prepared
      BY <1>3 DEF Prepare
    <2>3. p \in Payloads
      BY <1>0, FileAssumption DEF TreeOK
    <2>4. ObjectsOK' /\ Keeps
      BY <1>0, <1>3, <2>2, <2>3 DEF Prepare, ObjectsOK, Keeps
    <2>5. CASE prepared' = prepared \union {p} /\ UNCHANGED <<pc, job>>
      <3>1. UNCHANGED <<pc, job, found, ct, stored, cut>>
        BY <1>3, <2>5 DEF Prepare
      <3>. QED
        BY <1>0, <2>1, <2>4, <2>5, <3>1
        DEF Types, TypeOK, ThreadsOK, ThreadOK, UploadInv, UploadOK
    <2>6. CASE job' = [job EXCEPT ![t] = p] /\ Goto(t, "mkdir") /\ UNCHANGED prepared
      <3>1. Moves(t, "mkdir", p, found[t]) /\ found[t] = NoName
        BY <1>0, <1>3, <2>6, Stays DEF Prepare, Moves, Goto, ThreadOK
      <3>2. "mkdir" \in Places /\ "mkdir" \in Uploading
        BY DEF Places, Uploading
      <3>3. ThreadsOK'
        BY <1>0, <2>2, <2>3, <3>1, <3>2, MovesTypes
      <3>4. UploadInv'
        BY <1>3, <2>4, <2>6, <3>1, <3>2, MovesUpload DEF Prepare
      <3>. QED BY <2>1, <2>4, <3>3, <3>4 DEF Types, TypeOK
    <2>. QED BY <2>2, <2>5, <2>6
  <1>4. ASSUME NEW t \in Threads, MakeDirectory(t) PROVE Types' /\ Keeps
    <2>1. TreeOK'
      BY <1>0, <1>4 DEF MakeDirectory, TreeOK
    <2>2. Moves(t, "idle", "none", NoName)
      BY <1>4, EndMoves DEF MakeDirectory
    <2>3. "idle" \in Places /\ "idle" \notin Uploading
      BY DEF Places, Uploading
    <2>4. job[t] \in Payloads
      BY <1>0, <1>4 DEF MakeDirectory, ThreadsOK, ThreadOK, Uploading
    <2>5. ObjectsOK' /\ Keeps
      BY <1>0, <1>4, <2>4 DEF MakeDirectory, ObjectsOK, Keeps
    <2>6. ThreadsOK'
      BY <1>0, <2>2, <2>3, MovesTypes
    <2>7. UploadInv'
      BY <1>4, <2>2, <2>3, <2>5, MovesUpload DEF MakeDirectory
    <2>. QED BY <2>1, <2>5, <2>6, <2>7 DEF Types, TypeOK
  <1>5. ASSUME NEW t \in Threads, SetPayload(t) PROVE Types' /\ Keeps
    <2>1. TreeOK' /\ ObjectsOK' /\ Keeps
      BY <1>0, <1>5 DEF SetPayload, TreeOK, ObjectsOK, Keeps
    <2>2. PICK p \in prepared : Owner[p] = t /\ job' = [job EXCEPT ![t] = p]
      BY <1>5 DEF SetPayload
    <2>3. Moves(t, "set", p, found[t]) /\ found[t] = NoName
      BY <1>0, <1>5, <2>2, Stays DEF SetPayload, Moves, Goto, ThreadOK
    <2>4. p \in Payloads
      BY <1>0 DEF ObjectsOK
    <2>5. "set" \in Places /\ "set" \in Uploading
      BY DEF Places, Uploading
    <2>6. ThreadsOK'
      BY <1>0, <2>2, <2>3, <2>4, <2>5, MovesTypes
    <2>7. p \in prepared' /\ UNCHANGED <<stored, cut>>
      BY <1>5 DEF SetPayload
    <2>8. UploadInv'
      BY <2>1, <2>3, <2>5, <2>7, MovesUpload
    <2>. QED BY <2>1, <2>6, <2>8 DEF Types, TypeOK
  <1>6. ASSUME NEW t \in Threads, Refuse(t) PROVE Types' /\ Keeps
    <2>1. TreeOK'
      BY <1>0, <1>6 DEF Refuse, TreeOK
    <2>2. Moves(t, "idle", "none", NoName)
      BY <1>6, EndMoves DEF Refuse
    <2>. QED BY <1>1, <1>6, <2>1, <2>2 DEF Refuse, Places, Uploading
  (* setPayload past its checks.                                           *)
  <1>7. ASSUME NEW t \in Threads, Ready(t)
        PROVE  /\ job[t] \in Payloads /\ Owner[job[t]] = t /\ job[t] \in prepared
               /\ ct' \in [Payloads -> {0} \union Times]
               /\ ct'[job[t]] \in Times
               /\ \A q \in Payloads : ct[q] # 0 => ct'[q] = ct[q]
               /\ \A q \in Payloads : ct'[q] <= clock'
    <2>1. job[t] \in Payloads /\ Owner[job[t]] = t /\ job[t] \in prepared
      BY <1>0, <1>7 DEF Ready, ThreadsOK, ThreadOK, UploadInv, UploadOK, Uploading
    <2>2. Stamp(job[t])
      BY <1>7 DEF Ready
    <2>3. \A q \in Payloads : ct'[q] <= clock'
      BY <2>1, <2>2, StampTypes, CreatedBefore
    <2>. QED BY <2>1, <2>2, <2>3, StampTypes
  <1>8. ASSUME NEW t \in Threads, OpenFails(t) PROVE Types' /\ Keeps
    <2>1. Moves(t, "idle", "none", NoName)
      BY <1>8, EndMoves DEF OpenFails
    <2>2. TreeOK' /\ ObjectsOK' /\ Keeps
      BY <1>0, <1>7, <1>8 DEF OpenFails, Ready, TreeOK, ObjectsOK, Keeps
    <2>3. "idle" \in Places /\ "idle" \notin Uploading
      BY DEF Places, Uploading
    <2>4. ThreadsOK'
      BY <1>0, <2>1, <2>3, MovesTypes
    <2>5. UploadInv'
      BY <1>8, <2>1, <2>2, <2>3, MovesUpload DEF OpenFails
    <2>. QED BY <2>2, <2>4, <2>5 DEF Types, TypeOK
  <1>9. ASSUME NEW t \in Threads, Open(t) PROVE Types' /\ Keeps
    <2>0. Ready(t)
      BY <1>9 DEF Open
    <2>1. Moves(t, "write", job[t], found[t]) /\ found[t] = NoName
      BY <1>0, <1>9, Stays DEF Open, Ready, Moves, Goto, ThreadOK
    <2>2. <<Key[job[t]], ct'[job[t]]>> \in Names
      BY <1>7, <2>0, KeyName
    <2>3. TreeOK'
      BY <1>0, <1>9, <2>2 DEF Open, Ready, TreeOK
    <2>4. ObjectsOK' /\ Keeps
      BY <1>0, <1>7, <1>9 DEF Open, ObjectsOK, Keeps
    <2>5. "write" \in Places /\ "write" \in Uploading
      BY DEF Places, Uploading, Writing
    <2>6. ThreadsOK'
      BY <1>0, <1>7, <2>0, <2>1, <2>5, MovesTypes
    <2>7. job[t] \in prepared' /\ ct'[job[t]] # 0 /\ UNCHANGED <<stored, cut>>
      BY <1>7, <1>9, <2>0, ZeroTime DEF Open
    <2>8. UploadInv'
      BY <2>1, <2>4, <2>5, <2>7, MovesUpload
    <2>. QED BY <2>3, <2>4, <2>6, <2>8 DEF Types, TypeOK
  <1>10. ASSUME NEW t \in Threads, Write(t) PROVE Types' /\ Keeps
    <2>1. Moves(t, "idle", "none", NoName)
      BY <1>10, EndMoves DEF Write
    <2>2. job[t] \in prepared /\ ct[job[t]] # 0 /\ job[t] \in Payloads
      BY <1>0, <1>10 DEF Write, ThreadsOK, ThreadOK, UploadInv, UploadOK, Uploading
    <2>3. TreeOK'
      BY <1>0, <1>10, <2>2 DEF Write, TreeOK
    <2>4. ObjectsOK' /\ Keeps /\ \A q \in (stored' \union cut') \ (stored \union cut) : ct'[q] # 0
      BY <1>0, <1>10, <2>2 DEF Write, ObjectsOK, Keeps
    <2>5. "idle" \in Places /\ "idle" \notin Uploading
      BY DEF Places, Uploading
    <2>6. ThreadsOK'
      BY <1>0, <2>1, <2>5, MovesTypes
    <2>7. UploadInv'
      BY <2>1, <2>4, <2>5, MovesUpload
    <2>. QED BY <2>3, <2>4, <2>6, <2>7 DEF Types, TypeOK
  <1>11. ASSUME NEW t \in Threads, Get(t) \/ Find(t) PROVE Types' /\ Keeps
    <2>1. TreeOK' /\ UNCHANGED objects
      BY <1>0, <1>11 DEF Get, Find, TreeOK
    <2>2. job[t] = "none" /\ found[t] = NoName
      BY <1>0, <1>11 DEF Get, Find, ThreadsOK, ThreadOK, Uploading
    <2>3. CASE Get(t)
      <3>1. Moves(t, "again", "none", NoName)
        BY <1>0, <2>2, <2>3, Stays DEF Get, Goto, Moves
      <3>. QED BY <1>1, <2>1, <3>1 DEF Places, Uploading
    <2>4. CASE Find(t)
      <3>1. PICK n \in Names : found' = [found EXCEPT ![t] = n]
        BY <2>4 DEF Find
      <3>2. Moves(t, "read", "none", n)
        BY <1>0, <2>2, <2>4, <3>1, Stays DEF Find, Goto, Moves
      <3>. QED BY <1>1, <2>1, <3>2 DEF Places, Uploading
    <2>. QED BY <1>11, <2>3, <2>4
  <1>12. ASSUME NEW t \in Threads, FindNone(t) \/ Download(t) PROVE Types' /\ Keeps
    <2>1. TreeOK' /\ UNCHANGED objects
      BY <1>0, <1>12 DEF FindNone, Download, TreeOK
    <2>2. Moves(t, "idle", "none", NoName)
      BY <1>12, EndMoves DEF FindNone, Download
    <2>. QED BY <1>1, <2>1, <2>2 DEF Places, Uploading
  <1>13. ASSUME NEW t \in Threads,
                CreateTag(t) \/ SetTagSchema(t) \/ Import(t) \/ Save(t) \/ DropTagSchema(t)
         PROVE  Types' /\ Keeps
    <2>1. TreeOK'
      BY <1>0, <1>13
      DEF CreateTag, SetTagSchema, Import, Save, DropTagSchema, TreeOK
    <2>2. UNCHANGED objects
      BY <1>13 DEF CreateTag, SetTagSchema, Import, Save, DropTagSchema
    <2>3. pc[t] \in {"idle", "save"}
      BY <1>13 DEF CreateTag, SetTagSchema, Import, Save, DropTagSchema, Administers
    <2>4. job[t] = "none" /\ found[t] = NoName
      BY <1>0, <2>3 DEF ThreadsOK, ThreadOK, Uploading
    <2>5. \E place \in {"idle", "save"} : pc' = [pc EXCEPT ![t] = place]
      BY <1>0, <1>13, <2>3, Stays
      DEF CreateTag, SetTagSchema, Import, Save, DropTagSchema, Goto, End
    <2>6. job' = [job EXCEPT ![t] = "none"] /\ found' = [found EXCEPT ![t] = NoName]
      BY <1>0, <1>13, <2>4, Stays
      DEF CreateTag, SetTagSchema, Import, Save, DropTagSchema, End
    <2>7. PICK place \in {"idle", "save"} : Moves(t, place, "none", NoName)
      BY <2>5, <2>6 DEF Moves
    <2>8. place \in Places \ Uploading /\ place # "read"
      BY DEF Places, Uploading, Writing
    <2>. QED BY <1>1, <2>1, <2>2, <2>7, <2>8
  <1>14. ASSUME NEW p \in {Process[t] : t \in Threads}, Ends(p) PROVE Types' /\ Keeps
    <2>1. TreeOK'
      BY <1>0, <1>14 DEF Ends, TreeOK
    <2>2. \A q \in cut' \ cut : q \in prepared /\ q \in Payloads /\ ct[q] # 0
      BY <1>0, <1>14 DEF Ends, ThreadsOK, ThreadOK, UploadInv, UploadOK, Uploading
    <2>3. cut \subseteq cut' /\ UNCHANGED <<ct, prepared, stored>>
      BY <1>14 DEF Ends
    <2>4. ObjectsOK' /\ Keeps
      BY <1>0, <2>2, <2>3, CreatedBefore DEF ObjectsOK, Keeps
    <2>5. ASSUME NEW u \in Threads
          PROVE  \/ pc'[u] = "ended" /\ job'[u] = "none" /\ found'[u] = NoName
                 \/ pc'[u] = pc[u] /\ job'[u] = job[u] /\ found'[u] = found[u]
      BY <1>14 DEF Ends
    <2>6. /\ pc' \in [Threads -> Places]
          /\ job' \in [Threads -> Payloads \union {"none"}]
          /\ found' \in [Threads -> Names \union {NoName}]
      BY <1>0, <1>14 DEF Ends, ThreadsOK, Places
    <2>7. ThreadsOK'
      BY <1>0, <2>5, <2>6 DEF ThreadsOK, ThreadOK, Uploading
    <2>8. UploadInv'
      BY <1>0, <2>2, <2>3, <2>5 DEF UploadInv, UploadOK
    <2>. QED BY <2>1, <2>4, <2>7, <2>8 DEF Types, TypeOK
  <1>15. CASE UNCHANGED vars
    BY <1>0, <1>15
    DEF vars, Types, TypeOK, TreeOK, ObjectsOK, ThreadsOK, ThreadOK, UploadInv, UploadOK, Keeps
  <1>16. ASSUME NEW t \in Threads, Starts(t) \/ Step(t) PROVE Types' /\ Keeps
    BY <1>3, <1>4, <1>5, <1>6, <1>8, <1>9, <1>10, <1>11, <1>12, <1>13, <1>16 DEF Starts, Step
  <1>. QED BY <1>2, <1>14, <1>15, <1>16 DEF Next

(* Threads, files and payload objects keep their types.                    *)
THEOREM TypeCorrect == Spec => []TypeOK
  <1>1. Types => TypeOK
    BY DEF Types
  <1>. QED BY <1>1, InitTypes, TypeStep, PTL DEF Spec
-----------------------------------------------------------------------------
(* What a step may do to files and to those who write them.                *)
Quiet ==
  /\ UNCHANGED <<files, stored, cut>>
  /\ \A t \in Threads : pc'[t] = "write" <=> pc[t] = "write"
  /\ \A t \in Threads : pc[t] = "write" => job'[t] = job[t]

LEMMA StepKinds ==
  ASSUME Types, [Next]_vars
  PROVE  \/ Quiet
         \/ \E t \in Threads : Open(t) \/ Write(t)
         \/ \E t \in Threads : Ends(Process[t])
  <1>. USE DEF tree, objects
  <1>1. pc \in [Threads -> Places] /\ job \in [Threads -> Payloads \union {"none"}]
    BY DEF Types, TypeOK, ThreadsOK
  <1>2. ASSUME NEW t \in Threads,
               Prepare(t) \/ MakeDirectory(t) \/ SetPayload(t) \/ Refuse(t) \/ OpenFails(t)
        PROVE  Quiet
    BY <1>1, <1>2
    DEF Quiet, Prepare, MakeDirectory, SetPayload, Refuse, OpenFails, Ready, Goto, End
  <1>3. ASSUME NEW t \in Threads,
               \/ Get(t) \/ Find(t) \/ FindNone(t) \/ Download(t)
               \/ CreateTag(t) \/ SetTagSchema(t) \/ Import(t) \/ Save(t) \/ DropTagSchema(t)
        PROVE  Quiet
    BY <1>1, <1>3
    DEF Quiet, Get, Find, FindNone, Download, CreateTag, SetTagSchema, Import, Save,
        DropTagSchema, Administers, Goto, End
  <1>4. CASE Tick \/ UNCHANGED vars
    BY <1>4 DEF Tick, vars, Quiet
  <1>. QED BY <1>2, <1>3, <1>4 DEF Next, Starts, Step

LEMMA NameTime ==
  ASSUME Types, NEW p \in Payloads
  PROVE  Name(p) \in Names <=> ct[p] # 0
  <1>1. ct[p] \in {0} \union Times
    BY DEF Types, TypeOK, ObjectsOK
  <1>2. Name(p) \in Names => ct[p] \in Times
    BY DEF Name, Names
  <1>. QED BY <1>1, <1>2, KeyName, ZeroTime DEF Name

LEMMA NameStays ==
  ASSUME Keeps, NEW p \in Payloads, ct[p] # 0
  PROVE  Name(p)' = Name(p)
  BY DEF Keeps, Name

LEMMA SameName ==
  ASSUME NEW p \in Payloads, NEW q \in Payloads, p # q, Name(p) = Name(q)
  PROVE  q \in Rivals(p)
  BY DEF Name, Rivals

LEMMA RivalsStay ==
  ASSUME Keeps, NEW p \in Payloads, ct[p] # 0, Rivals(p) # {}
  PROVE  Rivals(p)' # {}
  <1>1. PICK q \in Payloads \ {p} : ct[q] = ct[p] /\ Key[q] = Key[p]
    BY DEF Rivals
  <1>2. ct'[q] = ct'[p]
    BY <1>1 DEF Keeps
  <1>. QED BY <1>1, <1>2 DEF Rivals

(* A thread that writes goes on, or has finished and stored, or is cut.    *)
LEMMA Writer ==
  ASSUME Types, [Next]_vars, NEW u \in Threads, pc[u] = "write"
  PROVE  (pc'[u] = "write" /\ job'[u] = job[u]) \/ job[u] \in stored' \union cut'
  <1>. USE DEF tree, objects
  <1>0. pc \in [Threads -> Places] /\ job \in [Threads -> Payloads \union {"none"}]
    BY DEF Types, TypeOK, ThreadsOK
  <1>1. CASE Quiet
    BY <1>1 DEF Quiet
  <1>2. ASSUME NEW t \in Threads, Open(t) PROVE pc'[u] = "write" /\ job'[u] = job[u]
    BY <1>0, <1>2 DEF Open, Ready, Goto
  <1>3. ASSUME NEW t \in Threads, Write(t)
        PROVE  (pc'[u] = "write" /\ job'[u] = job[u]) \/ job[u] \in stored'
    BY <1>0, <1>3 DEF Write, End, Goto
  <1>4. ASSUME NEW t \in Threads, Ends(Process[t])
        PROVE  (pc'[u] = "write" /\ job'[u] = job[u]) \/ job[u] \in cut'
    BY <1>4 DEF Ends
  <1>. QED BY <1>1, <1>2, <1>3, <1>4, StepKinds
-----------------------------------------------------------------------------
(* A file holds a payload that is stored, under its name, or is torn for a *)
(* reason; what a thread writes has not been put in its file by another.   *)
WholeInv ==
  \A n \in Names, p \in Payloads : files[n] = p => Name(p) = n /\ p \in stored

TornInv ==
  \A n \in Names : files[n] = "torn" =>
    \E p \in Payloads : Name(p) = n /\ (p \in stored \union cut \/ Rewritten(p))

WriteInv ==
  \A t \in Threads, p \in Payloads :
    pc[t] = "write" /\ job[t] = p => files[Name(p)] \notin {"absent", p}

FileInv == WholeInv /\ TornInv /\ WriteInv /\ StoredStays

LEMMA InitFiles == Init => FileInv
  BY FileAssumption
  DEF Init, FileInv, WholeInv, TornInv, WriteInv, StoredStays

LEMMA FilesStep == Types /\ FileInv /\ [Next]_vars => FileInv'
  <1>. SUFFICES ASSUME Types, FileInv, [Next]_vars PROVE FileInv'
    OBVIOUS
  <1>. USE DEF tree, objects
  <1>0. Types' /\ Keeps
    BY TypeStep
  <1>1. \A q \in Payloads : Name(q) \in Names => Name(q)' = Name(q)
    BY <1>0, NameTime, NameStays
  <1>2. ASSUME NEW u \in Threads, pc[u] = "write", NEW q \in Payloads, job[u] = q
        PROVE  Owner[q] = u /\ Name(q) \in Names /\ Name(q)' = Name(q)
    <2>1. Owner[q] = u /\ ct[q] # 0
      BY <1>2
      DEF Types, TypeOK, ThreadsOK, ThreadOK, Uploading, UploadInv, UploadOK
    <2>2. Name(q) \in Names
      BY <2>1, NameTime
    <2>. QED BY <2>1, <2>2, <1>1
  <1>3. ASSUME NEW q \in stored
        PROVE  q \in Payloads /\ Name(q) \in Names /\ Name(q)' = Name(q) /\ ct[q] # 0
    <2>1. q \in Payloads /\ ct[q] # 0
      BY DEF Types, TypeOK, ObjectsOK, UploadInv
    <2>2. Name(q) \in Names
      BY <2>1, NameTime
    <2>. QED BY <2>1, <2>2, <1>1
  <1>4. \A q \in stored : Rivals(q) # {} => Rivals(q)' # {}
    BY <1>0, <1>3, RivalsStay
  <1>5. /\ files \in [Names -> Payloads \union {"absent", "torn"}]
        /\ pc \in [Threads -> Places] /\ job \in [Threads -> Payloads \union {"none"}]
    BY DEF Types, TypeOK, TreeOK, ThreadsOK
  <1>6. "torn" \notin Payloads /\ "absent" \notin Payloads
    BY FileAssumption
  <1>7. stored \subseteq stored' /\ cut \subseteq cut'
    BY <1>0 DEF Keeps
  (* A torn file that stays torn keeps its reason.                         *)
  <1>8. ASSUME NEW n \in Names, files[n] = "torn"
        PROVE  \E p \in Payloads : Name(p)' = n /\ (p \in stored' \union cut' \/ Rewritten(p)')
    <2>1. PICK p \in Payloads : Name(p) = n /\ (p \in stored \union cut \/ Rewritten(p))
      BY <1>8 DEF FileInv, TornInv
    <2>2. Name(p)' = n
      BY <1>1, <2>1
    <2>3. p \in stored \union cut => p \in stored' \union cut'
      BY <1>7
    <2>4. ASSUME Rewritten(p) PROVE p \in stored' \union cut' \/ Rewritten(p)'
      <3>1. PICK u \in Threads : pc[u] = "write" /\ job[u] = p
        BY <2>4 DEF Rewritten
      <3>. QED BY <3>1, Writer DEF Rewritten
    <2>. QED BY <2>1, <2>2, <2>3, <2>4
  <1>9. CASE Quiet
    <2>1. WholeInv'
      BY <1>1, <1>9 DEF Quiet, FileInv, WholeInv
    <2>2. TornInv'
      BY <1>8, <1>9 DEF Quiet, TornInv
    <2>3. WriteInv'
      BY <1>2, <1>9 DEF Quiet, FileInv, WriteInv
    <2>4. StoredStays'
      <3>1. ASSUME NEW q \in stored' \ cut'
            PROVE  files'[Name(q)'] = q \/ Rewritten(q)' \/ Rivals(q)' # {}
        <4>1. q \in stored \ cut /\ Name(q)' = Name(q)
          BY <1>3, <1>9 DEF Quiet
        <4>2. files[Name(q)] = q \/ Rewritten(q) \/ Rivals(q) # {}
          BY <4>1 DEF FileInv, StoredStays
        <4>3. Rewritten(q) => Rewritten(q)'
          BY <1>9 DEF Quiet, Rewritten
        <4>. QED BY <1>4, <1>9, <4>1, <4>2, <4>3 DEF Quiet
      <3>. QED BY <3>1 DEF StoredStays
    <2>. QED BY <2>1, <2>2, <2>3, <2>4 DEF FileInv
  <1>10. ASSUME NEW t \in Threads, Open(t) PROVE FileInv'
    <2>0. PICK p \in Payloads : job[t] = p
      BY <1>10 DEF Open, Ready, Types, TypeOK, ThreadsOK, ThreadOK, Uploading
    <2>. DEFINE N == <<Key[p], ct'[p]>>
    <2>1. /\ pc[t] = "set" /\ files' = [files EXCEPT ![N] = "torn"]
          /\ pc' = [pc EXCEPT ![t] = "write"] /\ UNCHANGED <<stored, cut, job>>
      BY <1>10, <2>0 DEF Open, Ready, Goto
    <2>2. pc'[t] = "write" /\ job'[t] = p /\ Name(p)' = N
      BY <1>5, <2>0, <2>1 DEF Name
    <2>3. ct'[p] # 0
      BY <1>0, <2>2 DEF Types, UploadInv, UploadOK
    <2>4. N \in Names
      <3>1. ct'[p] \in {0} \union Times
        BY <1>0 DEF Types, TypeOK, ObjectsOK
      <3>. QED BY <2>3, <3>1, KeyName
    <2>5. files'[N] = "torn" /\ \A n \in Names \ {N} : files'[n] = files[n]
      BY <1>5, <2>1, <2>4
    <2>6. Rewritten(p)'
      BY <2>2 DEF Rewritten
    <2>7. WholeInv'
      BY <1>1, <1>6, <2>1, <2>5 DEF FileInv, WholeInv
    <2>8. TornInv'
      BY <1>8, <2>2, <2>5, <2>6 DEF TornInv
    <2>9. WriteInv'
      <3>1. ASSUME NEW u \in Threads, NEW q \in Payloads, pc'[u] = "write", job'[u] = q
            PROVE  files'[Name(q)'] \notin {"absent", q}
        <4>1. CASE u = t
          BY <1>6, <2>2, <2>5, <3>1, <4>1
        <4>2. CASE u # t
          <5>1. pc[u] = "write" /\ job[u] = q
            BY <1>5, <2>1, <3>1, <4>2
          <5>2. files[Name(q)] \notin {"absent", q} /\ Name(q) \in Names /\ Name(q)' = Name(q)
            BY <1>2, <5>1 DEF FileInv, WriteInv
          <5>. QED BY <1>6, <2>5, <5>2
        <4>. QED BY <4>1, <4>2
      <3>. QED BY <3>1 DEF WriteInv
    <2>10. StoredStays'
      <3>1. ASSUME NEW q \in stored' \ cut'
            PROVE  files'[Name(q)'] = q \/ Rewritten(q)' \/ Rivals(q)' # {}
        <4>1. q \in stored \ cut /\ q \in Payloads /\ Name(q) \in Names /\ Name(q)' = Name(q)
          BY <1>3, <2>1
        <4>2. CASE files[Name(q)] = q
          <5>1. CASE Name(q) = N /\ q # p
            <6>1. (Name(q) = Name(p))'
              BY <2>2, <4>1, <5>1
            <6>2. p \in Rivals(q)'
              BY <2>2, <4>1, <5>1, <6>1 DEF Name, Rivals
            <6>. QED BY <6>2
          <5>2. CASE Name(q) # N
            BY <2>5, <4>1, <4>2, <5>2
          <5>3. CASE q = p
            BY <2>6, <5>3
          <5>. QED BY <5>1, <5>2, <5>3
        <4>3. CASE Rewritten(q)
          <5>1. PICK u \in Threads : pc[u] = "write" /\ job[u] = q
            BY <4>3 DEF Rewritten
          <5>2. pc'[u] = "write" /\ job'[u] = q
            BY <1>5, <2>1, <5>1
          <5>. QED BY <5>2 DEF Rewritten
        <4>. QED BY <1>4, <4>1, <4>2, <4>3 DEF FileInv, StoredStays
      <3>. QED BY <3>1 DEF StoredStays
    <2>. QED BY <2>7, <2>8, <2>9, <2>10 DEF FileInv
  <1>11. ASSUME NEW t \in Threads, Write(t) PROVE FileInv'
    <2>0. PICK p \in Payloads : job[t] = p
      BY <1>11 DEF Write, Types, TypeOK, ThreadsOK, ThreadOK, Uploading
    <2>. DEFINE N == Name(p)
    <2>1. /\ pc[t] = "write" /\ pc' = [pc EXCEPT ![t] = "idle"]
          /\ job' = [job EXCEPT ![t] = "none"]
          /\ stored' = stored \union {p}
          /\ \/ files' = [files EXCEPT ![N] = p] /\ UNCHANGED cut
             \/ files[N] # "torn" /\ files' = [files EXCEPT ![N] = "torn"] /\ UNCHANGED cut
             \/ cut' = cut \union {p} /\ UNCHANGED files
      BY <1>11, <2>0 DEF Write, End, Goto
    <2>2. Owner[p] = t /\ N \in Names /\ Name(p)' = N
      BY <1>2, <2>0, <2>1
    <2>. HIDE DEF N
    <2>3. files'[N] \in {p, "torn", files[N]} /\ \A n \in Names \ {N} : files'[n] = files[n]
      BY <1>5, <2>1, <2>2
    <2>4. WholeInv'
      <3>1. ASSUME NEW n \in Names, NEW q \in Payloads, files'[n] = q
            PROVE  Name(q)' = n /\ q \in stored'
        <4>1. CASE files[n] = q
          BY <1>1, <1>7, <4>1 DEF FileInv, WholeInv
        <4>2. CASE files[n] # q
          BY <1>6, <2>1, <2>2, <2>3, <3>1, <4>2
        <4>. QED BY <4>1, <4>2
      <3>. QED BY <3>1 DEF WholeInv
    <2>5. TornInv'
      <3>1. ASSUME NEW n \in Names, files'[n] = "torn"
            PROVE  \E q \in Payloads :
                     Name(q)' = n /\ (q \in stored' \union cut' \/ Rewritten(q)')
        <4>1. CASE n = N
          BY <2>1, <2>2, <4>1
        <4>2. CASE n # N
          BY <1>8, <2>3, <3>1, <4>2
        <4>. QED BY <4>1, <4>2
      <3>. QED BY <3>1 DEF TornInv
    <2>6. WriteInv'
      <3>1. ASSUME NEW u \in Threads, NEW q \in Payloads, pc'[u] = "write", job'[u] = q
            PROVE  files'[Name(q)'] \notin {"absent", q}
        <4>1. u # t /\ pc[u] = "write" /\ job[u] = q
          BY <1>5, <2>1, <3>1
        <4>2. Owner[q] = u /\ Name(q) \in Names /\ Name(q)' = Name(q)
          BY <1>2, <4>1
        <4>3. files[Name(q)] \notin {"absent", q}
          BY <4>1 DEF FileInv, WriteInv
        <4>. QED BY <1>6, <2>2, <2>3, <4>1, <4>2, <4>3
      <3>. QED BY <3>1 DEF WriteInv
    <2>7. StoredStays'
      <3>1. ASSUME NEW q \in stored' \ cut', q # p
            PROVE  files'[Name(q)'] = q \/ Rewritten(q)' \/ Rivals(q)' # {}
        <4>1. q \in stored \ cut
          BY <1>7, <2>1, <3>1
        <4>2. q \in Payloads /\ Name(q) \in Names /\ Name(q)' = Name(q)
          BY <1>3, <4>1
        <4>3. CASE files[Name(q)] = q
          <5>1. CASE Name(q) = N
            <6>1. (Name(q) = Name(p))'
              BY <2>2, <4>2, <5>1
            <6>2. p \in Rivals(q)'
              BY <2>2, <3>1, <4>2, <6>1 DEF Name, Rivals
            <6>. QED BY <6>2
          <5>2. CASE Name(q) # N
            BY <2>3, <4>2, <4>3, <5>2
          <5>. QED BY <5>1, <5>2
        <4>4. CASE Rewritten(q)
          <5>1. PICK u \in Threads : pc[u] = "write" /\ job[u] = q
            BY <4>4 DEF Rewritten
          <5>2. pc'[u] = "write" /\ job'[u] = q
            BY <1>5, <2>0, <2>1, <3>1, <5>1
          <5>. QED BY <5>2 DEF Rewritten
        <4>. QED BY <1>4, <4>1, <4>3, <4>4 DEF FileInv, StoredStays
      <3>2. ASSUME p \notin cut'
            PROVE  files'[N] = p \/ Rivals(p)' # {}
        <4>1. CASE files' = [files EXCEPT ![N] = p]
          BY <1>5, <2>2, <4>1
        <4>2. CASE files[N] # "torn"
          <5>1. files[N] \in Payloads /\ files[N] # p
            BY <1>5, <2>0, <2>1, <2>2, <4>2 DEF FileInv, WriteInv, N
          <5>2. PICK q \in Payloads \ {p} : files[N] = q
            BY <5>1
          <5>3. Name(q) = N
            BY <2>2, <5>2 DEF FileInv, WholeInv
          <5>4. (Name(q) = Name(p))'
            BY <1>1, <2>2, <5>3
          <5>5. q \in Rivals(p)'
            BY <5>4 DEF Name, Rivals
          <5>. QED BY <5>5
        <4>. QED BY <2>1, <3>2, <4>1, <4>2
      <3>3. ASSUME NEW q \in stored' \ cut'
            PROVE  files'[Name(q)'] = q \/ Rewritten(q)' \/ Rivals(q)' # {}
        BY <2>2, <3>1, <3>2
      <3>. QED BY <3>3 DEF StoredStays
    <2>. QED BY <2>4, <2>5, <2>6, <2>7 DEF FileInv
  <1>12. ASSUME NEW t \in Threads, Ends(Process[t]) PROVE FileInv'
    <2>1. UNCHANGED <<files, stored>>
      BY <1>12 DEF Ends
    <2>2. WholeInv'
      BY <1>1, <2>1 DEF FileInv, WholeInv
    <2>3. TornInv'
      BY <1>8, <2>1 DEF TornInv
    <2>4. WriteInv'
      <3>1. \A u \in Threads : pc'[u] = "write" => pc[u] = "write" /\ job'[u] = job[u]
        BY <1>12 DEF Ends
      <3>. QED BY <1>2, <2>1, <3>1 DEF FileInv, WriteInv
    <2>5. StoredStays'
      <3>1. ASSUME NEW q \in stored' \ cut'
            PROVE  files'[Name(q)'] = q \/ Rewritten(q)' \/ Rivals(q)' # {}
        <4>1. q \in stored \ cut /\ Name(q)' = Name(q)
          BY <1>3, <1>7, <2>1
        <4>2. ASSUME Rewritten(q) PROVE Rewritten(q)'
          <5>1. PICK u \in Threads : pc[u] = "write" /\ job[u] = q
            BY <4>2 DEF Rewritten
          <5>2. pc'[u] = "write" /\ job'[u] = q
            BY <1>12, <3>1, <5>1 DEF Ends
          <5>. QED BY <5>2 DEF Rewritten
        <4>. QED BY <1>4, <2>1, <4>1, <4>2 DEF FileInv, StoredStays
      <3>. QED BY <3>1 DEF StoredStays
    <2>. QED BY <2>2, <2>3, <2>4, <2>5 DEF FileInv
  <1>. QED BY <1>9, <1>10, <1>11, <1>12, StepKinds

LEMMA FileInvHolds == Spec => [](Types /\ FileInv)
  BY InitTypes, TypeStep, InitFiles, FilesStep, PTL DEF Spec

(* A payload reported as stored stays readable, through crashes, repeated  *)
(* uploads and uploads of other threads and processes, but for the cases   *)
(* that the property excepts.                                              *)
THEOREM StoredStaysHolds == Spec => []StoredStays
  <1>1. FileInv => StoredStays
    BY DEF FileInv
  <1>. QED BY <1>1, FileInvHolds, PTL

(* No payload is in two files, however often its upload is repeated.       *)
THEOREM StoredOnceHolds == Spec => []StoredOnce
  <1>1. FileInv => StoredOnce
    BY DEF FileInv, WholeInv, StoredOnce
  <1>. QED BY <1>1, FileInvHolds, PTL
-----------------------------------------------------------------------------
(* A file that a query has found belongs to a payload that is stored, that *)
(* was cut, or that another process writes.                                *)
HasFile(t, p) ==
  /\ Name(p) = found[t]
  /\ \/ p \in cut \union stored
     \/ \E u \in Threads : pc[u] = "write" /\ job[u] = p /\ Process[u] # Process[t]

FoundInv == \A t \in Threads : pc[t] = "read" => \E p \in Payloads : HasFile(t, p)

LEMMA Reader ==
  ASSUME Types, [Next]_vars, NEW t \in Threads, pc'[t] = "read"
  PROVE  (pc[t] = "read" /\ found'[t] = found[t]) \/ Find(t)
  <1>. USE DEF tree, objects
  <1>0. pc \in [Threads -> Places] /\ found \in [Threads -> Names \union {NoName}]
    BY DEF Types, TypeOK, ThreadsOK
  <1>1. ASSUME NEW u \in Threads,
               \/ Prepare(u) \/ MakeDirectory(u) \/ SetPayload(u) \/ Refuse(u)
               \/ OpenFails(u) \/ Open(u) \/ Write(u)
        PROVE  pc[t] = "read" /\ found'[t] = found[t]
    BY <1>0, <1>1
    DEF Prepare, MakeDirectory, SetPayload, Refuse, OpenFails, Open, Ready, Write, Goto, End
  <1>2. ASSUME NEW u \in Threads, Get(u) \/ Find(u) \/ FindNone(u) \/ Download(u)
        PROVE  (pc[t] = "read" /\ found'[t] = found[t]) \/ Find(t)
    BY <1>0, <1>2 DEF Get, Find, FindNone, Download, Goto, End
  <1>3. ASSUME NEW u \in Threads,
               CreateTag(u) \/ SetTagSchema(u) \/ Import(u) \/ Save(u) \/ DropTagSchema(u)
        PROVE  pc[t] = "read" /\ found'[t] = found[t]
    BY <1>0, <1>3
    DEF CreateTag, SetTagSchema, Import, Save, DropTagSchema, Administers, Goto, End
  <1>4. ASSUME NEW u \in Threads, Ends(Process[u])
        PROVE  pc[t] = "read" /\ found'[t] = found[t]
    BY <1>0, <1>4 DEF Ends
  <1>5. CASE Tick \/ UNCHANGED vars
    BY <1>5 DEF Tick, vars
  <1>. QED BY <1>1, <1>2, <1>3, <1>4, <1>5 DEF Next, Starts, Step

LEMMA FoundStep == Types /\ FileInv /\ FoundInv /\ [Next]_vars => FoundInv'
  <1>. SUFFICES ASSUME Types, FileInv, FoundInv, [Next]_vars,
                       NEW t \in Threads, pc'[t] = "read"
                PROVE  \E p \in Payloads : HasFile(t, p)'
    BY DEF FoundInv
  <1>1. Types' /\ Keeps
    BY TypeStep
  <1>2. CASE pc[t] = "read" /\ found'[t] = found[t]
    <2>1. PICK p \in Payloads : HasFile(t, p)
      BY <1>2 DEF FoundInv
    <2>2. Name(p) \in Names
      BY <1>2, <2>1 DEF HasFile, Types, TypeOK, ThreadsOK, ThreadOK
    <2>3. Name(p)' = found'[t]
      BY <1>1, <1>2, <2>1, <2>2, NameTime, NameStays DEF HasFile
    <2>4. CASE p \in cut \union stored
      BY <1>1, <2>3, <2>4 DEF HasFile, Keeps
    <2>5. ASSUME NEW u \in Threads, pc[u] = "write", job[u] = p, Process[u] # Process[t]
          PROVE  HasFile(t, p)'
      BY <2>3, <2>5, Writer DEF HasFile
    <2>. QED BY <2>1, <2>4, <2>5 DEF HasFile
  <1>3. CASE Find(t)
    <2>1. /\ pc[t] = "again" /\ MayRead(t)
          /\ pc' = [pc EXCEPT ![t] = "read"] /\ UNCHANGED <<job, ct, stored, cut>>
      BY <1>3 DEF Find, Goto, objects
    <2>2. PICK n \in Names : files[n] # "absent" /\ found' = [found EXCEPT ![t] = n]
      BY <1>3 DEF Find
    <2>3. found'[t] = n
      BY <2>2 DEF Types, TypeOK, ThreadsOK
    <2>4. CASE files[n] = "torn"
      <3>1. PICK p \in Payloads : Name(p) = n /\ (p \in stored \union cut \/ Rewritten(p))
        BY <2>4 DEF FileInv, TornInv
      <3>2. Name(p)' = n
        BY <2>1, <3>1 DEF Name
      <3>3. ASSUME NEW u \in Threads, pc[u] = "write", job[u] = p
            PROVE  HasFile(t, p)'
        <4>1. u # t /\ Process[u] # Process[t]
          BY <2>1, <3>3 DEF MayRead, Others, Writing
        <4>2. pc'[u] = "write" /\ job'[u] = p
          BY <2>1, <3>3, <4>1 DEF Types, TypeOK, ThreadsOK
        <4>. QED BY <2>3, <3>2, <4>1, <4>2 DEF HasFile
      <3>. QED BY <2>1, <2>3, <3>1, <3>2, <3>3 DEF HasFile, Rewritten
    <2>5. CASE files[n] # "torn"
      <3>1. files[n] \in Payloads
        BY <2>2, <2>5 DEF Types, TypeOK, TreeOK
      <3>2. PICK p \in Payloads : files[n] = p
        BY <3>1
      <3>3. Name(p) = n /\ p \in stored
        BY <3>2 DEF FileInv, WholeInv
      <3>. QED BY <2>1, <2>3, <3>3 DEF HasFile, Name
    <2>. QED BY <2>4, <2>5
  <1>. QED BY <1>2, <1>3, Reader

(* What a query has found is whole when the data is read, but for the      *)
(* cases that the property excepts.                                        *)
THEOREM FoundWholeHolds == Spec => []FoundWhole
  <1>1. Init => FoundInv
    BY DEF Init, FoundInv
  <1>2. FoundInv => FoundWhole
    BY DEF FoundInv, HasFile, FoundWhole
  <1>. QED BY <1>1, <1>2, FoundStep, FileInvHolds, PTL DEF Spec
-----------------------------------------------------------------------------
(* The mutex: who writes excludes the other threads of its process.        *)
MutexInv ==
  \A t, u \in Threads :
    t # u /\ Process[t] = Process[u] /\ pc[t] \in Writing => pc[u] \notin Holding

(* A thread that writes has met the schema its process has set.            *)
SchemaInv ==
  \A t \in Threads, p \in Bad :
    pc[t] = "write" /\ job[t] = p /\ schema = "set" => setter # Process[t]

(* A thread begins to hold the mutex, or to write under it, only as it may.*)
LEMMA Holder ==
  ASSUME Types, [Next]_vars, NEW t \in Threads
  PROVE  /\ pc'[t] \in Writing => pc[t] \in Writing \/ MayWrite(t)
         /\ pc'[t] \in Holding => pc[t] \in Holding \/ MayRead(t)
  <1>. USE DEF tree, objects, Holding, Writing, MayRead, MayWrite
  <1>0. pc \in [Threads -> Places]
    BY DEF Types, TypeOK, ThreadsOK
  <1>1. ASSUME NEW u \in Threads,
               Prepare(u) \/ MakeDirectory(u) \/ SetPayload(u) \/ Refuse(u) \/ OpenFails(u)
        PROVE  pc'[t] \in Holding => pc'[t] = pc[t]
    BY <1>0, <1>1 DEF Prepare, MakeDirectory, SetPayload, Refuse, OpenFails, Ready, Goto, End
  <1>2. ASSUME NEW u \in Threads, Find(u) \/ FindNone(u) \/ Download(u) \/ Write(u) \/ Save(u)
        PROVE  pc'[t] \in Holding => pc'[t] = pc[t]
    BY <1>0, <1>2 DEF Find, FindNone, Download, Write, Save, Goto, End
  <1>3. ASSUME NEW u \in Threads, Open(u)
        PROVE  pc'[t] = pc[t] \/ MayWrite(t)
    BY <1>0, <1>3 DEF Open, Ready, Goto
  <1>4. ASSUME NEW u \in Threads, Get(u)
        PROVE  pc'[t] = pc[t] \/ (pc'[t] = "again" /\ MayRead(t))
    BY <1>0, <1>4 DEF Get, Goto
  <1>5. ASSUME NEW u \in Threads,
               CreateTag(u) \/ SetTagSchema(u) \/ Import(u) \/ DropTagSchema(u)
        PROVE  pc'[t] = pc[t] \/ MayWrite(t)
    BY <1>0, <1>5 DEF CreateTag, SetTagSchema, Import, DropTagSchema, Administers, Goto
  <1>6. ASSUME NEW u \in Threads, Ends(Process[u])
        PROVE  pc'[t] \in Holding => pc'[t] = pc[t]
    BY <1>0, <1>6 DEF Ends
  <1>7. CASE Tick \/ UNCHANGED vars
    BY <1>7 DEF Tick, vars
  <1>. QED
    BY <1>1, <1>2, <1>3, <1>4, <1>5, <1>6, <1>7 DEF Next, Starts, Step

(* One thread moves at a time, or all of a process end.                    *)
LEMMA OneMoves ==
  ASSUME Types, [Next]_vars, NEW t \in Threads, NEW u \in Threads, t # u
  PROVE  pc'[t] = pc[t] \/ pc'[u] = pc[u] \/ (pc'[t] \notin Holding /\ pc'[u] \notin Holding)
         \/ (pc'[t] = "ended" /\ pc'[u] = "ended")
  <1>. USE DEF tree, objects, Holding, Writing
  <1>0. pc \in [Threads -> Places]
    BY DEF Types, TypeOK, ThreadsOK
  <1>1. ASSUME NEW v \in Threads, Starts(v) \/ Step(v)
        PROVE  pc' = pc \/ \E place : pc' = [pc EXCEPT ![v] = place]
    BY <1>1
    DEF Starts, Step, Prepare, MakeDirectory, SetPayload, Refuse, OpenFails, Open, Ready, Write,
        Get, Find, FindNone, Download, CreateTag, SetTagSchema, Import, Save, DropTagSchema,
        Administers, Goto, End
  <1>2. ASSUME NEW v \in Threads, Ends(Process[v])
        PROVE  \A w \in Threads : pc'[w] = pc[w] \/ pc'[w] = "ended"
    BY <1>2 DEF Ends
  <1>3. CASE Tick \/ UNCHANGED vars
    BY <1>3 DEF Tick, vars
  <1>. QED BY <1>0, <1>1, <1>2, <1>3 DEF Next

LEMMA MutexStep == Types /\ MutexInv /\ [Next]_vars => MutexInv'
  <1>. SUFFICES ASSUME Types, MutexInv, [Next]_vars,
                       NEW t \in Threads, NEW u \in Threads,
                       t # u, Process[t] = Process[u], pc'[t] \in Writing
                PROVE  pc'[u] \notin Holding
    BY DEF MutexInv
  <1>1. Writing \subseteq Holding /\ "ended" \notin Holding
    BY DEF Holding, Writing
  <1>2. u \in Others(t) /\ t \in Others(u)
    BY DEF Others
  <1>3. SUFFICES ASSUME pc'[u] \in Holding PROVE FALSE
    OBVIOUS
  <1>4. pc[t] \in Writing \/ pc[u] \notin Holding
    BY <1>2, Holder, OneMoves, <1>3, <1>1 DEF MayWrite
  <1>5. pc[t] \notin Writing \/ pc[u] \in Holding
    BY <1>2, <1>3, Holder DEF MayRead
  <1>6. CASE pc[t] \in Writing /\ pc[u] \in Holding
    BY <1>6 DEF MutexInv
  <1>7. CASE pc[t] \notin Writing /\ pc[u] \notin Holding
    BY <1>1, <1>3, <1>7, OneMoves
  <1>. QED BY <1>4, <1>5, <1>6, <1>7

LEMMA SchemaStep == Types /\ MutexInv /\ SchemaInv /\ [Next]_vars => SchemaInv'
  <1>. SUFFICES ASSUME Types, MutexInv, SchemaInv, [Next]_vars,
                       NEW t \in Threads, NEW p \in Bad,
                       pc'[t] = "write", job'[t] = p, schema' = "set"
                PROVE  setter' # Process[t]
    BY DEF SchemaInv
  <1>. USE DEF tree, objects
  <1>0. pc \in [Threads -> Places] /\ job \in [Threads -> Payloads \union {"none"}]
    BY DEF Types, TypeOK, ThreadsOK
  <1>1. CASE UNCHANGED <<schema, setter>> /\ pc[t] = "write" /\ job[t] = p
    BY <1>1 DEF SchemaInv
  <1>2. ASSUME NEW u \in Threads,
               \/ Prepare(u) \/ MakeDirectory(u) \/ SetPayload(u) \/ Refuse(u)
               \/ OpenFails(u) \/ Write(u)
        PROVE  UNCHANGED <<schema, setter>> /\ pc[t] = "write" /\ job[t] = p
    BY <1>0, <1>2
    DEF Prepare, MakeDirectory, SetPayload, Refuse, OpenFails, Ready, Write, Goto, End
  <1>3. ASSUME NEW u \in Threads, Open(u)
        PROVE  UNCHANGED <<schema, setter>> /\ pc[t] = "write" /\ job[t] = p
    BY <1>0, <1>3 DEF Open, Ready, Rejected, Goto
  <1>4. ASSUME NEW u \in Threads, Get(u) \/ Find(u) \/ FindNone(u) \/ Download(u)
        PROVE  UNCHANGED <<schema, setter>> /\ pc[t] = "write" /\ job[t] = p
    BY <1>0, <1>4 DEF Get, Find, FindNone, Download, Goto, End
  <1>5. ASSUME NEW u \in Threads, SetTagSchema(u) \/ Import(u) \/ DropTagSchema(u) \/ CreateTag(u)
        PROVE  UNCHANGED <<schema, setter>> /\ pc[t] = "write" /\ job[t] = p
    BY <1>0, <1>5 DEF SetTagSchema, Import, DropTagSchema, CreateTag, Administers, Goto
  <1>6. ASSUME NEW u \in Threads, Save(u)
        PROVE  setter' # Process[t]
    <2>1. pc[u] = "save" /\ pc' = [pc EXCEPT ![u] = "idle"] /\ setter' = Process[u]
      BY <1>6 DEF Save, End, Goto
    <2>2. u # t /\ pc[t] = "write"
      BY <1>0, <2>1
    <2>. QED BY <2>1, <2>2 DEF MutexInv, Holding, Writing
  <1>7. ASSUME NEW u \in Threads, Ends(Process[u])
        PROVE  UNCHANGED <<schema, setter>> /\ pc[t] = "write" /\ job[t] = p
    BY <1>0, <1>7 DEF Ends
  <1>8. CASE Tick \/ UNCHANGED vars
    BY <1>1, <1>8 DEF Tick, vars
  <1>. QED BY <1>1, <1>2, <1>3, <1>4, <1>5, <1>6, <1>7, <1>8 DEF Next, Starts, Step

(* No thread stores data that the schema its process has set rejects, for  *)
(* any threads, schemas set by other processes and files cut short.        *)
THEOREM SchemaHoldsAlways == Spec => SchemaHolds
  <1>. DEFINE Met == \A p \in stored' \ stored :
                       schema = "set" /\ p \in Bad => setter # Process[Owner[p]]
  <1>1. Init => MutexInv /\ SchemaInv
    BY DEF Init, MutexInv, SchemaInv, Writing
  <1>2. Types /\ SchemaInv /\ [Next]_vars => [Met]_vars
    <2>. SUFFICES ASSUME Types, SchemaInv, [Next]_vars,
                         NEW p \in stored' \ stored, schema = "set", p \in Bad
                  PROVE  setter # Process[Owner[p]]
      OBVIOUS
    <2>. USE DEF tree, objects
    <2>1. \E t \in Threads : Write(t)
      BY StepKinds DEF Quiet, Open, Ends
    <2>2. PICK t \in Threads : pc[t] = "write" /\ p = job[t]
      BY <2>1 DEF Write
    <2>3. Owner[p] = t
      BY <2>2 DEF Types, TypeOK, ThreadsOK, ThreadOK, Uploading
    <2>. QED BY <2>2, <2>3 DEF SchemaInv
  <1>. QED BY <1>1, <1>2, InitTypes, TypeStep, MutexStep, SchemaStep, PTL DEF Spec, SchemaHolds
-----------------------------------------------------------------------------
(* When a thread that is in a call can go on, as far as the mutex goes.    *)
CanGo(t) ==
  \/ pc[t] \in Writing \union {"read"}
  \/ pc[t] \in {"mkdir", "again"} /\ MayRead(t)
  \/ pc[t] = "set" /\ MayWrite(t)

(* That nothing but the mutex stops it: what ENABLED says of each step.    *)
Unhindered(t) == CanGo(t) => ENABLED <<Step(t)>>_vars

Done(t) == pc[t] \in {"idle", "ended"}
Busy(t) == \E u \in Others(t) : pc[u] \in Holding

Waiting(t) == pc[t] \in {"mkdir", "set", "again"}
Leaving(t) == pc[t] \in {"write", "save", "read"}

LEMMA OwnStep ==
  ASSUME TypeOK, NEW t \in Threads, Step(t), ~Done(t)
  PROVE  Done(t)' \/ (Waiting(t) /\ Leaving(t)')
  BY DEF TypeOK, ThreadsOK, Done, Waiting, Leaving, Step, MakeDirectory, Refuse, Ready, OpenFails,
     Open, Write, Find, FindNone, Download, Save, End, Goto

LEMMA OtherStep ==
  ASSUME TypeOK, NEW t \in Threads, [Next]_vars, ~Done(t)
  PROVE  Step(t) \/ Done(t)' \/ pc'[t] = pc[t]
  <1>1. ASSUME NEW u \in Threads, Starts(u) \/ Step(u), u # t
        PROVE  pc'[t] = pc[t]
    BY <1>1 DEF TypeOK, ThreadsOK, Starts, Prepare, SetPayload, Get, CreateTag, SetTagSchema,
       Import, DropTagSchema, Step, MakeDirectory, Refuse, Ready, OpenFails,
       Open, Write, Find, FindNone, Download, Save, End, Goto
  <1>2. ASSUME Starts(t) PROVE FALSE
    BY <1>2 DEF Starts, Done, Prepare, SetPayload, Get, CreateTag, SetTagSchema, Import,
       DropTagSchema, Administers
  <1>3. ASSUME NEW u \in Threads, Ends(Process[u])
        PROVE  Done(t)' \/ pc'[t] = pc[t]
    BY <1>3 DEF Ends, Done
  <1>4. CASE Tick
    BY <1>4 DEF Tick
  <1>5. CASE UNCHANGED vars
    BY <1>5 DEF vars
  <1>. QED BY <1>1, <1>2, <1>3, <1>4, <1>5 DEF Next

(* A call needs at most two more steps of its own, and only the mutex can  *)
(* keep it from the first.                                                 *)
LEMMA CallEnds ==
  ASSUME NEW t \in Threads
  PROVE  Spec /\ Fair(t) /\ []Unhindered(t) => []<>Done(t) \/ []<>Busy(t)
  <1>1. TypeOK => Waiting(t) \/ Leaving(t) \/ Done(t)
    BY DEF TypeOK, ThreadsOK, Places, Writing, Done, Waiting, Leaving
  <1>2. TypeOK /\ ~Done(t) /\ ~Busy(t) => CanGo(t)
    BY <1>1 DEF CanGo, Busy, MayRead, MayWrite, Holding, Writing, Waiting, Leaving
  <1>3. TypeOK /\ Leaving(t) /\ [Next]_vars => Leaving(t)' \/ Done(t)'
    BY OwnStep, OtherStep DEF Leaving, Waiting, Done
  <1>4. TypeOK /\ Leaving(t) /\ <<Step(t)>>_vars => Done(t)'
    BY OwnStep DEF Leaving, Waiting, Done
  <1>5. TypeOK /\ Waiting(t) /\ [Next]_vars => Waiting(t)' \/ Leaving(t)' \/ Done(t)'
    BY OwnStep, OtherStep DEF Leaving, Waiting, Done
  <1>6. TypeOK /\ Waiting(t) /\ <<Step(t)>>_vars => Leaving(t)' \/ Done(t)'
    BY OwnStep DEF Leaving, Waiting, Done
  <1>. QED
    BY <1>1, <1>2, <1>3, <1>4, <1>5, <1>6, TypeCorrect, PTL DEF Spec, Fair, Unhindered

(* Calls end, for any threads and processes, when threads that can go on   *)
(* do, or their mutex is held by others again and again.                   *)
THEOREM CallsEndHolds ==
  FairSpec /\ (\A t \in Threads : []Unhindered(t)) => CallsEnd
  <1>1. ASSUME NEW t \in Threads
        PROVE  FairSpec /\ []Unhindered(t) => []<>Done(t) \/ []<>Busy(t)
    <2>1. FairSpec => Spec /\ Fair(t)
      BY DEF FairSpec
    <2>. QED BY <2>1, CallEnds
  <1>2. FairSpec /\ (\A t \in Threads : []Unhindered(t)) =>
          \A t \in Threads : []<>Done(t) \/ []<>Busy(t)
    BY <1>1
  <1>. QED BY <1>2 DEF CallsEnd, Done, Busy
=================================================================================
