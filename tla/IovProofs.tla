------------------------------ MODULE IovProofs ------------------------------
(***************************************************************************)
(* Proofs about IovStore, for every set of payloads, flavors, coordinates, *)
(* writers and readers, any clock bound and any clock skew.                *)
(***************************************************************************)
EXTENDS IovStore, TLAPS

Busy(w) == writer[w] # None

(* Ids of writes under way: an upload's is not in the table yet and is     *)
(* nobody else's, a deactivation's is in the table.                        *)
WriterInv ==
  \A w \in Writers : Busy(w) =>
    /\ writer[w].op = "upload" =>
         /\ writer[w].id \notin Stored
         /\ writer[w].row.ct = writer[w].stamp
         /\ writer[w].row.dt = 0
         /\ \A v \in Writers \ {w} : Busy(v) => writer[v].id # writer[w].id
    /\ writer[w].op = "deactivate" => writer[w].id \in Stored

(* Disciplined deactivations meet an active row, one at a time.            *)
DisciplineInv ==
  \A w \in Writers : Busy(w) /\ writer[w].op = "deactivate" =>
    /\ iov[writer[w].id].dt = 0
    /\ \A v \in Writers \ {w} : Busy(v) => writer[v].id # writer[w].id

Inv == TypeOK /\ WriterInv /\ (Disciplined => DisciplineInv)
-----------------------------------------------------------------------------
LEMMA WriterTypes ==
  ASSUME TypeOK, NEW w \in Writers, Busy(w)
  PROVE  /\ writer[w] \in Uploads \/ writer[w] \in Deactivations
         /\ writer[w].id \in Ids
         /\ writer[w].stamp \in Nat
         /\ writer[w].op = "upload" => writer[w].row \in Row
         /\ writer[w].op \in {"upload", "deactivate"}
  BY DEF TypeOK, Busy, Uploads, Deactivations

LEMMA NoneFacts ==
  /\ None \notin Row /\ None \notin Ids /\ None \notin Uploads
  /\ None \notin Deactivations /\ None \notin Queries
  BY IovAssumption

(* A query that has found a row is still a query.                          *)
LEMMA AnswerTypes ==
  ASSUME NEW q \in Queries, NEW i \in Ids
  PROVE  /\ [q EXCEPT !.step = "end", !.id = i] \in Queries
         /\ \A e \in Int : [q EXCEPT !.step = "done", !.id = i, !.end = e] \in Queries
  <1>1. i \in Ids \union {None}
    OBVIOUS
  <1>2. [q EXCEPT !.step = "end", !.id = i] \in Queries
    BY <1>1 DEF Queries
  <1>3. ASSUME NEW e \in Int
        PROVE  [q EXCEPT !.step = "done", !.id = i, !.end = e] \in Queries
    BY <1>1 DEF Queries
  <1>. QED BY <1>2, <1>3

LEMMA InitInv == Init => Inv
  BY IovAssumption
  DEF Init, Inv, TypeOK, Times, WriterInv, DisciplineInv, Busy

LEMMA TickInv ==
  ASSUME Inv, Tick
  PROVE  Inv'
  <1>1. TypeOK'
    BY IovAssumption DEF Inv, TypeOK, Tick, Times
  <1>. QED
    BY <1>1 DEF Inv, WriterInv, DisciplineInv, Busy, Stored, Tick

LEMMA ReadInv ==
  ASSUME Inv, NEW r \in Readers, Read(r)
  PROVE  Inv'
  <1>. USE DEF Inv, TypeOK
  <1>1. UNCHANGED <<now, iov, writer>>
    BY DEF Read, BeginRead, ProbeMisses, ProbeHits, FindEnd
  <1>2. reader' \in [Readers -> Queries \union {None}]
    <2>1. Len(FlavorOrder) \in Nat \ {0}
      BY IovAssumption
    <2>2. CASE BeginRead(r)
      <3>1. PICK mt \in 0..MaxTime, ask \in Asks :
              reader' = [reader EXCEPT ![r] =
                [step |-> "probe", k |-> 1, settled |-> Settled(mt), mt |-> mt,
                 evt |-> ask.evt, run |-> ask.run, seq |-> ask.seq,
                 id |-> None, end |-> 0]]
        BY <2>2 DEF BeginRead
      <3>2. Settled(mt) \in BOOLEAN
        BY DEF Settled
      <3>3. mt \in Nat /\ ask \in [evt : Nat, run : Nat, seq : Nat]
        BY IovAssumption
      <3>4. [step |-> "probe", k |-> 1, settled |-> Settled(mt), mt |-> mt,
             evt |-> ask.evt, run |-> ask.run, seq |-> ask.seq,
             id |-> None, end |-> 0] \in Queries
        BY <2>1, <3>2, <3>3 DEF Queries
      <3>. QED BY <3>1, <3>4
    <2>3. CASE ProbeMisses(r)
      <3>1. reader[r] \in Queries
        BY <2>3 DEF ProbeMisses, Probing
      <3>2. [reader[r] EXCEPT !.step = "done"] \in Queries
        BY <3>1 DEF Queries
      <3>3. ASSUME reader[r].k < Len(FlavorOrder)
            PROVE  [reader[r] EXCEPT !.k = reader[r].k + 1] \in Queries
        <4>1. reader[r].k + 1 \in 1..Len(FlavorOrder)
          <5>1. reader[r].k \in 1..Len(FlavorOrder)
            BY <3>1 DEF Queries
          <5>. QED BY <2>1, <3>3, <5>1
        <4>. QED BY <3>1, <4>1 DEF Queries
      <3>. QED BY <2>3, <3>2, <3>3 DEF ProbeMisses
    <2>4. CASE ProbeHits(r)
      <3>1. reader[r] \in Queries
        BY <2>4 DEF ProbeHits, Probing
      <3>2. PICK i \in Answers(reader[r], FlavorOrder[reader[r].k]) :
              reader' = [reader EXCEPT ![r] =
                IF Open(i) THEN [reader[r] EXCEPT !.step = "end", !.id = i]
                ELSE [reader[r] EXCEPT !.step = "done", !.id = i, !.end = iov[i].at.et]]
        BY <2>4 DEF ProbeHits
      <3>3. i \in Ids /\ iov[i] # None
        BY DEF Answers, CoversTime, HasRun, Visible
      <3>4. iov[i].at.et \in Int
        BY <3>3 DEF Row, Coord
      <3>5. /\ [reader[r] EXCEPT !.step = "end", !.id = i] \in Queries
            /\ [reader[r] EXCEPT !.step = "done", !.id = i, !.end = iov[i].at.et] \in Queries
        BY <3>1, <3>3, <3>4, AnswerTypes
      <3>6. reader'[r] \in Queries /\ \A o \in Readers \ {r} : reader'[o] = reader[o]
        BY <3>2, <3>5
      <3>. QED BY <3>2, <3>6
    <2>5. CASE FindEnd(r)
      <3>1. reader[r] \in Queries
        BY <2>5 DEF FindEnd
      <3>2. Ends \subseteq Int
        BY IovAssumption DEF Ends, Forever, Coord
      <3>3. \A end \in Ends : [reader[r] EXCEPT !.step = "done", !.end = end] \in Queries
        BY <3>1, <3>2 DEF Queries
      <3>. QED BY <2>5, <3>3 DEF FindEnd
    <2>. QED BY <2>2, <2>3, <2>4, <2>5 DEF Read
  <1>. QED BY <1>1, <1>2 DEF WriterInv, DisciplineInv, Busy, Stored

LEMMA BeginUploadInv ==
  ASSUME Inv, NEW w \in Writers, BeginUpload(w)
  PROVE  Inv'
  <1>. USE DEF Inv
  <1>1. PICK i \in Ids \ Stored, fl \in Flavors, c \in Coords, t \in ClockReadings :
          /\ \A v \in Writers : writer[v] # None => writer[v].id # i
          /\ writer' = [writer EXCEPT ![w] =
               [op |-> "upload", id |-> i, stamp |-> t,
                row |-> [fl |-> fl, ct |-> t, dt |-> 0, at |-> c]]]
    BY DEF BeginUpload
  <1>2. UNCHANGED <<now, iov, reader>>
    BY DEF BeginUpload
  <1>3. [fl |-> fl, ct |-> t, dt |-> 0, at |-> c] \in Row
    BY IovAssumption DEF Row, ClockReadings, Times
  <1>4. writer'[w] \in Uploads
    BY <1>1, <1>3 DEF Uploads, TypeOK, ClockReadings, Times
  <1>5. TypeOK'
    BY <1>1, <1>2, <1>4 DEF TypeOK
  <1>6. WriterInv'
    BY <1>1, <1>2 DEF WriterInv, Busy, Stored, TypeOK
  <1>7. Disciplined => DisciplineInv'
    BY <1>1, <1>2 DEF DisciplineInv, Busy, TypeOK
  <1>. QED BY <1>5, <1>6, <1>7

LEMMA BeginDeactivateInv ==
  ASSUME Inv, NEW w \in Writers, BeginDeactivate(w)
  PROVE  Inv'
  <1>. USE DEF Inv
  <1>1. PICK i \in Stored, t \in 0..MaxTime :
          /\ Disciplined => /\ t + Skew >= now
                            /\ iov[i].dt = 0
                            /\ \A v \in Writers : writer[v] # None => writer[v].id # i
          /\ writer' = [writer EXCEPT ![w] = [op |-> "deactivate", id |-> i, stamp |-> t]]
    BY DEF BeginDeactivate
  <1>2. UNCHANGED <<now, iov, reader>> /\ i \in Ids
    BY DEF BeginDeactivate, Stored
  <1>3. writer'[w] \in Deactivations
    BY <1>1, <1>2, IovAssumption DEF Deactivations, TypeOK
  <1>4. TypeOK'
    BY <1>1, <1>2, <1>3 DEF TypeOK
  <1>5. WriterInv'
    BY <1>1, <1>2 DEF WriterInv, Busy, Stored, TypeOK
  <1>6. Disciplined => DisciplineInv'
    BY <1>1, <1>2 DEF DisciplineInv, Busy, TypeOK
  <1>. QED BY <1>4, <1>5, <1>6

LEMMA GiveUpInv ==
  ASSUME Inv, NEW w \in Writers, GiveUp(w)
  PROVE  Inv'
  BY DEF Inv, GiveUp, TypeOK, WriterInv, DisciplineInv, Busy, Stored

LEMMA CommitUploadInv ==
  ASSUME Inv, NEW w \in Writers, CommitUpload(w)
  PROVE  Inv'
  <1>. USE DEF Inv, CommitUpload
  <1>. DEFINE i == writer[w].id
  <1>1. /\ i \in Ids /\ writer[w].row \in Row /\ i \notin Stored
        /\ \A v \in Writers \ {w} : Busy(v) => writer[v].id # i
    BY WriterTypes DEF Busy, WriterInv
  <1>2. iov'[i] # None /\ \A j \in Ids \ {i} : iov'[j] = iov[j]
    BY <1>1, NoneFacts DEF TypeOK
  <1>3. Stored' = Stored \union {i}
    BY <1>1, <1>2 DEF Stored
  <1>4. TypeOK'
    BY <1>1 DEF TypeOK
  <1>5. \A v \in Writers : Busy(v)' => v # w /\ Busy(v) /\ writer'[v] = writer[v]
    BY DEF Busy, TypeOK
  <1>6. WriterInv'
    BY <1>1, <1>3, <1>5 DEF WriterInv
  <1>7. Disciplined => DisciplineInv'
    <2>1. \A v \in Writers : Busy(v) => writer[v].id \in Ids
      BY WriterTypes
    <2>. QED BY <1>1, <1>2, <1>5, <2>1 DEF DisciplineInv
  <1>. QED BY <1>4, <1>6, <1>7

LEMMA CommitDeactivateInv ==
  ASSUME Inv, NEW w \in Writers, CommitDeactivate(w)
  PROVE  Inv'
  <1>. USE DEF Inv, CommitDeactivate
  <1>. DEFINE i == writer[w].id
              row == [iov[i] EXCEPT !.dt = writer[w].stamp]
  <1>1. i \in Ids /\ writer[w].stamp \in Nat /\ iov[i] # None
    BY WriterTypes DEF Busy, WriterInv, Stored
  <1>2. row \in Row
    BY <1>1 DEF TypeOK, Row
  <1>3. /\ iov' = [iov EXCEPT ![i] = row]
        /\ iov'[i] # None
        /\ \A j \in Ids \ {i} : iov'[j] = iov[j]
    BY <1>1, <1>2, NoneFacts DEF TypeOK
  <1>4. Stored' = Stored
    BY <1>1, <1>3 DEF Stored
  <1>5. TypeOK'
    BY <1>2, <1>3 DEF TypeOK
  <1>6. \A v \in Writers : Busy(v)' => v # w /\ Busy(v) /\ writer'[v] = writer[v]
    BY DEF Busy, TypeOK
  <1>7. WriterInv'
    BY <1>4, <1>6 DEF WriterInv
  <1>8. Disciplined => DisciplineInv'
    <2>1. \A v \in Writers : Busy(v) => writer[v].id \in Ids
      BY WriterTypes
    <2>2. Disciplined => \A v \in Writers \ {w} : Busy(v) => writer[v].id # i
      BY DEF DisciplineInv, Busy
    <2>. QED BY <1>3, <1>6, <2>1, <2>2 DEF DisciplineInv
  <1>. QED BY <1>5, <1>7, <1>8

LEMMA NextInv == Inv /\ [Next]_vars => Inv'
  <1>. SUFFICES ASSUME Inv, [Next]_vars PROVE Inv'
    OBVIOUS
  <1>1. ASSUME NEW w \in Writers, Write(w) PROVE Inv'
    BY <1>1, BeginUploadInv, CommitUploadInv, BeginDeactivateInv,
       CommitDeactivateInv, GiveUpInv DEF Write
  <1>2. ASSUME NEW r \in Readers, Read(r) PROVE Inv'
    BY <1>2, ReadInv
  <1>3. CASE UNCHANGED vars
    BY <1>3 DEF Inv, TypeOK, WriterInv, DisciplineInv, Busy, Stored, vars
  <1>. QED BY <1>1, <1>2, <1>3, TickInv DEF Next

THEOREM Invariance == Spec => []Inv
  BY InitInv, NextInv, PTL DEF Spec

(* The clock, the table, and what is under way keep their types.           *)
THEOREM TypeCorrect == Spec => []TypeOK
  BY Invariance, PTL DEF Inv
-----------------------------------------------------------------------------
(* Writes stamped later than a settled entry time are all there will be.   *)
LEMMA SettledStays ==
  ASSUME Inv, Disciplined, [Next]_vars, NEW mt \in Nat, Settled(mt)
  PROVE  Settled(mt)'
  <1>. USE IovAssumption DEF Settled
  <1>1. now \in Nat
    BY DEF Inv, TypeOK, Times
  <1>2. CASE Tick
    BY <1>1, <1>2 DEF Tick
  <1>3. ASSUME NEW w \in Writers, Write(w)
        PROVE  Settled(mt)'
    <2>1. now' = now /\ \A v \in Writers \ {w} : writer'[v] = writer[v]
      BY <1>3 DEF Write, BeginUpload, CommitUpload, BeginDeactivate,
         CommitDeactivate, GiveUp, Inv, TypeOK
    <2>2. writer'[w] # None => mt < writer'[w].stamp
      <3>1. CASE BeginUpload(w)
        <4>1. PICK t \in ClockReadings : writer'[w].stamp = t
          BY <3>1 DEF BeginUpload, Inv, TypeOK
        <4>. QED BY <1>1, <4>1 DEF ClockReadings, Times
      <3>2. CASE BeginDeactivate(w)
        <4>1. PICK t \in 0..MaxTime : writer'[w].stamp = t /\ t + Skew >= now
          BY <3>2 DEF BeginDeactivate, Inv, TypeOK
        <4>. QED BY <1>1, <4>1
      <3>3. CASE CommitUpload(w) \/ CommitDeactivate(w) \/ GiveUp(w)
        BY <3>3 DEF CommitUpload, CommitDeactivate, GiveUp, Inv, TypeOK
      <3>. QED BY <1>3, <3>1, <3>2, <3>3 DEF Write
    <2>. QED BY <2>1, <2>2
  <1>4. ASSUME NEW r \in Readers, Read(r)
        PROVE  Settled(mt)'
    BY <1>4 DEF Read, BeginRead, ProbeMisses, ProbeHits, FindEnd
  <1>5. CASE UNCHANGED vars
    BY <1>5 DEF vars
  <1>. QED BY <1>2, <1>3, <1>4, <1>5 DEF Next

(* A deactivation of a payload that is not active any more, to another     *)
(* time: the one write whose stamp need not be later than what it changes. *)
Repeats == \E i \in Stored : iov[i].dt # 0 /\ iov'[i].dt # iov[i].dt

LEMMA NoRepeats ==
  ASSUME Inv, Disciplined, [Next]_vars
  PROVE  ~Repeats
  <1>1. ASSUME NEW w \in Writers, CommitUpload(w), NEW i \in Stored
        PROVE  iov'[i] = iov[i]
    <2>1. writer[w].id \in Ids \ Stored
      BY <1>1, WriterTypes DEF Inv, WriterInv, Busy, CommitUpload
    <2>. QED BY <1>1, <2>1 DEF CommitUpload, Inv, TypeOK, Stored
  <1>2. ASSUME NEW w \in Writers, CommitDeactivate(w), NEW i \in Stored, iov[i].dt # 0
        PROVE  iov'[i] = iov[i]
    <2>1. writer[w].id \in Ids /\ iov[writer[w].id].dt = 0
      BY <1>2, WriterTypes DEF Inv, DisciplineInv, Busy, CommitDeactivate
    <2>. QED BY <1>2, <2>1 DEF CommitDeactivate, Inv, TypeOK, Stored
  <1>3. ASSUME UNCHANGED iov PROVE ~Repeats
    BY <1>3 DEF Repeats
  <1>. QED
    BY <1>1, <1>2, <1>3 DEF Repeats, Next, Write, Read, Tick, BeginUpload, BeginDeactivate,
       GiveUp, BeginRead, ProbeMisses, ProbeHits, FindEnd, vars

(* What a row looks like to a query.                                       *)
Looks(i) == <<iov[i].fl, iov[i].ct, iov[i].at>>

(* No step makes a row visible or invisible at a settled entry time, nor   *)
(* changes what a visible row says: an upload's ct and a deactivation's dt *)
(* are later, and the row a deactivation meets was active, or stays as it  *)
(* was.                                                                    *)
LEMMA RowStable ==
  ASSUME Inv, ~Repeats, [Next]_vars, NEW mt \in Nat, Settled(mt), NEW i \in Ids
  PROVE  /\ Visible(i, mt)' = Visible(i, mt)
         /\ Visible(i, mt) => Looks(i)' = Looks(i)
  <1>. USE DEF Visible, Looks
  <1>1. ASSUME UNCHANGED iov
        PROVE  /\ Visible(i, mt)' = Visible(i, mt)
               /\ Looks(i)' = Looks(i)
    BY <1>1
  <1>2. ASSUME NEW w \in Writers, CommitUpload(w)
        PROVE  /\ Visible(i, mt)' = Visible(i, mt)
               /\ Visible(i, mt) => Looks(i)' = Looks(i)
    <2>1. /\ writer[w].id \in Ids \ Stored
          /\ writer[w].row \in Row
          /\ writer[w].row.ct = writer[w].stamp
          /\ writer[w].stamp \in Nat
      BY <1>2, WriterTypes DEF Inv, WriterInv, Busy, CommitUpload
    <2>2. mt < writer[w].stamp /\ mt # 0
      BY <1>2 DEF Settled, CommitUpload
    <2>3. CASE i = writer[w].id
      <3>1. iov'[i] = writer[w].row /\ iov[i] = None
        BY <1>2, <2>1, <2>3 DEF CommitUpload, Inv, TypeOK, Stored
      <3>. QED BY <2>1, <2>2, <3>1
    <2>4. CASE i # writer[w].id
      <3>1. iov'[i] = iov[i]
        BY <1>2, <2>4 DEF CommitUpload, Inv, TypeOK
      <3>. QED BY <3>1
    <2>. QED BY <2>3, <2>4
  <1>3. ASSUME NEW w \in Writers, CommitDeactivate(w)
        PROVE  /\ Visible(i, mt)' = Visible(i, mt)
               /\ Visible(i, mt) => Looks(i)' = Looks(i)
    <2>1. /\ writer[w].id \in Stored
          /\ iov[writer[w].id].dt = 0 \/ iov'[writer[w].id].dt = iov[writer[w].id].dt
          /\ writer[w].stamp \in Nat
      BY <1>3, WriterTypes DEF Inv, WriterInv, Busy, CommitDeactivate, Repeats
    <2>2. mt < writer[w].stamp /\ mt # 0
      BY <1>3 DEF Settled, CommitDeactivate
    <2>3. CASE i = writer[w].id
      <3>1. iov[i] \in Row /\ iov'[i] = [iov[i] EXCEPT !.dt = writer[w].stamp]
        BY <1>3, <2>1, <2>3 DEF CommitDeactivate, Inv, TypeOK, Stored
      <3>2. /\ iov'[i].fl = iov[i].fl /\ iov'[i].ct = iov[i].ct /\ iov'[i].at = iov[i].at
            /\ iov'[i].dt = writer[w].stamp /\ iov'[i] \in Row
        BY <2>1, <3>1 DEF Row
      <3>3. iov[i] # None /\ iov'[i] # None
        BY <3>1, <3>2, NoneFacts
      <3>. QED BY <2>1, <2>2, <2>3, <3>2, <3>3
    <2>4. CASE i # writer[w].id
      <3>1. iov'[i] = iov[i]
        BY <1>3, <2>4 DEF CommitDeactivate, Inv, TypeOK
      <3>. QED BY <3>1
    <2>. QED BY <2>3, <2>4
  <1>4. ASSUME NEW w \in Writers, Write(w)
        PROVE  UNCHANGED iov \/ CommitUpload(w) \/ CommitDeactivate(w)
    BY <1>4 DEF Write, BeginUpload, BeginDeactivate, GiveUp
  <1>5. ASSUME NEW r \in Readers, Read(r)
        PROVE  UNCHANGED iov
    BY <1>5 DEF Read, BeginRead, ProbeMisses, ProbeHits, FindEnd
  <1>6. Tick \/ UNCHANGED vars => UNCHANGED iov
    BY DEF Tick, vars
  <1>. QED BY <1>1, <1>2, <1>3, <1>4, <1>5, <1>6 DEF Next

(* So every SELECT answers alike before and after the step.                *)
LEMMA QueryStable ==
  ASSUME Inv, ~Repeats, [Next]_vars, NEW q, q.mt \in Nat, Settled(q.mt), NEW fl
  PROVE  /\ Answers(q, fl)' = Answers(q, fl)
         /\ \A i \in Answers(q, fl) : Looks(i)' = Looks(i)
         /\ \A end : EndsAt(q, fl, end)' = EndsAt(q, fl, end)
  <1>1. \A i \in Ids : /\ Visible(i, q.mt)' = Visible(i, q.mt)
                       /\ Visible(i, q.mt) => /\ iov'[i].fl = iov[i].fl
                                              /\ iov'[i].ct = iov[i].ct
                                              /\ iov'[i].at = iov[i].at
    BY RowStable DEF Looks
  <1>2. \A i \in Ids : /\ CoversTime(i, q, fl)' = CoversTime(i, q, fl)
                       /\ HasRun(i, q, fl)' = HasRun(i, q, fl)
                       /\ Successor(i, q, fl)' = Successor(i, q, fl)
    BY <1>1 DEF CoversTime, HasRun, Successor
  <1>3. \A i \in Ids : /\ CoversTime(i, q, fl) => Visible(i, q.mt)
                       /\ HasRun(i, q, fl) => Visible(i, q.mt)
                       /\ Successor(i, q, fl) => Visible(i, q.mt)
    BY DEF CoversTime, HasRun, Successor
  <1>4. Answers(q, fl)' = Answers(q, fl)
    BY <1>1, <1>2, <1>3 DEF Answers
  <1>5. \A i \in Answers(q, fl) : Looks(i)' = Looks(i)
    BY <1>1, <1>3 DEF Answers, Looks
  <1>6. \A b : FirstBegin(q, fl, b)' = FirstBegin(q, fl, b)
    BY <1>1, <1>2, <1>3 DEF FirstBegin
  <1>7. \A end : EndsAt(q, fl, end)' = EndsAt(q, fl, end)
    BY <1>2, <1>6 DEF EndsAt
  <1>. QED BY <1>4, <1>5, <1>7

(* Whatever administrators do, only a repeated deactivation can change an  *)
(* answer at a settled entry time (deactivatePayload's UPDATE does not ask *)
(* what dt was): backdated ones show while they are under way.             *)
OnlyRepeatsDisturb ==
  [][ ~Repeats =>
        \A mt \in Times, ask \in Asks, fl \in Flavors :
          Settled(mt) => Answers(Question(mt, ask), fl)' = Answers(Question(mt, ask), fl) ]_vars

(* Proved without the assumption that deactivations are disciplined.       *)
THEOREM OnlyRepeatsDisturbHolds == Spec => OnlyRepeatsDisturb
  <1>1. ASSUME Inv, [Next]_vars, ~Repeats, NEW mt \in Times, NEW ask \in Asks,
               NEW fl \in Flavors, Settled(mt)
        PROVE  Answers(Question(mt, ask), fl)' = Answers(Question(mt, ask), fl)
    <2>1. Question(mt, ask).mt = mt /\ mt \in Nat
      BY DEF Question, Times
    <2>. QED BY <1>1, <2>1, QueryStable
  <1>2. Inv /\ [Next]_vars =>
          [ ~Repeats =>
              \A mt \in Times, ask \in Asks, fl \in Flavors :
                Settled(mt) =>
                  Answers(Question(mt, ask), fl)' = Answers(Question(mt, ask), fl) ]_vars
    BY <1>1
  <1>. QED BY Invariance, <1>2, PTL DEF Spec, OnlyRepeatsDisturb

(* A settled entry time gives the same answers for ever, if deactivations  *)
(* are disciplined; clocks may disagree by Skew.                           *)
THEOREM SettledAnswersAreStable ==
  ASSUME Disciplined
  PROVE  Spec => SettledAnswersStable
  <1>1. ASSUME Inv, [Next]_vars, NEW mt \in Times, NEW ask \in Asks, NEW fl \in Flavors,
               Settled(mt)
        PROVE  Answers(Question(mt, ask), fl)' = Answers(Question(mt, ask), fl)
    <2>1. Question(mt, ask).mt = mt /\ mt \in Nat
      BY DEF Question, Times
    <2>. QED BY <1>1, <2>1, QueryStable, NoRepeats
  <1>2. Inv /\ [Next]_vars =>
          [ \A mt \in Times, ask \in Asks, fl \in Flavors :
              Settled(mt) => Answers(Question(mt, ask), fl)' = Answers(Question(mt, ask), fl) ]_vars
    BY <1>1
  <1>. QED BY Invariance, <1>2, PTL DEF Spec, SettledAnswersStable
-----------------------------------------------------------------------------
(* What a settled query knows on its way: the flavors it has passed have   *)
(* no answer, and the row it holds is one of the answers.                  *)
Missed(q, n) == \A l \in 1..n : Answers(q, FlavorOrder[l]) = {}

Sound(q) ==
  /\ Settled(q.mt)
  /\ q.step = "probe" => q.id = None /\ Missed(q, q.k - 1)
  /\ q.step = "end" => /\ Missed(q, q.k - 1)
                       /\ q.id \in Answers(q, FlavorOrder[q.k])
                       /\ Open(q.id)
  /\ q.step = "done" => AtomicResult(q, q.id, q.end)

SettledReads ==
  \A r \in Readers, q \in Queries : reader[r] = q /\ q.settled => Sound(q)

(* Answers read the question of a query, not its progress.                 *)
LEMMA SameQuestion ==
  ASSUME NEW q, NEW p, p.mt = q.mt, p.evt = q.evt, p.run = q.run, p.seq = q.seq, NEW fl
  PROVE  /\ Answers(p, fl) = Answers(q, fl)
         /\ \A end : EndsAt(p, fl, end) = EndsAt(q, fl, end)
  <1>1. \A i : /\ CoversTime(i, p, fl) = CoversTime(i, q, fl)
               /\ HasRun(i, p, fl) = HasRun(i, q, fl)
               /\ Successor(i, p, fl) = Successor(i, q, fl)
    BY DEF CoversTime, HasRun, Successor
  <1>2. Answers(p, fl) = Answers(q, fl)
    BY <1>1 DEF Answers
  <1>3. \A b : FirstBegin(p, fl, b) = FirstBegin(q, fl, b)
    BY <1>1 DEF FirstBegin
  <1>. QED BY <1>1, <1>2, <1>3 DEF EndsAt

LEMMA AnswersAreIds ==
  ASSUME NEW q, NEW fl
  PROVE  Answers(q, fl) \subseteq Ids
  BY DEF Answers

(* What a settled query knows stays true under every step of the others.   *)
LEMMA SoundStable ==
  ASSUME Inv, Disciplined, [Next]_vars, NEW q, q.mt \in Nat, Sound(q)
  PROVE  Sound(q)'
  <1>1. Settled(q.mt) /\ Settled(q.mt)'
    BY SettledStays DEF Sound
  <1>2. \A fl : /\ Answers(q, fl)' = Answers(q, fl)
                /\ \A i \in Answers(q, fl) : iov'[i].at = iov[i].at
                /\ \A end : EndsAt(q, fl, end)' = EndsAt(q, fl, end)
    <2>1. ASSUME NEW fl
          PROVE  /\ Answers(q, fl)' = Answers(q, fl)
                 /\ \A i \in Answers(q, fl) : Looks(i)' = Looks(i)
                 /\ \A end : EndsAt(q, fl, end)' = EndsAt(q, fl, end)
      BY <1>1, QueryStable, NoRepeats
    <2>. QED BY <2>1 DEF Looks
  <1>3. \A fl : \A i \in Answers(q, fl) : Open(i)' = Open(i)
    BY <1>2 DEF Open
  <1>4. \A n : Missed(q, n)' = Missed(q, n)
    BY <1>2 DEF Missed
  <1>5. AtomicResult(q, q.id, q.end) => AtomicResult(q, q.id, q.end)'
    BY <1>2, <1>3 DEF AtomicResult
  <1>. QED BY <1>1, <1>2, <1>3, <1>4, <1>5 DEF Sound

(* A step of a query: p is what becomes of q while nothing else moves.      *)
LEMMA OwnStep ==
  ASSUME UNCHANGED <<now, iov, writer>>,
         NEW q, NEW p, p.mt = q.mt, p.evt = q.evt, p.run = q.run, p.seq = q.seq
  PROVE  /\ Settled(q.mt) => Settled(p.mt)'
         /\ \A fl : /\ Answers(p, fl)' = Answers(q, fl)
                    /\ \A end : EndsAt(p, fl, end)' = EndsAt(q, fl, end)
         /\ \A i : Open(i)' = Open(i) /\ iov'[i] = iov[i]
         /\ \A n : Missed(p, n)' = Missed(q, n)
  <1>1. \A fl : /\ Answers(p, fl)' = Answers(p, fl)
                /\ \A end : EndsAt(p, fl, end)' = EndsAt(p, fl, end)
    BY DEF Answers, CoversTime, HasRun, EndsAt, FirstBegin, Successor, Visible
  <1>2. \A fl : /\ Answers(p, fl) = Answers(q, fl)
                /\ \A end : EndsAt(p, fl, end) = EndsAt(q, fl, end)
    BY SameQuestion
  <1>3. \A n : Missed(p, n)' = Missed(q, n)
    BY <1>1, <1>2 DEF Missed
  <1>. QED BY <1>1, <1>2, <1>3 DEF Settled, Open

LEMMA BeginReadSound ==
  ASSUME Inv, NEW r \in Readers, BeginRead(r),
         NEW p \in Queries, reader'[r] = p, p.settled
  PROVE  Sound(p)'
  <1>1. PICK mt \in 0..MaxTime, ask \in Asks :
          reader' = [reader EXCEPT ![r] =
            [step |-> "probe", k |-> 1, settled |-> Settled(mt), mt |-> mt,
             evt |-> ask.evt, run |-> ask.run, seq |-> ask.seq, id |-> None, end |-> 0]]
    BY DEF BeginRead
  <1>2. /\ p.step = "probe" /\ p.k = 1 /\ p.id = None
        /\ p.mt = mt /\ Settled(mt)
    BY <1>1 DEF Inv, TypeOK
  <1>3. Settled(p.mt)'
    BY <1>2 DEF BeginRead, Settled
  <1>. QED BY <1>2, <1>3 DEF Sound, Missed

LEMMA ProbeMissesSound ==
  ASSUME Inv, NEW r \in Readers, ProbeMisses(r),
         NEW q \in Queries, reader[r] = q, Sound(q),
         NEW p \in Queries, reader'[r] = p
  PROVE  Sound(p)'
  <1>1. q.step = "probe" /\ q.id = None /\ Missed(q, q.k - 1)
    BY DEF ProbeMisses, Probing, Sound
  <1>2. q.k \in 1..Len(FlavorOrder) /\ Len(FlavorOrder) \in Nat
    BY IovAssumption DEF Queries
  <1>3. Missed(q, q.k)
    <2>1. \A l \in 1..q.k : l \in 1..(q.k - 1) \/ l = q.k
      BY <1>2
    <2>. QED BY <1>1, <2>1 DEF Missed, ProbeMisses
  <1>4. /\ p.mt = q.mt /\ p.evt = q.evt /\ p.run = q.run /\ p.seq = q.seq /\ p.id = None
        /\ IF q.k < Len(FlavorOrder) THEN p.step = "probe" /\ p.k = q.k + 1
                                     ELSE p.step = "done"
    BY <1>1 DEF ProbeMisses, Inv, TypeOK, Queries
  <1>5. Settled(p.mt)' /\ Missed(p, q.k)' /\ \A fl : Answers(p, fl)' = Answers(q, fl)
    BY <1>3, <1>4, OwnStep DEF ProbeMisses, Sound
  <1>6. CASE q.k < Len(FlavorOrder)
    BY <1>2, <1>4, <1>5, <1>6 DEF Sound
  <1>7. CASE ~(q.k < Len(FlavorOrder))
    <2>1. p.step = "done" /\ q.k = Len(FlavorOrder)
      BY <1>2, <1>4, <1>7
    <2>2. AtomicResult(p, p.id, p.end)'
      BY <1>4, <1>5, <2>1 DEF AtomicResult, Missed
    <2>. QED BY <1>5, <2>1, <2>2 DEF Sound
  <1>. QED BY <1>6, <1>7

LEMMA ProbeHitsSound ==
  ASSUME Inv, NEW r \in Readers, ProbeHits(r),
         NEW q \in Queries, reader[r] = q, Sound(q),
         NEW p \in Queries, reader'[r] = p
  PROVE  Sound(p)'
  <1>1. q.step = "probe" /\ Missed(q, q.k - 1)
    BY DEF ProbeHits, Probing, Sound
  <1>2. PICK i \in Answers(q, FlavorOrder[q.k]) :
          p = IF Open(i) THEN [q EXCEPT !.step = "end", !.id = i]
                         ELSE [q EXCEPT !.step = "done", !.id = i, !.end = iov[i].at.et]
    BY DEF ProbeHits, Inv, TypeOK
  <1>3. /\ p.mt = q.mt /\ p.evt = q.evt /\ p.run = q.run /\ p.seq = q.seq
        /\ p.k = q.k /\ p.id = i
        /\ IF Open(i) THEN p.step = "end" ELSE p.step = "done" /\ p.end = iov[i].at.et
    BY <1>2 DEF Queries
  <1>4. /\ Settled(p.mt)'
        /\ Missed(p, q.k - 1)'
        /\ \A fl : Answers(p, fl)' = Answers(q, fl)
        /\ Open(i)' = Open(i) /\ iov'[i] = iov[i]
    BY <1>1, <1>3, OwnStep DEF ProbeHits, Sound
  <1>5. CASE Open(i)
    BY <1>3, <1>4, <1>5 DEF Sound, Open
  <1>6. CASE ~Open(i)
    <2>1. q.k \in 1..Len(FlavorOrder)
      BY DEF Queries
    <2>2. AtomicResult(p, p.id, p.end)'
      BY <1>3, <1>4, <1>6, <2>1 DEF AtomicResult, Missed
    <2>. QED BY <1>3, <1>4, <1>6, <2>2 DEF Sound
  <1>. QED BY <1>5, <1>6

LEMMA FindEndSound ==
  ASSUME Inv, NEW r \in Readers, FindEnd(r),
         NEW q \in Queries, reader[r] = q, Sound(q),
         NEW p \in Queries, reader'[r] = p
  PROVE  Sound(p)'
  <1>1. /\ q.step = "end" /\ Missed(q, q.k - 1)
        /\ q.id \in Answers(q, FlavorOrder[q.k]) /\ Open(q.id)
    BY DEF FindEnd, Sound
  <1>2. PICK end \in Ends :
          EndsAt(q, FlavorOrder[q.k], end) /\ p = [q EXCEPT !.step = "done", !.end = end]
    BY DEF FindEnd, Inv, TypeOK
  <1>3. /\ p.mt = q.mt /\ p.evt = q.evt /\ p.run = q.run /\ p.seq = q.seq
        /\ p.k = q.k /\ p.id = q.id /\ p.step = "done" /\ p.end = end
    BY <1>2 DEF Queries
  <1>4. /\ Settled(p.mt)'
        /\ Missed(p, q.k - 1)'
        /\ \A fl : /\ Answers(p, fl)' = Answers(q, fl)
                   /\ EndsAt(p, fl, end)' = EndsAt(q, fl, end)
        /\ Open(p.id)' = Open(p.id)
    BY <1>1, <1>3, OwnStep DEF FindEnd, Sound
  <1>5. q.k \in 1..Len(FlavorOrder)
    BY DEF Queries
  <1>6. AtomicResult(p, p.id, p.end)'
    BY <1>1, <1>2, <1>3, <1>4, <1>5 DEF AtomicResult, Missed
  <1>. QED BY <1>3, <1>4, <1>6 DEF Sound

LEMMA SettledReadsNext ==
  ASSUME Inv, Disciplined, SettledReads, [Next]_vars
  PROVE  SettledReads'
  <1>. SUFFICES ASSUME NEW r \in Readers, NEW p \in Queries, reader'[r] = p, p.settled
                PROVE  Sound(p)'
    BY DEF SettledReads
  <1>1. CASE reader'[r] = reader[r]
    <2>1. Sound(p) /\ p.mt \in Nat
      BY <1>1 DEF SettledReads, Queries
    <2>. QED BY <2>1, SoundStable
  <1>2. CASE reader'[r] # reader[r]
    <2>1. Read(r)
      <3>1. \A w \in Writers : Write(w) => UNCHANGED reader
        BY DEF Write, BeginUpload, CommitUpload, BeginDeactivate, CommitDeactivate, GiveUp
      <3>2. \A o \in Readers \ {r} : Read(o) => reader'[r] = reader[r]
        BY DEF Read, BeginRead, ProbeMisses, ProbeHits, FindEnd, Inv, TypeOK
      <3>. QED BY <1>2, <3>1, <3>2 DEF Next, Tick, vars
    <2>2. CASE BeginRead(r)
      BY <2>2, BeginReadSound
    <2>3. CASE ~BeginRead(r)
      <3>1. reader[r] \in Queries
        BY <2>1, <2>3 DEF Read, ProbeMisses, ProbeHits, FindEnd, Probing, Inv, TypeOK
      <3>2. PICK q \in Queries : reader[r] = q
        BY <3>1
      <3>3. ProbeMisses(r) => q.settled
        BY <3>2 DEF ProbeMisses, Inv, TypeOK, Queries
      <3>4. ASSUME ProbeHits(r) PROVE q.settled
        <4>1. PICK i \in Ids :
                p = IF Open(i) THEN [q EXCEPT !.step = "end", !.id = i]
                               ELSE [q EXCEPT !.step = "done", !.id = i, !.end = iov[i].at.et]
          BY <3>2, <3>4, AnswersAreIds DEF ProbeHits, Inv, TypeOK
        <4>. QED BY <4>1 DEF Queries
      <3>5. ASSUME FindEnd(r) PROVE q.settled
        <4>1. PICK end \in Ends : p = [q EXCEPT !.step = "done", !.end = end]
          BY <3>2, <3>5 DEF FindEnd, Inv, TypeOK
        <4>. QED BY <4>1 DEF Queries
      <3>6. Sound(q)
        BY <2>1, <2>3, <3>2, <3>3, <3>4, <3>5 DEF Read, SettledReads
      <3>. QED BY <2>1, <2>3, <3>2, <3>6, ProbeMissesSound, ProbeHitsSound, FindEndSound DEF Read
    <2>. QED BY <2>2, <2>3
  <1>. QED BY <1>1, <1>2

(* With disciplined deactivations a query of two SELECTs per flavor, under *)
(* separate locks, is as good as one transaction, then and ever after.     *)
THEOREM QueriesAreAtomic ==
  ASSUME Disciplined
  PROVE  Spec => []ReadRepeatable
  <1>1. Init => SettledReads
    BY NoneFacts DEF Init, SettledReads
  <1>2. Inv /\ SettledReads /\ [Next]_vars => SettledReads'
    BY SettledReadsNext
  <1>3. Inv /\ SettledReads => ReadRepeatable
    <2>. SUFFICES ASSUME Inv, SettledReads, NEW r \in Readers, reader[r] # None,
                         reader[r].settled, reader[r].step = "done"
                  PROVE  AtomicResult(reader[r], reader[r].id, reader[r].end)
      BY DEF ReadRepeatable
    <2>1. PICK q \in Queries : reader[r] = q
      BY DEF Inv, TypeOK
    <2>2. Sound(q)
      BY <2>1 DEF SettledReads
    <2>. QED BY <2>1, <2>2 DEF Sound
  <1>. QED BY Invariance, <1>1, <1>2, <1>3, PTL DEF Spec
-----------------------------------------------------------------------------
(* Rows have the coordinates of an upload.                                 *)
CoordInv ==
  /\ \A i \in Stored : iov[i].at \in Coords
  /\ \A w \in Writers : Busy(w) /\ writer[w].op = "upload" => writer[w].row.at \in Coords

LEMMA CoordStep == Inv /\ CoordInv /\ [Next]_vars => CoordInv'
  <1>. SUFFICES ASSUME Inv, CoordInv, [Next]_vars PROVE CoordInv'
    OBVIOUS
  <1>0. iov \in [Ids -> Row \union {None}] /\ DOMAIN writer = Writers
    BY DEF Inv, TypeOK
  <1>1. ASSUME NEW w \in Writers, BeginUpload(w) PROVE CoordInv'
    BY <1>0, <1>1 DEF BeginUpload, CoordInv, Stored, Busy
  <1>2. ASSUME NEW w \in Writers, BeginDeactivate(w) \/ GiveUp(w) PROVE CoordInv'
    BY <1>0, <1>2 DEF BeginDeactivate, GiveUp, CoordInv, Stored, Busy
  <1>3. ASSUME NEW w \in Writers, CommitUpload(w) PROVE CoordInv'
    BY <1>0, <1>3 DEF CommitUpload, CoordInv, Stored, Busy
  <1>4. ASSUME NEW w \in Writers, CommitDeactivate(w) PROVE CoordInv'
    <2>1. writer[w].id \in Stored
      BY <1>4 DEF CommitDeactivate, Inv, WriterInv, Busy
    <2>2. iov[writer[w].id] \in Row
      BY <1>0, <2>1 DEF Stored
    <2>3. ASSUME NEW i \in Stored' PROVE iov'[i].at \in Coords
      BY <1>0, <1>4, <2>1, <2>2 DEF CommitDeactivate, CoordInv, Stored, Row
    <2>4. ASSUME NEW v \in Writers, Busy(v)', writer'[v].op = "upload"
          PROVE  writer'[v].row.at \in Coords
      BY <1>0, <1>4, <2>4 DEF CommitDeactivate, CoordInv, Busy
    <2>. QED BY <2>3, <2>4 DEF CoordInv
  <1>5. ASSUME NEW r \in Readers, Read(r) PROVE CoordInv'
    <2>1. UNCHANGED <<iov, writer>>
      BY <1>5 DEF Read, BeginRead, ProbeMisses, ProbeHits, FindEnd
    <2>. QED BY <2>1 DEF CoordInv, Stored, Busy
  <1>6. CASE Tick \/ UNCHANGED vars
    BY <1>6 DEF Tick, vars, CoordInv, Stored, Busy
  <1>. QED BY <1>1, <1>2, <1>3, <1>4, <1>5, <1>6 DEF Next, Write

LEMMA CoordInvHolds == Spec => [](Inv /\ CoordInv)
  <1>1. Init => CoordInv
    BY DEF Init, CoordInv, Stored, Busy
  <1>. QED BY <1>1, Invariance, CoordStep, PTL DEF Spec

(* Event times that are asked for are set; 0 is that of a query by run.    *)
AsksByTime == Mode = 1 => \A ask \in Asks : ask.evt # 0

LEMMA RowNumbers ==
  ASSUME Inv, NEW i \in Ids, iov[i] # None
  PROVE  iov[i].at.bt \in Nat /\ iov[i].at.et \in Nat
  BY DEF Inv, TypeOK, Row, Coord

(* Whatever rows are added and deactivated: up to the end found for an     *)
(* open row no later open row of the flavor answers.                       *)
THEOREM EndHonestHolds ==
  ASSUME AsksByTime
  PROVE  Spec => []EndHonest
  <1>1. ASSUME Inv PROVE EndHonest
    <2>. SUFFICES ASSUME NEW mt \in 0..MaxTime, NEW ask \in Asks, NEW fl \in Flavors,
                         NEW i \in Answers(Question(mt, ask), fl), Open(i),
                         NEW end \in Ends, EndsAt(Question(mt, ask), fl, end),
                         NEW later \in Asks, ask.evt <= later.evt,
                         end = Forever \/ later.evt < end,
                         NEW j \in Answers(Question(mt, later), fl), Open(j)
                  PROVE  iov[j].at.bt = iov[i].at.bt
      BY DEF EndHonest
    <2>. DEFINE q == Question(mt, ask)
                p == Question(mt, later)
    <2>0. /\ ask.evt \in Nat \ {0} /\ later.evt \in Nat
          /\ q.evt = ask.evt /\ p.evt = later.evt /\ q.mt = mt /\ p.mt = mt
      BY IovAssumption DEF Open, AsksByTime, Question
    <2>. HIDE DEF q, p
    <2>1. /\ Mode = 1 /\ i \in Ids /\ j \in Ids
          /\ CoversTime(i, q, fl) /\ CoversTime(j, p, fl)
          /\ \A o \in Ids : CoversTime(o, q, fl) => iov[o].at.bt <= iov[i].at.bt
          /\ \A o \in Ids : CoversTime(o, p, fl) => iov[o].at.bt <= iov[j].at.bt
          /\ iov[i].at.et = 0 /\ iov[j].at.et = 0
      BY DEF Open, Answers, q, p
    <2>2. iov[i] # None /\ iov[j] # None /\ Visible(i, mt) /\ Visible(j, mt)
          /\ iov[i].fl = fl /\ iov[j].fl = fl
          /\ iov[i].at.bt <= ask.evt /\ iov[j].at.bt <= later.evt
      BY <2>0, <2>1 DEF CoversTime, Visible
    <2>3. iov[i].at.bt \in Nat /\ iov[j].at.bt \in Nat
      BY <1>1, <2>1, <2>2, RowNumbers
    <2>4. CoversTime(i, p, fl)
      BY <2>0, <2>1, <2>2, <2>3 DEF CoversTime
    <2>5. iov[i].at.bt <= iov[j].at.bt
      BY <2>1, <2>4
    <2>6. CASE iov[j].at.bt <= ask.evt
      <3>1. CoversTime(j, q, fl)
        BY <2>0, <2>1, <2>2, <2>6 DEF CoversTime
      <3>. QED BY <2>1, <2>3, <2>5, <3>1
    <2>7. CASE iov[j].at.bt > ask.evt
      <3>1. Successor(j, q, fl)
        BY <2>0, <2>1, <2>2, <2>3, <2>7 DEF Successor
      <3>2. EndsAt(q, fl, end)
        BY DEF q
      <3>3. CASE end # 0 /\ FirstBegin(q, fl, end)
        <4>1. end <= iov[j].at.bt
          BY <2>1, <3>1, <3>3 DEF FirstBegin
        <4>2. PICK o \in Ids : Successor(o, q, fl) /\ iov[o].at.bt = end
          BY <3>3 DEF FirstBegin
        <4>3. end \in Nat
          BY <1>1, <4>2, RowNumbers DEF Successor, Visible
        <4>. QED BY <2>0, <2>2, <2>3, <4>1, <4>3 DEF Forever
      <3>4. ~FirstBegin(q, fl, 0)
        <4>1. ASSUME NEW o \in Ids, Successor(o, q, fl) PROVE iov[o].at.bt # 0
          <5>1. iov[o] # None /\ iov[o].at.bt >= ask.evt
            BY <2>0, <4>1 DEF Successor, Visible
          <5>. QED BY <1>1, <2>0, <5>1, RowNumbers
        <4>. QED BY <4>1 DEF FirstBegin
      <3>. QED BY <2>1, <3>1, <3>2, <3>3, <3>4 DEF EndsAt
    <2>. QED BY <2>0, <2>3, <2>6, <2>7
  <1>. QED BY <1>1, Invariance, PTL

(* From the end found on, if it is after the begin, the row does not       *)
(* answer.                                                                 *)
THEOREM EndTightHolds == Spec => []EndTight
  <1>1. ASSUME Inv, CoordInv PROVE EndTight
    <2>. SUFFICES ASSUME NEW mt \in 0..MaxTime, NEW ask \in Asks, NEW fl \in Flavors,
                         NEW i \in Answers(Question(mt, ask), fl), Open(i),
                         NEW end \in Ends, EndsAt(Question(mt, ask), fl, end),
                         iov[i].at.bt < end,
                         NEW later \in Asks, end <= later.evt,
                         i \in Answers(Question(mt, later), fl)
                  PROVE  FALSE
      BY DEF EndTight
    <2>. DEFINE q == Question(mt, ask)
                p == Question(mt, later)
    <2>0. /\ ask.evt \in Nat /\ later.evt \in Nat
          /\ q.evt = ask.evt /\ p.evt = later.evt /\ q.mt = mt /\ p.mt = mt
      BY IovAssumption DEF Question
    <2>. HIDE DEF q, p
    <2>1. /\ Mode = 1 /\ i \in Ids /\ CoversTime(i, q, fl)
          /\ \A o \in Ids : CoversTime(o, p, fl) => iov[o].at.bt <= iov[i].at.bt
      BY DEF Open, Answers, q, p
    <2>2. iov[i].at.bt \in Nat
      BY <1>1, <2>1, RowNumbers DEF CoversTime, Visible
    <2>3. FirstBegin(q, fl, end)
      <3>1. end # Forever
        BY <2>2 DEF Forever
      <3>. QED BY <3>1 DEF EndsAt, q
    <2>4. PICK o \in Ids : Successor(o, q, fl) /\ iov[o].at.bt = end
      BY <2>3 DEF FirstBegin
    <2>5. /\ iov[o] # None /\ Visible(o, mt) /\ iov[o].fl = fl /\ end >= ask.evt
          /\ iov[o].at.et = 0 \/ iov[o].at.et < ask.evt
      BY <2>0, <2>4 DEF Successor, Visible
    <2>6. end \in Nat /\ iov[o].at.et \in Nat
      BY <1>1, <2>4, <2>5, RowNumbers
    <2>7. Valid(iov[o].at)
      BY <1>1, <2>5, IovAssumption DEF CoordInv, Stored
    <2>8. iov[o].at.et = 0
      BY <2>0, <2>2, <2>4, <2>5, <2>6, <2>7 DEF Valid
    <2>9. CoversTime(o, p, fl)
      BY <2>0, <2>4, <2>5, <2>6, <2>8 DEF CoversTime
    <2>. QED BY <2>1, <2>2, <2>4, <2>6, <2>9
  <1>. QED BY <1>1, CoordInvHolds, PTL
=============================================================================
