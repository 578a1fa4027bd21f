------------------------------- MODULE IovStore -------------------------------
(***************************************************************************)
(* The interval-of-validity table of one struct, cdb_iov_<tbname>, under   *)
(* concurrent uploads, deactivations and queries of the direct database    *)
(* adapter (lib/src/payload_adapter_db.cpp). The process mutex             *)
(* cdbnpp_db_access_mutex covers one statement or transaction, so an       *)
(* upload is two steps (the clock is read well before the insert) and so   *)
(* is a query (the end of an open interval is a second SELECT).            *)
(*                                                                         *)
(* A definition F_faulty is a wrong version of F that nothing uses; it     *)
(* shows that a property can tell F from it.                               *)
(***************************************************************************)
EXTENDS Integers, Sequences

CONSTANTS
  Ids,          \* uuids of payloads
  Flavors,
  FlavorOrder,  \* Service::setFlavors, most wanted first
  Coords,       \* the coordinates payloads are uploaded with
  Mode,         \* tag mode of the struct: 1 by time, 2 by run and seq
  Writers,      \* concurrent uploaders and administrators
  Readers,      \* concurrent getPayload calls
  Asks,         \* the event time, run and seq queries ask for
  MaxTime,      \* bound on the clock
  Skew,         \* how far a client's clock may lag behind the latest one
  Disciplined,  \* administrators deactivate an active payload, one at a
                \* time and not into the past; the code does not insist
  None

Times == 1..MaxTime
Coord == [bt : Nat, et : Nat, run : Nat, seq : Nat]
Row == [fl : Flavors, ct : Nat, dt : Nat, at : Coord]

(* Payload::valid(): coordinates that setPayload accepts.                  *)
Valid(c) ==
  /\ c.bt > 0 \/ c.run > 0
  /\ c.bt > 0 /\ c.et # 0 => c.bt < c.et

Uploads == [op : {"upload"}, id : Ids, stamp : Nat, row : Row]
Deactivations == [op : {"deactivate"}, id : Ids, stamp : Nat]

(* A query: its arguments, the position in FlavorOrder it has reached, and *)
(* its result; settled is history, nothing reads it.                       *)
Queries ==
  [step : {"probe", "end", "done"}, k : 1..Len(FlavorOrder), settled : BOOLEAN,
   mt : Nat, evt : Nat, run : Nat, seq : Nat, id : Ids \union {None}, end : Int]

ASSUME IovAssumption ==
  /\ FlavorOrder \in Seq(Flavors)
  /\ Len(FlavorOrder) > 0
  /\ Coords \subseteq Coord
  /\ \A c \in Coords : Valid(c)
  /\ Asks \subseteq [evt : Nat, run : Nat, seq : Nat]
  /\ Mode \in {1, 2}
  /\ MaxTime \in Nat \ {0}
  /\ Skew \in Nat
  /\ Disciplined \in BOOLEAN
  /\ None \notin Row \union Ids \union Uploads \union Deactivations \union Queries

VARIABLES
  now,     \* the clock that is ahead of all others
  iov,     \* the table: the row of each id, None where there is none
  writer,  \* the upload or deactivation each writer has under way
  reader   \* the query each reader has under way, or its last result

vars == <<now, iov, writer, reader>>

(* uint64 max, read back into the payload's int64_t end time.              *)
Forever == -1

Stored == {i \in Ids : iov[i] # None}

(* PRIMARY KEY (pid, bt, run, seq, dt, flavor); the pid is the struct's.   *)
SameKey(r, s) == r.at.bt = s.at.bt /\ r.at.run = s.at.run
                 /\ r.at.seq = s.at.seq /\ r.dt = s.dt /\ r.fl = s.fl

Fits(i, row) == \A j \in Stored \ {i} : ~SameKey(iov[j], row)

(* The answer at entry time mt can no longer depend on a write under way   *)
(* or to come: all of those are stamped later than mt.                     *)
Settled(mt) ==
  /\ 0 < mt /\ mt + Skew < now
  /\ \A w \in Writers : writer[w] # None => mt < writer[w].stamp
-----------------------------------------------------------------------------
(* The SELECTs. With a max entry time of 0 neither ct nor dt is tested.    *)
Visible_faulty(i, mt) ==
  /\ iov[i] # None
  /\ mt # 0 => iov[i].dt = 0 \/ iov[i].dt > mt

Visible(i, mt) ==
  /\ iov[i] # None
  /\ mt # 0 => /\ iov[i].ct <= mt
               /\ iov[i].dt = 0 \/ iov[i].dt > mt

CoversTime(i, q, fl) ==
  /\ Visible(i, q.mt)
  /\ iov[i].fl = fl
  /\ iov[i].at.bt <= q.evt
  /\ iov[i].at.et = 0 \/ iov[i].at.et > q.evt

HasRun(i, q, fl) ==
  /\ Visible(i, q.mt)
  /\ iov[i].fl = fl
  /\ iov[i].at.run = q.run
  /\ iov[i].at.seq = q.seq

(* ORDER BY bt DESC, or ORDER BY ct DESC, LIMIT 1: any of the first rows   *)
(* when several tie.                                                       *)
Answers(q, fl) ==
  IF Mode = 1
    THEN {i \in Ids : /\ CoversTime(i, q, fl)
                      /\ \A j \in Ids : CoversTime(j, q, fl) => iov[j].at.bt <= iov[i].at.bt}
    ELSE {i \in Ids : /\ HasRun(i, q, fl)
                      /\ \A j \in Ids : HasRun(j, q, fl) => iov[j].ct <= iov[i].ct}

(* Begin times that may end an open interval: the WHERE of the second      *)
(* SELECT, which also meets the open row itself when it begins at evt.     *)
Successor_faulty(i, q, fl) ==
  /\ iov[i] # None
  /\ iov[i].fl = fl
  /\ iov[i].at.bt >= q.evt
  /\ iov[i].at.et = 0 \/ iov[i].at.et < q.evt

Successor(i, q, fl) ==
  /\ Visible(i, q.mt)
  /\ iov[i].fl = fl
  /\ iov[i].at.bt >= q.evt
  /\ iov[i].at.et = 0 \/ iov[i].at.et < q.evt

(* ORDER BY bt ASC LIMIT 1; no row leaves et at 0, and 0 becomes Forever. *)
FirstBegin_faulty(q, fl, b) ==
  /\ \E i \in Ids : Successor(i, q, fl) /\ iov[i].at.bt = b
  /\ \A j \in Ids : Successor(j, q, fl) => iov[j].at.bt <= b

FirstBegin(q, fl, b) ==
  /\ \E i \in Ids : Successor(i, q, fl) /\ iov[i].at.bt = b
  /\ \A j \in Ids : Successor(j, q, fl) => b <= iov[j].at.bt

EndsAt(q, fl, end) ==
  \/ end # 0 /\ FirstBegin(q, fl, end)
  \/ end = Forever /\ FirstBegin(q, fl, 0)
  \/ end = Forever /\ \A j \in Ids : ~Successor(j, q, fl)

Ends == {c.bt : c \in Coords} \union {Forever}

Open(i) == Mode = 1 /\ iov[i].at.et = 0
-----------------------------------------------------------------------------
Init ==
  /\ now = 1
  /\ iov = [i \in Ids |-> None]
  /\ writer = [w \in Writers |-> None]
  /\ reader = [r \in Readers |-> None]

Tick ==
  /\ now < MaxTime
  /\ now' = now + 1
  /\ UNCHANGED <<iov, writer, reader>>

(* What std::time(nullptr) may return on a client.                         *)
ClockReadings == {t \in Times : t <= now /\ now <= t + Skew}

(* setPayload up to std::time(nullptr): metadata and schema are fetched    *)
(* before, the connection is made and the mutex awaited after.             *)
BeginUpload(w) ==
  /\ writer[w] = None
  /\ \E i \in Ids \ Stored, fl \in Flavors, c \in Coords, t \in ClockReadings :
       /\ \A v \in Writers : writer[v] # None => writer[v].id # i
       /\ writer' = [writer EXCEPT ![w] =
            [op |-> "upload", id |-> i, stamp |-> t,
             row |-> [fl |-> fl, ct |-> t, dt |-> 0, at |-> c]]]
  /\ UNCHANGED <<now, iov, reader>>

(* The transaction of setPayload.                                          *)
CommitUpload(w) ==
  /\ writer[w] # None
  /\ writer[w].op = "upload"
  /\ Fits(writer[w].id, writer[w].row)
  /\ iov' = [iov EXCEPT ![writer[w].id] = writer[w].row]
  /\ writer' = [writer EXCEPT ![w] = None]
  /\ UNCHANGED <<now, reader>>

(* deactivatePayload up to its UPDATE; the caller chooses the time.        *)
BeginDeactivate(w) ==
  /\ writer[w] = None
  /\ \E i \in Stored, t \in 0..MaxTime :
       /\ Disciplined => /\ t + Skew >= now
                         /\ iov[i].dt = 0
                         /\ \A v \in Writers : writer[v] # None => writer[v].id # i
       /\ writer' = [writer EXCEPT ![w] = [op |-> "deactivate", id |-> i, stamp |-> t]]
  /\ UNCHANGED <<now, iov, reader>>

(* UPDATE ... SET dt = :dt WHERE id = :id, whatever dt was.                *)
CommitDeactivate(w) ==
  /\ writer[w] # None
  /\ writer[w].op = "deactivate"
  /\ LET i == writer[w].id
         row == [iov[i] EXCEPT !.dt = writer[w].stamp]
     IN  /\ Fits(i, row)
         /\ iov' = [iov EXCEPT ![i] = row]
  /\ writer' = [writer EXCEPT ![w] = None]
  /\ UNCHANGED <<now, reader>>

(* No connection, a key that is taken, or a database exception: rollback.  *)
GiveUp(w) ==
  /\ writer[w] # None
  /\ writer' = [writer EXCEPT ![w] = None]
  /\ UNCHANGED <<now, iov, reader>>
-----------------------------------------------------------------------------
(* getPayload for one path; a finished query makes room for the next.      *)
BeginRead(r) ==
  /\ reader[r] # None => reader[r].step = "done"
  /\ \E mt \in 0..MaxTime, ask \in Asks :
       reader' = [reader EXCEPT ![r] =
         [step |-> "probe", k |-> 1, settled |-> Settled(mt), mt |-> mt,
          evt |-> ask.evt, run |-> ask.run, seq |-> ask.seq, id |-> None, end |-> 0]]
  /\ UNCHANGED <<now, iov, writer>>

Probing(r) == reader[r] # None /\ reader[r].step = "probe"

(* First SELECT finds nothing for this flavor: continue with the next one. *)
ProbeMisses_faulty(r) ==
  /\ Probing(r)
  /\ LET q == reader[r]
     IN  /\ Answers(q, FlavorOrder[q.k]) = {}
         /\ reader' = [reader EXCEPT ![r].k = q.k + 1]
  /\ UNCHANGED <<now, iov, writer>>

ProbeMisses(r) ==
  /\ Probing(r)
  /\ LET q == reader[r]
     IN  /\ Answers(q, FlavorOrder[q.k]) = {}
         /\ reader' = [reader EXCEPT ![r] =
              IF q.k < Len(FlavorOrder) THEN [q EXCEPT !.k = q.k + 1]
                                        ELSE [q EXCEPT !.step = "done"]]
  /\ UNCHANGED <<now, iov, writer>>

(* First SELECT finds a row; an open one needs the second SELECT.          *)
ProbeHits(r) ==
  /\ Probing(r)
  /\ LET q == reader[r]
     IN  \E i \in Answers(q, FlavorOrder[q.k]) :
           reader' = [reader EXCEPT ![r] =
             IF Open(i) THEN [q EXCEPT !.step = "end", !.id = i]
                        ELSE [q EXCEPT !.step = "done", !.id = i, !.end = iov[i].at.et]]
  /\ UNCHANGED <<now, iov, writer>>

(* Second SELECT, under a new lock.                                        *)
FindEnd(r) ==
  /\ reader[r] # None
  /\ reader[r].step = "end"
  /\ LET q == reader[r]
     IN  \E end \in Ends :
           /\ EndsAt(q, FlavorOrder[q.k], end)
           /\ reader' = [reader EXCEPT ![r] = [q EXCEPT !.step = "done", !.end = end]]
  /\ UNCHANGED <<now, iov, writer>>

Write(w) ==
  BeginUpload(w) \/ CommitUpload(w) \/ BeginDeactivate(w) \/ CommitDeactivate(w) \/ GiveUp(w)

Read(r) == BeginRead(r) \/ ProbeMisses(r) \/ ProbeHits(r) \/ FindEnd(r)

Next ==
  \/ Tick
  \/ \E w \in Writers : Write(w)
  \/ \E r \in Readers : Read(r)

Spec == Init /\ [][Next]_vars
-----------------------------------------------------------------------------
TypeOK ==
  /\ now \in Times
  /\ iov \in [Ids -> Row \union {None}]
  /\ writer \in [Writers -> Uploads \union Deactivations \union {None}]
  /\ reader \in [Readers -> Queries \union {None}]

Question(mt, ask) == [mt |-> mt, evt |-> ask.evt, run |-> ask.run, seq |-> ask.seq]

(* Versioned access (README.md:13): once the clock has passed an entry     *)
(* time, and no write stamped at or before it is still under way, the      *)
(* answer to every query at that entry time is fixed for ever.             *)
SettledAnswersStable ==
  [][ \A mt \in Times, ask \in Asks, fl \in Flavors :
        Settled(mt) => Answers(Question(mt, ask), fl)' = Answers(Question(mt, ask), fl) ]_vars

(* What getPayload would return if its SELECTs were one transaction on the *)
(* table as it is now: the first flavor in order that has an answer.       *)
AtomicResult(q, id, end) ==
  \/ /\ id = None
     /\ \A k \in 1..Len(FlavorOrder) : Answers(q, FlavorOrder[k]) = {}
  \/ \E k \in 1..Len(FlavorOrder) :
       /\ \A l \in 1..(k - 1) : Answers(q, FlavorOrder[l]) = {}
       /\ id \in Answers(q, FlavorOrder[k])
       /\ IF Open(id) THEN EndsAt(q, FlavorOrder[k], end) ELSE end = iov[id].at.et

(* A query at an entry time that was settled when it began returns what an *)
(* atomic query would, then and ever after, although its SELECTs ran under *)
(* separate locks with commits in between.                                 *)
ReadRepeatable ==
  \A r \in Readers :
    reader[r] # None =>
      LET q == reader[r]
      IN  q.settled /\ q.step = "done" => AtomicResult(q, q.id, q.end)

(* The end established for an open row is honest among open rows: until    *)
(* then no query finds another open row of the flavor.                     *)
EndHonest ==
  \A mt \in 0..MaxTime, ask \in Asks, fl \in Flavors :
    \A i \in Answers(Question(mt, ask), fl) : Open(i) =>
      \A end \in Ends : EndsAt(Question(mt, ask), fl, end) =>
        \A later \in Asks :
          ask.evt <= later.evt /\ (end = Forever \/ later.evt < end) =>
            \A j \in Answers(Question(mt, later), fl) :
              Open(j) => iov[j].at.bt = iov[i].at.bt

(* It is also tight: from a later end on, the row no longer answers.       *)
EndTight ==
  \A mt \in 0..MaxTime, ask \in Asks, fl \in Flavors :
    \A i \in Answers(Question(mt, ask), fl) : Open(i) =>
      \A end \in Ends : EndsAt(Question(mt, ask), fl, end) /\ iov[i].at.bt < end =>
        \A later \in Asks :
          end <= later.evt => i \notin Answers(Question(mt, later), fl)
=============================================================================
