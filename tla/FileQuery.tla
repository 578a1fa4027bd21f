-------------------------------- MODULE FileQuery --------------------------------
(***************************************************************************)
(* The loops of PayloadAdapterFile::getPayload over flavors and over the   *)
(* entries of a directory, which come in no particular order. Names that   *)
(* cannot be decoded are left out. Threads of the process are locked out   *)
(* meanwhile; another process may add a file, which an iteration that is   *)
(* under way sees or not.                                                  *)
(*                                                                         *)
(* Definitions F_faulty are wrong versions of F that nothing uses; they    *)
(* show what a property can tell.                                          *)
(***************************************************************************)
EXTENDS Integers, Sequences

CONSTANTS
  Flavors,
  FlavorOrder,  \* the flavors asked for, most wanted first
  Directories,  \* the contents of the directory to consider
  Arrivals,     \* files another process may add
  Asks,         \* event time, run, seq and max entry time of queries
  None

File == [fl : Flavors, ct : Nat, bt : Nat, et : Nat, dt : Nat, run : Nat, seq : Nat]

ASSUME QueryAssumption ==
  /\ FlavorOrder \in Seq(Flavors)
  /\ Len(FlavorOrder) > 0
  /\ Directories \subseteq SUBSET File
  /\ Arrivals \subseteq File
  /\ Asks \subseteq [evt : Nat, run : Nat, seq : Nat, mt : Nat]
  /\ None \notin File

VARIABLES
  files,   \* the files of the directory
  before,  \* history: those it had when the query began
  query,
  k,       \* position in FlavorOrder
  seen,    \* entries the loop has passed, for this flavor
  best,    \* the payload found so far
  done

vars == <<files, before, query, k, seen, best, done>>

Init ==
  /\ files \in Directories
  /\ before = files
  /\ query \in Asks
  /\ k = 1
  /\ seen = {}
  /\ best = None
  /\ done = FALSE

(* An entry time of 0 tests neither ct nor dt, an event run or time of 0   *)
(* neither run nor time.                                                   *)
InTime_faulty(f, q) == q.evt # 0 => f.bt <= q.evt /\ (f.et = 0 \/ f.et >= q.evt)
InTime(f, q) == q.evt # 0 => f.bt <= q.evt /\ (f.et = 0 \/ f.et > q.evt)

Matches(f, q, fl) ==
  /\ f.fl = fl
  /\ q.mt > 0 => f.ct <= q.mt /\ (f.dt = 0 \/ f.dt >= q.mt)
  /\ q.run # 0 /\ f.run # 0 => f.run = q.run /\ f.seq = q.seq
  /\ InTime(f, q)

Exact(f, q) == q.run # 0 /\ f.run = q.run /\ f.seq = q.seq

Better_faulty(f, q) == best = None \/ q.evt - f.bt > q.evt - best.bt
Better(f, q) == best = None \/ q.evt - f.bt < q.evt - best.bt

Flavor == FlavorOrder[k]
-----------------------------------------------------------------------------
Entry(f) ==
  /\ ~done
  /\ f \in files \ seen
  /\ seen' = seen \union {f}
  /\ UNCHANGED <<files, before, query, k>>

Skip(f) ==
  /\ Entry(f)
  /\ ~Matches(f, query, Flavor)
  /\ UNCHANGED <<best, done>>

(* An exact match of run and seq ends the query at once.                   *)
Hit(f) ==
  /\ Entry(f)
  /\ Matches(f, query, Flavor)
  /\ Exact(f, query)
  /\ best' = f
  /\ done' = TRUE

Weigh(f) ==
  /\ Entry(f)
  /\ Matches(f, query, Flavor)
  /\ ~Exact(f, query)
  /\ best' = IF Better(f, query) THEN f ELSE best
  /\ UNCHANGED done

(* The end of the directory: files that were there before have been seen.  *)
EndOfDirectory ==
  /\ ~done
  /\ before \subseteq seen
  /\ IF best # None \/ k = Len(FlavorOrder)
       THEN done' = TRUE /\ UNCHANGED <<k, seen>>
       ELSE k' = k + 1 /\ seen' = {} /\ UNCHANGED done
  /\ UNCHANGED <<files, before, query, best>>

(* Bound: another process adds one file at most.                           *)
Arrive ==
  /\ ~done
  /\ files = before
  /\ \E f \in Arrivals : files' = files \union {f}
  /\ UNCHANGED <<before, query, k, seen, best, done>>

Next ==
  \/ \E f \in files : Skip(f) \/ Hit(f) \/ Weigh(f)
  \/ EndOfDirectory
  \/ Arrive

Spec == Init /\ [][Next]_vars
-----------------------------------------------------------------------------
TypeOK ==
  /\ files \in SUBSET File
  /\ before \in SUBSET files
  /\ query \in Asks
  /\ k \in 1..Len(FlavorOrder)
  /\ seen \in SUBSET files
  /\ best \in files \union {None}
  /\ done \in BOOLEAN

(* Whatever the order of the entries and whatever arrives meanwhile, the   *)
(* answer is of the first flavor that had a match when the query began, is *)
(* exact if one of those was, and begins no earlier than any of them; no   *)
(* answer means that there was no match in any flavor.                     *)
BestOfFlavor ==
  done =>
    /\ \A i \in 1..Len(FlavorOrder), f \in before :
         Matches(f, query, FlavorOrder[i]) => best # None /\ k <= i
    /\ best # None =>
         /\ Matches(best, query, Flavor)
         /\ \A f \in before :
              Matches(f, query, Flavor) /\ ~Exact(best, query) =>
                ~Exact(f, query) /\ f.bt <= best.bt

(* The SELECT of the db adapter for payloads by time (payload_adapter_db,  *)
(* getPayload): the rows its WHERE admits, the latest begin first.         *)
Admits(f, q, fl) ==
  /\ f.fl = fl
  /\ f.bt <= q.evt
  /\ f.et = 0 \/ f.et > q.evt
  /\ q.mt # 0 => f.ct <= q.mt /\ (f.dt = 0 \/ f.dt > q.mt)

DatabaseAnswers(rows, q, fl) ==
  {f \in rows : /\ Admits(f, q, fl)
                /\ \A g \in rows : Admits(g, q, fl) => g.bt <= f.bt}

(* For payloads by time the file adapter answers as the db adapter would   *)
(* from the payloads there were when the query began, and the one answered *)
(* if that came later, unless one was deactivated at the very second of    *)
(* the max entry time.                                                     *)
AgreesWithDatabase ==
  (/\ done
   /\ query.run = 0 /\ query.evt # 0
   /\ \A f \in files : f.run = 0 /\ (f.dt # 0 => f.dt # query.mt))
  =>
    /\ \A i \in 1..(k - 1) : DatabaseAnswers(before, query, FlavorOrder[i]) = {}
    /\ IF best = None
         THEN k = Len(FlavorOrder) /\ DatabaseAnswers(before, query, Flavor) = {}
         ELSE best \in DatabaseAnswers(before \union {best}, query, Flavor)
=================================================================================
