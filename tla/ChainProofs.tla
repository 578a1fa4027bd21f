----------------------------- MODULE ChainProofs -----------------------------
(***************************************************************************)
(* Proofs about Chain, for every set of modules, every requirements and    *)
(* every number of threads and iterations.                                 *)
(***************************************************************************)
EXTENDS Chain, FiniteSetTheorems, FunctionTheorems, TLAPS

Queued == {running[i] : i \in 1..Len(running)}

(* What has been started is in the queue or has been collected.            *)
QueueInv ==
  /\ Started = finished \union Queued
  /\ processed = Started
  /\ finished \subseteq EndedWell
  /\ Len(running) <= MaxThreads

(* Each module is in one of three places.                                  *)
PlaceInv ==
  /\ available \intersect Started = {}
  /\ active \intersect (available \union Started) = {}
  /\ active \union available \union Started = Modules

(* Requirements were met when a module left active_modules, and finished   *)
(* modules stay finished.                                                  *)
ReadyInv ==
  \A m \in available \union Started : requirementsSatisfied(m, finished)

(* The do-while ends with nothing left to do; unwinding joins the threads. *)
EndInv ==
  /\ pc \in {"iterated", "returned"} =>
       /\ running = <<>>
       /\ available = {}
       /\ \A m \in active : ~requirementsSatisfied(m, finished)
  /\ pc = "thrown" => \A i \in 1..Len(running) : exec[running[i]] # "running"

Inv ==
  /\ TypeOK
  /\ QueueInv
  /\ PlaceInv
  /\ ReadyInv
  /\ EndInv
-----------------------------------------------------------------------------
LEMMA MaxThreadsType == MaxThreads \in Nat
  BY ChainAssumption DEF MaxThreads

(* Facts about the queue that the steps on it need.                        *)
LEMMA AppendQueue ==
  ASSUME NEW S, NEW s \in Seq(S), NEW e \in S
  PROVE  /\ Append(s, e) \in Seq(S)
         /\ Len(Append(s, e)) = Len(s) + 1
         /\ {Append(s, e)[i] : i \in 1..Len(Append(s, e))}
              = {s[i] : i \in 1..Len(s)} \union {e}
  <1>1. /\ Append(s, e) \in Seq(S)
        /\ Len(Append(s, e)) = Len(s) + 1
        /\ \A i \in 1..Len(s) : Append(s, e)[i] = s[i]
        /\ Append(s, e)[Len(s) + 1] = e
    OBVIOUS
  <1>2. Len(s) \in Nat
    OBVIOUS
  <1>3. 1..(Len(s) + 1) = 1..Len(s) \union {Len(s) + 1}
    BY <1>2
  <1>. QED BY <1>1, <1>3

LEMMA TailQueue ==
  ASSUME NEW S, NEW s \in Seq(S), s # <<>>
  PROVE  /\ Head(s) \in S
         /\ Tail(s) \in Seq(S)
         /\ Len(Tail(s)) = Len(s) - 1
         /\ {s[i] : i \in 1..Len(s)}
              = {Tail(s)[i] : i \in 1..Len(Tail(s))} \union {Head(s)}
  <1>1. /\ Len(s) \in Nat \ {0}
        /\ Head(s) = s[1]
        /\ Head(s) \in S
        /\ Tail(s) \in Seq(S)
        /\ Len(Tail(s)) = Len(s) - 1
        /\ \A i \in 1..(Len(s) - 1) : Tail(s)[i] = s[i + 1]
    OBVIOUS
  <1>2. ASSUME NEW i \in 1..Len(s)
        PROVE  s[i] = Head(s) \/ \E j \in 1..Len(Tail(s)) : s[i] = Tail(s)[j]
    <2>1. CASE i = 1
      BY <1>1, <2>1
    <2>2. CASE i # 1
      <3>1. i - 1 \in 1..(Len(s) - 1) /\ (i - 1) + 1 = i
        BY <1>1, <2>2
      <3>. QED BY <1>1, <3>1
    <2>. QED BY <2>1, <2>2
  <1>3. ASSUME NEW j \in 1..Len(Tail(s))
        PROVE  \E i \in 1..Len(s) : Tail(s)[j] = s[i]
    <2>1. j + 1 \in 1..Len(s)
      BY <1>1
    <2>. QED BY <1>1, <2>1
  <1>4. 1 \in 1..Len(s)
    BY <1>1
  <1>. QED BY <1>1, <1>2, <1>3, <1>4
-----------------------------------------------------------------------------
LEMMA InitInv == Init => Inv
  <1>. SUFFICES ASSUME Init PROVE Inv
    OBVIOUS
  <1>. USE ChainAssumption, MaxThreadsType DEF Init
  <1>1. TypeOK
    BY DEF TypeOK, ExecStates, Stopped
  <1>2. Started = {} /\ Queued = {}
    BY DEF Started, Queued
  <1>3. QueueInv
    BY <1>2 DEF QueueInv
  <1>4. PlaceInv
    BY <1>2 DEF PlaceInv
  <1>5. ReadyInv
    BY <1>2 DEF ReadyInv
  <1>6. EndInv
    BY DEF EndInv
  <1>. QED BY <1>1, <1>3, <1>4, <1>5, <1>6 DEF Inv

(* Steps that only move the caller's thread to a point where the queue and *)
(* the sets stay as they are.                                              *)
LEMMA PcStep ==
  ASSUME Inv, UNCHANGED <<iteration, exec, local>>,
         pc' \in {"draining", "unwinding", "crashed"}
  PROVE  Inv'
  <1>1. TypeOK'
    BY DEF Inv, TypeOK, local, Stopped
  <1>2. QueueInv'
    BY DEF Inv, QueueInv, Started, EndedWell, Queued, local
  <1>3. PlaceInv'
    BY DEF Inv, PlaceInv, Started, local
  <1>4. ReadyInv'
    BY DEF Inv, ReadyInv, Started, requirementsSatisfied, local
  <1>5. EndInv'
    BY DEF EndInv
  <1>. QED BY <1>1, <1>2, <1>3, <1>4, <1>5 DEF Inv

LEMMA LaunchInv ==
  ASSUME Inv, NEW m \in Modules, Launch(m)
  PROVE  Inv'
  <1>. USE DEF Inv, Launch
  <1>1. /\ running' \in Seq(Modules)
        /\ Len(running') = Len(running) + 1
        /\ Queued' = Queued \union {m}
    BY AppendQueue DEF TypeOK, Queued
  <1>2. Started' = Started \union {m} /\ m \notin Started
    BY DEF TypeOK, Started, PlaceInv
  <1>3. TypeOK'
    BY <1>1 DEF TypeOK, ExecStates
  <1>4. QueueInv'
    <2>1. finished' \subseteq EndedWell'
      BY <1>2 DEF QueueInv, EndedWell, Started, TypeOK
    <2>2. Len(running') <= MaxThreads
      BY <1>1, MaxThreadsType DEF MayLaunch, TypeOK
    <2>. QED BY <1>1, <1>2, <2>1, <2>2 DEF QueueInv
  <1>5. PlaceInv'
    BY <1>2 DEF PlaceInv
  <1>6. ReadyInv'
    BY <1>2 DEF ReadyInv
  <1>7. EndInv'
    BY DEF EndInv
  <1>. QED BY <1>3, <1>4, <1>5, <1>6, <1>7

(* The common end of the two ways through a pass of the do-while.          *)
LEMMA RefreshInv ==
  ASSUME Inv, pc = "looping", Refresh(finished', running'),
         UNCHANGED <<iteration, processed, exec>>,
         running' \in Seq(Modules), Len(running') <= Len(running),
         finished \subseteq finished', finished' \subseteq EndedWell,
         Started = finished' \union Queued'
  PROVE  Inv'
  <1>. DEFINE fresh == Runnable(finished')
  <1>. USE DEF Inv
  <1>1. /\ active' = active \ fresh
        /\ available' = available \union fresh
        /\ pc' \in {"looping", "iterated"}
        /\ pc' = "iterated" => available' = {} /\ running' = <<>>
    BY DEF Refresh, IterationOver
  <1>2. Started' = Started /\ EndedWell' = EndedWell
    BY DEF Started, EndedWell
  <1>3. /\ fresh \subseteq active
        /\ \A m \in fresh : requirementsSatisfied(m, finished')
        /\ \A m \in active \ fresh : ~requirementsSatisfied(m, finished')
    <2>1. finished' \subseteq Started
      BY DEF EndedWell, Started
    <2>. QED BY <2>1 DEF Runnable, PlaceInv, QueueInv
  <1>4. TypeOK'
    BY <1>1, <1>3 DEF TypeOK, EndedWell
  <1>5. QueueInv'
    BY <1>2, MaxThreadsType DEF QueueInv, TypeOK
  <1>6. PlaceInv'
    BY <1>1, <1>2, <1>3 DEF PlaceInv
  <1>7. ReadyInv'
    BY <1>1, <1>2, <1>3 DEF ReadyInv, requirementsSatisfied
  <1>8. EndInv'
    BY <1>1, <1>3 DEF EndInv, requirementsSatisfied
  <1>. QED BY <1>4, <1>5, <1>6, <1>7, <1>8

LEMMA CollectOkInv ==
  ASSUME Inv, CollectOk
  PROVE  Inv'
  <1>. DEFINE m == Head(running)
  <1>. USE DEF Inv, CollectOk, Collects
  <1>1. /\ m \in Modules
        /\ running' \in Seq(Modules)
        /\ Len(running') = Len(running) - 1
        /\ Queued = Queued' \union {m}
    BY TailQueue DEF TypeOK, Queued
  <1>2. finished' \subseteq EndedWell
    BY <1>1 DEF QueueInv, EndedWell
  <1>3. Started = finished' \union Queued'
    BY <1>1 DEF QueueInv
  <1>4. Len(running') <= Len(running)
    BY <1>1 DEF TypeOK
  <1>. QED BY <1>1, <1>2, <1>3, <1>4, RefreshInv

LEMMA RefreshIdleInv ==
  ASSUME Inv, RefreshIdle
  PROVE  Inv'
  <1>1. UNCHANGED <<running, finished>> /\ Queued' = Queued
    BY DEF RefreshIdle, Queued
  <1>2. Refresh(finished', running')
    BY <1>1 DEF RefreshIdle
  <1>3. Len(running') <= Len(running)
    BY <1>1 DEF Inv, TypeOK
  <1>. QED
    BY <1>1, <1>2, <1>3, RefreshInv DEF Inv, TypeOK, QueueInv, RefreshIdle

LEMMA NextIterationInv ==
  ASSUME Inv, NextIteration
  PROVE  Inv'
  <1>. USE ChainAssumption, MaxThreadsType DEF NextIteration, IterationLocals
  <1>1. TypeOK'
    BY DEF Inv, TypeOK, ExecStates
  <1>2. Started' = {} /\ Queued' = {}
    BY DEF Started, Queued
  <1>3. QueueInv'
    BY <1>2 DEF QueueInv
  <1>4. PlaceInv'
    BY <1>2 DEF PlaceInv
  <1>5. ReadyInv'
    BY <1>2 DEF ReadyInv
  <1>6. EndInv'
    BY DEF EndInv
  <1>. QED BY <1>1, <1>3, <1>4, <1>5, <1>6 DEF Inv

(* Unwind and Return: the caller leaves with the queue as it is.           *)
LEMMA LeaveInv ==
  ASSUME Inv, Unwind \/ Return
  PROVE  Inv'
  <1>. USE DEF Unwind, Return, local
  <1>1. TypeOK'
    BY DEF Inv, TypeOK, Stopped
  <1>2. QueueInv'
    BY DEF Inv, QueueInv, Started, EndedWell, Queued
  <1>3. PlaceInv'
    BY DEF Inv, PlaceInv, Started
  <1>4. ReadyInv'
    BY DEF Inv, ReadyInv, Started, requirementsSatisfied
  <1>5. EndInv'
    BY DEF Inv, EndInv, requirementsSatisfied
  <1>. QED BY <1>1, <1>2, <1>3, <1>4, <1>5 DEF Inv

LEMMA FinishInv ==
  ASSUME Inv, NEW m \in Modules, Finish(m)
  PROVE  Inv'
  <1>. USE DEF Inv
  <1>1. PICK result \in {"ok", "failed", "threw"} :
          exec' = [exec EXCEPT ![m] = result]
    BY DEF Finish
  <1>2. UNCHANGED <<pc, iteration, active, available, processed, running, finished>>
        /\ exec[m] = "running"
    BY DEF Finish, local
  <1>3. TypeOK'
    BY <1>1, <1>2 DEF TypeOK, ExecStates
  <1>4. Started' = Started /\ EndedWell \subseteq EndedWell' /\ Queued' = Queued
    BY <1>1, <1>2 DEF TypeOK, Started, EndedWell, Queued
  <1>5. QueueInv'
    BY <1>2, <1>4 DEF QueueInv
  <1>6. PlaceInv'
    BY <1>2, <1>4 DEF PlaceInv
  <1>7. ReadyInv'
    BY <1>2, <1>4 DEF ReadyInv, requirementsSatisfied
  <1>8. EndInv'
    <2>1. ASSUME pc = "thrown", NEW i \in 1..Len(running)
          PROVE  exec'[running[i]] # "running"
      BY <1>1, <1>2, <2>1 DEF EndInv, TypeOK
    <2>. QED BY <1>2, <2>1 DEF EndInv, requirementsSatisfied
  <1>. QED BY <1>3, <1>5, <1>6, <1>7, <1>8

LEMMA NextInv == Inv /\ [Next]_vars => Inv'
  <1>. SUFFICES ASSUME Inv, [Next]_vars PROVE Inv'
    OBVIOUS
  <1>1. ASSUME NEW m \in Modules, Launch(m) PROVE Inv'
    BY <1>1, LaunchInv
  <1>2. CASE LaunchThrows
    BY <1>2, PcStep DEF LaunchThrows
  <1>3. CASE RefreshIdle
    BY <1>3, RefreshIdleInv
  <1>4. CASE CollectOk
    BY <1>4, CollectOkInv
  <1>5. CASE CollectFailed
    BY <1>5, PcStep DEF CollectFailed
  <1>6. CASE CollectThrew
    BY <1>6, PcStep DEF CollectThrew
  <1>7. CASE Drain
    BY <1>7, PcStep DEF Drain
  <1>8. CASE Unwind \/ Return
    BY <1>8, LeaveInv
  <1>9. CASE NextIteration
    BY <1>9, NextIterationInv
  <1>10. ASSUME NEW m \in Modules, Finish(m) PROVE Inv'
    BY <1>10, FinishInv
  <1>11. CASE UNCHANGED vars
    BY <1>11 DEF Inv, TypeOK, QueueInv, PlaceInv, ReadyInv, EndInv, Started,
       EndedWell, Queued, requirementsSatisfied, vars
  <1>. QED
    BY <1>1, <1>2, <1>3, <1>4, <1>5, <1>6, <1>7, <1>8, <1>9, <1>10, <1>11
    DEF Next, Scheduler

THEOREM Invariance == Spec => []Inv
  BY InitInv, NextInv, PTL DEF Spec
-----------------------------------------------------------------------------
(* Every variable of the scheduler keeps its type.                         *)
THEOREM TypeCorrect == Spec => []TypeOK
  BY Invariance, PTL DEF Inv

(* No module starts before everything it requires has ended well: the      *)
(* requirements were all collected, and what is collected ended well.      *)
THEOREM DependencyOrderHolds == Spec => []DependencyOrder
  <1>1. Inv => DependencyOrder
    BY DEF Inv, ReadyInv, QueueInv, DependencyOrder, requirementsSatisfied
  <1>. QED BY Invariance, <1>1, PTL

(* The threads at work are among the queued modules, and the queue is no   *)
(* longer than setMaxThreads allows.                                       *)
THEOREM ThreadBoundHolds == Spec => []ThreadBound
  <1>1. ASSUME Inv PROVE ThreadBound
    <2>. USE <1>1 DEF Inv
    <2>1. Len(running) \in Nat /\ MaxThreads \in Nat
      BY MaxThreadsType DEF TypeOK
    <2>2. Threads \subseteq Queued
      BY DEF Threads, Queued, QueueInv, Started, EndedWell
    <2>. DEFINE place == [m \in Threads |-> CHOOSE i \in 1..Len(running) : running[i] = m]
    <2>3. \A m \in Threads : place[m] \in 1..Len(running) /\ running[place[m]] = m
      BY <2>2 DEF Queued
    <2>4. place \in Injection(Threads, 1..Len(running))
      <3>. HIDE DEF place
      <3>1. place \in [Threads -> 1..Len(running)]
        <4>1. place = [m \in Threads |-> place[m]]
          BY DEF place
        <4>. QED BY <2>3, <4>1
      <3>2. \A a, b \in Threads : place[a] = place[b] => a = b
        BY <2>3
      <3>. QED BY <3>1, <3>2 DEF Injection, IsInjective
    <2>5. IsFiniteSet(1..Len(running)) /\ Cardinality(1..Len(running)) = Len(running)
      <3>1. /\ IsFiniteSet(1..Len(running))
            /\ Cardinality(1..Len(running))
                 = IF 1 > Len(running) THEN 0 ELSE Len(running) - 1 + 1
        <4>1. 1 \in Int /\ Len(running) \in Int
          BY <2>1
        <4>. QED BY ONLY <4>1, FS_Interval
      <3>. QED BY <2>1, <3>1
    <2>6. /\ IsFiniteSet(Threads)
          /\ Cardinality(Threads) <= Cardinality(1..Len(running))
      <3>. HIDE DEF place
      <3>. QED BY <2>4, <2>5, FS_Injection
    <2>7. Cardinality(Threads) \in Nat
      BY <2>6, FS_CardinalityType
    <2>. QED BY <2>1, <2>5, <2>6, <2>7 DEF QueueInv, ThreadBound
  <1>. QED BY Invariance, <1>1, PTL

(* An iteration ends with an empty queue, and unwinding joins the threads  *)
(* of the queue; nothing else is ever running.                             *)
THEOREM NoOrphanThreadHolds == Spec => []NoOrphanThread
  <1>1. Inv => NoOrphanThread
    BY DEF Inv, NoOrphanThread, Threads, QueueInv, EndInv, Queued, Started, EndedWell
  <1>. QED BY Invariance, <1>1, PTL
-----------------------------------------------------------------------------
(* The modules that can run at all: the least set that contains every      *)
(* module whose requirements it contains. It depends on the requirements   *)
(* alone, not on threads, on the scheduler or on the order of ends.        *)
Requires(m) == Hard[m] \union (Soft[m] \intersect Modules)

Closed(S) == \A m \in Modules : Requires(m) \subseteq S => m \in S

StartedInClosed == \A S \in SUBSET Modules : Closed(S) => Started \subseteq S

(* An iteration that ends normally has run, without error, every module    *)
(* that can run, and no other: which modules are left out (a requirement   *)
(* that is absent, or a cycle) does not depend on the schedule.            *)
RunsWhatCanRun ==
  pc \in {"iterated", "returned"} =>
    /\ Started = EndedWell
    /\ Closed(EndedWell)
    /\ \A S \in SUBSET Modules : Closed(S) => EndedWell \subseteq S

(* A module starts only after all it requires was started.                 *)
LEMMA StartedInClosedStep ==
  ASSUME Inv, StartedInClosed, [Next]_vars
  PROVE  StartedInClosed'
  <1>1. ASSUME NEW m \in Modules, Launch(m), NEW S \in SUBSET Modules, Closed(S)
        PROVE  Started' \subseteq S
    <2>1. Started' = Started \union {m}
      BY <1>1 DEF Launch, Inv, TypeOK, Started
    <2>2. Started \subseteq S
      BY <1>1 DEF StartedInClosed
    <2>3. Requires(m) \subseteq Started
      BY <1>1
      DEF Launch, Inv, ReadyInv, QueueInv, requirementsSatisfied, Requires
    <2>. QED BY <1>1, <2>1, <2>2, <2>3 DEF Closed
  <1>2. ASSUME NEW m \in Modules, Finish(m)
        PROVE  Started' = Started
    BY <1>2 DEF Finish, Inv, TypeOK, Started
  <1>3. CASE NextIteration
    BY <1>3 DEF NextIteration, StartedInClosed, Started
  <1>4. ASSUME UNCHANGED exec
        PROVE  Started' = Started
    BY <1>4 DEF Started
  <1>5. CASE \E m \in Modules : Launch(m)
    BY <1>1, <1>5 DEF StartedInClosed, Closed, Requires
  <1>6. CASE Started' = Started
    BY <1>6 DEF StartedInClosed, Closed, Requires
  <1>. QED
    BY <1>2, <1>3, <1>4, <1>5, <1>6
    DEF Next, Scheduler, LaunchThrows, RefreshIdle, CollectOk, CollectFailed,
        CollectThrew, Drain, Unwind, Return, vars

(* At the end of an iteration all that started is collected, and nothing   *)
(* that is left has its requirements among it.                             *)
THEOREM RunsWhatCanRunHolds == Spec => []RunsWhatCanRun
  <1>1. Init => StartedInClosed
    BY DEF Init, StartedInClosed, Started
  <1>2. Inv /\ StartedInClosed /\ [Next]_vars => StartedInClosed'
    BY StartedInClosedStep
  <1>3. ASSUME Inv, StartedInClosed PROVE RunsWhatCanRun
    <2>. SUFFICES ASSUME pc \in {"iterated", "returned"}
                  PROVE  /\ Started = EndedWell
                         /\ Closed(EndedWell)
                         /\ \A S \in SUBSET Modules : Closed(S) => EndedWell \subseteq S
      BY DEF RunsWhatCanRun
    <2>1. Started = finished /\ EndedWell = finished
      BY <1>3 DEF Inv, EndInv, QueueInv, Queued, Started, EndedWell
    <2>2. ASSUME NEW m \in Modules, Requires(m) \subseteq finished
          PROVE  m \in finished
      <3>1. m \notin active
        BY <1>3, <2>2 DEF Inv, EndInv, requirementsSatisfied, Requires
      <3>. QED BY <1>3, <2>1, <3>1 DEF Inv, EndInv, PlaceInv
    <2>. QED BY <1>3, <2>1, <2>2 DEF StartedInClosed, Closed
  <1>. QED BY Invariance, <1>1, <1>2, <1>3, PTL DEF Spec
-----------------------------------------------------------------------------
(* How much an execution has yet to do. Every module counts for each of    *)
(* the places it goes through, a further iteration for all its modules.    *)
Stage ==
  IF pc = "looping" THEN 3
  ELSE IF pc = "draining" THEN 2
  ELSE IF pc \in {"unwinding", "iterated"} THEN 1
  ELSE 0

WorkOf(a, v, l, n) == 5 * a + 4 * v + 2 * l + n

Work ==
  WorkOf(Cardinality(active), Cardinality(available), Len(running), Cardinality(Threads))

Round == 5 * Cardinality(Modules) + 3

Rank == (NTimes - iteration) * Round + Work + Stage

IterationsInv == iteration < NTimes

LEMMA SmallSets ==
  ASSUME IsFiniteSet(Modules), NEW S \in SUBSET Modules
  PROVE  IsFiniteSet(S) /\ Cardinality(S) \in Nat
  BY FS_Subset, FS_CardinalityType

LEMMA WorkFacts ==
  ASSUME NEW a \in Nat, NEW v \in Nat, NEW l \in Nat, NEW n \in Nat
  PROVE  /\ WorkOf(a, v, l, n) \in Nat
         /\ WorkOf(a, v, l, n - 1) < WorkOf(a, v, l, n)
         /\ WorkOf(a, v - 1, l + 1, n + 1) < WorkOf(a, v, l, n)
         /\ \A f \in Nat : WorkOf(a - f, v + f, l - 1, n) < WorkOf(a, v, l, n)
         /\ \A f \in Nat \ {0} : WorkOf(a - f, v + f, l, n) < WorkOf(a, v, l, n)
  BY DEF WorkOf

LEMMA RoundType ==
  ASSUME IsFiniteSet(Modules)
  PROVE  Round \in Nat
  <1>1. Cardinality(Modules) \in Nat
    BY FS_CardinalityType
  <1>. QED BY <1>1 DEF Round

LEMMA RankTypes ==
  ASSUME IsFiniteSet(Modules), TypeOK, IterationsInv
  PROVE  /\ Work \in Nat /\ Stage \in 0..3 /\ Round \in Nat
         /\ (NTimes - iteration) * Round \in Nat
         /\ Rank \in Nat
  <1>1. /\ Cardinality(active) \in Nat /\ Cardinality(available) \in Nat
        /\ Cardinality(Threads) \in Nat /\ Cardinality(Modules) \in Nat /\ Len(running) \in Nat
    <2>1. active \subseteq Modules /\ available \subseteq Modules /\ Threads \subseteq Modules
      BY DEF TypeOK, Threads
    <2>. QED BY <2>1, SmallSets DEF TypeOK
  <1>2. Work \in Nat /\ Round \in Nat
    BY <1>1, WorkFacts, RoundType DEF Work
  <1>3. NTimes - iteration \in Nat
    BY ChainAssumption DEF IterationsInv, TypeOK
  <1>4. (NTimes - iteration) * Round \in Nat
    BY <1>2, <1>3
  <1>5. Stage \in 0..3
    BY DEF Stage
  <1>. QED BY <1>2, <1>4, <1>5 DEF Rank

LEMMA WorkTypes ==
  ASSUME IsFiniteSet(Modules), TypeOK
  PROVE  /\ Work \in Int /\ Stage \in Int
         /\ Cardinality(active) \in Nat /\ Cardinality(available) \in Nat
         /\ Cardinality(Threads) \in Nat /\ Len(running) \in Nat
         /\ IsFiniteSet(active) /\ IsFiniteSet(available) /\ IsFiniteSet(Threads)
  <1>1. active \subseteq Modules /\ available \subseteq Modules /\ Threads \subseteq Modules
    BY DEF TypeOK, Threads
  <1>2. /\ Cardinality(active) \in Nat /\ Cardinality(available) \in Nat
        /\ Cardinality(Threads) \in Nat /\ Len(running) \in Nat
        /\ IsFiniteSet(active) /\ IsFiniteSet(available) /\ IsFiniteSet(Threads)
    BY <1>1, SmallSets DEF TypeOK
  <1>3. Work \in Nat
    BY <1>2, WorkFacts DEF Work
  <1>4. Stage \in Int
    BY DEF Stage
  <1>. QED BY <1>2, <1>3, <1>4

(* The same in the next state.                                             *)
LEMMA WorkTypesNext ==
  ASSUME IsFiniteSet(Modules), TypeOK'
  PROVE  /\ Work' \in Int /\ Stage' \in Int
         /\ Cardinality(active') \in Nat /\ Cardinality(available') \in Nat
         /\ Cardinality(Threads') \in Nat /\ Len(running') \in Nat
  <1>1. active' \subseteq Modules /\ available' \subseteq Modules /\ Threads' \subseteq Modules
    BY DEF TypeOK, Threads
  <1>2. /\ Cardinality(active') \in Nat /\ Cardinality(available') \in Nat
        /\ Cardinality(Threads') \in Nat /\ Len(running') \in Nat
    BY <1>1, SmallSets DEF TypeOK
  <1>3. Work' \in Nat
    BY <1>2, WorkFacts DEF Work
  <1>4. Stage' \in Int
    BY DEF Stage
  <1>. QED BY <1>2, <1>3, <1>4

(* Within an iteration only Work and Stage change.                         *)
LEMMA SameIteration ==
  ASSUME IsFiniteSet(Modules), TypeOK, IterationsInv, TypeOK', iteration' = iteration,
         Work' + Stage' < Work + Stage
  PROVE  Rank' < Rank
  <1>1. /\ Work \in Nat /\ Stage \in 0..3
        /\ (NTimes - iteration) * Round \in Nat
    BY RankTypes
  <1>2. Work' \in Nat /\ Stage' \in 0..3
    <2>1. active' \subseteq Modules /\ available' \subseteq Modules /\ Threads' \subseteq Modules
      BY DEF TypeOK, Threads
    <2>2. /\ Cardinality(active') \in Nat /\ Cardinality(available') \in Nat
          /\ Cardinality(Threads') \in Nat /\ Len(running') \in Nat
      BY <2>1, SmallSets DEF TypeOK
    <2>3. Work' \in Nat
      BY <2>2, WorkFacts DEF Work
    <2>. QED BY <2>3 DEF Stage
  <1>3. ((NTimes - iteration) * Round)' = (NTimes - iteration) * Round
    BY DEF Round
  <1>. DEFINE base == (NTimes - iteration) * Round
  <1>4. base \in Nat /\ Rank = base + Work + Stage /\ Rank' = base + Work' + Stage'
    BY <1>1, <1>3 DEF Rank
  <1>. HIDE DEF base
  <1>5. \A w, v \in Nat, i, j \in 0..3 : v + j < w + i => base + v + j < base + w + i
    BY <1>4
  <1>. QED BY <1>1, <1>2, <1>4, <1>5, Zenon

LEMMA LessWork ==
  ASSUME IsFiniteSet(Modules), TypeOK, TypeOK',
         \/ Work' < Work /\ (Stage' = Stage \/ Stage' < Stage)
         \/ (Work' = Work \/ Work' < Work) /\ Stage' < Stage
  PROVE  Work' + Stage' < Work + Stage
  <1>1. \A w, v, i, j \in Int :
          \/ v < w /\ (j = i \/ j < i)
          \/ (v = w \/ v < w) /\ j < i
          => v + j < w + i
    OBVIOUS
  <1>2. /\ Work \in Int /\ Stage \in Int /\ Work' \in Int /\ Stage' \in Int
    BY WorkTypes, WorkTypesNext
  <1>. QED BY <1>1, <1>2, Zenon

LEMMA FinishCounts ==
  ASSUME IsFiniteSet(Modules), Inv, Inv', IterationsInv, NEW m \in Modules, Finish(m)
  PROVE  Rank' < Rank
  <1>. USE WorkTypes, WorkTypesNext DEF Inv
  <1>1. UNCHANGED <<pc, iteration, active, available, running>> /\ Stage' = Stage
    BY DEF Finish, local, Stage
  <1>2. Threads' = Threads \ {m} /\ m \in Threads
    BY DEF Finish, Threads, TypeOK
  <1>3. Cardinality(Threads') = Cardinality(Threads) - 1
    BY <1>2, FS_RemoveElement
  <1>4. Work' < Work
    <2>1. /\ Cardinality(active) \in Nat /\ Cardinality(available) \in Nat
          /\ Cardinality(Threads) \in Nat /\ Len(running) \in Nat
      OBVIOUS
    <2>2. Work' = WorkOf(Cardinality(active), Cardinality(available), Len(running),
                         Cardinality(Threads) - 1)
      BY ONLY <1>1, <1>3, Zenon DEF Work
    <2>. QED BY ONLY <2>1, <2>2, WorkFacts, Zenon DEF Work
  <1>. QED BY <1>1, <1>4, SameIteration, LessWork

LEMMA LaunchCounts ==
  ASSUME IsFiniteSet(Modules), Inv, Inv', IterationsInv, NEW m \in Modules, Launch(m)
  PROVE  Rank' < Rank
  <1>. USE WorkTypes, WorkTypesNext DEF Inv
  <1>1. UNCHANGED <<pc, iteration, active>> /\ Stage' = Stage
    BY DEF Launch, Stage
  <1>2. /\ Threads' = Threads \union {m} /\ m \notin Threads
        /\ available' = available \ {m} /\ m \in available
        /\ Len(running') = Len(running) + 1
    BY AppendQueue DEF Launch, Threads, Started, TypeOK, PlaceInv
  <1>3. Cardinality(Threads') = Cardinality(Threads) + 1
    BY <1>2, FS_AddElement
  <1>4. Cardinality(available') = Cardinality(available) - 1
    BY <1>2, FS_RemoveElement
  <1>5. Cardinality(active') = Cardinality(active) /\ Len(running') = Len(running) + 1
    BY <1>1, <1>2
  <1>6. /\ Cardinality(active) \in Nat /\ Cardinality(available) \in Nat
        /\ Cardinality(Threads) \in Nat /\ Len(running) \in Nat
    OBVIOUS
  <1>7. Work' < Work
    <2>1. Work' = WorkOf(Cardinality(active), Cardinality(available) - 1, Len(running) + 1,
                         Cardinality(Threads) + 1)
      BY ONLY <1>3, <1>4, <1>5, Zenon DEF Work
    <2>. QED BY ONLY <1>6, <2>1, WorkFacts, Zenon DEF Work
  <1>. QED BY <1>1, <1>7, SameIteration, LessWork

(* A pass of the do-while that ends neither the iteration nor a module nor *)
(* finds one available does not occur while there are threads.             *)
LEMMA RefreshCounts ==
  ASSUME IsFiniteSet(Modules), Inv, Inv', IterationsInv, MaxThreads > 0, pc = "looping",
         RefreshIdle \/ CollectOk
  PROVE  Rank' < Rank
  <1>. USE WorkTypes, WorkTypesNext DEF Inv
  <1>. DEFINE fresh == Runnable(finished')
  <1>1. /\ UNCHANGED <<iteration, exec>>
        /\ active' = active \ fresh /\ available' = available \union fresh
        /\ pc' = IF IterationOver(available \union fresh, running') THEN "iterated" ELSE "looping"
    BY DEF RefreshIdle, CollectOk, Refresh
  <1>2. Threads' = Threads
    BY <1>1 DEF Threads
  <1>3. fresh \subseteq active /\ fresh \subseteq Modules /\ fresh \intersect available = {}
    BY DEF Runnable, TypeOK
  <1>. HIDE DEF fresh
  <1>4. Cardinality(fresh) \in Nat /\ IsFiniteSet(fresh)
    BY <1>3, SmallSets
  <1>5. Cardinality(active') = Cardinality(active) - Cardinality(fresh)
    <2>1. active \intersect fresh = fresh
      BY <1>3
    <2>2. Cardinality(active \ fresh) = Cardinality(active) - Cardinality(fresh)
      BY <2>1, FS_Difference
    <2>. QED BY <1>1, <2>2
  <1>6. Cardinality(available') = Cardinality(available) + Cardinality(fresh)
    <2>1. available \intersect fresh = {}
      BY <1>3
    <2>2. Cardinality(available \union fresh) = Cardinality(available) + Cardinality(fresh) - 0
      BY <1>4, <2>1, FS_Union, FS_EmptySet
    <2>. QED BY <1>1, <1>4, <2>2
  <1>7. \/ Len(running') = Len(running) - 1
        \/ Len(running') = Len(running) /\ fresh # {}
        \/ Len(running') = Len(running) /\ pc' = "iterated"
    <2>1. CASE CollectOk
      BY <2>1, TailQueue DEF CollectOk, Collects, TypeOK
    <2>2. CASE RefreshIdle
      <3>1. running = <<>> /\ running' = <<>> /\ Len(running) = 0
        BY <2>2 DEF RefreshIdle
      <3>2. available = {}
        BY <2>2, <3>1, MaxThreadsType DEF RefreshIdle, MayLaunch
      <3>. QED BY <1>1, <3>1, <3>2 DEF IterationOver
    <2>. QED BY <2>1, <2>2
  <1>8. fresh # {} => Cardinality(fresh) # 0
    BY <1>4, FS_EmptySet
  <1>9. Stage = 3 /\ (Stage' = Stage \/ Stage' < Stage) /\ (pc' = "iterated" => Stage' < Stage)
    BY DEF Stage
  <1>10. Cardinality(Threads') = Cardinality(Threads)
    BY <1>2
  <1>11. Work' < Work \/ (Work' = Work /\ pc' = "iterated")
    <2>1. /\ Cardinality(active) \in Nat /\ Cardinality(available) \in Nat
          /\ Cardinality(Threads) \in Nat /\ Len(running) \in Nat
      OBVIOUS
    <2>2. ASSUME Len(running') = Len(running) - 1 PROVE Work' < Work
      <3>1. Work' = WorkOf(Cardinality(active) - Cardinality(fresh),
                           Cardinality(available) + Cardinality(fresh),
                           Len(running) - 1, Cardinality(Threads))
        BY ONLY <1>5, <1>6, <1>10, <2>2, Zenon DEF Work
      <3>. QED BY ONLY <1>4, <2>1, <3>1, WorkFacts, Zenon DEF Work
    <2>3. ASSUME Len(running') = Len(running), Cardinality(fresh) # 0 PROVE Work' < Work
      <3>1. Work' = WorkOf(Cardinality(active) - Cardinality(fresh),
                           Cardinality(available) + Cardinality(fresh),
                           Len(running), Cardinality(Threads))
        BY ONLY <1>5, <1>6, <1>10, <2>3, Zenon DEF Work
      <3>2. Cardinality(fresh) \in Nat \ {0}
        BY ONLY <1>4, <2>3
      <3>. QED BY ONLY <2>1, <3>1, <3>2, WorkFacts, Zenon DEF Work
    <2>4. ASSUME Len(running') = Len(running), Cardinality(fresh) = 0 PROVE Work' = Work
      <3>1. /\ Cardinality(active') = Cardinality(active)
            /\ Cardinality(available') = Cardinality(available)
        BY ONLY <1>5, <1>6, <2>1, <2>4
      <3>. QED BY ONLY <1>10, <2>4, <3>1, Zenon DEF Work
    <2>. QED BY ONLY <1>7, <1>8, <2>2, <2>3, <2>4
  <1>. QED BY <1>1, <1>9, <1>11, SameIteration, LessWork

(* The caller's thread leaves the loop, or the call.                       *)
LEMMA LeaveCounts ==
  ASSUME IsFiniteSet(Modules), Inv, Inv', IterationsInv,
         LaunchThrows \/ CollectFailed \/ CollectThrew \/ Drain \/ Unwind \/ Return
  PROVE  Rank' < Rank
  <1>. USE WorkTypes, WorkTypesNext DEF Inv
  <1>1. UNCHANGED <<iteration, exec, active, available, running>>
    BY DEF LaunchThrows, CollectFailed, CollectThrew, Drain, Unwind, Return, local
  <1>2. Work' = Work
    BY <1>1 DEF Work, Threads
  <1>3. Stage' < Stage
    BY DEF LaunchThrows, CollectFailed, CollectThrew, Collects, Drain, Unwind, Return, Stage
  <1>. QED BY <1>1, <1>2, <1>3, SameIteration, LessWork

LEMMA NextIterationCounts ==
  ASSUME IsFiniteSet(Modules), Inv, Inv', IterationsInv, NextIteration
  PROVE  Rank' < Rank
  <1>. DEFINE left == NTimes - (iteration + 1)
  <1>1. left \in Nat /\ NTimes - iteration = left + 1 /\ iteration' = iteration + 1
    BY ChainAssumption DEF NextIteration, Inv, TypeOK
  <1>2. Work \in Nat /\ Round \in Nat /\ Stage = 1 /\ Stage' = 3
    BY RankTypes DEF Inv, NextIteration, Stage
  <1>3. Work' = 5 * Cardinality(Modules)
    <2>1. /\ active' = Modules /\ available' = {} /\ running' = <<>> /\ Threads' = {}
      BY DEF NextIteration, IterationLocals, Threads
    <2>2. Cardinality(Modules) \in Nat
      BY FS_CardinalityType
    <2>3. Work' = WorkOf(Cardinality(Modules), 0, 0, 0)
      BY <2>1, FS_EmptySet DEF Work
    <2>. QED BY <2>2, <2>3 DEF WorkOf
  <1>4. Rank = (left + 1) * Round + Work + 1 /\ Rank' = left * Round + Round
    <2>1. Rank' = left * Round + 5 * Cardinality(Modules) + 3
      BY <1>1, <1>2, <1>3 DEF Rank, Round
    <2>2. Cardinality(Modules) \in Nat /\ left * Round \in Nat
      BY <1>1, <1>2, FS_CardinalityType
    <2>3. Rank' = left * Round + Round
      <3>. HIDE DEF left
      <3>1. Round = 5 * Cardinality(Modules) + 3
        BY DEF Round
      <3>. DEFINE base == left * Round
      <3>. HIDE DEF base
      <3>. QED BY <2>1, <2>2, <3>1 DEF base
    <2>. QED BY <1>1, <1>2, <2>3 DEF Rank
  <1>. HIDE DEF left
  <1>5. (left + 1) * Round = left * Round + Round /\ left * Round \in Nat
    BY <1>1, <1>2
  <1>. DEFINE base == left * Round
  <1>. HIDE DEF base
  <1>. QED BY <1>2, <1>4, <1>5 DEF base

Counted == Inv /\ IterationsInv

LEMMA CountedInvariance == Spec => []Counted
  <1>1. Init => IterationsInv
    BY ChainAssumption DEF Init, IterationsInv
  <1>2. ASSUME Inv, IterationsInv, [Next]_vars PROVE IterationsInv'
    <2>1. iteration' = iteration \/ (iteration + 1 < NTimes /\ iteration' = iteration + 1)
      BY <1>2 DEF Next, Scheduler, Launch, LaunchThrows, RefreshIdle, CollectOk, CollectFailed,
         CollectThrew, Drain, Unwind, NextIteration, Return, Finish, vars
    <2>. QED BY <1>2, <2>1 DEF IterationsInv
  <1>. QED BY Invariance, <1>1, <1>2, PTL DEF Counted, Spec

LEMMA StepCounts ==
  ASSUME IsFiniteSet(Modules), MaxThreads > 0, Counted, Counted', Next
  PROVE  Rank' < Rank
  <1>. USE DEF Counted
  <1>1. ASSUME NEW m \in Modules, Launch(m) PROVE Rank' < Rank
    BY <1>1, LaunchCounts
  <1>2. CASE RefreshIdle \/ CollectOk
    BY <1>2, RefreshCounts DEF RefreshIdle, CollectOk, Collects
  <1>3. CASE LaunchThrows \/ CollectFailed \/ CollectThrew \/ Drain \/ Unwind \/ Return
    BY <1>3, LeaveCounts
  <1>4. CASE NextIteration
    BY <1>4, NextIterationCounts
  <1>5. ASSUME NEW m \in Modules, Finish(m) PROVE Rank' < Rank
    BY <1>5, FinishCounts
  <1>. QED BY <1>1, <1>2, <1>3, <1>4, <1>5 DEF Next, Scheduler

(* Every step of the caller's thread and of a module's, counts: an         *)
(* execution that has threads is finite, however requirements and results  *)
(* fall, and has no cycle a scheduler could be caught in.                  *)
RankDecreases == [](Rank \in Nat) /\ [][Rank' < Rank]_vars

THEOREM RankDecreasesAlways ==
  ASSUME IsFiniteSet(Modules), MaxThreads > 0
  PROVE  Spec => RankDecreases
  <1>1. Counted => Rank \in Nat
    BY RankTypes DEF Counted, Inv
  <1>2. Counted /\ Counted' /\ [Next]_vars => [Rank' < Rank]_vars
    BY StepCounts
  <1>. QED BY CountedInvariance, <1>1, <1>2, PTL DEF Spec, RankDecreases
-----------------------------------------------------------------------------
(* Where the caller's thread can go on, and where a module's can.          *)
SchedulerCan ==
  \/ pc = "looping" /\ (MayLaunch \/ running = <<>> \/ exec[Head(running)] # "running")
  \/ pc \in {"draining", "iterated"}
  \/ pc = "unwinding" /\ \A i \in 1..Len(running) : exec[running[i]] # "running"

ModuleCan(m) == Alive /\ exec[m] = "running"

(* That they do not only seem so: what ENABLED says of each.               *)
Unhindered == SchedulerCan => ENABLED <<Scheduler>>_vars
UnhinderedModule(m) == ModuleCan(m) => ENABLED <<Finish(m)>>_vars

(* Somebody always can: whom the caller waits for is at work.              *)
LEMMA NeverStuck ==
  ASSUME Inv, pc \notin Stopped
  PROVE  SchedulerCan \/ \E m \in Modules : ModuleCan(m)
  <1>1. pc \in {"looping", "draining", "unwinding", "iterated"} /\ Alive
    BY DEF Inv, TypeOK, Stopped, Alive
  <1>2. CASE pc = "looping" /\ running # <<>> /\ exec[Head(running)] = "running"
    BY <1>1, <1>2, TailQueue DEF Inv, TypeOK, ModuleCan
  <1>3. ASSUME NEW i \in 1..Len(running), exec[running[i]] = "running"
        PROVE  \E m \in Modules : ModuleCan(m)
    BY <1>1, <1>3 DEF Inv, TypeOK, ModuleCan
  <1>. QED BY <1>1, <1>2, <1>3 DEF SchedulerCan

At(n) == Rank = n
Below(n) == Rank < n
Ended == pc \in Stopped
ThreadAt(n, m) == At(n) /\ ModuleCan(m)
ThreadMoves(n, m) == [](ThreadAt(n, m) => <>Below(n))

LEMMA AtStep ==
  ASSUME IsFiniteSet(Modules), MaxThreads > 0, NEW n \in Nat,
         Counted, Counted', At(n), [Next]_vars
  PROVE  IF Next THEN Below(n)' ELSE At(n)' /\ UNCHANGED vars
  <1>1. CASE Next
    BY <1>1, StepCounts DEF At, Below
  <1>2. CASE ~Next
    <2>1. UNCHANGED vars
      BY <1>2
    <2>2. UNCHANGED <<Work, Stage, Round>> /\ UNCHANGED iteration
      BY <2>1 DEF Work, Stage, Threads, Round, vars
    <2>3. Rank' = Rank
      BY <2>2, Zenon DEF Rank
    <2>. QED BY <1>2, <2>1, <2>3 DEF At
  <1>. QED BY <1>1, <1>2

LEMMA SchedulerMoves ==
  ASSUME IsFiniteSet(Modules), MaxThreads > 0, NEW n \in Nat
  PROVE  Spec /\ Schedules /\ []Unhindered => (At(n) /\ SchedulerCan ~> Below(n))
  <1>1. Counted /\ Counted' /\ At(n) /\ SchedulerCan /\ [Next]_vars =>
          Below(n)' \/ (At(n)' /\ SchedulerCan')
    BY AtStep DEF SchedulerCan, MayLaunch, vars
  <1>2. Counted /\ Counted' /\ At(n) /\ <<Scheduler>>_vars => Below(n)'
    BY AtStep DEF Next
  <1>. QED BY <1>1, <1>2, CountedInvariance, PTL DEF Spec, Schedules, Unhindered

LEMMA ModuleMoves ==
  ASSUME IsFiniteSet(Modules), MaxThreads > 0, NEW n \in Nat, NEW m \in Modules
  PROVE  Spec /\ Runs(m) /\ []UnhinderedModule(m) => ThreadMoves(n, m)
  <1>1. Counted /\ Counted' /\ ThreadAt(n, m) /\ [Next]_vars => Below(n)' \/ ThreadAt(n, m)'
    BY AtStep DEF ThreadAt, ModuleCan, Alive, vars
  <1>2. Counted /\ Counted' /\ ThreadAt(n, m) /\ <<Finish(m)>>_vars => Below(n)'
    BY AtStep DEF Next, ThreadAt
  <1>3. ThreadAt(n, m) => ModuleCan(m)
    BY DEF ThreadAt
  <1>. QED
    BY <1>1, <1>2, <1>3, CountedInvariance, PTL DEF Spec, Runs, UnhinderedModule, ThreadMoves

(* As long as execute() has not ended its rank becomes less, given the     *)
(* fairness of FairSpec and at least one thread: since the rank is a       *)
(* natural number, execute() ends.                                         *)
THEOREM Advances ==
  ASSUME IsFiniteSet(Modules), MaxThreads > 0, NEW n \in Nat
  PROVE  FairSpec /\ []Unhindered /\ (\A m \in Modules : []UnhinderedModule(m))
           => (At(n) ~> Ended \/ Below(n))
  <1>1. FairSpec => Spec /\ Schedules
    BY DEF FairSpec
  <1>2. ASSUME NEW m \in Modules
        PROVE  FairSpec /\ []UnhinderedModule(m) => ThreadMoves(n, m)
    <2>1. FairSpec => Spec /\ Runs(m)
      BY DEF FairSpec
    <2>. QED BY <2>1, ModuleMoves
  <1>3. FairSpec /\ (\A m \in Modules : []UnhinderedModule(m)) =>
          \A m \in Modules : ThreadMoves(n, m)
    <2>. SUFFICES ASSUME FairSpec, \A m \in Modules : []UnhinderedModule(m), NEW m \in Modules
                  PROVE  ThreadMoves(n, m)
      OBVIOUS
    <2>1. []UnhinderedModule(m)
      OBVIOUS
    <2>2. FairSpec /\ []UnhinderedModule(m) => ThreadMoves(n, m)
      BY <1>2
    <2>. QED BY <2>1, <2>2
  <1>4. (\A m \in Modules : ThreadMoves(n, m)) =>
          [](\A m \in Modules : ThreadAt(n, m) => <>Below(n))
    BY Zenon DEF ThreadMoves
  <1>. DEFINE SomeThread == \E m \in Modules : ThreadAt(n, m)
  <1>5. (\A m \in Modules : ThreadAt(n, m) => <>Below(n)) /\ SomeThread => <>Below(n)
    BY Zenon
  <1>6. Counted /\ At(n) => Ended \/ SchedulerCan \/ SomeThread
    BY NeverStuck DEF Counted, Ended, ThreadAt
  <1>. HIDE DEF SomeThread
  <1>. QED BY <1>1, <1>3, <1>4, <1>5, <1>6, SchedulerMoves, CountedInvariance, PTL
-----------------------------------------------------------------------------
(* The scheduler implements ModuleOrder: starting and ending a module are  *)
(* the abstract steps, beginning an iteration is NextRound, and everything *)
(* else the caller's thread does is invisible.                             *)
THEOREM Refinement == Spec => OrderSpec
  <1>1. Init => Order!Init
    BY DEF Init, Order!Init, Started, EndedWell, EndedBadly
  <1>2. ASSUME Inv, [Next]_vars
        PROVE  [Order!Next]_(Order!vars)
    <2>. USE <1>2 DEF Inv, Order!vars
    <2>. DEFINE same == UNCHANGED <<iteration, Started, EndedWell, EndedBadly>>
    <2>1. ASSUME UNCHANGED <<iteration, exec>>
          PROVE  same
      BY <2>1 DEF Started, EndedWell, EndedBadly
    <2>2. ASSUME NEW m \in Modules, Launch(m)
          PROVE  Order!Start(m)
      <3>1. m \notin Started
        BY <2>2 DEF Launch, PlaceInv
      <3>2. /\ Started' = Started \union {m}
            /\ EndedWell' = EndedWell /\ EndedBadly' = EndedBadly
            /\ iteration' = iteration
        BY <2>2, <3>1 DEF Launch, TypeOK, Started, EndedWell, EndedBadly
      <3>3. requirementsSatisfied(m, EndedWell)
        BY <2>2 DEF Launch, ReadyInv, QueueInv, requirementsSatisfied
      <3>. QED
        BY <3>1, <3>2, <3>3
        DEF Order!Start, Order!Startable, Order!Requires, requirementsSatisfied
    <2>3. ASSUME NEW m \in Modules, Finish(m)
          PROVE  Order!EndWell(m) \/ Order!EndBadly(m)
      <3>1. PICK result \in {"ok", "failed", "threw"} :
              exec' = [exec EXCEPT ![m] = result]
        BY <2>3 DEF Finish
      <3>2. exec[m] = "running" /\ iteration' = iteration
        BY <2>3 DEF Finish
      <3>3. Started' = Started /\ m \in Started \ (EndedWell \union EndedBadly)
        BY <3>1, <3>2 DEF TypeOK, Started, EndedWell, EndedBadly
      <3>4. CASE result = "ok"
        <4>1. EndedWell' = EndedWell \union {m} /\ EndedBadly' = EndedBadly
          BY <3>1, <3>2, <3>4 DEF TypeOK, EndedWell, EndedBadly
        <4>. QED BY <3>2, <3>3, <4>1 DEF Order!EndWell
      <3>5. CASE result # "ok"
        <4>1. EndedWell' = EndedWell /\ EndedBadly' = EndedBadly \union {m}
          BY <3>1, <3>2, <3>5 DEF TypeOK, EndedWell, EndedBadly
        <4>. QED BY <3>2, <3>3, <4>1 DEF Order!EndBadly
      <3>. QED BY <3>4, <3>5
    <2>4. CASE NextIteration
      <3>1. /\ iteration' = iteration + 1
            /\ Started' = {} /\ EndedWell' = {} /\ EndedBadly' = {}
        BY <2>4 DEF NextIteration, Started, EndedWell, EndedBadly
      <3>2. Started = finished /\ EndedWell = finished /\ EndedBadly = {}
        BY <2>4 DEF NextIteration, EndInv, QueueInv, Queued, Started, EndedWell, EndedBadly
      <3>3. \A m \in Modules : ~Order!Startable(m)
        BY <2>4, <3>2
        DEF NextIteration, EndInv, PlaceInv, Order!Startable, Order!Requires,
            requirementsSatisfied
      <3>. QED BY <3>1, <3>2, <3>3 DEF Order!NextRound, Order!Next
    <2>5. CASE LaunchThrows \/ RefreshIdle \/ CollectOk \/ CollectFailed
               \/ CollectThrew \/ Drain \/ Unwind \/ Return
      BY <2>1, <2>5 DEF LaunchThrows, RefreshIdle, CollectOk, CollectFailed,
         CollectThrew, Drain, Unwind, Return
    <2>6. CASE UNCHANGED vars
      BY <2>1, <2>6 DEF vars
    <2>. QED
      BY <2>2, <2>3, <2>4, <2>5, <2>6 DEF Next, Scheduler, Order!Next
  <1>. QED BY Invariance, <1>1, <1>2, PTL DEF Spec, OrderSpec, Order!Spec
=============================================================================
