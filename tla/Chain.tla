-------------------------------- MODULE Chain --------------------------------
(***************************************************************************)
(* NPP::Core::Chain: runs modules in std::async threads, in the order      *)
(* their requirements allow (lib/include/npp/core/chain.h). execute() and  *)
(* doIteration() run on the caller's thread; every module runs on a thread *)
(* of its own and ends at a time the scheduler does not choose.            *)
(*                                                                         *)
(* A definition F_faulty is a wrong version of F that nothing uses; it     *)
(* shows that a property can tell F from it.                               *)
(***************************************************************************)
EXTENDS Naturals, FiniteSets, Sequences

CONSTANTS
  Names,             \* ids a requirement may name
  Modules,           \* ids of the modules added to the chain
  Hard,              \* Module::hardRequirements()
  Soft,              \* Module::softRequirements()
  RequestedThreads,  \* argument of setMaxThreads
  HardwareThreads,   \* std::thread::hardware_concurrency(), 0 if unknown
  NTimes             \* argument of execute

ASSUME ChainAssumption ==
  /\ Modules \subseteq Names
  /\ Hard \in [Modules -> SUBSET Names]
  /\ Soft \in [Modules -> SUBSET Names]
  /\ RequestedThreads \in Nat
  /\ HardwareThreads \in Nat
  /\ NTimes \in Nat \ {0}

VARIABLES
  pc,         \* where the caller's thread is
  iteration,  \* the loop counter of execute
  active,     \* active_modules: not yet found runnable
  available,  \* available_modules: runnable, not started
  processed,  \* processed_modules: started
  running,    \* running_modules: the queue of started modules
  finished,   \* finished_modules: collected from the queue without error
  exec        \* what each module's thread is doing

local == <<active, available, processed, running, finished>>
vars == <<pc, iteration, active, available, processed, running, finished, exec>>

ExecStates == {"idle", "running", "ok", "failed", "threw"}
Stopped == {"returned", "thrown", "crashed"}

(* The process is gone after a crash, its threads with it.                 *)
Alive == pc # "crashed"

MaxThreads ==
  IF RequestedThreads <= HardwareThreads THEN RequestedThreads ELSE HardwareThreads

requirementsSatisfied_faulty(m, fin) == Hard[m] \subseteq fin

requirementsSatisfied(m, fin) ==
  /\ Hard[m] \subseteq fin
  /\ Soft[m] \intersect Modules \subseteq fin

IterationLocals ==
  /\ active' = Modules
  /\ available' = {}
  /\ processed' = {}
  /\ running' = <<>>
  /\ finished' = {}

Init ==
  /\ pc = "looping"
  /\ iteration = 0
  /\ active = Modules
  /\ available = {}
  /\ processed = {}
  /\ running = <<>>
  /\ finished = {}
  /\ exec = [m \in Modules |-> "idle"]
-----------------------------------------------------------------------------
(* The filling loop at the head of an iteration's do-while.                *)
MayLaunch_faulty == available # {} /\ Len(running) <= MaxThreads

MayLaunch == available # {} /\ Len(running) < MaxThreads

Launch(m) ==
  /\ pc = "looping"
  /\ MayLaunch
  /\ m \in available
  /\ running' = Append(running, m)
  /\ processed' = processed \union {m}
  /\ available' = available \ {m}
  /\ exec' = [exec EXCEPT ![m] = "running"]
  /\ UNCHANGED <<pc, iteration, active, finished>>

(* std::async has no thread to give and throws.                            *)
LaunchThrows ==
  /\ pc = "looping"
  /\ MayLaunch
  /\ pc' = "unwinding"
  /\ UNCHANGED <<iteration, exec, local>>

(* The end of the do-while body: modules whose requirements are now met    *)
(* become available, and the loop ends when nothing is left to do.         *)
Runnable(fin) ==
  {m \in active \ (available \union processed \union fin) :
     requirementsSatisfied(m, fin)}

IterationOver_faulty(avail, queue) == queue = <<>>
IterationOver_waits(avail, queue) == avail = {} /\ queue = <<>> /\ active = {}

IterationOver(avail, queue) == avail = {} /\ queue = <<>>

Refresh(fin, queue) ==
  LET fresh == Runnable(fin)
  IN  /\ active' = active \ fresh
      /\ available' = available \union fresh
      /\ pc' = IF IterationOver(available \union fresh, queue)
                 THEN "iterated" ELSE "looping"

(* Nothing could be launched and nothing runs: the first pass.             *)
RefreshIdle ==
  /\ pc = "looping"
  /\ ~MayLaunch
  /\ running = <<>>
  /\ Refresh(finished, running)
  /\ UNCHANGED <<iteration, processed, running, finished, exec>>

(* wait() and get() on the oldest future, which is not necessarily the     *)
(* first to be ready.                                                      *)
Collects(result) ==
  /\ pc = "looping"
  /\ ~MayLaunch
  /\ running # <<>>
  /\ exec[Head(running)] = result

CollectOk ==
  /\ Collects("ok")
  /\ finished' = finished \union {Head(running)}
  /\ running' = Tail(running)
  /\ Refresh(finished', running')
  /\ UNCHANGED <<iteration, processed, exec>>

(* The front future is consumed by get() and stays in the queue.           *)
CollectFailed ==
  /\ Collects("failed")
  /\ pc' = "draining"
  /\ UNCHANGED <<iteration, exec, local>>

(* get() rethrows the exception of the module.                             *)
CollectThrew ==
  /\ Collects("threw")
  /\ pc' = "unwinding"
  /\ UNCHANGED <<iteration, exec, local>>

(* wait() on the consumed front future, which has no shared state any      *)
(* more: libstdc++ throws future_error, libc++ dereferences null.          *)
Drain ==
  /\ pc = "draining"
  /\ pc' \in {"unwinding", "crashed"}
  /\ UNCHANGED <<iteration, exec, local>>

Unwind_faulty ==
  /\ pc = "unwinding"
  /\ pc' = "thrown"
  /\ UNCHANGED <<iteration, exec, local>>

(* The queue is destroyed; a future of std::async joins its thread.        *)
Unwind ==
  /\ pc = "unwinding"
  /\ \A i \in 1..Len(running) : exec[running[i]] # "running"
  /\ pc' = "thrown"
  /\ UNCHANGED <<iteration, exec, local>>
-----------------------------------------------------------------------------
NextIteration_faulty ==
  /\ pc = "iterated"
  /\ iteration < NTimes
  /\ iteration' = iteration - 1
  /\ pc' = "looping"
  /\ IterationLocals
  /\ exec' = [m \in Modules |-> "idle"]

NextIteration ==
  /\ pc = "iterated"
  /\ iteration + 1 < NTimes
  /\ iteration' = iteration + 1
  /\ pc' = "looping"
  /\ IterationLocals
  /\ exec' = [m \in Modules |-> "idle"]

Return ==
  /\ pc = "iterated"
  /\ iteration + 1 = NTimes
  /\ pc' = "returned"
  /\ UNCHANGED <<iteration, exec, local>>

(* A module's thread ends: execute() returned 0, an error, or threw.       *)
Finish(m) ==
  /\ Alive
  /\ exec[m] = "running"
  /\ \E result \in {"ok", "failed", "threw"} :
       exec' = [exec EXCEPT ![m] = result]
  /\ UNCHANGED <<pc, iteration, local>>

Scheduler ==
  \/ \E m \in Modules : Launch(m)
  \/ LaunchThrows
  \/ RefreshIdle
  \/ CollectOk
  \/ CollectFailed
  \/ CollectThrew
  \/ Drain
  \/ Unwind
  \/ NextIteration
  \/ Return

Next == Scheduler \/ \E m \in Modules : Finish(m)

Spec == Init /\ [][Next]_vars

(* The caller's thread keeps running, and every module's execute() ends.   *)
Schedules == WF_vars(Scheduler)
Runs(m) == WF_vars(Finish(m))

FairSpec ==
  /\ Spec
  /\ Schedules
  /\ \A m \in Modules : Runs(m)
-----------------------------------------------------------------------------
Started == {m \in Modules : exec[m] # "idle"}
EndedWell == {m \in Modules : exec[m] = "ok"}
EndedBadly == {m \in Modules : exec[m] \in {"failed", "threw"}}
Threads == {m \in Modules : exec[m] = "running"}

TypeOK ==
  /\ pc \in {"looping", "draining", "unwinding", "iterated"} \union Stopped
  /\ iteration \in Nat
  /\ active \subseteq Modules
  /\ available \subseteq Modules
  /\ processed \subseteq Modules
  /\ running \in Seq(Modules)
  /\ finished \subseteq Modules
  /\ exec \in [Modules -> ExecStates]

(* A module runs only after every module it requires has ended without     *)
(* error in the same iteration, whatever order the threads end in          *)
(* (requirementsSatisfied reads finished_modules, not the threads).        *)
DependencyOrder ==
  \A m \in Started : Hard[m] \union (Soft[m] \intersect Modules) \subseteq EndedWell

(* Never more module threads at work than setMaxThreads allows, although   *)
(* the scheduler only counts its queue.                                    *)
ThreadBound == Cardinality(Threads) <= MaxThreads

(* No module thread outlives the iteration it was started in, nor          *)
(* execute() itself, however it ends short of a crash of the process.      *)
NoOrphanThread == pc \in {"iterated", "returned", "thrown"} => Threads = {}

(* The chain runs its modules as ModuleOrder promises: once per iteration, *)
(* requirements first, and no iteration ends while a module could start.   *)
Order == INSTANCE ModuleOrder WITH
  round <- iteration, started <- Started, ended <- EndedWell, failed <- EndedBadly
OrderSpec == Order!Spec

(* execute() comes to an end, given a thread to run modules on: no module  *)
(* waits for ever behind a slower one at the head of the queue.            *)
Completes == MaxThreads > 0 => <>(pc \in Stopped)

(* chain.h:80, "wait for running threads (if any) to finish, then abort    *)
(* this iteration": a module that returns an error ends the iteration with *)
(* its error code, not with an exception or a crash in the drain.          *)
FailureAborts ==
  [][pc = "draining" => pc' \notin {"unwinding", "crashed"}]_vars
=============================================================================
