----------------------------- MODULE ModuleOrder -----------------------------
(***************************************************************************)
(* What a chain of modules promises (lib/include/npp/core/chain.h), with   *)
(* no scheduler in sight: in every iteration a module starts at most once, *)
(* and only after everything it requires has ended well; the next          *)
(* iteration begins only when nothing runs, nothing failed and nothing     *)
(* more can be started.                                                    *)
(***************************************************************************)
EXTENDS Naturals

CONSTANTS
  Modules,   \* the modules added to the chain
  Hard,      \* Hard[m]: ids m requires, known to the chain or not
  Soft       \* Soft[m]: ids m runs after, if the chain knows them

VARIABLES
  round,     \* iterations completed
  started,   \* modules started in this iteration
  ended,     \* modules that ended well in this iteration
  failed     \* modules that returned an error or threw in this iteration

vars == <<round, started, ended, failed>>

(* Everything m waits for: all hard requirements, and the soft ones that   *)
(* are part of the chain.                                                  *)
Requires(m) == Hard[m] \union (Soft[m] \intersect Modules)

Startable(m) == m \notin started /\ Requires(m) \subseteq ended

Init ==
  /\ round = 0
  /\ started = {}
  /\ ended = {}
  /\ failed = {}

Start(m) ==
  /\ Startable(m)
  /\ started' = started \union {m}
  /\ UNCHANGED <<round, ended, failed>>

EndWell(m) ==
  /\ m \in started \ (ended \union failed)
  /\ ended' = ended \union {m}
  /\ UNCHANGED <<round, started, failed>>

EndBadly(m) ==
  /\ m \in started \ (ended \union failed)
  /\ failed' = failed \union {m}
  /\ UNCHANGED <<round, started, ended>>

NextRound ==
  /\ started = ended
  /\ failed = {}
  /\ \A m \in Modules : ~Startable(m)
  /\ round' = round + 1
  /\ started' = {}
  /\ ended' = {}
  /\ UNCHANGED failed

Next ==
  \/ \E m \in Modules : Start(m) \/ EndWell(m) \/ EndBadly(m)
  \/ NextRound

Spec == Init /\ [][Next]_vars
=============================================================================
