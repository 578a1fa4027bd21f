------------------------------- MODULE MCChain -------------------------------
(***************************************************************************)
(* An instance of Chain in the manner of examples/modules: a reader, three *)
(* detectors, an analysis over them that also names a module the chain     *)
(* does not have, and two modules that require each other and never run.   *)
(***************************************************************************)
EXTENDS Chain

AllModules == {"io", "tpc", "svt", "emc", "analysis", "gain", "drift"}
AllNames == AllModules \union {"absent"}

HardOf ==
  [m \in AllModules |->
     CASE m = "io" -> {}
       [] m \in {"tpc", "svt", "emc"} -> {"io"}
       [] m = "analysis" -> {"tpc"}
       [] m = "gain" -> {"drift"}
       [] m = "drift" -> {"gain"}]

SoftOf ==
  [m \in AllModules |-> IF m = "analysis" THEN {"svt", "absent"} ELSE {}]
=============================================================================
