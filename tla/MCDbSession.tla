------------------------------ MODULE MCDbSession ------------------------------
(***************************************************************************)
(* Instances of DbSession: two modes, one of which has two nodes.          *)
(***************************************************************************)
EXTENDS DbSession

NodesOf == [m \in Modes |-> IF m = "get" THEN 2 ELSE 1]
================================================================================
