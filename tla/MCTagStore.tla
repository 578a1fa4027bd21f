------------------------------- MODULE MCTagStore -------------------------------
(***************************************************************************)
(* Instances of TagStore: a folder and two structs in it whose paths       *)
(* differ in case only, and so have one table name.                        *)
(***************************************************************************)
EXTENDS TagStore

AboveOf == [p \in Tags |-> IF p = "a" THEN {} ELSE {"a"}]
TableOf == [p \in Tags |-> IF p = "a" THEN "a" ELSE "a_s"]
CallsOf == [c \in Clients |-> IF c \in HttpClients THEN 1 ELSE 2]
Export ==
  <<[op |-> "folder", tag |-> "a"], [op |-> "struct", tag |-> "a/s"],
    [op |-> "schema", tag |-> "a/s"]>>
=================================================================================
