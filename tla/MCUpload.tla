------------------------------ MODULE MCUpload ------------------------------
(***************************************************************************)
(* Instances of Upload: two rival payloads for the same coordinates, with  *)
(* data of each kind or none, one of them tried twice.                     *)
(***************************************************************************)
EXTENDS Upload

SameKey == [u \in Uploads |-> 1]
CallsOf == [u \in Uploads |-> IF u = "one" THEN 2 ELSE 1]

Holding(a, b) == [u \in Uploads |-> IF u = "one" THEN a ELSE b]
Mixtures ==
  {Holding("text", "binary"), Holding("text", "none"), Holding("binary", "text"),
   Holding("nul", "text"), Holding("none", "text")}

HttpThenDb == <<"http", "db">>
=============================================================================
