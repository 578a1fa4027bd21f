------------------------------ MODULE MCFileStore ------------------------------
(***************************************************************************)
(* Instances of FileStore: a process with an uploader and a thread that    *)
(* queries, administers and uploads too, and another process that          *)
(* administers and uploads. All payloads have the same coordinates.        *)
(***************************************************************************)
EXTENDS FileStore, TLC

ProcessOf == [t \in Threads |-> IF t = "other" THEN "second" ELSE "first"]
OwnerOf == "first" :> "uploader" @@ "late" :> "reader" @@ "rival" :> "other"
TeamsOf ==
  {[admins |-> {"reader"}, payloads |-> Payloads],
   [admins |-> {"reader", "other"}, payloads |-> Payloads \ {"late"}]}
KeyOf == [p \in Payloads |-> "key"]
================================================================================
