---------------------------- MODULE AtomicUpload ----------------------------
(***************************************************************************)
(* What an upload promises (Service::setPayload), with no transaction, no  *)
(* adapter and no network in sight: the interval and its data appear in    *)
(* one step or not at all, no two entries share coordinates, nothing that  *)
(* was stored is lost, and only a stored payload is reported as stored. A  *)
(* refusal leaves open whether the payload was stored. An entry may be     *)
(* stored short of its data, for a reason the implementation names, and    *)
(* then stays so.                                                          *)
(***************************************************************************)
EXTENDS Naturals

CONSTANTS
  Uploads,  \* payloads clients upload, each with an id of its own
  Key       \* Key[u]: flavor, coordinates and struct of u

VARIABLES
  entry,    \* "absent", "whole" once interval and data can be read, or
            \* "short" if not all of the data can
  told      \* what the last call for the payload has returned

vars == <<entry, told>>

Init ==
  /\ entry = [u \in Uploads |-> "absent"]
  /\ told = [u \in Uploads |-> "nothing"]

Free(u) == \A v \in Uploads : entry[v] # "absent" => Key[v] # Key[u]

Ask(u) ==
  /\ told[u] # "stored"
  /\ told' = [told EXCEPT ![u] = "nothing"]
  /\ UNCHANGED entry

Enter(u) ==
  /\ Free(u)
  /\ \E form \in {"whole", "short"} : entry' = [entry EXCEPT ![u] = form]

Put(u) ==
  /\ Enter(u)
  /\ \E answer \in {"nothing", "stored", "refused"} :
       told' = [told EXCEPT ![u] = answer]

PutUnasked(u) == Enter(u) /\ UNCHANGED told

Refuse(u) ==
  /\ told' = [told EXCEPT ![u] = "refused"]
  /\ UNCHANGED entry

Next == \E u \in Uploads : Ask(u) \/ Put(u) \/ PutUnasked(u) \/ Refuse(u)

Spec == Init /\ [][Next]_vars
=============================================================================
