------------------------------- MODULE DbSession -------------------------------
(***************************************************************************)
(* The session of the db adapter and what all threads share of it: the     *)
(* access mode and the connection, which are looked at and changed outside *)
(* the mutex, and the tag maps, which every call fills again under the     *)
(* mutex and then reads without it. A call downloads the metadata, sets    *)
(* its access mode, ensures the connection, looks up the tag and executes  *)
(* a statement.                                                            *)
(*                                                                         *)
(* Critical sections are single steps, except the download, whose cleared  *)
(* maps others can see. The assignment of mAccessMode, a race on a         *)
(* std::string, is taken to be indivisible.                                *)
(*                                                                         *)
(* Definitions F_faulty, F_keeps and F_forgets are wrong versions of F     *)
(* that nothing uses; they show what a property can tell.                  *)
(***************************************************************************)
EXTENDS Naturals

CONSTANTS
  Threads,  \* threads of the process
  Modes,    \* access modes the configuration grants
  Nodes,    \* Nodes[m]: number of nodes it lists for mode m
  Initial   \* the mode mAccessMode starts with

ASSUME SessionAssumption ==
  /\ Nodes \in [Modes -> Nat \ {0}]
  /\ Initial \in Modes
  /\ Modes \intersect {"none", "database", "closed", "not opened", "no tag"} = {}
  /\ "none" \notin Threads

VARIABLES
  crew,      \* the threads that use the adapter
  uses,      \* the modes their calls need
  mode,      \* mAccessMode
  connected, \* mIsConnected
  session,   \* the mode mSession was opened with, "none" when it is closed
  padding,   \* null nodes appended to each list of mConfig
  maps,      \* whether mTags and mPaths are filled
  holder,    \* the thread that downloads, "none" when the mutex is free
  pc,        \* where each thread's call is
  next,      \* where reconnect returns to
  want,      \* the mode its call needs
  node,      \* the node it has picked: its index, then the mode of its list
  result     \* of its last call: the mode its statement ran with, or why it
             \* has failed

env == <<crew, uses>>
shared == <<mode, connected, session, padding, maps, holder>>
local == <<pc, next, want, node, result>>
vars == <<env, shared, local>>

NoNode == [index |-> 1, list |-> Initial]

Init ==
  /\ crew \in SUBSET Threads \ {{}}
  /\ uses \in SUBSET Modes \ {{}}
  /\ mode = Initial
  /\ connected = FALSE
  /\ session = "none"
  /\ padding = [m \in Modes |-> 0]
  /\ maps = FALSE
  /\ holder = "none"
  /\ pc = [t \in Threads |-> "idle"]
  /\ next = [t \in Threads |-> "idle"]
  /\ want = [t \in Threads |-> Initial]
  /\ node = [t \in Threads |-> NoNode]
  /\ result = [t \in Threads |-> "none"]

Goto(t, place) == pc' = [pc EXCEPT ![t] = place]

(* The call ends without its statement, because of the database or not.    *)
Fail(t, why) == Goto(t, "idle") /\ result' = [result EXCEPT ![t] = why]

Reconnect(t, place) ==
  /\ Goto(t, "reconnect")
  /\ next' = [next EXCEPT ![t] = place]

Call(t) ==
  /\ t \in crew
  /\ pc[t] = "idle"
  /\ \E m \in uses : want' = [want EXCEPT ![t] = m]
  /\ Goto(t, "start")
  /\ result' = [result EXCEPT ![t] = "none"]
  /\ UNCHANGED <<env, shared, next, node>>
-----------------------------------------------------------------------------
(* downloadMetadata: connect if need be, then clear and fill the maps      *)
(* under the mutex, in whatever mode the session has.                      *)
Start(t) ==
  /\ pc[t] = "start"
  /\ IF connected THEN Goto(t, "clear") /\ UNCHANGED next ELSE Reconnect(t, "clear")
  /\ UNCHANGED <<env, shared, want, node, result>>

Clear(t) ==
  /\ pc[t] = "clear"
  /\ holder = "none"
  /\ holder' = t
  /\ maps' = FALSE
  /\ Goto(t, "fill")
  /\ UNCHANGED <<env, mode, connected, session, padding, next, want, node, result>>

Fill(t) ==
  /\ pc[t] = "fill"
  /\ session # "none"
  /\ holder' = "none"
  /\ maps' = TRUE
  /\ Goto(t, "set")
  /\ UNCHANGED <<env, mode, connected, session, padding, next, want, node, result>>

FillFails_keeps(t) ==
  /\ pc[t] = "fill"
  /\ Fail(t, IF session # "none" THEN "database" ELSE "closed")
  /\ UNCHANGED <<env, shared, next, want, node>>

FillFails(t) ==
  /\ pc[t] = "fill"
  /\ holder' = "none"
  /\ Fail(t, IF session # "none" THEN "database" ELSE "closed")
  /\ UNCHANGED <<env, mode, connected, session, padding, maps, next, want, node>>
-----------------------------------------------------------------------------
(* setAccessMode, then ensureConnection.                                   *)
SetMode(t) ==
  /\ pc[t] = "set"
  /\ mode' = want[t]
  /\ Goto(t, IF mode = want[t] THEN "ensure" ELSE "switch")
  /\ UNCHANGED <<env, connected, session, padding, maps, holder, next, want, node, result>>

Switch_keeps(t) ==
  /\ pc[t] = "switch"
  /\ Goto(t, "ensure")
  /\ UNCHANGED <<env, shared, next, want, node, result>>

Switch(t) ==
  /\ pc[t] = "switch"
  /\ IF connected THEN Reconnect(t, "ensure") ELSE Goto(t, "ensure") /\ UNCHANGED next
  /\ UNCHANGED <<env, shared, want, node, result>>

Ensure(t) ==
  /\ pc[t] = "ensure"
  /\ IF connected THEN Goto(t, "look") /\ UNCHANGED next ELSE Reconnect(t, "look")
  /\ UNCHANGED <<env, shared, want, node, result>>
-----------------------------------------------------------------------------
(* reconnect, disconnect and connect.                                      *)
Close(t, place) ==
  /\ holder = "none"
  /\ session' = "none"
  /\ connected' = FALSE
  /\ Goto(t, place)

BeginReconnect(t) ==
  /\ pc[t] = "reconnect"
  /\ Goto(t, IF connected THEN "close" ELSE "pick")
  /\ UNCHANGED <<env, shared, next, want, node, result>>

Disconnect(t) ==
  /\ \/ pc[t] = "close" /\ Close(t, "pick")
     \/ pc[t] = "reclose" /\ Close(t, "open")
  /\ UNCHANGED <<env, mode, padding, maps, holder, next, want, node, result>>

(* The length of the list and the node in it are read one after the other. *)
Pick_faulty(t) ==
  /\ pc[t] = "pick"
  /\ \E i \in 1..(Nodes[mode] + padding[mode] + 1) : node' = [node EXCEPT ![t].index = i]
  /\ Goto(t, "node")
  /\ UNCHANGED <<env, shared, next, want, result>>

Pick(t) ==
  /\ pc[t] = "pick"
  /\ \E i \in 1..(Nodes[mode] + padding[mode]) : node' = [node EXCEPT ![t].index = i]
  /\ Goto(t, "node")
  /\ UNCHANGED <<env, shared, next, want, result>>

(* operator[] of a json array appends null up to an index beyond its end.  *)
GetNode(t) ==
  /\ pc[t] = "node"
  /\ node' = [node EXCEPT ![t].list = mode]
  /\ padding' = IF node[t].index > Nodes[mode] + padding[mode]
                  THEN [padding EXCEPT ![mode] = node[t].index - Nodes[mode]]
                  ELSE padding
  /\ Goto(t, IF connected THEN "reclose" ELSE "open")
  /\ UNCHANGED <<env, mode, connected, session, maps, holder, next, want, result>>

Forget(t) ==
  /\ next' = [next EXCEPT ![t] = "idle"]
  /\ node' = [node EXCEPT ![t] = NoNode]

IsNull(n) == n.index > Nodes[n.list]

Open_forgets(t) ==
  /\ pc[t] = "open"
  /\ holder = "none"
  /\ session = "none" /\ ~IsNull(node[t])
  /\ session' = node[t].list
  /\ Goto(t, next[t])
  /\ Forget(t)
  /\ UNCHANGED <<env, mode, connected, padding, maps, holder, want, result>>

Open(t) ==
  /\ pc[t] = "open"
  /\ holder = "none"
  /\ session = "none" /\ ~IsNull(node[t])
  /\ session' = node[t].list
  /\ connected' = TRUE
  /\ Goto(t, next[t])
  /\ Forget(t)
  /\ UNCHANGED <<env, mode, padding, maps, holder, want, result>>

(* soci::session::open throws: another thread has opened it in between,    *)
(* the node is null, or the database refuses.                              *)
OpenFails(t) ==
  /\ pc[t] = "open"
  /\ holder = "none"
  /\ Fail(t, IF session = "none" /\ ~IsNull(node[t]) THEN "database" ELSE "not opened")
  /\ Forget(t)
  /\ UNCHANGED <<env, shared, want>>
-----------------------------------------------------------------------------
(* The call's own work: a lookup in mPaths without the mutex, then a       *)
(* statement with it.                                                      *)
Look(t) ==
  /\ pc[t] = "look"
  /\ IF maps THEN Goto(t, "execute") /\ UNCHANGED result ELSE Fail(t, "no tag")
  /\ UNCHANGED <<env, shared, next, want, node>>

Execute(t) ==
  /\ pc[t] = "execute"
  /\ holder = "none"
  /\ session # "none"
  /\ result' = [result EXCEPT ![t] = session]
  /\ Goto(t, "idle")
  /\ UNCHANGED <<env, shared, next, want, node>>

ExecuteFails(t) ==
  /\ pc[t] = "execute"
  /\ holder = "none"
  /\ Fail(t, IF session # "none" THEN "database" ELSE "closed")
  /\ UNCHANGED <<env, shared, next, want, node>>

Step(t) ==
  \/ Start(t) \/ Clear(t) \/ Fill(t) \/ FillFails(t)
  \/ SetMode(t) \/ Switch(t) \/ Ensure(t)
  \/ BeginReconnect(t) \/ Disconnect(t) \/ Pick(t) \/ GetNode(t) \/ Open(t) \/ OpenFails(t)
  \/ Look(t) \/ Execute(t) \/ ExecuteFails(t)

Next == \E t \in Threads : Call(t) \/ Step(t)

Spec == Init /\ [][Next]_vars

(* Threads run, and a thread that waits for the mutex gets it some time.   *)
Fair(t) == SF_vars(Step(t))

FairSpec == Spec /\ \A t \in Threads : Fair(t)
-----------------------------------------------------------------------------
Places ==
  {"idle", "start", "clear", "fill", "set", "switch", "ensure", "reconnect", "close", "pick",
   "node", "reclose", "open", "look", "execute"}

Reasons == {"database", "closed", "not opened", "no tag"}

TypeOK ==
  /\ crew \subseteq Threads
  /\ uses \subseteq Modes
  /\ mode \in Modes
  /\ connected \in BOOLEAN
  /\ session \in Modes \union {"none"}
  /\ padding \in [Modes -> Nat]
  /\ maps \in BOOLEAN
  /\ pc \in [Threads -> Places]
  /\ next \in [Threads -> {"idle", "clear", "ensure", "look"}]
  /\ want \in [Threads -> Modes]
  /\ node \in [Threads -> [index : Nat \ {0}, list : Modes]]
  /\ result \in [Threads -> Modes \union {"none"} \union Reasons]
  /\ \A t \in Threads : holder = t <=> pc[t] = "fill"

Alone == \A t, u \in crew : t = u
Disciplined == Alone \/ uses = {Initial}

(* A statement runs on a session that was opened with the rights its call  *)
(* has asked for, as long as one thread uses the adapter, or several that  *)
(* need no mode but the initial one. (With two modes, or with one that is  *)
(* not the initial one, a thread finds mAccessMode already set while the   *)
(* other has yet to reconnect.)                                            *)
RightSession ==
  Disciplined => \A t \in Threads : result[t] \in Modes => result[t] = want[t]

(* Nothing but the database makes a lone thread's call fail: its maps are  *)
(* whole when it looks, and the flag, the session and the mode agree at    *)
(* each reconnection. (Of several threads, one clears the maps while       *)
(* another looks, or opens the session that another has just opened.)      *)
OnlyDatabaseFails == Alone => \A t \in Threads : result[t] \notin Reasons \ {"database"}

(* The lists of nodes in the configuration stay as they were read.         *)
NodesIntact == Disciplined => \A m \in Modes : padding[m] = 0

(* Every call returns, whichever threads and modes there are.              *)
CallsEnd == \A t \in Threads : pc[t] # "idle" ~> pc[t] = "idle"
================================================================================
