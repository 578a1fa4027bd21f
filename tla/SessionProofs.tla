----------------------------- MODULE SessionProofs -----------------------------
(***************************************************************************)
(* Proofs about DbSession, for any threads, any access modes and any lists *)
(* of nodes.                                                               *)
(***************************************************************************)
EXTENDS DbSession, TLAPS

(* Threads that do not use the adapter do nothing, and mIsConnected says   *)
(* whether mSession is open: the two are set together under the mutex.     *)
CommonInv ==
  /\ \A t \in Threads : t \notin crew => pc[t] = "idle" /\ result[t] = "none"
  /\ connected <=> session # "none"

(* Where all calls need the initial mode, nothing ever has another.        *)
UniformInv ==
  uses = {Initial} =>
    /\ mode = Initial
    /\ session \in {"none", Initial}
    /\ \A m \in Modes : padding[m] = 0
    /\ \A t \in Threads :
         /\ want[t] = Initial
         /\ node[t].list = Initial
         /\ pc[t] = "node" => node[t].index <= Nodes[Initial]
         /\ result[t] \in Modes => result[t] = Initial

Reconnecting == {"reconnect", "close", "pick", "node", "open"}

(* Where a lone thread is in its call tells what it has established: a     *)
(* connection, the maps, the mode, and a session of that mode.             *)
Established(t) ==
  /\ pc[t] \in {"clear", "fill", "set", "switch", "ensure", "look", "execute"} => connected
  /\ pc[t] \in {"pick", "node", "open"} => ~connected
  /\ pc[t] # "reclose"
  /\ pc[t] \in {"node", "open"} => node[t].index <= Nodes[mode]
  /\ pc[t] = "open" => node[t].list = mode
  /\ pc[t] = "set" => maps
  /\ \/ pc[t] \in {"switch", "ensure", "look", "execute"}
     \/ pc[t] \in Reconnecting /\ next[t] # "clear"
     => maps /\ mode = want[t]
  /\ session \in {"none", mode}
     \/ pc[t] = "switch" \/ (pc[t] \in {"reconnect", "close"} /\ next[t] = "ensure")
  /\ result[t] \in Modes => result[t] = want[t]
  /\ result[t] \notin Reasons \ {"database"}

LoneInv ==
  Alone =>
    /\ \A m \in Modes : padding[m] = 0
    /\ \A t \in crew : Established(t)

Inv == TypeOK /\ CommonInv /\ UniformInv /\ LoneInv
-----------------------------------------------------------------------------
LEMMA NoNodeType == NoNode \in [index : Nat \ {0}, list : Modes]
  <1>1. 1 \in Nat \ {0}
    OBVIOUS
  <1>2. Initial \in Modes
    BY SessionAssumption
  <1>. QED BY <1>1, <1>2 DEF NoNode

LEMMA NodesType == \A m \in Modes : Nodes[m] \in Nat /\ Nodes[m] >= 1
  <1>1. \A m \in Modes : Nodes[m] \in Nat \ {0}
    BY SessionAssumption
  <1>. QED BY <1>1

LEMMA ReasonsAreNotModes == \A r \in Reasons : r \notin Modes
  BY SessionAssumption DEF Reasons

(* Arithmetic of positions in a list and its padding.                      *)
LEMMA Positions ==
  ASSUME NEW a \in Nat, NEW b \in Nat
  PROVE  /\ 1..(a + b) \subseteq Nat \ {0}
         /\ \A i \in Nat : i > a + b => i - a \in Nat
  OBVIOUS

LEMMA InitInv == Init => Inv
  <1>. SUFFICES ASSUME Init PROVE Inv
    OBVIOUS
  <1>. USE SessionAssumption DEF Init
  <1>1. TypeOK
    <2>1. node \in [Threads -> [index : Nat \ {0}, list : Modes]]
      BY NoNodeType
    <2>2. \A t \in Threads : holder = t <=> pc[t] = "fill"
      OBVIOUS
    <2>. QED BY <2>1, <2>2 DEF TypeOK, Places
  <1>2. CommonInv
    BY DEF CommonInv
  <1>3. UniformInv
    BY DEF UniformInv, NoNode
  <1>4. LoneInv
    BY DEF LoneInv, Established, Reconnecting, Reasons
  <1>. QED BY <1>1, <1>2, <1>3, <1>4 DEF Inv

(* The thread that takes a step is one of the crew.                        *)
LEMMA StepOfCrew ==
  ASSUME CommonInv, NEW t \in Threads, Step(t)
  PROVE  t \in crew
  BY DEF CommonInv, Step, Start, Clear, Fill, FillFails, SetMode, Switch, Ensure,
         BeginReconnect, Disconnect, Pick, GetNode, Open, OpenFails, Look, Execute, ExecuteFails

(* How a step moves the thread that takes it, and the mutex.               *)
LEMMA PcTypes ==
  ASSUME TypeOK, NEW t \in Threads, Call(t) \/ Step(t)
  PROVE  /\ pc' \in [Threads -> Places]
         /\ \A u \in Threads : holder' = u <=> pc'[u] = "fill"
  <1>1. CASE Clear(t)
    BY <1>1, SessionAssumption DEF Clear, TypeOK, Places, Goto
  <1>2. CASE Fill(t)
    BY <1>2, SessionAssumption DEF Fill, TypeOK, Places, Goto
  <1>3. CASE FillFails(t)
    BY <1>3, SessionAssumption DEF FillFails, TypeOK, Places, Goto, Fail
  <1>4. ASSUME ~(Clear(t) \/ Fill(t) \/ FillFails(t))
        PROVE  /\ \E place \in Places \ {"fill"} : Goto(t, place)
               /\ holder' = holder /\ pc[t] # "fill"
    <2>1. CASE Call(t)
      BY <2>1 DEF Call, shared, Places, TypeOK
    <2>2. CASE Start(t)
      BY <2>2 DEF Start, Reconnect, shared, Places, TypeOK
    <2>3. CASE SetMode(t)
      BY <2>3 DEF SetMode, shared, Places, TypeOK
    <2>4. CASE Switch(t)
      BY <2>4 DEF Switch, Reconnect, shared, Places, TypeOK
    <2>5. CASE Ensure(t)
      BY <2>5 DEF Ensure, Reconnect, shared, Places, TypeOK
    <2>6. CASE BeginReconnect(t)
      BY <2>6 DEF BeginReconnect, shared, Places, TypeOK
    <2>7. CASE Disconnect(t)
      BY <2>7 DEF Disconnect, Close, shared, Places, TypeOK
    <2>8. CASE Pick(t)
      BY <2>8 DEF Pick, shared, Places, TypeOK
    <2>9. CASE GetNode(t)
      BY <2>9 DEF GetNode, shared, Places, TypeOK
    <2>10. CASE Open(t)
      BY <2>10 DEF Open, shared, Places, TypeOK
    <2>11. CASE OpenFails(t)
      BY <2>11 DEF OpenFails, Fail, shared, Places, TypeOK
    <2>12. CASE Look(t)
      BY <2>12 DEF Look, Fail, shared, Places, TypeOK
    <2>13. CASE Execute(t)
      BY <2>13 DEF Execute, shared, Places, TypeOK
    <2>14. CASE ExecuteFails(t)
      BY <2>14 DEF ExecuteFails, Fail, shared, Places, TypeOK
    <2>. QED BY <1>4, <2>1, <2>2, <2>3, <2>4, <2>5, <2>6, <2>7, <2>8, <2>9, <2>10, <2>11,
                <2>12, <2>13, <2>14 DEF Step
  <1>5. CASE /\ \E place \in Places \ {"fill"} : Goto(t, place)
             /\ holder' = holder /\ pc[t] # "fill"
    BY <1>5 DEF TypeOK, Goto
  <1>. QED BY <1>1, <1>2, <1>3, <1>4, <1>5

Returns == {"idle", "clear", "ensure", "look"}

LEMMA NextTypes ==
  ASSUME TypeOK, NEW t \in Threads, Call(t) \/ Step(t)
  PROVE  next' \in [Threads -> Returns]
  <1>1. UNCHANGED next \/ \E place \in Returns : next' = [next EXCEPT ![t] = place]
    BY DEF Call, Step, Start, Clear, Fill, FillFails, SetMode, Switch, Ensure, BeginReconnect,
           Disconnect, Pick, GetNode, Open, OpenFails, Look, Execute, ExecuteFails,
           Reconnect, Forget, Returns
  <1>. QED BY <1>1 DEF TypeOK, Returns

LEMMA PickTypes ==
  ASSUME TypeOK, NEW t \in Threads, Pick(t)
  PROVE  node' \in [Threads -> [index : Nat \ {0}, list : Modes]]
  <1>1. PICK i \in 1..(Nodes[mode] + padding[mode]) : node' = [node EXCEPT ![t].index = i]
    BY DEF Pick
  <1>2. Nodes[mode] \in Nat /\ padding[mode] \in Nat
    BY NodesType DEF TypeOK
  <1>3. i \in Nat \ {0}
    BY <1>2, Positions
  <1>. QED BY <1>1, <1>3 DEF TypeOK

LEMMA GetNodeTypes ==
  ASSUME TypeOK, NEW t \in Threads, GetNode(t)
  PROVE  /\ node' \in [Threads -> [index : Nat \ {0}, list : Modes]]
         /\ padding' \in [Modes -> Nat]
  <1>1. node' \in [Threads -> [index : Nat \ {0}, list : Modes]]
    BY DEF GetNode, TypeOK
  <1>2. Nodes[mode] \in Nat /\ padding[mode] \in Nat /\ node[t].index \in Nat
    BY NodesType DEF TypeOK
  <1>3. node[t].index > Nodes[mode] + padding[mode] => node[t].index - Nodes[mode] \in Nat
    BY <1>2, Positions
  <1>4. padding' \in [Modes -> Nat]
    BY <1>3 DEF GetNode, TypeOK
  <1>. QED BY <1>1, <1>4

LEMMA NodeTypes ==
  ASSUME TypeOK, NEW t \in Threads, Call(t) \/ Step(t)
  PROVE  /\ node' \in [Threads -> [index : Nat \ {0}, list : Modes]]
         /\ padding' \in [Modes -> Nat]
  <1>1. \/ UNCHANGED <<node, padding>>
        \/ node' = [node EXCEPT ![t] = NoNode] /\ UNCHANGED padding
        \/ Pick(t) /\ UNCHANGED padding
        \/ GetNode(t)
    BY DEF Call, Step, Start, Clear, Fill, FillFails, SetMode, Switch, Ensure, BeginReconnect,
           Disconnect, Pick, Open, OpenFails, Look, Execute, ExecuteFails, Forget, shared
  <1>2. CASE UNCHANGED <<node, padding>>
    BY <1>2 DEF TypeOK
  <1>3. CASE node' = [node EXCEPT ![t] = NoNode] /\ UNCHANGED padding
    BY <1>3, NoNodeType DEF TypeOK
  <1>4. CASE Pick(t) /\ UNCHANGED padding
    BY <1>4, PickTypes DEF TypeOK
  <1>5. CASE GetNode(t)
    BY <1>5, GetNodeTypes
  <1>. QED BY <1>1, <1>2, <1>3, <1>4, <1>5

LEMMA TypeStep ==
  ASSUME TypeOK, NEW t \in Threads, Call(t) \/ Step(t)
  PROVE  TypeOK'
  <1>. SUFFICES /\ crew' \subseteq Threads
                /\ uses' \subseteq Modes
                /\ mode' \in Modes
                /\ connected' \in BOOLEAN
                /\ session' \in Modes \union {"none"}
                /\ maps' \in BOOLEAN
                /\ want' \in [Threads -> Modes]
                /\ result' \in [Threads -> Modes \union {"none"} \union Reasons]
    BY PcTypes, NextTypes, NodeTypes DEF TypeOK, Returns
  <1>. USE DEF TypeOK, Fail, env, shared, Reasons
  <1>1. CASE Call(t)
    BY <1>1 DEF Call
  <1>2. CASE Start(t)
    BY <1>2 DEF Start, Reconnect
  <1>3. CASE Clear(t)
    BY <1>3 DEF Clear
  <1>4. CASE Fill(t)
    BY <1>4 DEF Fill
  <1>5. CASE FillFails(t)
    BY <1>5 DEF FillFails
  <1>6. CASE SetMode(t)
    BY <1>6 DEF SetMode
  <1>7. CASE Switch(t)
    BY <1>7 DEF Switch, Reconnect
  <1>8. CASE Ensure(t)
    BY <1>8 DEF Ensure, Reconnect
  <1>9. CASE BeginReconnect(t)
    BY <1>9 DEF BeginReconnect
  <1>10. CASE Disconnect(t)
    BY <1>10 DEF Disconnect, Close
  <1>11. CASE Pick(t)
    BY <1>11 DEF Pick
  <1>12. CASE GetNode(t)
    BY <1>12 DEF GetNode
  <1>13. CASE Open(t)
    BY <1>13 DEF Open
  <1>14. CASE OpenFails(t)
    BY <1>14 DEF OpenFails
  <1>15. CASE Look(t)
    BY <1>15 DEF Look
  <1>16. CASE Execute(t)
    BY <1>16 DEF Execute
  <1>17. CASE ExecuteFails(t)
    BY <1>17 DEF ExecuteFails
  <1>. QED BY <1>1, <1>2, <1>3, <1>4, <1>5, <1>6, <1>7, <1>8, <1>9, <1>10, <1>11, <1>12,
              <1>13, <1>14, <1>15, <1>16, <1>17 DEF Step

LEMMA EnvStep ==
  ASSUME NEW t \in Threads, Call(t) \/ Step(t)
  PROVE  UNCHANGED env
  BY DEF Call, Step, Start, Clear, Fill, FillFails, SetMode, Switch, Ensure, BeginReconnect,
         Disconnect, Pick, GetNode, Open, OpenFails, Look, Execute, ExecuteFails

LEMMA OthersStay ==
  ASSUME TypeOK, NEW t \in Threads, Call(t) \/ Step(t)
  PROVE  \A u \in Threads \ {t} : pc'[u] = pc[u] /\ result'[u] = result[u]
  <1>1. CASE UNCHANGED result /\ \E place : Goto(t, place)
    BY <1>1 DEF TypeOK, Goto
  <1>2. CASE \E place, why : Goto(t, place) /\ result' = [result EXCEPT ![t] = why]
    BY <1>2 DEF TypeOK, Goto
  <1>3. Call(t) \/ FillFails(t) \/ OpenFails(t) \/ Execute(t) \/ ExecuteFails(t)
        => \E place, why : Goto(t, place) /\ result' = [result EXCEPT ![t] = why]
    BY DEF Call, FillFails, OpenFails, Execute, ExecuteFails, Fail
  <1>4. Look(t) => \/ UNCHANGED result /\ \E place : Goto(t, place)
                   \/ \E place, why : Goto(t, place) /\ result' = [result EXCEPT ![t] = why]
    BY DEF Look, Fail
  <1>5. Clear(t) \/ Fill(t) \/ SetMode(t) \/ BeginReconnect(t) \/ Pick(t) \/ GetNode(t) \/ Open(t)
        => UNCHANGED result /\ \E place : Goto(t, place)
    BY DEF Clear, Fill, SetMode, BeginReconnect, Pick, GetNode, Open
  <1>6. Start(t) \/ Switch(t) \/ Ensure(t) \/ Disconnect(t)
        => UNCHANGED result /\ \E place : Goto(t, place)
    BY DEF Start, Switch, Ensure, Disconnect, Reconnect, Close
  <1>. QED BY <1>1, <1>2, <1>3, <1>4, <1>5, <1>6 DEF Step

LEMMA CommonStep ==
  ASSUME TypeOK, CommonInv, NEW t \in Threads, Call(t) \/ Step(t)
  PROVE  CommonInv'
  <1>1. t \in crew /\ UNCHANGED env
    BY StepOfCrew, EnvStep DEF Call
  <1>2. \A u \in Threads : u \notin crew' => pc'[u] = "idle" /\ result'[u] = "none"
    BY <1>1, OthersStay DEF CommonInv, env
  <1>3. CASE Open(t)
    <2>1. session' \in Modes
      BY <1>3 DEF Open, TypeOK
    <2>2. connected' /\ session' # "none"
      BY <1>3, <2>1, SessionAssumption DEF Open
    <2>. QED BY <1>2, <2>2 DEF CommonInv
  <1>4. CASE Disconnect(t)
    BY <1>2, <1>4 DEF Disconnect, Close, CommonInv
  <1>5. CASE UNCHANGED <<connected, session>>
    BY <1>2, <1>5 DEF CommonInv
  <1>6. Open(t) \/ Disconnect(t) \/ UNCHANGED <<connected, session>>
    BY DEF Call, Step, Start, Clear, Fill, FillFails, SetMode, Switch, Ensure, BeginReconnect,
           Pick, GetNode, OpenFails, Look, Execute, ExecuteFails, shared
  <1>. QED BY <1>3, <1>4, <1>5, <1>6

LEMMA UniformStep ==
  ASSUME TypeOK, UniformInv, NEW t \in Threads, Call(t) \/ Step(t), uses = {Initial}
  PROVE  UniformInv'
  <1>. USE DEF TypeOK, UniformInv, Goto, Fail, env, shared
  <1>1. CASE Call(t)
    BY <1>1, SessionAssumption DEF Call
  <1>2. CASE Start(t)
    BY <1>2 DEF Start, Reconnect
  <1>3. CASE Clear(t)
    <2>1. \A u \in Threads : pc'[u] = "node" => pc[u] = "node"
      BY <1>3 DEF Clear
    <2>. QED BY <1>3, <2>1 DEF Clear
  <1>4. CASE Fill(t)
    BY <1>4 DEF Fill
  <1>5. CASE FillFails(t)
    BY <1>5, SessionAssumption DEF FillFails
  <1>6. CASE SetMode(t)
    BY <1>6 DEF SetMode
  <1>7. CASE Switch(t)
    BY <1>7 DEF Switch, Reconnect
  <1>8. CASE Ensure(t)
    BY <1>8 DEF Ensure, Reconnect
  <1>9. CASE BeginReconnect(t)
    BY <1>9 DEF BeginReconnect
  <1>10. CASE Disconnect(t)
    BY <1>10 DEF Disconnect, Close
  <1>11. CASE Pick(t)
    <2>1. Nodes[mode] \in Nat /\ padding[mode] = 0
      BY NodesType
    <2>2. /\ node'[t].index \in 1..(Nodes[mode] + padding[mode])
          /\ node'[t].list = node[t].list
          /\ \A u \in Threads \ {t} : node'[u] = node[u] /\ pc'[u] = pc[u]
      BY <1>11 DEF Pick
    <2>3. node'[t].index <= Nodes[Initial]
      BY <2>1, <2>2
    <2>. QED BY <1>11, <2>2, <2>3 DEF Pick
  <1>12. CASE GetNode(t)
    <2>1. pc'[t] # "node" /\ node'[t].list = Initial
      BY <1>12 DEF GetNode
    <2>2. \A u \in Threads \ {t} : node'[u] = node[u] /\ pc'[u] = pc[u]
      BY <1>12 DEF GetNode
    <2>3. Nodes[Initial] \in Nat /\ node[t].index \in Nat /\ padding[Initial] = 0
      BY NodesType, SessionAssumption
    <2>4. node[t].index <= Nodes[Initial]
      BY <1>12 DEF GetNode
    <2>5. ~(node[t].index > Nodes[mode] + padding[mode])
      BY <2>3, <2>4
    <2>6. padding' = padding
      BY <1>12, <2>5 DEF GetNode
    <2>. QED BY <1>12, <2>1, <2>2, <2>6 DEF GetNode
  <1>13. CASE Open(t)
    <2>1. session' = Initial /\ node'[t].list = Initial
      BY <1>13 DEF Open, Forget, NoNode
    <2>2. \A u \in Threads : pc'[u] = "node" => u # t /\ pc[u] = "node"
      BY <1>13 DEF Open
    <2>3. \A u \in Threads \ {t} : node'[u] = node[u]
      BY <1>13 DEF Open, Forget
    <2>. QED BY <1>13, <2>1, <2>2, <2>3 DEF Open
  <1>14. CASE OpenFails(t)
    <2>1. node'[t].list = Initial /\ pc'[t] = "idle"
      BY <1>14 DEF OpenFails, Forget, NoNode
    <2>2. \A u \in Threads \ {t} : node'[u] = node[u] /\ pc'[u] = pc[u] /\ result'[u] = result[u]
      BY <1>14 DEF OpenFails, Forget
    <2>3. result'[t] \in {"database", "not opened"}
      BY <1>14 DEF OpenFails
    <2>4. result'[t] \notin Modes
      BY <2>3, ReasonsAreNotModes DEF Reasons
    <2>5. UNCHANGED <<env, shared, want>>
      BY <1>14 DEF OpenFails
    <2>. QED BY <2>1, <2>2, <2>4, <2>5
  <1>15. CASE Look(t)
    <2>1. \A u \in Threads : pc'[u] = "node" => pc[u] = "node"
      BY <1>15 DEF Look
    <2>2. \A u \in Threads : result'[u] = result[u] \/ result'[u] \in Reasons
      BY <1>15 DEF Look, Reasons
    <2>. QED BY <1>15, <2>1, <2>2, ReasonsAreNotModes DEF Look
  <1>16. CASE Execute(t)
    <2>1. pc'[t] = "idle" /\ result'[t] = Initial
      BY <1>16 DEF Execute
    <2>2. \A u \in Threads \ {t} : pc'[u] = pc[u] /\ result'[u] = result[u]
      BY <1>16 DEF Execute
    <2>. QED BY <1>16, <2>1, <2>2 DEF Execute
  <1>17. CASE ExecuteFails(t)
    <2>1. pc'[t] = "idle" /\ result'[t] \in {"database", "closed"}
      BY <1>17 DEF ExecuteFails
    <2>2. \A u \in Threads \ {t} : pc'[u] = pc[u] /\ result'[u] = result[u]
      BY <1>17 DEF ExecuteFails
    <2>3. result'[t] \notin Modes
      BY <2>1, ReasonsAreNotModes DEF Reasons
    <2>. QED BY <1>17, <2>1, <2>2, <2>3 DEF ExecuteFails
  <1>. QED BY <1>1, <1>2, <1>3, <1>4, <1>5, <1>6, <1>7, <1>8, <1>9, <1>10,
              <1>11, <1>12, <1>13, <1>14, <1>15, <1>16, <1>17 DEF Step

LEMMA LoneStep ==
  ASSUME TypeOK, CommonInv, LoneInv, NEW t \in Threads, t \in crew,
         Call(t) \/ Step(t), Alone
  PROVE  LoneInv'
  <1>. crew = {t} /\ crew' = {t}
    BY EnvStep DEF Alone, env
  <1>. SUFFICES (\A m \in Modes : padding[m] = 0)' /\ Established(t)'
    BY DEF LoneInv
  <1>. (\A m \in Modes : padding[m] = 0) /\ Established(t)
    BY DEF LoneInv
  <1>. HIDE DEF LoneInv
  <1>1. CASE Call(t)
    BY <1>1, SessionAssumption DEF Call, TypeOK, Goto, Fail, env, shared,
         Established, Reconnecting, Reasons
  <1>2. CASE Start(t)
    <2>1. IF connected THEN pc'[t] = "clear" /\ next'[t] = next[t]
          ELSE pc'[t] = "reconnect" /\ next'[t] = "clear"
      BY <1>2 DEF Start, Reconnect, TypeOK, Goto, Fail, env, shared
    <2>. QED BY <1>2, <2>1 DEF Start, env, shared, Established, Reconnecting, Reasons
  <1>3. CASE Clear(t)
    <2>1. pc'[t] = "fill"
      BY <1>3 DEF Clear, TypeOK, Goto, Fail, env, shared
    <2>. QED BY <1>3, <2>1 DEF Clear, env, shared, Established, Reconnecting, Reasons
  <1>4. CASE Fill(t)
    BY <1>4 DEF Fill, TypeOK, Goto, Fail, env, shared,
         Established, Reconnecting, Reasons
  <1>5. CASE FillFails(t)
    <2>1. result'[t] = "database" /\ "database" \notin Modes
      BY <1>5, SessionAssumption DEF FillFails, TypeOK, Fail, Established, CommonInv
    <2>. QED BY <1>5, <2>1 DEF FillFails, TypeOK, Goto, Fail, env, shared,
         Established, Reconnecting, Reasons
  <1>6. CASE SetMode(t)
    BY <1>6 DEF SetMode, TypeOK, Goto, Fail, env, shared,
         Established, Reconnecting, Reasons
  <1>7. CASE Switch(t)
    <2>1. IF connected THEN pc'[t] = "reconnect" /\ next'[t] = "ensure"
          ELSE pc'[t] = "ensure" /\ next'[t] = next[t]
      BY <1>7 DEF Switch, Reconnect, TypeOK, Goto, Fail, env, shared
    <2>. QED BY <1>7, <2>1 DEF Switch, env, shared, Established, Reconnecting, Reasons
  <1>8. CASE Ensure(t)
    <2>1. IF connected THEN pc'[t] = "look" /\ next'[t] = next[t]
          ELSE pc'[t] = "reconnect" /\ next'[t] = "look"
      BY <1>8 DEF Ensure, Reconnect, TypeOK, Goto, Fail, env, shared
    <2>. QED BY <1>8, <2>1 DEF Ensure, env, shared, Established, Reconnecting, Reasons
  <1>9. CASE BeginReconnect(t)
    BY <1>9 DEF BeginReconnect, CommonInv, TypeOK, Goto, Fail, env, shared,
         Established, Reconnecting, Reasons
  <1>10. CASE Disconnect(t)
    BY <1>10 DEF Disconnect, Close, TypeOK, Goto, Fail, env, shared,
         Established, Reconnecting, Reasons
  <1>11. CASE Pick(t)
    <2>1. /\ pc'[t] = "node"
          /\ node'[t].index \in 1..(Nodes[mode] + padding[mode])
      BY <1>11 DEF Pick, TypeOK, Goto, Fail, env, shared
    <2>2. Nodes[mode] \in Nat /\ padding[mode] = 0
      BY NodesType DEF TypeOK
    <2>3. node'[t].index <= Nodes[mode]
      BY <2>1, <2>2
    <2>. QED BY <1>11, <2>1, <2>3 DEF Pick, env, shared, Established, Reconnecting, Reasons
  <1>12. CASE GetNode(t)
    <2>1. /\ pc'[t] = (IF connected THEN "reclose" ELSE "open")
          /\ node'[t].index = node[t].index /\ node'[t].list = mode
      BY <1>12 DEF GetNode, TypeOK, Goto, Fail, env, shared
    <2>2. Nodes[mode] \in Nat /\ padding[mode] = 0 /\ node[t].index \in Nat
      BY NodesType DEF TypeOK
    <2>3. ~(node[t].index > Nodes[mode] + padding[mode])
      BY <1>12, <2>2 DEF GetNode, Established
    <2>4. padding' = padding
      BY <1>12, <2>3 DEF GetNode
    <2>. QED BY <1>12, <2>1, <2>4 DEF GetNode, env, shared, Established, Reconnecting, Reasons
  <1>13. CASE Open(t)
    <2>1. pc'[t] = next[t] /\ next[t] \in Returns /\ session' = mode /\ connected'
      BY <1>13 DEF Open, TypeOK, Goto, Established, Returns
    <2>. QED BY <1>13, <2>1 DEF Open, env, Established, Reconnecting, Returns
  <1>14. CASE OpenFails(t)
    <2>1. /\ pc'[t] = "idle"
          /\ result'[t] = IF session = "none" /\ ~IsNull(node[t]) THEN "database" ELSE "not opened"
      BY <1>14 DEF OpenFails, Forget, TypeOK, Goto, Fail, env, shared
    <2>2. session = "none" /\ ~IsNull(node[t])
      <3>1. mode \in Modes /\ node[t].index \in Nat /\ Nodes[mode] \in Nat
        BY NodesType DEF TypeOK
      <3>2. session = "none" /\ node[t].list = mode /\ node[t].index <= Nodes[mode]
        BY <1>14 DEF OpenFails, Established, CommonInv
      <3>. QED BY <3>1, <3>2 DEF IsNull
    <2>3. result'[t] = "database" /\ "database" \notin Modes
      BY <2>1, <2>2, SessionAssumption
    <2>. QED BY <1>14, <2>1, <2>3 DEF OpenFails, env, shared, Established, Reconnecting, Reasons
  <1>15. CASE Look(t)
    <2>1. IF maps THEN pc'[t] = "execute" /\ result'[t] = result[t]
          ELSE pc'[t] = "idle" /\ result'[t] = "no tag"
      BY <1>15 DEF Look, TypeOK, Goto, Fail, env, shared
    <2>. QED BY <1>15, <2>1 DEF Look, env, shared, Established, Reconnecting, Reasons
  <1>16. CASE Execute(t)
    <2>1. pc'[t] = "idle" /\ result'[t] = session
      BY <1>16 DEF Execute, TypeOK, Goto, Fail, env, shared
    <2>2. session \in Modes /\ session = want[t]
      BY <1>16, SessionAssumption DEF Execute, TypeOK, Established, CommonInv
    <2>3. session \notin Reasons
      BY <2>2, SessionAssumption DEF Reasons
    <2>. QED BY <1>16, <2>1, <2>2, <2>3 DEF Execute, env, shared, Established, Reconnecting
  <1>17. CASE ExecuteFails(t)
    <2>1. /\ pc'[t] = "idle"
          /\ result'[t] = IF session # "none" THEN "database" ELSE "closed"
      BY <1>17 DEF ExecuteFails, TypeOK, Goto, Fail, env, shared
    <2>2. result'[t] = "database" /\ "database" \notin Modes
      BY <1>17, <2>1, SessionAssumption DEF ExecuteFails, Established, CommonInv
    <2>. QED BY <1>17, <2>1, <2>2 DEF ExecuteFails, env, shared, Established, Reconnecting, Reasons
  <1>. QED BY <1>1, <1>2, <1>3, <1>4, <1>5, <1>6, <1>7, <1>8, <1>9, <1>10,
              <1>11, <1>12, <1>13, <1>14, <1>15, <1>16, <1>17 DEF Step

LEMMA StepInv == Inv /\ [Next]_vars => Inv'
  <1>. SUFFICES ASSUME Inv, [Next]_vars PROVE Inv'
    OBVIOUS
  <1>1. ASSUME NEW t \in Threads, Call(t) \/ Step(t) PROVE Inv'
    <2>1. TypeOK' /\ CommonInv'
      BY <1>1, TypeStep, CommonStep DEF Inv
    <2>2. UniformInv'
      <3>1. UNCHANGED env
        BY <1>1, EnvStep
      <3>2. CASE uses = {Initial}
        BY <1>1, <3>2, UniformStep DEF Inv
      <3>3. CASE uses # {Initial}
        BY <3>1, <3>3 DEF UniformInv, env
      <3>. QED BY <3>2, <3>3
    <2>3. LoneInv'
      <3>1. UNCHANGED env
        BY <1>1, EnvStep
      <3>2. t \in crew
        BY <1>1, StepOfCrew DEF Inv, Call
      <3>3. CASE Alone
        BY <1>1, <3>2, <3>3, LoneStep DEF Inv
      <3>4. CASE ~Alone
        BY <3>1, <3>4 DEF LoneInv, Alone, env
      <3>. QED BY <3>3, <3>4
    <2>. QED BY <2>1, <2>2, <2>3 DEF Inv
  <1>2. CASE UNCHANGED vars
    <2>. USE <1>2 DEF vars, env, shared, local
    <2>1. TypeOK' /\ CommonInv'
      BY DEF Inv, TypeOK, CommonInv
    <2>2. UniformInv'
      BY DEF Inv, UniformInv
    <2>3. LoneInv'
      BY DEF Inv, LoneInv, Alone, Established
    <2>. QED BY <2>1, <2>2, <2>3 DEF Inv
  <1>. QED BY <1>1, <1>2 DEF Next

LEMMA Invariance == Spec => []Inv
  BY InitInv, StepInv, PTL DEF Spec
-----------------------------------------------------------------------------
(* The mutex is held exactly by the thread that downloads, and everything  *)
(* shared stays within its type, whatever interleaves.                     *)
THEOREM TypeCorrect == Spec => []TypeOK
  <1>1. Inv => TypeOK
    BY DEF Inv
  <1>. QED BY <1>1, Invariance, PTL

(* A statement runs with the rights its call has asked for, where one      *)
(* thread uses the adapter or all calls need the initial mode.             *)
THEOREM RightSessionHolds == Spec => []RightSession
  <1>1. Inv => RightSession
    <2>. SUFFICES ASSUME Inv, Disciplined, NEW t \in Threads, result[t] \in Modes
                  PROVE  result[t] = want[t]
      BY DEF RightSession
    <2>1. CASE Alone
      <3>1. t \in crew
        BY SessionAssumption DEF Inv, CommonInv
      <3>. QED BY <2>1, <3>1 DEF Inv, LoneInv, Established
    <2>2. CASE uses = {Initial}
      BY <2>2 DEF Inv, UniformInv
    <2>. QED BY <2>1, <2>2 DEF Disciplined
  <1>. QED BY <1>1, Invariance, PTL

(* Nothing but the database makes a call of a lone thread fail.            *)
THEOREM OnlyDatabaseFailsHolds == Spec => []OnlyDatabaseFails
  <1>1. Inv => OnlyDatabaseFails
    BY DEF Inv, CommonInv, LoneInv, Established, OnlyDatabaseFails, Reasons
  <1>. QED BY <1>1, Invariance, PTL

(* reconnect does not change the lists of nodes it picks from.             *)
THEOREM NodesIntactHolds == Spec => []NodesIntact
  <1>1. Inv => NodesIntact
    BY DEF Inv, LoneInv, UniformInv, NodesIntact, Disciplined
  <1>. QED BY <1>1, Invariance, PTL
-----------------------------------------------------------------------------
(* Where a thread needs the mutex to go on.                                *)
Queues == {"clear", "close", "reclose", "open", "execute"}

CanGo(t) == pc[t] # "idle" /\ (pc[t] \in Queues => holder = "none")

(* That nothing but the mutex stops it: what ENABLED says of each step.    *)
Unhindered(t) == CanGo(t) => ENABLED <<Step(t)>>_vars

(* A bound on the steps a call has yet to take: a reconnection takes up to *)
(* six, and there may be three, after each of which it goes on at x.       *)
Left(x) ==
  CASE x = "idle" -> 0
    [] x = "execute" -> 1
    [] x = "look" -> 2
    [] x = "ensure" -> 9
    [] x = "switch" -> 16
    [] x = "set" -> 17
    [] x = "fill" -> 18
    [] x = "clear" -> 19
    [] x = "start" -> 26

Distance(place, x) ==
  CASE place = "open" -> Left(x) + 1
    [] place = "reclose" -> Left(x) + 2
    [] place = "node" -> Left(x) + 3
    [] place = "pick" -> Left(x) + 4
    [] place = "close" -> Left(x) + 5
    [] place = "reconnect" -> Left(x) + 6
    [] OTHER -> Left(place)

ToGo(t) == Distance(pc[t], next[t])

LEMMA LeftValues ==
  /\ Left("idle") = 0 /\ Left("execute") = 1 /\ Left("look") = 2 /\ Left("ensure") = 9
  /\ Left("switch") = 16 /\ Left("set") = 17 /\ Left("fill") = 18 /\ Left("clear") = 19
  /\ Left("start") = 26
  BY DEF Left

LEMMA LeftRange ==
  ASSUME NEW x \in Returns
  PROVE  Left(x) \in 0..19
  BY LeftValues DEF Returns

LEMMA Reconnections ==
  ASSUME NEW x
  PROVE  /\ Distance("open", x) = Left(x) + 1
         /\ Distance("reclose", x) = Left(x) + 2
         /\ Distance("node", x) = Left(x) + 3
         /\ Distance("pick", x) = Left(x) + 4
         /\ Distance("close", x) = Left(x) + 5
         /\ Distance("reconnect", x) = Left(x) + 6
  BY DEF Distance

LEMMA OtherPlaces ==
  ASSUME NEW x
  PROVE  /\ Distance("idle", x) = 0 /\ Distance("execute", x) = 1
         /\ Distance("look", x) = 2 /\ Distance("ensure", x) = 9
         /\ Distance("switch", x) = 16 /\ Distance("set", x) = 17
         /\ Distance("fill", x) = 18 /\ Distance("clear", x) = 19
         /\ Distance("start", x) = 26
  BY LeftValues DEF Distance

LEMMA ToGoRange ==
  ASSUME TypeOK, NEW t \in Threads
  PROVE  ToGo(t) \in 0..26 /\ (ToGo(t) = 0 <=> pc[t] = "idle")
  <1>1. pc[t] \in Places /\ next[t] \in Returns
    BY DEF TypeOK, Returns
  <1>2. CASE pc[t] \in Reconnecting \union {"reclose"}
    <2>1. Left(next[t]) \in 0..19
      BY <1>1, LeftRange
    <2>. QED BY <1>2, <2>1, Reconnections DEF Reconnecting, ToGo
  <1>3. CASE pc[t] \in Places \ (Reconnecting \union {"reclose"})
    BY <1>3, OtherPlaces DEF Places, Reconnecting, ToGo
  <1>. QED BY <1>1, <1>2, <1>3

(* Every step of a call brings it nearer to its end.                       *)
LEMMA ToGoDecreases ==
  ASSUME TypeOK, NEW t \in Threads, Step(t)
  PROVE  ToGo(t)' < ToGo(t)
  <1>1. /\ pc \in [Threads -> Places] /\ next \in [Threads -> Returns]
    BY DEF TypeOK, Returns
  <1>2. next[t] \in Returns /\ Left(next[t]) \in 0..19
    BY <1>1, LeftRange
  <1>3. ToGo(t) = Distance(pc[t], next[t]) /\ ToGo(t)' = Distance(pc'[t], next'[t])
    BY DEF ToGo
  <1>. USE <1>1, <1>2 DEF Goto, Fail, Reconnect
  <1>4. CASE Start(t)
    <2>1. pc[t] = "start" /\ (pc'[t] = "clear" \/ (pc'[t] = "reconnect" /\ next'[t] = "clear"))
      BY <1>4 DEF Start
    <2>. QED BY <2>1, <1>3, LeftValues, Reconnections, OtherPlaces
  <1>5. CASE Clear(t) \/ Fill(t) \/ FillFails(t) \/ SetMode(t)
             \/ Look(t) \/ Execute(t) \/ ExecuteFails(t)
    <2>1. \/ pc[t] = "clear" /\ pc'[t] = "fill"
          \/ pc[t] = "fill" /\ pc'[t] \in {"set", "idle"}
          \/ pc[t] = "set" /\ pc'[t] \in {"switch", "ensure"}
          \/ pc[t] = "look" /\ pc'[t] \in {"execute", "idle"}
          \/ pc[t] = "execute" /\ pc'[t] = "idle"
      BY <1>5 DEF Clear, Fill, FillFails, SetMode, Look, Execute, ExecuteFails
    <2>. QED BY <2>1, <1>3, OtherPlaces
  <1>6. CASE Switch(t) \/ Ensure(t)
    <2>1. \/ /\ pc[t] = "switch"
             /\ pc'[t] = "ensure" \/ (pc'[t] = "reconnect" /\ next'[t] = "ensure")
          \/ /\ pc[t] = "ensure"
             /\ pc'[t] = "look" \/ (pc'[t] = "reconnect" /\ next'[t] = "look")
      BY <1>6 DEF Switch, Ensure
    <2>. QED BY <2>1, <1>3, LeftValues, Reconnections, OtherPlaces
  <1>7. CASE BeginReconnect(t) \/ Disconnect(t) \/ Pick(t) \/ GetNode(t)
    <2>1. next'[t] = next[t]
      BY <1>7 DEF BeginReconnect, Disconnect, Pick, GetNode
    <2>2. \/ pc[t] = "reconnect" /\ pc'[t] \in {"close", "pick"}
          \/ pc[t] = "close" /\ pc'[t] = "pick"
          \/ pc[t] = "reclose" /\ pc'[t] = "open"
          \/ pc[t] = "pick" /\ pc'[t] = "node"
          \/ pc[t] = "node" /\ pc'[t] \in {"reclose", "open"}
      BY <1>7 DEF BeginReconnect, Disconnect, Close, Pick, GetNode
    <2>. QED BY <2>1, <2>2, <1>3, Reconnections
  <1>8. CASE Open(t) \/ OpenFails(t)
    <2>1. pc[t] = "open" /\ pc'[t] \in {next[t], "idle"}
      BY <1>8 DEF Open, OpenFails
    <2>2. Distance(next[t], next'[t]) = Left(next[t])
      BY OtherPlaces, LeftValues DEF Returns
    <2>. QED BY <2>1, <2>2, <1>3, Reconnections, OtherPlaces
  <1>. QED BY <1>4, <1>5, <1>6, <1>7, <1>8 DEF Step
LEMMA ToGoKept ==
  ASSUME TypeOK, NEW t \in Threads, [Next]_vars, pc[t] # "idle"
  PROVE  Step(t) \/ ToGo(t)' = ToGo(t)
  <1>1. ASSUME NEW u \in Threads, Call(u) \/ Step(u), u # t
        PROVE  pc'[t] = pc[t] /\ next'[t] = next[t]
    BY <1>1 DEF TypeOK, Call, Step, Start, Clear, Fill, FillFails, SetMode, Switch, Ensure,
       BeginReconnect, Disconnect, Close, Pick, GetNode, Open, OpenFails, Look, Execute,
       ExecuteFails, Goto, Fail, Forget, Reconnect, shared, env
  <1>2. ~Call(t)
    BY DEF Call
  <1>3. CASE UNCHANGED vars
    BY <1>3 DEF vars, local, ToGo
  <1>. QED BY <1>1, <1>2, <1>3 DEF Next, ToGo
-----------------------------------------------------------------------------
(* The mutex is with a thread that is in the adapter, and comes back.      *)
Free == holder = "none"
Holds(u) == holder = u

HolderKnown == Free \/ \E u \in Threads : Holds(u)

LEMMA HolderIsKnown == Spec => []HolderKnown
  <1>1. Init => HolderKnown
    BY DEF Init, HolderKnown, Free
  <1>2. HolderKnown /\ [Next]_vars => HolderKnown'
    BY DEF HolderKnown, Free, Holds, Next, Call, Step, Start, Clear, Fill, FillFails, SetMode,
       Switch, Ensure, BeginReconnect, Disconnect, Close, Pick, GetNode, Open, OpenFails, Look,
       Execute, ExecuteFails, shared, vars
  <1>. QED BY <1>1, <1>2, PTL DEF Spec

LEMMA MutexStep ==
  ASSUME TypeOK, NEW u \in Threads, Holds(u), [Next]_vars
  PROVE  /\ Step(u) => Free'
         /\ Free' \/ Holds(u)'
  <1>1. pc[u] = "fill" /\ \A t \in Threads \ {u} : pc[t] # "fill"
    BY DEF TypeOK, Holds
  <1>2. holder # "none"
    BY SessionAssumption DEF Holds
  <1>3. ASSUME NEW t \in Threads, t # u, Call(t) \/ Step(t)
        PROVE  holder' = holder
    BY <1>1, <1>2, <1>3 DEF Call, Step, Start, Clear, Fill, FillFails, SetMode, Switch, Ensure,
       BeginReconnect, Disconnect, Close, Pick, GetNode, Open, OpenFails, Look, Execute,
       ExecuteFails, shared
  <1>4. Step(u) => Free'
    BY <1>1 DEF Free, Step, Start, Clear, Fill, FillFails, SetMode, Switch, Ensure,
       BeginReconnect, Disconnect, Pick, GetNode, Open, OpenFails, Look, Execute, ExecuteFails
  <1>5. ~Call(u)
    BY <1>1 DEF Call
  <1>6. CASE UNCHANGED vars
    BY <1>6, <1>2, <1>4 DEF vars, shared, Holds
  <1>. QED BY <1>3, <1>4, <1>5, <1>6 DEF Next, Holds

GivesBack(t) == [](Holds(t) => <>Free)

LEMMA MutexReturned ==
  ASSUME NEW t \in Threads
  PROVE  Spec /\ Fair(t) /\ []Unhindered(t) => GivesBack(t)
  <1>1. TypeOK /\ Holds(t) => CanGo(t)
    BY DEF TypeOK, Holds, CanGo, Queues
  <1>2. TypeOK /\ Holds(t) /\ [Next]_vars => Free' \/ Holds(t)'
    BY MutexStep
  <1>3. TypeOK /\ Holds(t) /\ [Next]_vars /\ <<Step(t)>>_vars => Free'
    BY MutexStep
  <1>. QED BY <1>1, <1>2, <1>3, TypeCorrect, PTL DEF Spec, Fair, Unhindered, GivesBack

LEMMA MutexFree ==
  FairSpec /\ (\A t \in Threads : []Unhindered(t)) => []<>Free
  <1>1. ASSUME NEW t \in Threads
        PROVE  FairSpec /\ []Unhindered(t) => GivesBack(t)
    <2>1. FairSpec => Spec /\ Fair(t)
      BY DEF FairSpec
    <2>. QED BY <2>1, MutexReturned
  <1>2. FairSpec /\ (\A t \in Threads : []Unhindered(t)) =>
          \A t \in Threads : GivesBack(t)
    <2>. SUFFICES ASSUME FairSpec, \A t \in Threads : []Unhindered(t), NEW t \in Threads
                  PROVE  GivesBack(t)
      OBVIOUS
    <2>1. []Unhindered(t)
      OBVIOUS
    <2>2. FairSpec /\ []Unhindered(t) => GivesBack(t)
      BY <1>1
    <2>. QED BY <2>1, <2>2
  <1>3. (\A t \in Threads : GivesBack(t)) =>
          [](\A t \in Threads : Holds(t) => <>Free)
    BY Zenon DEF GivesBack
  <1>4. (\A t \in Threads : Holds(t) => <>Free) /\ HolderKnown => Free \/ <>Free
    BY Zenon DEF HolderKnown
  <1>5. FairSpec => Spec
    BY DEF FairSpec
  <1>. QED BY <1>2, <1>3, <1>4, <1>5, HolderIsKnown, PTL
-----------------------------------------------------------------------------
Near(t, n) == ToGo(t) <= n

LEMMA Nearer ==
  ASSUME NEW t \in Threads, NEW m \in Nat, NEW n \in Nat, m = n + 1
  PROVE  Spec /\ Fair(t) /\ []Unhindered(t) /\ []<>Free => (Near(t, m) ~> Near(t, n))
  <1>. DEFINE Counted == ToGo(t) \in Nat
  <1>1. TypeOK => Counted
    BY ToGoRange
  <1>2. TypeOK /\ ~Near(t, n) /\ Free => CanGo(t)
    BY ToGoRange DEF Near, CanGo, Free
  <1>3. TypeOK /\ Counted /\ Counted' /\ Near(t, m) /\ [Next]_vars => Near(t, m)' \/ Near(t, n)
    <2>. SUFFICES ASSUME TypeOK, Counted, Counted', Near(t, m), [Next]_vars, ~Near(t, n)
                  PROVE  Near(t, m)'
      OBVIOUS
    <2>1. pc[t] # "idle"
      BY ToGoRange DEF Near
    <2>2. ToGo(t)' = ToGo(t) \/ ToGo(t)' < ToGo(t)
      BY <2>1, ToGoKept, ToGoDecreases
    <2>. QED BY <2>2 DEF Near
  <1>4. TypeOK /\ Counted /\ Counted' /\ Near(t, m) /\ <<Step(t)>>_vars => Near(t, n)'
    <2>. SUFFICES ASSUME TypeOK, Counted, Counted', Near(t, m), Step(t)
                  PROVE  Near(t, n)'
      OBVIOUS
    <2>1. ToGo(t)' < ToGo(t)
      BY ToGoDecreases
    <2>. QED BY <2>1 DEF Near
  <1>. HIDE DEF Counted
  <1>. QED BY <1>1, <1>2, <1>3, <1>4, TypeCorrect, PTL DEF Spec, Fair, Unhindered
(* Twenty-six steps at most, each of which comes when its turn comes.      *)
Passes(t, m, n) == Near(t, m) ~> Near(t, n)
Away(t) == pc[t] # "idle"
Back(t) == pc[t] = "idle"

LEMMA CallEnds ==
  ASSUME NEW t \in Threads
  PROVE  Spec /\ Fair(t) /\ []Unhindered(t) /\ []<>Free => (Away(t) ~> Back(t))
  <1>. DEFINE Fairness == Spec /\ Fair(t) /\ []Unhindered(t) /\ []<>Free
  <1>1. ASSUME NEW m \in Nat, NEW n \in Nat, m = n + 1
        PROVE  Fairness => Passes(t, m, n)
    BY <1>1, Nearer DEF Passes
  <1>. HIDE DEF Fairness
  <1>2. Fairness =>
        /\ Passes(t, 26, 25) /\ Passes(t, 25, 24) /\ Passes(t, 24, 23)
        /\ Passes(t, 23, 22) /\ Passes(t, 22, 21) /\ Passes(t, 21, 20)
        /\ Passes(t, 20, 19) /\ Passes(t, 19, 18) /\ Passes(t, 18, 17)
        /\ Passes(t, 17, 16) /\ Passes(t, 16, 15) /\ Passes(t, 15, 14)
        /\ Passes(t, 14, 13) /\ Passes(t, 13, 12) /\ Passes(t, 12, 11)
        /\ Passes(t, 11, 10) /\ Passes(t, 10, 9) /\ Passes(t, 9, 8)
        /\ Passes(t, 8, 7) /\ Passes(t, 7, 6) /\ Passes(t, 6, 5)
        /\ Passes(t, 5, 4) /\ Passes(t, 4, 3) /\ Passes(t, 3, 2)
        /\ Passes(t, 2, 1) /\ Passes(t, 1, 0)
    BY <1>1
  <1>3. TypeOK => Near(t, 26)
    BY ToGoRange DEF Near
  <1>4. TypeOK /\ Near(t, 0) => Back(t)
    BY ToGoRange DEF Near, Back
  <1>5. Fairness => Spec
    BY DEF Fairness
  <1>6. Fairness => (Away(t) ~> Back(t))
    BY <1>2, <1>3, <1>4, <1>5, TypeCorrect, PTL DEF Passes
  <1>. QED BY <1>6 DEF Fairness

(* Every call returns, for any threads, modes and lists of nodes, when a   *)
(* thread that can go on again and again some time does.                   *)
THEOREM CallsEndHolds ==
  FairSpec /\ (\A t \in Threads : []Unhindered(t)) => CallsEnd
  <1>. SUFFICES ASSUME FairSpec, \A t \in Threads : []Unhindered(t), NEW t \in Threads
                PROVE  Away(t) ~> Back(t)
    BY DEF CallsEnd, Away, Back
  <1>1. Spec /\ Fair(t) /\ []Unhindered(t) /\ []<>Free
    BY MutexFree DEF FairSpec
  <1>. QED BY <1>1, CallEnds
=================================================================================
