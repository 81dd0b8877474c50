--------------------------- MODULE ControllerProofs ---------------------------
(***************************************************************************)
(* What holds of the controller for every topology, every number of        *)
(* routers and every history of commands, proved with TLAPS. Of the flags  *)
(* and the names, nothing depends on the information table; the last part  *)
(* is about the table.                                                     *)
(***************************************************************************)
EXTENDS Controller, Sequences, FiniteSetTheorems, TLAPS

(***************************************************************************)
(* The operators of the table, with what HashTableProofs shows of them.    *)
(***************************************************************************)
TP == INSTANCE HashTableProofs WITH Key <- Node, Value <- Client

(***************************************************************************)
(* A pair of nodes is an edge.                                             *)
(***************************************************************************)
LEMMA EdgeOf == \A m, n \in Node : {m, n} \in Edge
  BY DEF Edge

(***************************************************************************)
(* A list of neighbours is a list.                                         *)
(***************************************************************************)
LEMMA NeighborhoodType == TypeOK => \A n \in Node : Neighborhood(n) \in List
  BY EdgeOf DEF TypeOK, Neighborhood, List

(***************************************************************************)
(* Marking keeps the flags flags.                                          *)
(***************************************************************************)
LEMMA MarkedType == TypeOK => \A S : Marked(S) \in [Node -> BOOLEAN]
  BY DEF TypeOK, Marked

(***************************************************************************)
(* The state main starts from.                                             *)
(***************************************************************************)
LEMMA TypeInit == Init => TypeOK
  <1> SUFFICES ASSUME Init PROVE TypeOK
    OBVIOUS
  <1>1. loaded \in BOOLEAN /\ nodes \subseteq Node /\ weight \in [Edge -> Weight \cup {NoEdge}]
    BY ControllerAssumption DEF ControllerAssumption, Init, NoTopology
  <1> QED
    BY <1>1, ControllerAssumption DEF ControllerAssumption, Init, TypeOK

(***************************************************************************)
(* Every event of a router keeps the types.                                *)
(***************************************************************************)
LEMMA TypeRouterEvent ==
  ASSUME TypeOK, NEW c \in Client, RouterEvent(c)
  PROVE  TypeOK'
  <1>1. ASSUME Crash PROVE TypeOK'
    BY <1>1 DEF Crash, graph, flags, lists, TypeOK
  <1>2. ASSUME NEW want \in Node \cup {Garbage}, Login(c, want) PROVE TypeOK'
    <2>1. CASE LoginRefused(c)
      BY <1>1, <2>1 DEF LoginRefused, graph, flags, lists, TypeOK
    <2>2. ASSUME NEW n \in Node, LoginAs(c, want, n) PROVE TypeOK'
      BY <2>2, MarkedType DEF LoginAs, graph, TypeOK
    <2> QED
      BY <1>2, <2>1, <2>2 DEF Login
  <1>3. ASSUME ConnectUnloaded(c) PROVE TypeOK'
    <2>1. PICK id \in Node \cup {Garbage} : clientId' = [clientId EXCEPT ![c] = id]
      BY <1>3 DEF ConnectUnloaded
    <2> QED
      BY <1>3, <2>1 DEF ConnectUnloaded, graph, flags, lists, TypeOK
  <1>4. ASSUME Poll(c) PROVE TypeOK'
    <2> DEFINE n == clientId[c]
    <2>1. n \in Node /\ Neighborhood(n) \in List
      BY <1>4, NeighborhoodType DEF Poll, TypeOK
    <2>2. CASE Crash
      BY <1>1, <2>2
    <2>3. CASE ~Crash
      <3> HIDE DEF n
      <3>1. /\ upToDate' = [upToDate EXCEPT ![n] = TRUE]
            /\ sent' = [sent EXCEPT ![n] = Neighborhood(n)]
            /\ told' = [told EXCEPT ![c] = Neighborhood(n)]
            /\ UNCHANGED <<status, graph, connected, T, clientId, silent, loads, edits>>
        BY <1>4, <2>3 DEF Poll, n
      <3> QED
        BY <2>1, <3>1 DEF graph, TypeOK
    <2> QED
      BY <2>2, <2>3
  <1>5. ASSUME Leave(c) PROVE TypeOK'
    <2> DEFINE n == clientId[c]
    <2>1. CASE n \in nodes /\ Table!RemoveDivides(T)
      <3>1. n \in Node /\ Marked({m \in Node : Adjacent(m, n)}) \in [Node -> BOOLEAN]
        BY <2>1, MarkedType DEF TypeOK
      <3> QED
        BY <1>5, <2>1, <3>1 DEF Leave, graph, TypeOK
    <2>2. CASE ~(n \in nodes /\ Table!RemoveDivides(T))
      BY <1>1, <1>5, <2>2 DEF Leave
    <2> QED
      BY <2>1, <2>2
  <1>6. ASSUME Disconnected(c) PROVE TypeOK'
    BY <1>5, <1>6 DEF Disconnected, graph, flags, lists, TypeOK
  <1>7. ASSUME FallSilent(c) PROVE TypeOK'
    BY <1>7 DEF FallSilent, graph, flags, lists, TypeOK
  <1> QED
    BY <1>2, <1>3, <1>4, <1>5, <1>6, <1>7 DEF RouterEvent, Logout

(***************************************************************************)
(* Every command on the links keeps the types.                             *)
(***************************************************************************)
LEMMA TypeLinkCommand ==
  ASSUME TypeOK, LinkCommand
  PROVE  TypeOK'
  <1>0. ASSUME Editing PROVE edits' \in 0..MaxEdits
    BY <1>0, ControllerAssumption DEF ControllerAssumption, Editing, TypeOK
  <1>1. ASSUME NEW m \in Node, NEW n \in Node, NEW w \in Weight \cup {NoEdge}, Editing, SetEdge(m, n, w)
        PROVE  TypeOK'
    BY <1>0, <1>1, MarkedType DEF Editing, SetEdge, lists, TypeOK
  <1>2. ASSUME NEW m \in Node, NEW n \in Node, NEW w \in Weight, AddLink(m, n, w) PROVE TypeOK'
    <2>1. CASE {m, n} \subseteq nodes
      BY <1>1, <1>2, <2>1 DEF AddLink
    <2>2. CASE ~({m, n} \subseteq nodes)
      BY <1>0, <1>2, <2>2 DEF AddLink, Editing, graph, flags, lists, TypeOK
    <2> QED
      BY <2>1, <2>2
  <1>3. ASSUME NEW n \in Node, Disconnect(n) PROVE TypeOK'
    BY <1>0, <1>3, MarkedType DEF Disconnect, Editing, lists, TypeOK
  <1> QED
    BY <1>1, <1>2, <1>3 DEF LinkCommand, UpdateLink, DelLink

(***************************************************************************)
(* A LOAD keeps the types, whether or not its file opens.                  *)
(***************************************************************************)
LEMMA TypeLoad ==
  ASSUME TypeOK, LoadFails \/ \E topology \in Topology : Load(topology)
  PROVE  TypeOK'
  <1>1. loads' \in 0..MaxLoads
    BY ControllerAssumption DEF ControllerAssumption, Load, LoadFails, TypeOK
  <1>2. loaded' \in BOOLEAN /\ nodes' \subseteq Node /\ weight' \in [Edge -> Weight \cup {NoEdge}]
    BY ControllerAssumption DEF ControllerAssumption, Load, LoadFails, NoTopology
  <1> QED
    BY <1>1, <1>2 DEF Load, LoadFails, lists, TypeOK

(***************************************************************************)
(* Every step keeps the types.                                             *)
(***************************************************************************)
LEMMA TypeStep == TypeOK /\ [Next]_vars => TypeOK'
  <1> SUFFICES ASSUME TypeOK, [Next]_vars PROVE TypeOK'
    OBVIOUS
  <1>1. CASE UNCHANGED vars
    BY <1>1 DEF vars, graph, flags, lists, TypeOK
  <1>2. CASE Quit
    BY <1>2 DEF Quit, graph, flags, TypeOK
  <1> QED
    BY <1>1, <1>2, TypeRouterEvent, TypeLinkCommand, TypeLoad DEF Next

(***************************************************************************)
(* The controller's graph, flags and client ids keep their types.          *)
(***************************************************************************)
THEOREM TypeCorrect == Spec => []TypeOK
  <1>1. Init => TypeOK
    BY TypeInit
  <1>2. TypeOK /\ [Next]_vars => TypeOK'
    BY TypeStep
  <1> QED
    BY <1>1, <1>2, PTL DEF Spec

------------------------------------------------------------------------------

(***************************************************************************)
(* A step that leaves the graph, its flags and the lists alone.            *)
(***************************************************************************)
LEMMA FreshFrame ==
  ASSUME Freshness, UNCHANGED <<nodes, weight, connected, upToDate, sent>>
  PROVE  Freshness'
  BY DEF Freshness, Neighborhood

(***************************************************************************)
(* The argument of every step that changes a neighbourhood: the nodes      *)
(* whose list it changes are among the nodes it marks.                     *)
(***************************************************************************)
LEMMA FreshMarked ==
  ASSUME TypeOK, Freshness, NEW S,
         UNCHANGED <<nodes, sent>>,
         upToDate' = Marked(S),
         \A k \in Node : k \notin S => Neighborhood(k)' = Neighborhood(k)
  PROVE  Freshness'
  <1> SUFFICES ASSUME NEW k \in nodes, upToDate'[k] PROVE sent'[k] = Neighborhood(k)'
    BY DEF Freshness
  <1>1. k \in Node
    BY DEF TypeOK
  <1>2. upToDate[k] /\ k \notin S
    BY <1>1 DEF Marked
  <1> QED
    BY <1>1, <1>2 DEF Freshness

(***************************************************************************)
(* Connecting or disconnecting the router of a node n only changes the     *)
(* lists of the nodes adjacent to n.                                       *)
(***************************************************************************)
LEMMA FlipConnected ==
  ASSUME TypeOK, NEW n \in Node, NEW b \in BOOLEAN,
         connected' = [connected EXCEPT ![n] = b], weight' = weight,
         NEW k \in Node, ~Adjacent(k, n)
  PROVE  Neighborhood(k)' = Neighborhood(k)
  <1>1. weight[{n, k}] = NoEdge
    <2>1. {n, k} = {k, n}
      OBVIOUS
    <2> QED
      BY <2>1 DEF Adjacent
  <1>2. \A m \in Node : m # n => connected'[m] = connected[m]
    BY DEF TypeOK
  <1>3. \A m \in Node : (IF connected'[m] THEN weight[{m, k}] ELSE NoEdge)
                          = (IF connected[m] THEN weight[{m, k}] ELSE NoEdge)
    BY <1>1, <1>2
  <1> QED
    BY <1>3 DEF Neighborhood

(***************************************************************************)
(* Changing one link only changes the lists of its two ends.               *)
(***************************************************************************)
LEMMA ChangeEdge ==
  ASSUME TypeOK, NEW m \in Node, NEW n \in Node, NEW w,
         weight' = [weight EXCEPT ![{m, n}] = w], connected' = connected,
         NEW k \in Node, k \notin {m, n}
  PROVE  Neighborhood(k)' = Neighborhood(k)
  <1>1. \A j \in Node : {j, k} \in Edge /\ {j, k} # {m, n}
    BY EdgeOf
  <1>2. \A j \in Node : weight'[{j, k}] = weight[{j, k}]
    BY <1>1 DEF TypeOK
  <1> QED
    BY <1>2 DEF Neighborhood

(***************************************************************************)
(* Removing the links of a node only changes its list and its neighbours'. *)
(***************************************************************************)
LEMMA CutEdges ==
  ASSUME TypeOK, NEW n \in Node,
         weight' = [e \in Edge |-> IF n \in e THEN NoEdge ELSE weight[e]], connected' = connected,
         NEW k \in Node, k # n, ~Adjacent(k, n)
  PROVE  Neighborhood(k)' = Neighborhood(k)
  <1>1. {n, k} = {k, n}
    OBVIOUS
  <1>2. weight[{n, k}] = NoEdge
    BY <1>1 DEF Adjacent
  <1>3. \A j \in Node : weight'[{j, k}] = weight[{j, k}]
    <2> TAKE j \in Node
    <2>1. {j, k} \in Edge
      BY EdgeOf
    <2>2. CASE j = n
      BY <1>2, <2>1, <2>2
    <2>3. CASE j # n
      BY <2>1, <2>3
    <2> QED
      BY <2>2, <2>3
  <1> QED
    BY <1>3 DEF Neighborhood

(***************************************************************************)
(* No event of a router leaves a stale list marked up to date.             *)
(***************************************************************************)
LEMMA FreshRouterEvent ==
  ASSUME TypeOK, Freshness, NEW c \in Client, RouterEvent(c)
  PROVE  Freshness'
  <1>1. ASSUME Crash PROVE Freshness'
    BY <1>1, FreshFrame DEF Crash, graph, flags, lists
  <1>2. ASSUME NEW want \in Node \cup {Garbage}, Login(c, want) PROVE Freshness'
    <2>1. CASE LoginRefused(c)
      BY <1>1, <2>1, FreshFrame DEF LoginRefused, graph, flags
    <2>2. ASSUME NEW n \in Node, LoginAs(c, want, n) PROVE Freshness'
      <3> DEFINE S == {n} \cup {m \in Node : Adjacent(m, n)}
      <3>1. /\ connected' = [connected EXCEPT ![n] = TRUE]
            /\ UNCHANGED <<nodes, weight, sent>>
            /\ upToDate' = Marked(S)
        BY <2>2 DEF LoginAs, graph
      <3>2. \A k \in Node : k \notin S => Neighborhood(k)' = Neighborhood(k)
        BY <3>1, FlipConnected
      <3> HIDE DEF S
      <3> QED
        BY <3>1, <3>2, FreshMarked
    <2> QED
      BY <1>2, <2>1, <2>2 DEF Login
  <1>3. ASSUME ConnectUnloaded(c) PROVE Freshness'
    BY <1>3, FreshFrame DEF ConnectUnloaded, graph, flags, lists
  <1>4. ASSUME Poll(c) PROVE Freshness'
    <2> DEFINE n == clientId[c]
    <2>1. n \in Node
      BY <1>4 DEF Poll, TypeOK
    <2>2. CASE ~Crash
      <3> HIDE DEF n
      <3>1. /\ upToDate' = [upToDate EXCEPT ![n] = TRUE]
            /\ sent' = [sent EXCEPT ![n] = Neighborhood(n)]
            /\ UNCHANGED <<nodes, weight, connected>>
        BY <1>4, <2>2 DEF Poll, graph, n
      <3>2. \A k \in Node : Neighborhood(k)' = Neighborhood(k)
        BY <3>1 DEF Neighborhood
      <3> SUFFICES ASSUME NEW k \in nodes, upToDate'[k] PROVE sent'[k] = Neighborhood(k)
        BY <3>1, <3>2 DEF Freshness, TypeOK
      <3>3. CASE k = n
        BY <2>1, <3>1, <3>3 DEF TypeOK
      <3>4. CASE k # n
        BY <2>1, <3>1, <3>4 DEF TypeOK, Freshness
      <3> QED
        BY <3>3, <3>4
    <2> QED
      BY <1>1, <2>2
  <1>5. ASSUME Leave(c) PROVE Freshness'
    <2> DEFINE n == clientId[c]
    <2>1. CASE n \in nodes /\ Table!RemoveDivides(T)
      <3> DEFINE S == {m \in Node : Adjacent(m, n)}
      <3>1. /\ n \in Node
            /\ connected' = [connected EXCEPT ![n] = FALSE]
            /\ UNCHANGED <<nodes, weight, sent>>
            /\ upToDate' = Marked(S)
        BY <1>5, <2>1 DEF Leave, graph, TypeOK
      <3>2. \A k \in Node : k \notin S => Neighborhood(k)' = Neighborhood(k)
        BY <3>1, FlipConnected
      <3> HIDE DEF S
      <3> QED
        BY <3>1, <3>2, FreshMarked
    <2>2. CASE ~(n \in nodes /\ Table!RemoveDivides(T))
      BY <1>1, <1>5, <2>2 DEF Leave
    <2> QED
      BY <2>1, <2>2
  <1>6. ASSUME Disconnected(c) PROVE Freshness'
    BY <1>5, <1>6, FreshFrame DEF Disconnected, graph, flags
  <1>7. ASSUME FallSilent(c) PROVE Freshness'
    BY <1>7, FreshFrame DEF FallSilent, graph, flags, lists
  <1> QED
    BY <1>2, <1>3, <1>4, <1>5, <1>6, <1>7 DEF RouterEvent, Logout

(***************************************************************************)
(* Nor does any command of the prompt.                                     *)
(***************************************************************************)
LEMMA FreshLinkCommand ==
  ASSUME TypeOK, Freshness, LinkCommand
  PROVE  Freshness'
  <1>1. ASSUME NEW m \in Node, NEW n \in Node, NEW w, Editing, SetEdge(m, n, w) PROVE Freshness'
    <2>1. \A k \in Node : k \notin {m, n} => Neighborhood(k)' = Neighborhood(k)
      BY <1>1, ChangeEdge DEF SetEdge
    <2> QED
      BY <1>1, <2>1, FreshMarked DEF SetEdge, Editing, lists
  <1>2. ASSUME NEW m \in Node, NEW n \in Node, NEW w \in Weight, AddLink(m, n, w) PROVE Freshness'
    <2>1. CASE {m, n} \subseteq nodes
      BY <1>1, <1>2, <2>1 DEF AddLink
    <2>2. CASE ~({m, n} \subseteq nodes)
      BY <1>2, <2>2, FreshFrame DEF AddLink, Editing, graph, flags, lists
    <2> QED
      BY <2>1, <2>2
  <1>3. ASSUME NEW n \in Node, Disconnect(n) PROVE Freshness'
    <2> DEFINE S == {n} \cup {m \in Node : Adjacent(m, n)}
    <2>1. /\ weight' = [e \in Edge |-> IF n \in e THEN NoEdge ELSE weight[e]]
          /\ UNCHANGED <<nodes, connected, sent>>
          /\ upToDate' = Marked(S)
      BY <1>3 DEF Disconnect, Editing, lists
    <2>2. \A k \in Node : k \notin S => Neighborhood(k)' = Neighborhood(k)
      BY <2>1, CutEdges
    <2> HIDE DEF S
    <2> QED
      BY <2>1, <2>2, FreshMarked
  <1> QED
    BY <1>1, <1>2, <1>3 DEF LinkCommand, UpdateLink, DelLink

(***************************************************************************)
(* A LOAD clears every flag.                                               *)
(***************************************************************************)
LEMMA FreshLoad ==
  ASSUME TypeOK, LoadFails \/ \E topology \in Topology : Load(topology)
  PROVE  Freshness'
  <1>1. upToDate' = [n \in Node |-> FALSE]
    BY DEF Load, LoadFails
  <1>2. nodes' \subseteq Node
    BY TypeLoad DEF TypeOK
  <1> QED
    BY <1>1, <1>2 DEF Freshness

(***************************************************************************)
(* Every step keeps the flags sound.                                       *)
(***************************************************************************)
LEMMA FreshStep == TypeOK /\ Freshness /\ [Next]_vars => Freshness'
  <1> SUFFICES ASSUME TypeOK, Freshness, [Next]_vars PROVE Freshness'
    OBVIOUS
  <1>1. CASE UNCHANGED vars
    BY <1>1, FreshFrame DEF vars, graph, flags, lists
  <1>2. CASE Quit
    BY <1>2, FreshFrame DEF Quit, graph, flags
  <1> QED
    BY <1>1, <1>2, FreshRouterEvent, FreshLinkCommand, FreshLoad DEF Next

(***************************************************************************)
(* However routers come, go and poll, and whatever the prompt does to the  *)
(* links, a node marked up to date was last sent its current neighbourhood *)
(* - as long as handlers do not overlap.                                   *)
(***************************************************************************)
THEOREM FlagsAreSound == Spec => []Freshness
  <1>1. Init => TypeOK /\ Freshness
    <2>1. Init => Freshness
      BY ControllerAssumption DEF ControllerAssumption, Init, NoTopology, Freshness
    <2> QED
      BY <2>1, TypeInit
  <1>2. (TypeOK /\ Freshness) /\ [Next]_vars => (TypeOK /\ Freshness)'
    BY TypeStep, FreshStep
  <1> QED
    BY <1>1, <1>2, PTL DEF Spec

------------------------------------------------------------------------------
(***************************************************************************)
(* Who holds which name, while the topology of the command line is the     *)
(* only one.                                                               *)
(***************************************************************************)

(***************************************************************************)
(* The invariant that is inductive: without a graph no node is connected,  *)
(* so that a client dropped then holds no name.                            *)
(***************************************************************************)
NamesInv ==
  /\ UniqueIds
  /\ ConnectedIsHeld
  /\ PolledByHolder
  /\ ~loaded => \A n \in Node : ~connected[n]

(***************************************************************************)
(* At the start nobody holds a name.                                       *)
(***************************************************************************)
LEMMA NamesInit == Init => NamesInv
  BY ControllerAssumption
  DEF ControllerAssumption, Init, NoTopology, NamesInv, UniqueIds, ConnectedIsHeld, PolledByHolder

(***************************************************************************)
(* A step that ends the process, or touches neither the graph nor the      *)
(* clients, changes nothing for the names.                                 *)
(***************************************************************************)
LEMMA NamesFrame ==
  ASSUME NamesInv, status' \in {status, "quit", "crashed"},
         UNCHANGED <<graph, flags, clientId, told>>
  PROVE  NamesInv'
  BY DEF NamesInv, UniqueIds, ConnectedIsHeld, PolledByHolder, Neighborhood, graph, flags

(***************************************************************************)
(* PolledByHolder survives a step that marks the nodes of S, provided it     *)
(* changes no other list, and no holder of an unmarked node.               *)
(***************************************************************************)
LEMMA ToldMarked ==
  ASSUME TypeOK, PolledByHolder, NEW S,
         nodes' = nodes, upToDate' = Marked(S),
         \A k \in Node : k \notin S => Neighborhood(k)' = Neighborhood(k),
         \A d \in Client : clientId'[d] \in nodes \ S => clientId'[d] = clientId[d] /\ told'[d] = told[d]
  PROVE  PolledByHolder'
  <1> SUFFICES ASSUME NEW d \in Client, NEW k \in nodes, clientId'[d] = k, upToDate'[k]
               PROVE  told'[d] = Neighborhood(k)'
    BY DEF PolledByHolder, Neighborhood
  <1>1. k \in Node
    BY DEF TypeOK
  <1>2. upToDate[k] /\ k \notin S
    BY <1>1 DEF Marked
  <1>3. clientId[d] = k /\ told'[d] = told[d]
    BY <1>2
  <1>4. told[d] = Neighborhood(k)
    BY <1>2, <1>3 DEF PolledByHolder
  <1> QED
    BY <1>1, <1>2, <1>3, <1>4

(***************************************************************************)
(* A login gives a name nobody holds.                                      *)
(***************************************************************************)
LEMMA NamesLoginAs ==
  ASSUME TypeOK, NamesInv, status = "running", loaded,
         NEW c \in Client, clientId[c] = Absent,
         NEW want, NEW n \in Node, LoginAs(c, want, n)
  PROVE  NamesInv'
  <1> DEFINE S == {n} \cup {m \in Node : Adjacent(m, n)}
  <1>1. /\ n \in nodes /\ ~connected[n]
        /\ connected' = [connected EXCEPT ![n] = TRUE]
        /\ clientId' = [clientId EXCEPT ![c] = n]
        /\ told' = [told EXCEPT ![c] = NoList]
        /\ upToDate' = Marked(S)
        /\ UNCHANGED <<status, loaded, nodes, weight>>
    BY DEF LoginAs, Free, graph
  <1>2. \A k \in Node : k \notin S => Neighborhood(k)' = Neighborhood(k)
    BY <1>1, FlipConnected
  <1>3. \A d \in Client : clientId[d] # n
    BY <1>1 DEF NamesInv, ConnectedIsHeld
  <1>4. clientId'[c] = n /\ \A d \in Client : d # c => clientId'[d] = clientId[d] /\ told'[d] = told[d]
    BY <1>1 DEF TypeOK
  <1>5. UniqueIds'
    BY <1>3, <1>4 DEF NamesInv, UniqueIds
  <1>6. ConnectedIsHeld'
    <2> HIDE DEF S
    <2> SUFFICES ASSUME NEW k \in Node
                 PROVE  connected'[k] <=> \E d \in Client : clientId'[d] = k
      BY DEF ConnectedIsHeld
    <2>1. connected[k] <=> \E d \in Client : clientId[d] = k
      BY DEF NamesInv, ConnectedIsHeld
    <2>2. CASE k = n
      <3>1. connected'[n] = TRUE
        BY <1>1 DEF TypeOK
      <3> QED
        BY <1>4, <2>2, <3>1
    <2>3. CASE k # n
      <3>1. connected'[k] = connected[k]
        BY <1>1, <2>3 DEF TypeOK
      <3>2. (\E d \in Client : clientId'[d] = k) <=> (\E d \in Client : clientId[d] = k)
        BY <1>4, <2>3, ControllerAssumption DEF ControllerAssumption
      <3> QED
        BY <2>1, <3>1, <3>2
    <2> QED
      BY <2>2, <2>3
  <1>7. PolledByHolder'
    <2>1. n \in S
      OBVIOUS
    <2> HIDE DEF S
    <2> QED
      BY <1>1, <1>2, <1>4, <2>1, ToldMarked DEF NamesInv
  <1> QED
    BY <1>1, <1>5, <1>6, <1>7 DEF NamesInv

(***************************************************************************)
(* A departure frees the name: no other router holds it.                   *)
(***************************************************************************)
LEMMA NamesLeave ==
  ASSUME TypeOK, NamesInv, status = "running", loaded,
         NEW c \in Client, clientId[c] # Absent, Leave(c)
  PROVE  NamesInv'
  <1> DEFINE n == clientId[c]
             S == {m \in Node : Adjacent(m, n)}
  <1>1. CASE ~(n \in nodes /\ Table!RemoveDivides(T))
    BY <1>1, NamesFrame DEF Leave, Crash, lists
  <1>2. CASE n \in nodes /\ Table!RemoveDivides(T)
    <2>1. /\ n \in Node
          /\ connected' = [connected EXCEPT ![n] = FALSE]
          /\ clientId' = [clientId EXCEPT ![c] = Absent]
          /\ told' = [told EXCEPT ![c] = NoList]
          /\ upToDate' = Marked(S)
          /\ UNCHANGED <<status, loaded, nodes, weight>>
      BY <1>2 DEF Leave, graph, TypeOK
    <2>2. \A k \in Node : k \notin S => Neighborhood(k)' = Neighborhood(k)
      BY <2>1, FlipConnected
    <2>3. clientId'[c] = Absent /\ \A d \in Client : d # c => clientId'[d] = clientId[d] /\ told'[d] = told[d]
      BY <2>1 DEF TypeOK
    <2>4. Absent \notin Node /\ nodes \subseteq Node
      BY ControllerAssumption DEF ControllerAssumption, TypeOK
    <2>5. UniqueIds'
      BY <2>3, <2>4 DEF NamesInv, UniqueIds
    <2>6. ConnectedIsHeld'
      <3> SUFFICES ASSUME NEW k \in Node
                   PROVE  connected'[k] <=> \E d \in Client : clientId'[d] = k
        BY DEF ConnectedIsHeld
      <3>1. connected[k] <=> \E d \in Client : clientId[d] = k
        BY DEF NamesInv, ConnectedIsHeld
      <3>2. CASE k = n
        <4>1. \A d \in Client : clientId'[d] # n
          BY <2>1, <2>3, <2>4 DEF NamesInv, UniqueIds
        <4> QED
          BY <2>1, <3>2, <4>1 DEF TypeOK
      <3>3. CASE k # n
        <4>1. connected'[k] = connected[k]
          BY <2>1, <3>3 DEF TypeOK
        <4>2. (\E d \in Client : clientId'[d] = k) <=> (\E d \in Client : clientId[d] = k)
          BY <2>3, <2>4, <3>3
        <4> QED
          BY <3>1, <4>1, <4>2
      <3> QED
        BY <3>2, <3>3
    <2>7. PolledByHolder'
      <3>1. \A d \in Client : clientId'[d] \in nodes \ S => clientId'[d] = clientId[d] /\ told'[d] = told[d]
        BY <2>3, <2>4
      <3> HIDE DEF n, S
      <3> QED
        BY <2>1, <2>2, <3>1, ToldMarked DEF NamesInv
    <2> QED
      BY <2>1, <2>5, <2>6, <2>7 DEF NamesInv
  <1> QED
    BY <1>1, <1>2

(***************************************************************************)
(* A poll tells the only router that holds the node.                       *)
(***************************************************************************)
LEMMA NamesPoll ==
  ASSUME TypeOK, NamesInv, NEW c \in Client, Poll(c)
  PROVE  NamesInv'
  <1> DEFINE n == clientId[c]
  <1>1. CASE Crash
    BY <1>1, NamesFrame DEF Crash, lists
  <1>2. CASE ~Crash
    <2> HIDE DEF n
    <2>1. /\ upToDate' = [upToDate EXCEPT ![n] = TRUE]
          /\ told' = [told EXCEPT ![c] = Neighborhood(n)]
          /\ UNCHANGED <<status, loaded, nodes, weight, connected, clientId>>
      BY <1>2 DEF Poll, graph, n
    <2>2. n \in Node /\ n = clientId[c]
      BY DEF Poll, TypeOK, n
    <2>3. \A k : Neighborhood(k)' = Neighborhood(k)
      BY <2>1 DEF Neighborhood
    <2>4. PolledByHolder'
      <3> SUFFICES ASSUME NEW d \in Client, clientId[d] \in nodes, upToDate'[clientId[d]]
                   PROVE  told'[d] = Neighborhood(clientId[d])
        BY <2>1, <2>3 DEF PolledByHolder
      <3>1. CASE d = c
        BY <2>1, <2>2, <3>1 DEF TypeOK
      <3>2. CASE d # c
        <4>1. clientId[d] \in Node /\ clientId[d] # n
          BY <2>2, <3>2 DEF NamesInv, UniqueIds, TypeOK
        <4>2. upToDate[clientId[d]] /\ told'[d] = told[d]
          BY <2>1, <2>2, <3>2, <4>1 DEF TypeOK
        <4> QED
          BY <4>2 DEF NamesInv, PolledByHolder
      <3> QED
        BY <3>1, <3>2
    <2> QED
      BY <2>1, <2>4 DEF NamesInv, UniqueIds, ConnectedIsHeld
  <1> QED
    BY <1>1, <1>2

(***************************************************************************)
(* A command on the links moves no name.                                   *)
(***************************************************************************)
LEMMA NamesLinkCommand ==
  ASSUME TypeOK, NamesInv, LinkCommand
  PROVE  NamesInv'
  <1>1. ASSUME UNCHANGED <<status, loaded, nodes, connected, clientId, told>>, PolledByHolder'
        PROVE  NamesInv'
    BY <1>1 DEF NamesInv, UniqueIds, ConnectedIsHeld
  <1>2. ASSUME NEW m \in Node, NEW n \in Node, NEW w, Editing, SetEdge(m, n, w) PROVE NamesInv'
    <2>1. \A k \in Node : k \notin {m, n} => Neighborhood(k)' = Neighborhood(k)
      BY <1>2, ChangeEdge DEF SetEdge
    <2> QED
      BY <1>1, <1>2, <2>1, ToldMarked DEF SetEdge, Editing, lists, NamesInv
  <1>3. ASSUME NEW m \in Node, NEW n \in Node, NEW w \in Weight, AddLink(m, n, w) PROVE NamesInv'
    <2>1. CASE {m, n} \subseteq nodes
      BY <1>2, <1>3, <2>1 DEF AddLink
    <2>2. CASE ~({m, n} \subseteq nodes)
      BY <1>3, <2>2, NamesFrame DEF AddLink, Editing, lists
    <2> QED
      BY <2>1, <2>2
  <1>4. ASSUME NEW n \in Node, Disconnect(n) PROVE NamesInv'
    <2> DEFINE S == {n} \cup {m \in Node : Adjacent(m, n)}
    <2>1. /\ weight' = [e \in Edge |-> IF n \in e THEN NoEdge ELSE weight[e]]
          /\ UNCHANGED <<status, loaded, nodes, connected, clientId, told>>
          /\ upToDate' = Marked(S)
      BY <1>4 DEF Disconnect, Editing, lists
    <2>2. \A k \in Node : k \notin S => Neighborhood(k)' = Neighborhood(k)
      BY <2>1, CutEdges
    <2> HIDE DEF S
    <2>3. PolledByHolder'
      BY <2>1, <2>2, ToldMarked DEF NamesInv
    <2> QED
      BY <1>1, <2>1, <2>3
  <1> QED
    BY <1>2, <1>3, <1>4 DEF LinkCommand, UpdateLink, DelLink

(***************************************************************************)
(* Before a LOAD, a router refused for want of a graph gets no name.       *)
(***************************************************************************)
LEMMA NamesNameless ==
  ASSUME TypeOK, NamesInv, NEW c \in Client, clientId[c] \notin Node,
         NEW id \in {Absent, Garbage}, clientId' = [clientId EXCEPT ![c] = id],
         \A d \in Client : d # c => told'[d] = told[d],
         UNCHANGED <<status, graph, flags>>
  PROVE  NamesInv'
  <1>1. id \notin Node /\ nodes \subseteq Node
    BY ControllerAssumption DEF ControllerAssumption, TypeOK
  <1>2. clientId'[c] = id /\ \A d \in Client : d # c => clientId'[d] = clientId[d]
    BY DEF TypeOK
  <1>3. \A d \in Client : clientId'[d] \in Node => d # c /\ clientId'[d] = clientId[d]
    BY <1>1, <1>2
  <1>4. \A k \in Node : (\E d \in Client : clientId'[d] = k) <=> (\E d \in Client : clientId[d] = k)
    BY <1>2, <1>3
  <1>5. UniqueIds'
    BY <1>3 DEF NamesInv, UniqueIds
  <1>6. ConnectedIsHeld'
    BY <1>4 DEF NamesInv, ConnectedIsHeld, flags
  <1>7. PolledByHolder'
    <2>1. \A k : Neighborhood(k)' = Neighborhood(k)
      BY DEF Neighborhood, graph, flags
    <2>2. nodes' = nodes /\ upToDate' = upToDate
      BY DEF graph, flags
    <2> SUFFICES ASSUME NEW d \in Client, NEW k \in nodes, clientId'[d] = k, upToDate'[k]
                 PROVE  told'[d] = Neighborhood(k)'
      BY <2>2 DEF PolledByHolder, Neighborhood
    <2>3. clientId[d] = k /\ told'[d] = told[d]
      BY <1>1, <1>3
    <2> QED
      BY <2>1, <2>2, <2>3 DEF NamesInv, PolledByHolder
  <1> QED
    BY <1>5, <1>6, <1>7 DEF NamesInv, graph, flags

(***************************************************************************)
(* Only LOAD counts a load.                                                *)
(***************************************************************************)
LEMMA LoadsCounted ==
  ASSUME TypeOK, [Next]_vars, loads' = 0
  PROVE  /\ loads = 0
         /\ ~LoadFails /\ \A topology \in Topology : ~Load(topology)
  <1>1. loads \in Nat
    BY ControllerAssumption DEF ControllerAssumption, TypeOK
  <1>2. ~LoadFails /\ \A topology \in Topology : ~Load(topology)
    BY <1>1 DEF Load, LoadFails
  <1>3. ASSUME NEW c \in Client, RouterEvent(c) PROVE loads' = loads
    BY <1>3 DEF RouterEvent, Login, LoginAs, LoginRefused, ConnectUnloaded, Poll, Logout,
                Disconnected, Leave, FallSilent, Crash
  <1>4. LinkCommand => loads' = loads
    BY DEF LinkCommand, AddLink, UpdateLink, DelLink, Disconnect, SetEdge, Editing
  <1> QED
    BY <1>2, <1>3, <1>4 DEF Next, Quit, vars

(***************************************************************************)
(* Every step keeps the names, until a LOAD.                               *)
(***************************************************************************)
LEMMA NamesStep ==
  ASSUME TypeOK, loads = 0 => NamesInv, [Next]_vars, loads' = 0
  PROVE  NamesInv'
  <1> loads = 0 /\ NamesInv
    BY LoadsCounted
  <1>2. ~LoadFails /\ \A topology \in Topology : ~Load(topology)
    BY LoadsCounted
  <1>3. CASE UNCHANGED vars
    BY <1>3, NamesFrame DEF vars, lists
  <1>4. CASE Quit
    <2>1. Absent \notin Node /\ nodes \subseteq Node /\ nodes' = nodes
      BY <1>4, ControllerAssumption DEF ControllerAssumption, Quit, graph, TypeOK
    <2> QED
      BY <1>4, <2>1 DEF Quit, graph, flags, NamesInv, UniqueIds, ConnectedIsHeld, PolledByHolder
  <1>5. ASSUME NEW c \in Client, RouterEvent(c) PROVE NamesInv'
    <2>0. Absent \notin Node
      BY ControllerAssumption DEF ControllerAssumption
    <2>1. ASSUME NEW want \in Node \cup {Garbage}, Login(c, want) PROVE NamesInv'
      <3>1. CASE Crash
        BY <3>1, NamesFrame DEF Crash, lists
      <3>2. CASE LoginRefused(c) /\ ~Crash
        <4>1. /\ clientId' = [clientId EXCEPT ![c] = Garbage]
              /\ told' = [told EXCEPT ![c] = NoList]
              /\ UNCHANGED <<status, graph, flags>>
          BY <3>2 DEF LoginRefused
        <4>2. \A d \in Client : d # c => told'[d] = told[d]
          BY <4>1 DEF TypeOK
        <4> QED
          BY <2>0, <2>1, <4>1, <4>2, NamesNameless DEF Login
      <3> QED
        BY <2>1, <3>1, <3>2, NamesLoginAs DEF Login
    <2>2. ASSUME ConnectUnloaded(c) PROVE NamesInv'
      BY <2>0, <2>2, NamesNameless DEF ConnectUnloaded, lists
    <2>3. ASSUME Disconnected(c) PROVE NamesInv'
      <3>1. CASE loaded
        BY <2>3, <3>1, NamesLeave DEF Disconnected
      <3>2. CASE ~loaded
        <4>1. clientId[c] \notin Node
          BY <2>3, <3>2 DEF Disconnected, NamesInv, ConnectedIsHeld
        <4> QED
          BY <2>3, <3>2, <4>1, NamesNameless DEF Disconnected, TypeOK
      <3> QED
        BY <3>1, <3>2
    <2>4. ASSUME FallSilent(c) PROVE NamesInv'
      BY <2>4, NamesFrame DEF FallSilent, lists
    <2> QED
      BY <1>5, <2>1, <2>2, <2>3, <2>4, NamesPoll, NamesLeave DEF RouterEvent, Logout
  <1> QED
    BY <1>2, <1>3, <1>4, <1>5, NamesLinkCommand DEF Next

(***************************************************************************)
(* The names and what their holders were told, until a LOAD is given.      *)
(***************************************************************************)
LEMMA NamesInvariant == Spec => [](TypeOK /\ (loads = 0 => NamesInv))
  <1> DEFINE Inv == TypeOK /\ (loads = 0 => NamesInv)
  <1>1. Init => Inv
    BY TypeInit, NamesInit
  <1>2. Inv /\ [Next]_vars => Inv'
    BY TypeStep, NamesStep
  <1> QED
    BY <1>1, <1>2, PTL DEF Spec

(***************************************************************************)
(* Until a LOAD is given at the prompt, no two routers share a name, and a *)
(* node is connected exactly while a router holds its name.                *)
(***************************************************************************)
THEOREM NamesAreHeldOnce == Spec => []HeldOnce
  <1>1. (loads = 0 => NamesInv) => HeldOnce
    BY DEF NamesInv, HeldOnce
  <1> QED
    BY <1>1, NamesInvariant, PTL

(***************************************************************************)
(* As long, the router that holds a node marked up to date is the one that *)
(* received the node's list.                                               *)
(***************************************************************************)
THEOREM HoldersAreTold == Spec => []HolderIsTold
  <1>1. (loads = 0 => NamesInv) => HolderIsTold
    BY DEF NamesInv, HolderIsTold
  <1> QED
    BY <1>1, NamesInvariant, PTL

------------------------------------------------------------------------------

(***************************************************************************)
(* The controller's constants are those of a table whose keys are the      *)
(* nodes.                                                                  *)
(***************************************************************************)
LEMMA TableAssumption == TP!HashTableAssumption
  BY ControllerAssumption
  DEF TP!HashTableAssumption, ControllerAssumption, IsFiniteSet, TP!IsFiniteSet

(***************************************************************************)
(* Table and TP instantiate the same module: their operators are equal.    *)
(***************************************************************************)
LEMMA SameTable ==
  /\ \A num : Table!EmptyTable(num) = TP!EmptyTable(num)
  /\ \A t, k : Table!HasKey(t, k) <=> TP!HasKey(t, k)
  /\ \A t, k : Table!Lookup(t, k) = TP!Lookup(t, k)
  /\ \A t, p : Table!Link(t, p) = TP!Link(t, p)
  /\ \A t : Table!Elements(t) = TP!Elements(t)
  <1>1. \A num : Table!EmptyTable(num) = TP!EmptyTable(num)
    BY DEF Table!EmptyTable, TP!EmptyTable, Table!Buckets, TP!Buckets, Table!Bucket, TP!Bucket
  <1>2. \A t, k : Table!Chain(t, k) = TP!Chain(t, k)
    BY DEF Table!Chain, TP!Chain, Table!Bucket, TP!Bucket
  <1>3. \A t, k : Table!HasKey(t, k) <=> TP!HasKey(t, k)
    BY <1>2 DEF Table!HasKey, TP!HasKey
  <1>4. \A t, k : Table!Lookup(t, k) = TP!Lookup(t, k)
    BY <1>2 DEF Table!Lookup, TP!Lookup, Table!Position, TP!Position
  <1>5. \A t, p : Table!Link(t, p) = TP!Link(t, p)
    <2>1. \A t, k, c, n : Table!WithChain(t, k, c, n) = TP!WithChain(t, k, c, n)
      BY DEF Table!WithChain, TP!WithChain, Table!Bucket, TP!Bucket
    <2>2. ASSUME NEW t, NEW p PROVE Table!Link(t, p) = TP!Link(t, p)
      <3> DEFINE c == TP!Chain(t, p.key)
                 dups == {i \in 2..Len(c) : c[i].key = p.key}
                 put == [i \in DOMAIN c |-> IF i \in dups THEN p ELSE c[i]]
      <3>1. Table!Chain(t, p.key) = c
        BY <1>2
      <3>2. TP!Link(t, p) = IF dups # {} THEN TP!WithChain(t, p.key, put, t.count)
                            ELSE TP!WithChain(t, p.key, Append(c, p), t.count + 1)
        BY DEF TP!Link
      <3>3. Table!Link(t, p) = IF dups # {} THEN Table!WithChain(t, p.key, put, t.count)
                               ELSE Table!WithChain(t, p.key, Append(c, p), t.count + 1)
        BY <3>1 DEF Table!Link
      <3> HIDE DEF put, dups, c
      <3> QED
        BY <2>1, <3>2, <3>3
    <2> QED
      BY <2>2
  <1>6. \A t : Table!Elements(t) = TP!Elements(t)
    BY DEF Table!Elements, TP!Elements, Table!Gathered, TP!Gathered, Table!ChainAt, TP!ChainAt
  <1> QED
    BY <1>1, <1>3, <1>4, <1>5, <1>6

(***************************************************************************)
(* So are the operators built from these.                                  *)
(***************************************************************************)
LEMMA SameResize == \A t, len : Table!Resize(t, len) = TP!Resize(t, len)
  <1>1. \A all, len : Table!Refilled(all, len) = TP!Refilled(all, len)
    BY SameTable DEF Table!Refilled, TP!Refilled
  <1> QED
    BY <1>1, SameTable DEF Table!Resize, TP!Resize

(***************************************************************************)
(* So are the two that change the table.                                   *)
(***************************************************************************)
LEMMA SameAddAndRemove ==
  /\ \A t, k, v : Table!HashAdd(t, k, v) = TP!HashAdd(t, k, v)
  /\ \A t, k : Table!HashRemove(t, k) = TP!HashRemove(t, k)
  <1>1. \A t, k, v : Table!HashAdd(t, k, v) = TP!HashAdd(t, k, v)
    BY SameTable, SameResize DEF Table!HashAdd, TP!HashAdd
  <1>2. \A t : Table!Shrunk(t) = TP!Shrunk(t)
    BY SameResize DEF Table!Shrunk, TP!Shrunk
  <1>3. \A t, k : Table!Chain(t, k) = TP!Chain(t, k) /\ Table!Position(t, k) = TP!Position(t, k)
    BY DEF Table!Chain, TP!Chain, Table!Bucket, TP!Bucket, Table!Position, TP!Position
  <1>4. \A c, i : Table!Unlink(c, i) = TP!Unlink(c, i)
    BY DEF Table!Unlink, TP!Unlink, Table!RemoveAt, TP!RemoveAt
  <1>5. \A t, k, c, n : Table!WithChain(t, k, c, n) = TP!WithChain(t, k, c, n)
    BY DEF Table!WithChain, TP!WithChain, Table!Bucket, TP!Bucket
  <1>6. \A t, k : Table!HashRemove(t, k) = TP!HashRemove(t, k)
    BY <1>2, <1>3, <1>4, <1>5, SameTable DEF Table!HashRemove, TP!HashRemove
  <1> QED
    BY <1>1, <1>6


(***************************************************************************)
(* table__add_info at a login.                                             *)
(***************************************************************************)
LEMMA TableAdds ==
  ASSUME TypeOK, TP!Sound(T), NEW c \in Client, NEW n \in Node,
         T' = IF Table!HasKey(T, n) THEN T ELSE Table!HashAdd(T, n, c)
  PROVE  /\ TP!Sound(T')
         /\ ~Table!HasKey(T, n) =>
              \A j \in Node : \A w : TP!Binds(T', j, w) <=> TP!Binds(T, j, w) \/ (j = n /\ w = c)
  <1>1. CASE Table!HasKey(T, n)
    BY <1>1
  <1>2. CASE ~Table!HasKey(T, n)
    <2>1. ~TP!HasKey(T, n) /\ T' = TP!HashAdd(T, n, c)
      BY <1>2, SameTable, SameAddAndRemove
    <2>2. /\ TP!Sound(TP!HashAdd(T, n, c))
          /\ \A j \in Node : \A w :
               TP!Binds(TP!HashAdd(T, n, c), j, w) <=> TP!Binds(T, j, w) \/ (j = n /\ w = c)
      BY <2>1, TableAssumption, TP!AddSound
    <2> QED
      BY <2>1, <2>2
  <1> QED
    BY <1>1, <1>2

(***************************************************************************)
(* table__delete_info at a departure.                                      *)
(***************************************************************************)
LEMMA TableRemoves ==
  ASSUME TypeOK, TP!Sound(T), NEW n \in Node, Table!RemoveDivides(T), T' = Table!HashRemove(T, n)
  PROVE  /\ TP!Sound(T') /\ TP!Removal(T, T', n)
         /\ TP!SparesHead(T, n) => TP!Keeps(T, T', n)
  <1>1. T' = TP!HashRemove(T, n) /\ T.count # 0
    BY SameAddAndRemove DEF Table!RemoveDivides
  <1>2. /\ TP!Sound(TP!HashRemove(T, n)) /\ TP!Removal(T, TP!HashRemove(T, n), n)
        /\ TP!SparesHead(T, n) => TP!Keeps(T, TP!HashRemove(T, n), n)
    BY <1>1, TableAssumption, TP!RemoveSound
  <1> QED
    BY <1>1, <1>2

(***************************************************************************)
(* No event and no command spoils the table. A LOAD leaves it as it is,    *)
(* even when the names it holds are no longer those of the graph.          *)
(***************************************************************************)
LEMMA TableStep == TypeOK /\ TP!Sound(T) /\ [Next]_vars => TP!Sound(T')
  <1> SUFFICES ASSUME TypeOK, TP!Sound(T), [Next]_vars PROVE TP!Sound(T')
    OBVIOUS
  <1>1. ASSUME T' = T PROVE TP!Sound(T')
    BY <1>1
  <1>2. ASSUME NEW c \in Client, RouterEvent(c) PROVE TP!Sound(T')
    <2>1. ASSUME NEW want \in Node \cup {Garbage}, Login(c, want) PROVE TP!Sound(T')
      <3>1. CASE LoginRefused(c)
        BY <1>1, <3>1 DEF LoginRefused, Crash
      <3>2. ASSUME NEW n \in Node, LoginAs(c, want, n) PROVE TP!Sound(T')
        BY <3>2, TableAdds DEF LoginAs
      <3> QED
        BY <2>1, <3>1, <3>2 DEF Login
    <2>2. ASSUME Leave(c) PROVE TP!Sound(T')
      <3>1. CASE clientId[c] \in nodes /\ Table!RemoveDivides(T)
        <4>1. clientId[c] \in Node /\ T' = Table!HashRemove(T, clientId[c])
          BY <2>2, <3>1 DEF Leave, TypeOK
        <4> QED
          BY <3>1, <4>1, TableRemoves
      <3>2. CASE ~(clientId[c] \in nodes /\ Table!RemoveDivides(T))
        BY <1>1, <2>2, <3>2 DEF Leave, Crash
      <3> QED
        BY <3>1, <3>2
    <2>3. ConnectUnloaded(c) \/ Poll(c) \/ FallSilent(c) => T' = T
      BY DEF ConnectUnloaded, Poll, FallSilent, Crash
    <2>4. Disconnected(c) \/ Logout(c) => T' = T \/ Leave(c)
      BY DEF Disconnected, Logout
    <2> QED
      BY <1>1, <1>2, <2>1, <2>2, <2>3, <2>4 DEF RouterEvent
  <1>3. LinkCommand \/ Quit \/ LoadFails \/ (\E topology \in Topology : Load(topology)) => T' = T
    BY DEF LinkCommand, AddLink, UpdateLink, DelLink, Disconnect, SetEdge, Editing, Quit,
           LoadFails, Load
  <1> QED
    BY <1>1, <1>2, <1>3 DEF Next, vars

(***************************************************************************)
(* The table starts empty.                                                 *)
(***************************************************************************)
LEMMA TableInit == Init => TP!Sound(T) /\ \A n \in Node : \A v : ~TP!Binds(T, n, v)
  <1> SUFFICES ASSUME Init PROVE TP!Sound(T) /\ \A n \in Node : \A v : ~TP!Binds(T, n, v)
    OBVIOUS
  <1>1. KeyNum \in Nat \ {0}
    BY ControllerAssumption DEF ControllerAssumption
  <1>2. T = TP!EmptyTable(KeyNum)
    BY SameTable DEF Init
  <1>3. TP!Sound(TP!EmptyTable(KeyNum)) /\ \A n \in Node : \A v : ~TP!Binds(TP!EmptyTable(KeyNum), n, v)
    BY <1>1, TableAssumption, TP!EmptyIsSound
  <1> QED
    BY <1>2, <1>3

(***************************************************************************)
(* Whatever the routers do and the prompt is told, LOAD included, the      *)
(* information table keeps each name where it hashes to, at most once, and *)
(* counts at least what it stores. What can go wrong with it is only that  *)
(* names are missing.                                                      *)
(***************************************************************************)
THEOREM TableStaysSound == Spec => [](TypeOK /\ TP!Sound(T))
  <1>1. Init => TypeOK /\ TP!Sound(T)
    BY TypeInit, TableInit
  <1>2. TypeOK /\ TP!Sound(T) /\ [Next]_vars => (TypeOK /\ TP!Sound(T))'
    BY TypeStep, TableStep
  <1> QED
    BY <1>1, <1>2, PTL DEF Spec

------------------------------------------------------------------------------

(***************************************************************************)
(* One topology for the whole run, with a name in it for each router.  The *)
(* prompt may name anything.                                               *)
(***************************************************************************)
Steady ==
  /\ MaxLoads = 0
  /\ IsFiniteSet(Client)
  /\ \A topology \in Topology : Cardinality(Client) <= Cardinality(topology.nodes)

(***************************************************************************)
(* The router that leaves is never the second of its chain in the table:   *)
(* see ImplementsMapWhenSpared in InfoTableProofs.                         *)
(***************************************************************************)
HeadsAreSpared == [][\A c \in Client : Leave(c) => TP!SparesHead(T, clientId[c])]_vars

(***************************************************************************)
(* What the steps keep besides the names: there is a name for each router, *)
(* nobody got an empty id, and the table binds each name to the router     *)
(* that holds it and binds no other.  The converse is what makes a login   *)
(* find its name free in the table.                                        *)
(***************************************************************************)
Accounted ==
  /\ loaded => Cardinality(Client) <= Cardinality(nodes)
  /\ loaded => \A c \in Client : clientId[c] \in nodes \cup {Absent}
  /\ status = "running" =>
       \A n \in Node : \A d : TP!Binds(T, n, d) <=> d \in Client /\ clientId[d] = n

(***************************************************************************)
(* The inductive invariant.                                                *)
(***************************************************************************)
SteadyInv == TypeOK /\ NamesInv /\ TP!Sound(T) /\ Accounted

(***************************************************************************)
(* A router that logs in finds a free name: each of the names that are     *)
(* taken has a holder of its own among the other routers.                  *)
(***************************************************************************)
LEMMA NameForEach ==
  ASSUME Steady, SteadyInv, status = "running", loaded, NEW c \in Client, clientId[c] = Absent
  PROVE  Free # {}
  <1> SUFFICES ASSUME Free = {} PROVE FALSE
    OBVIOUS
  <1>0. nodes \subseteq Node /\ IsFiniteSet(nodes)
    BY FS_Subset, ControllerAssumption DEF ControllerAssumption, SteadyInv, TypeOK
  <1>1. \A n \in nodes : \E d \in Client : clientId[d] = n
    BY <1>0 DEF Free, SteadyInv, NamesInv, ConnectedIsHeld
  <1> DEFINE holder == [n \in nodes |-> CHOOSE d \in Client : clientId[d] = n]
             others == Client \ {c}
  <1>2. \A n \in nodes : holder[n] \in Client /\ clientId[holder[n]] = n
    BY <1>1
  <1>3. holder \in [nodes -> others]
    <2>1. \A n \in nodes : holder[n] # c
      BY <1>0, <1>2, ControllerAssumption DEF ControllerAssumption
    <2> QED
      BY <1>2, <2>1
  <1>4. IsFiniteSet(others) /\ Cardinality(others) = Cardinality(Client) - 1
    BY FS_RemoveElement DEF Steady
  <1>5. Cardinality(others) < Cardinality(nodes)
    BY <1>0, <1>4, FS_CardinalityType DEF Steady, SteadyInv, Accounted
  <1> HIDE DEF holder, others
  <1>6. \E m, n \in nodes : m # n /\ holder[m] = holder[n]
    BY <1>0, <1>3, <1>4, <1>5, FS_PigeonHole
  <1> QED
    BY <1>2, <1>6

(***************************************************************************)
(* It holds at the start.                                                  *)
(***************************************************************************)
LEMMA SteadyInit == Steady /\ Init => SteadyInv
  <1> SUFFICES ASSUME Steady, Init PROVE SteadyInv
    OBVIOUS
  <1>1. TypeOK /\ NamesInv /\ TP!Sound(T) /\ \A n \in Node : \A v : ~TP!Binds(T, n, v)
    BY TypeInit, NamesInit, TableInit
  <1>2. \A c \in Client : clientId[c] = Absent
    BY DEF Init
  <1>3. loaded => Cardinality(Client) <= Cardinality(nodes)
    BY DEF Init, Steady
  <1> QED
    BY <1>1, <1>2, <1>3, ControllerAssumption DEF SteadyInv, Accounted, Init, ControllerAssumption

(***************************************************************************)
(* A login is not refused, and enters its name in the table.               *)
(***************************************************************************)
LEMMA SteadyLogin ==
  ASSUME Steady, SteadyInv, NEW c \in Client, NEW want, Login(c, want)
  PROVE  Accounted' /\ status' = status
  <1>1. status = "running" /\ loaded /\ clientId[c] = Absent
    BY DEF Login
  <1>2. PICK n \in Node : LoginAs(c, want, n)
    BY <1>1, NameForEach DEF Login, LoginRefused
  <1>3. /\ n \in nodes /\ ~connected[n]
        /\ T' = IF Table!HasKey(T, n) THEN T ELSE Table!HashAdd(T, n, c)
        /\ clientId' = [clientId EXCEPT ![c] = n]
        /\ UNCHANGED <<status, loaded, nodes, weight>>
    BY <1>2 DEF LoginAs, Free, graph
  <1>4. clientId'[c] = n /\ \A d \in Client : d # c => clientId'[d] = clientId[d]
    BY <1>3 DEF SteadyInv, TypeOK
  <1>5. \A d \in Client : clientId[d] # n
    BY <1>1, <1>3 DEF SteadyInv, NamesInv, ConnectedIsHeld
  <1>6. ~Table!HasKey(T, n)
    <2>1. \A d : ~TP!Binds(T, n, d)
      BY <1>1, <1>5 DEF SteadyInv, Accounted
    <2>2. TP!HasKey(T, n) => \E d : TP!Binds(T, n, d)
      BY TableAssumption, TP!KeysAreBound DEF SteadyInv, TP!Sound
    <2> QED
      BY <2>1, <2>2, SameTable
  <1>7. \A j \in Node : \A w : TP!Binds(T', j, w) <=> TP!Binds(T, j, w) \/ (j = n /\ w = c)
    BY <1>3, <1>6, TableAdds DEF SteadyInv
  <1>8. ASSUME NEW j \in Node, NEW d PROVE TP!Binds(T', j, d) <=> d \in Client /\ clientId'[d] = j
    <2>1. TP!Binds(T, j, d) <=> d \in Client /\ clientId[d] = j
      BY <1>1 DEF SteadyInv, Accounted
    <2>2. Absent \notin Node
      BY ControllerAssumption DEF ControllerAssumption
    <2> QED
      BY <1>1, <1>4, <1>5, <1>7, <2>1, <2>2
  <1> QED
    BY <1>1, <1>3, <1>4, <1>8 DEF SteadyInv, Accounted

(***************************************************************************)
(* A poll finds every connected neighbour in the table.                    *)
(***************************************************************************)
LEMMA SteadyPoll ==
  ASSUME SteadyInv, NEW c \in Client, Poll(c)
  PROVE  Accounted' /\ status' = status
  <1>1. status = "running" /\ loaded
    BY DEF Poll
  <1>2. ASSUME NEW m \in Node, Neighborhood(clientId[c])[m] # NoEdge PROVE Table!HasKey(T, m)
    <2>1. connected[m]
      BY <1>2 DEF Neighborhood
    <2>2. PICK d \in Client : clientId[d] = m
      BY <1>1, <2>1 DEF SteadyInv, NamesInv, ConnectedIsHeld
    <2>3. TP!Binds(T, m, d)
      BY <1>1, <2>2 DEF SteadyInv, Accounted
    <2>4. TP!HasKey(T, m)
      BY <2>3, TableAssumption, TP!KeysAreBound DEF SteadyInv, TP!Sound
    <2> QED
      BY <2>4, SameTable
  <1>3. UNCHANGED <<status, graph, connected, T, clientId, silent, loads, edits>>
    BY <1>2 DEF Poll
  <1> QED
    BY <1>1, <1>3 DEF SteadyInv, Accounted, graph

(***************************************************************************)
(* A departure finds its node and a table that counts it, and forgets no   *)
(* other router.                                                           *)
(***************************************************************************)
LEMMA SteadyLeave ==
  ASSUME SteadyInv, status = "running", loaded, NEW c \in Client, clientId[c] # Absent,
         Leave(c), TP!SparesHead(T, clientId[c])
  PROVE  Accounted' /\ status' = status
  <1> DEFINE n == clientId[c]
  <1>1. n \in Node /\ n \in nodes
    BY DEF SteadyInv, Accounted, TypeOK
  <1>2. TP!Binds(T, n, c)
    BY <1>1 DEF SteadyInv, Accounted
  <1>3. Table!RemoveDivides(T)
    <2>1. T.count # 0
      BY <1>1, <1>2, TableAssumption, TP!StoredIsCounted DEF SteadyInv
    <2> QED
      BY <2>1 DEF Table!RemoveDivides
  <1>4. /\ clientId' = [clientId EXCEPT ![c] = Absent]
        /\ T' = Table!HashRemove(T, n)
        /\ UNCHANGED <<status, loaded, nodes, weight>>
    BY <1>1, <1>3 DEF Leave, graph
  <1>5. clientId'[c] = Absent /\ \A d \in Client : d # c => clientId'[d] = clientId[d]
    BY <1>4 DEF SteadyInv, TypeOK
  <1>6. \A d \in Client : d # c => clientId[d] # n
    BY <1>1 DEF SteadyInv, NamesInv, UniqueIds
  <1>7. TP!Removal(T, T', n) /\ TP!Keeps(T, T', n)
    BY <1>1, <1>3, <1>4, TableRemoves DEF SteadyInv
  <1>8. /\ \A j \in Node : \A d : TP!Binds(T', j, d) => TP!Binds(T, j, d) /\ j # n
        /\ \A j \in Node : \A d : TP!Binds(T, j, d) /\ j # n => TP!Binds(T', j, d)
    BY <1>7, Zenon DEF TP!Removal, TP!Keeps
  <1> HIDE DEF n
  <1>9. ASSUME NEW j \in Node, NEW d PROVE TP!Binds(T', j, d) <=> d \in Client /\ clientId'[d] = j
    <2>1. TP!Binds(T, j, d) <=> d \in Client /\ clientId[d] = j
      BY DEF SteadyInv, Accounted
    <2>2. Absent \notin Node /\ clientId[c] = n
      BY ControllerAssumption DEF ControllerAssumption, n
    <2> QED
      BY <1>5, <1>6, <1>8, <2>1, <2>2
  <1> QED
    BY <1>4, <1>5, <1>9 DEF SteadyInv, Accounted

(***************************************************************************)
(* Every step keeps the invariant.                                         *)
(***************************************************************************)
LEMMA SteadyStep ==
  ASSUME Steady, SteadyInv, [Next]_vars,
         [\A c \in Client : Leave(c) => TP!SparesHead(T, clientId[c])]_vars
  PROVE  SteadyInv'
  <1>1. loads = 0 /\ loads' = 0 /\ TypeOK'
    BY TypeStep, ControllerAssumption DEF SteadyInv, Steady, TypeOK, ControllerAssumption
  <1>2. NamesInv' /\ TP!Sound(T')
    BY <1>1, NamesStep, TableStep DEF SteadyInv
  <1>3. ~LoadFails /\ \A topology \in Topology : ~Load(topology)
    BY <1>1, LoadsCounted DEF SteadyInv
  <1>4. ASSUME UNCHANGED <<status, loaded, nodes, T, clientId>> PROVE Accounted'
    BY <1>4 DEF SteadyInv, Accounted
  <1>5. ASSUME Quit PROVE Accounted'
    <2>1. \A c \in Client : clientId'[c] = Absent
      BY <1>5 DEF Quit
    <2> QED
      BY <1>5, <2>1, ControllerAssumption
      DEF Quit, graph, SteadyInv, Accounted, ControllerAssumption
  <1>6. ASSUME LinkCommand PROVE Accounted'
    <2>1. status = "running" /\ UNCHANGED <<loaded, nodes, T, clientId>>
      BY <1>6 DEF LinkCommand, AddLink, UpdateLink, DelLink, Disconnect, SetEdge, Editing, graph
    <2> QED
      BY <2>1 DEF SteadyInv, Accounted
  <1>7. ASSUME NEW c \in Client, RouterEvent(c) PROVE Accounted'
    <2>1. ASSUME Leave(c), loaded, status = "running", clientId[c] # Absent PROVE Accounted'
      <3>1. CASE UNCHANGED vars
        BY <1>4, <3>1 DEF vars, graph
      <3>2. CASE TP!SparesHead(T, clientId[c])
        BY <2>1, <3>2, SteadyLeave
      <3> QED
        BY <2>1, <3>1, <3>2
    <2>2. ASSUME status = "running", ~loaded, NEW id \in Node \cup {Absent, Garbage},
                 id \in Node => FALSE,
                 clientId' = [clientId EXCEPT ![c] = id],
                 UNCHANGED <<status, loaded, nodes, T>>
          PROVE  Accounted'
      <3>1. \A d \in Client : clientId[d] \notin Node
        BY <2>2 DEF SteadyInv, NamesInv, ConnectedIsHeld
      <3>2. \A d \in Client : clientId'[d] \notin Node
        BY <2>2, <3>1 DEF SteadyInv, TypeOK
      <3>3. \A n \in Node : \A d : ~TP!Binds(T, n, d)
        BY <2>2, <3>1 DEF SteadyInv, Accounted
      <3> QED
        BY <2>2, <3>2, <3>3 DEF SteadyInv, Accounted
    <2>3. CASE ConnectUnloaded(c)
      BY <1>1, <2>2, <2>3, ControllerAssumption DEF ConnectUnloaded, graph, ControllerAssumption
    <2>4. CASE Disconnected(c)
      BY <2>1, <2>2, <2>4, ControllerAssumption DEF Disconnected, graph, ControllerAssumption
    <2>5. CASE FallSilent(c)
      BY <1>4, <2>5 DEF FallSilent, graph
    <2> QED
      BY <1>7, <2>1, <2>3, <2>4, <2>5, SteadyLogin, SteadyPoll DEF RouterEvent, Logout, SteadyInv
  <1>8. ASSUME UNCHANGED vars PROVE Accounted'
    BY <1>4, <1>8 DEF vars, graph
  <1>9. Accounted'
    BY <1>3, <1>5, <1>6, <1>7, <1>8 DEF Next
  <1> QED
    BY <1>1, <1>2, <1>9 DEF SteadyInv

(***************************************************************************)
(* It holds at all times.                                                  *)
(***************************************************************************)
LEMMA SteadyInvariance ==
  ASSUME Steady
  PROVE  Spec /\ HeadsAreSpared => []SteadyInv
  <1>1. Init => SteadyInv
    BY SteadyInit
  <1>2. /\ SteadyInv /\ [Next]_vars
        /\ [\A c \in Client : Leave(c) => TP!SparesHead(T, clientId[c])]_vars
        => SteadyInv'
    BY SteadyStep
  <1> QED
    BY <1>1, <1>2, PTL DEF Spec, HeadsAreSpared

(***************************************************************************)
(* With one topology, enough names and no departure of the second of a     *)
(* chain, the table holds the address of every connected router, and its   *)
(* own.                                                                    *)
(***************************************************************************)
THEOREM TableHoldsTheRouters ==
  ASSUME Steady
  PROVE  Spec /\ HeadsAreSpared => []TableMatchesClients
  <1>1. SteadyInv => TableMatchesClients
    <2> SUFFICES ASSUME SteadyInv, status = "running", NEW c \in Client, clientId[c] \in Node
                 PROVE  Table!HasKey(T, clientId[c]) /\ Table!Lookup(T, clientId[c]) = c
      BY DEF TableMatchesClients
    <2>1. TP!Binds(T, clientId[c], c)
      BY DEF SteadyInv, Accounted
    <2>2. TP!HasKey(T, clientId[c]) /\ TP!Lookup(T, clientId[c]) = c
      BY <2>1, TableAssumption, TP!KeysAreBound DEF SteadyInv, TP!Sound
    <2> QED
      BY <2>2, SameTable
  <1> QED
    BY <1>1, SteadyInvariance, PTL

(***************************************************************************)
(* From a state of the invariant the process dies of nothing but an        *)
(* ADDLINK that names no node.                                             *)
(***************************************************************************)
LEMMA SteadyEnds ==
  ASSUME Steady, SteadyInv, [Next]_vars,
         [\A c \in Client : Leave(c) => TP!SparesHead(T, clientId[c])]_vars
  PROVE  [status = "running" /\ status' = "crashed" => UnknownLinked]_vars
  <1> SUFFICES ASSUME Next, \A c \in Client : Leave(c) => TP!SparesHead(T, clientId[c]),
                      status = "running", status' = "crashed"
               PROVE  UnknownLinked
    BY DEF vars
  <1>1. ASSUME LinkCommand PROVE UnknownLinked
    <2>1. ~(\E m, n \in Node, w \in Weight : UpdateLink(m, n, w))
          /\ ~(\E m, n \in Node : DelLink(m, n)) /\ ~(\E n \in Node : Disconnect(n))
      BY DEF UpdateLink, DelLink, Disconnect, SetEdge
    <2>2. PICK m, n \in Node, w \in Weight : AddLink(m, n, w)
      BY <1>1, <2>1 DEF LinkCommand
    <2>3. ~({m, n} \subseteq nodes)
      BY <2>2 DEF AddLink, SetEdge
    <2> QED
      BY <2>2, <2>3 DEF UnknownLinked
  <1>2. ASSUME NEW c \in Client, RouterEvent(c) PROVE status' = status
    <2>1. ASSUME Leave(c), loaded, clientId[c] # Absent PROVE status' = status
      BY <2>1, SteadyLeave
    <2>2. CASE \E want \in Node \cup {Garbage} : Login(c, want)
      BY <2>2, SteadyLogin
    <2>3. CASE Poll(c)
      BY <2>3, SteadyPoll
    <2>4. CASE Logout(c)
      BY <2>1, <2>4 DEF Logout
    <2>5. CASE Disconnected(c)
      BY <2>1, <2>5 DEF Disconnected
    <2>6. CASE ConnectUnloaded(c) \/ FallSilent(c)
      BY <2>6 DEF ConnectUnloaded, FallSilent
    <2> QED
      BY <1>2, <2>2, <2>3, <2>4, <2>5, <2>6 DEF RouterEvent
  <1>3. ~Quit /\ ~LoadFails /\ \A topology \in Topology : ~Load(topology)
    BY DEF Quit, LoadFails, Load
  <1> QED
    BY <1>1, <1>2, <1>3 DEF Next

(***************************************************************************)
(* Under the same conditions nothing ends the process but QUIT and an      *)
(* ADDLINK of a name that is no node's: no login is refused, no poll       *)
(* misses a neighbour's address, no departure is of an unknown name or     *)
(* divides by zero.  Each condition is needed: the controller crashes      *)
(* without it.                                                             *)
(***************************************************************************)
THEOREM SteadyControllerRuns ==
  ASSUME Steady
  PROVE  Spec /\ HeadsAreSpared => EndsOnlyByCommand
  <1>1. /\ SteadyInv /\ [Next]_vars
        /\ [\A c \in Client : Leave(c) => TP!SparesHead(T, clientId[c])]_vars
        => [status = "running" /\ status' = "crashed" => UnknownLinked]_vars
    BY SteadyEnds
  <1> QED
    BY <1>1, SteadyInvariance, PTL DEF Spec, HeadsAreSpared, EndsOnlyByCommand
===============================================================================
