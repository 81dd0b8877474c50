------------------------------ MODULE Controller ------------------------------
(***************************************************************************)
(* The controller (src/controller): the topology and its per-node flags,   *)
(* the information table and the connected clients, with one action per    *)
(* command of the prompt (exec__prompt_message) and per message or network *)
(* event of a router (exec__sock_message through net_functions.c).         *)
(*                                                                         *)
(* Every handler is one step here.  The two threads that run them without  *)
(* a lock are the subject of ControllerThreads.                            *)
(***************************************************************************)
EXTENDS Naturals, FiniteSets

CONSTANTS
  Node,       \* the names: nodes of the topology files, in file order, and others
  Client,     \* the routers' sockets; a router's address:port is its own
  Weight,     \* the weights of the links
  NoEdge,     \* no link between two nodes
  Topology,   \* the topology files LOAD may open: [nodes, weight]
  Absent,     \* the socket is not in net->clients
  Garbage,    \* an id that is no node's: "" or uninitialised bytes
  NoList,     \* no neighborhood list received yet
  MaxLoads,   \* bound: LOAD commands
  MaxEdits,   \* bound: commands that change the links
  HashCode, KeyNum, KeyRatio   \* of the information table

Edge == {{m, n} : m, n \in Node}

ASSUME ControllerAssumption ==
  /\ Node \subseteq Nat
  /\ IsFiniteSet(Node)
  /\ NoEdge \notin Weight
  /\ Absent \notin Node /\ Garbage \notin Node /\ Absent # Garbage
  /\ Topology \subseteq [nodes : SUBSET Node, weight : [Edge -> Weight \cup {NoEdge}]]
  /\ NoList \notin [Node -> Weight \cup {NoEdge}]
  /\ MaxLoads \in Nat
  /\ MaxEdits \in Nat
  /\ HashCode \in [Node -> Nat]
  /\ KeyNum \in Nat \ {0}
  /\ KeyRatio \in Nat \ {0, 1}

Table == INSTANCE HashTable WITH Key <- Node, Value <- Client

VARIABLES
  status,     \* "running", "quit" or "crashed": the controller's process
  loaded,     \* graph # NULL
  nodes,      \* the nodes of the graph
  weight,     \* the label of each link of the graph, or NoEdge
  connected,  \* is_connected, per node
  upToDate,   \* is_up_to_date, per node
  T,          \* the information table
  clientId,   \* the id of each entry of net->clients
  silent,     \* the routers that hang: their socket is open, they say nothing
  loads,      \* LOAD commands so far
  edits,      \* link commands so far
  sent,       \* ghost: the last list sent in the name of each node
  told        \* ghost: the last list each client received

graph == <<loaded, nodes, weight>>
flags == <<connected, upToDate>>
lists == <<sent, told>>
vars  == <<status, graph, flags, T, clientId, silent, loads, edits, lists>>

List == [Node -> Weight \cup {NoEdge}]

(***************************************************************************)
(* The loop over the edges of n of the POLL handler keeps the neighbours   *)
(* that are connected; the list is what a poll of n should return.         *)
(***************************************************************************)
Neighborhood(n) == [m \in Node |-> IF connected[m] THEN weight[{m, n}] ELSE NoEdge]

Adjacent(m, n) == weight[{m, n}] # NoEdge

(***************************************************************************)
(* Seeded fault: only the nodes of the graph get a flag.                   *)
(***************************************************************************)
MarkedInGraph(S) == [n \in nodes |-> upToDate[n] /\ n \notin S]

(***************************************************************************)
(* is_up_to_date once the nodes of S have been marked for their next poll. *)
(***************************************************************************)
Marked(S) == [n \in Node |-> upToDate[n] /\ n \notin S]

NoTopology == [nodes |-> {}, weight |-> [e \in Edge |-> NoEdge]]

(***************************************************************************)
(* main: the file named on the command line, if any, is loaded before the  *)
(* prompt and the network start.                                           *)
(***************************************************************************)
Init ==
  /\ status = "running"
  /\ \/ loaded = FALSE /\ nodes = NoTopology.nodes /\ weight = NoTopology.weight
     \/ \E topology \in Topology :
          loaded = TRUE /\ nodes = topology.nodes /\ weight = topology.weight
  /\ connected = [n \in Node |-> FALSE]
  /\ upToDate = [n \in Node |-> FALSE]
  /\ T = Table!EmptyTable(KeyNum)
  /\ clientId = [c \in Client |-> Absent]
  /\ silent = {}
  /\ loads = 0
  /\ edits = 0
  /\ sent = [n \in Node |-> NoList]
  /\ told = [c \in Client |-> NoList]

------------------------------------------------------------------------------
(***************************************************************************)
(* Events of the network thread.                                           *)
(***************************************************************************)

(***************************************************************************)
(* A segmentation fault, an abort or a division by zero: the process dies  *)
(* and what it held no longer matters.                                     *)
(***************************************************************************)
Crash ==
  /\ status' = "crashed"
  /\ UNCHANGED <<graph, flags, T, clientId, silent, loads, edits, lists>>

(***************************************************************************)
(* Seeded fault: a name is given without looking at is_connected.          *)
(***************************************************************************)
FreeOrNot == nodes

Free == {n \in nodes : ~connected[n]}

(***************************************************************************)
(* connection_event with "log in as <want>" while the node n is given:     *)
(* want itself when it is free, the first free node of the file otherwise. *)
(***************************************************************************)
LoginAs(c, want, n) ==
  /\ n \in Free
  /\ IF want \in Free THEN n = want ELSE \A m \in Free : n <= m
  /\ T' = IF Table!HasKey(T, n) THEN T ELSE Table!HashAdd(T, n, c)
  /\ connected' = [connected EXCEPT ![n] = TRUE]
  /\ upToDate' = Marked({n} \cup {m \in Node : Adjacent(m, n)})
  /\ clientId' = [clientId EXCEPT ![c] = n]
  /\ told' = [told EXCEPT ![c] = NoList]
  /\ UNCHANGED <<status, graph, silent, loads, edits, sent>>

(***************************************************************************)
(* No node is free: the handler puts a string literal in node1, the client *)
(* gets it as its id, and mess__free then frees it.  The allocator aborts, *)
(* or the process goes on with a client that has an empty id.              *)
(***************************************************************************)
LoginRefused(c) ==
  /\ Free = {}
  /\ \/ Crash
     \/ /\ clientId' = [clientId EXCEPT ![c] = Garbage]
        /\ told' = [told EXCEPT ![c] = NoList]
        /\ UNCHANGED <<status, graph, flags, T, silent, loads, edits, sent>>

Login(c, want) ==
  /\ status = "running" /\ loaded
  /\ clientId[c] = Absent
  /\ LoginRefused(c) \/ \E n \in Node : LoginAs(c, want, n)

(***************************************************************************)
(* connection_event without a topology: "log out" is sent, but the entry   *)
(* stays in net->clients.  Its id was never set: these bytes of the stack  *)
(* frame may be the id of a client served under an earlier topology.       *)
(***************************************************************************)
ConnectUnloaded(c) ==
  /\ status = "running" /\ ~loaded
  /\ clientId[c] = Absent
  /\ \E id \in IF loads = 0 THEN {Garbage} ELSE Node \cup {Garbage} :
        clientId' = [clientId EXCEPT ![c] = id]
  /\ UNCHANGED <<status, graph, flags, T, silent, loads, edits, lists>>

(***************************************************************************)
(* message_event with "poll", for a client whose node must be told.  The   *)
(* address of a listed neighbour is read from the table without a test:    *)
(* the process dies when the table does not have it.  A poll that finds    *)
(* is_up_to_date set, no such node or no topology changes nothing.         *)
(***************************************************************************)
Poll(c) ==
  /\ status = "running" /\ loaded
  /\ c \notin silent
  /\ clientId[c] \in nodes /\ ~upToDate[clientId[c]]
  /\ LET n == clientId[c]
     IN  IF \A m \in Node : Neighborhood(n)[m] # NoEdge => Table!HasKey(T, m)
         THEN /\ upToDate' = [upToDate EXCEPT ![n] = TRUE]
              /\ sent' = [sent EXCEPT ![n] = Neighborhood(n)]
              /\ told' = [told EXCEPT ![c] = Neighborhood(n)]
              /\ UNCHANGED <<status, graph, connected, T, clientId, silent, loads, edits>>
         ELSE Crash

(***************************************************************************)
(* The LOGOUT handler for the client's id, then network__disconnect.  The  *)
(* handler dereferences the node without a test, and the table divides by  *)
(* its count.                                                              *)
(***************************************************************************)
Leave(c) ==
  LET n == clientId[c]
  IN  IF n \in nodes /\ Table!RemoveDivides(T)
      THEN /\ connected' = [connected EXCEPT ![n] = FALSE]
           /\ upToDate' = Marked({m \in Node : Adjacent(m, n)})
           /\ T' = Table!HashRemove(T, n)
           /\ clientId' = [clientId EXCEPT ![c] = Absent]
           /\ silent' = silent \ {c}
           /\ told' = [told EXCEPT ![c] = NoList]
           /\ UNCHANGED <<status, graph, loads, edits, sent>>
      ELSE Crash

(***************************************************************************)
(* message_event with "log out"; without a topology it is not answered and *)
(* the client stays.                                                       *)
(***************************************************************************)
Logout(c) ==
  /\ status = "running" /\ loaded
  /\ clientId[c] # Absent /\ c \notin silent
  /\ Leave(c)

(***************************************************************************)
(* The router's socket closes: disconnection_event makes up a "log out"    *)
(* for its id, and network__update removes the client in any case.         *)
(***************************************************************************)
Disconnected(c) ==
  /\ status = "running"
  /\ clientId[c] # Absent
  /\ IF loaded
     THEN Leave(c)
     ELSE /\ clientId' = [clientId EXCEPT ![c] = Absent]
          /\ silent' = silent \ {c}
          /\ told' = [told EXCEPT ![c] = NoList]
          /\ UNCHANGED <<status, graph, flags, T, loads, edits, sent>>

(***************************************************************************)
(* A router hangs, or its host does, and its connection stays open.        *)
(***************************************************************************)
FallSilent(c) ==
  /\ status = "running"
  /\ clientId[c] # Absent /\ c \notin silent
  /\ silent' = silent \cup {c}
  /\ UNCHANGED <<status, graph, flags, T, clientId, loads, edits, lists>>

------------------------------------------------------------------------------
(***************************************************************************)
(* Commands of the prompt.                                                 *)
(***************************************************************************)

(***************************************************************************)
(* LOAD of a file that opens: a new graph with its flags cleared.  The     *)
(* clients and the information table stay as they are.                     *)
(***************************************************************************)
Load(topology) ==
  /\ status = "running" /\ loads < MaxLoads
  /\ loaded' = TRUE
  /\ nodes' = topology.nodes
  /\ weight' = topology.weight
  /\ connected' = [n \in Node |-> FALSE]
  /\ upToDate' = [n \in Node |-> FALSE]
  /\ loads' = loads + 1
  /\ UNCHANGED <<status, T, clientId, silent, edits, lists>>

(***************************************************************************)
(* LOAD of a file that does not open: graph becomes NULL.                  *)
(***************************************************************************)
LoadFails ==
  /\ status = "running" /\ loads < MaxLoads
  /\ loaded
  /\ loaded' = FALSE
  /\ nodes' = NoTopology.nodes
  /\ weight' = NoTopology.weight
  /\ connected' = [n \in Node |-> FALSE]
  /\ upToDate' = [n \in Node |-> FALSE]
  /\ loads' = loads + 1
  /\ UNCHANGED <<status, T, clientId, silent, edits, lists>>

(***************************************************************************)
(* Every command on the links needs a topology (CHECK_GRAPH).              *)
(***************************************************************************)
Editing ==
  /\ status = "running" /\ loaded
  /\ edits < MaxEdits /\ edits' = edits + 1
  /\ UNCHANGED <<T, clientId, silent, loads, lists>>

(***************************************************************************)
(* Seeded fault: one end of the link is forgotten.                         *)
(***************************************************************************)
SetEdgeOneEnd(m, n, w) ==
  /\ weight' = [weight EXCEPT ![{m, n}] = w]
  /\ upToDate' = Marked({m})
  /\ UNCHANGED <<status, loaded, nodes, connected>>

SetEdge(m, n, w) ==
  /\ weight' = [weight EXCEPT ![{m, n}] = w]
  /\ upToDate' = Marked({m, n})
  /\ UNCHANGED <<status, loaded, nodes, connected>>

(***************************************************************************)
(* ADDLINK adds an absent link; a name that is no node's is dereferenced.  *)
(***************************************************************************)
AddLink(m, n, w) ==
  /\ Editing
  /\ ~Adjacent(m, n)
  /\ IF {m, n} \subseteq nodes
     THEN SetEdge(m, n, w)
     ELSE status' = "crashed" /\ UNCHANGED <<graph, flags>>

(***************************************************************************)
(* UPDATELINK and DELLINK act on a link that is there, whatever its weight *)
(***************************************************************************)
UpdateLink(m, n, w) == Editing /\ Adjacent(m, n) /\ SetEdge(m, n, w)

DelLink(m, n) == Editing /\ Adjacent(m, n) /\ SetEdge(m, n, NoEdge)

(***************************************************************************)
(* DISCONNECT removes every link of a node; its router stays connected.    *)
(***************************************************************************)
Disconnect(n) ==
  /\ Editing
  /\ n \in nodes
  /\ weight' = [e \in Edge |-> IF n \in e THEN NoEdge ELSE weight[e]]
  /\ upToDate' = Marked({n} \cup {m \in Node : Adjacent(m, n)})
  /\ UNCHANGED <<status, loaded, nodes, connected>>

(***************************************************************************)
(* QUIT closes the network and ends the prompt, on which main waits.       *)
(***************************************************************************)
Quit ==
  /\ status = "running"
  /\ status' = "quit"
  /\ clientId' = [c \in Client |-> Absent]
  /\ silent' = {}
  /\ told' = [c \in Client |-> NoList]
  /\ UNCHANGED <<graph, flags, T, loads, edits, sent>>

------------------------------------------------------------------------------

RouterEvent(c) ==
  \/ \E want \in Node \cup {Garbage} : Login(c, want)
  \/ ConnectUnloaded(c)
  \/ Poll(c)
  \/ Logout(c)
  \/ Disconnected(c)
  \/ FallSilent(c)

LinkCommand ==
  \/ \E m, n \in Node, w \in Weight : AddLink(m, n, w) \/ UpdateLink(m, n, w)
  \/ \E m, n \in Node : DelLink(m, n)
  \/ \E n \in Node : Disconnect(n)

Next ==
  \/ \E c \in Client : RouterEvent(c)
  \/ \E topology \in Topology : Load(topology)
  \/ LoadFails
  \/ LinkCommand
  \/ Quit

Spec == Init /\ [][Next]_vars

(***************************************************************************)
(* Router::controllerLoop polls every controllerUpdateInterval seconds for *)
(* as long as the router runs, and network__update serves what it reads.   *)
(***************************************************************************)
FairSpec == Spec /\ \A c \in Client : WF_vars(Poll(c))

------------------------------------------------------------------------------

(***************************************************************************)
(* Types of the graph, its flags and the clients.                          *)
(***************************************************************************)
TypeOK ==
  /\ status \in {"running", "quit", "crashed"}
  /\ loaded \in BOOLEAN
  /\ nodes \subseteq Node
  /\ weight \in [Edge -> Weight \cup {NoEdge}]
  /\ connected \in [Node -> BOOLEAN]
  /\ upToDate \in [Node -> BOOLEAN]
  /\ clientId \in [Client -> Node \cup {Absent, Garbage}]
  /\ silent \in SUBSET Client
  /\ loads \in 0..MaxLoads
  /\ edits \in 0..MaxEdits
  /\ sent \in [Node -> List \cup {NoList}]
  /\ told \in [Client -> List \cup {NoList}]

(***************************************************************************)
(* A node that is marked up to date has been sent, at the last poll in its *)
(* name, exactly its current list: whatever logins, departures and link    *)
(* commands came since, none of them changed what it should know without   *)
(* clearing its flag.                                                      *)
(***************************************************************************)
Freshness == \A n \in nodes : upToDate[n] => sent[n] = Neighborhood(n)

(***************************************************************************)
(* Two routers never hold the same name.                                   *)
(***************************************************************************)
UniqueIds == \A c, d \in Client : clientId[c] \in Node /\ clientId[c] = clientId[d] => c = d

ConnectedIsHeld ==
  status = "running" => \A n \in Node : connected[n] <=> \E c \in Client : clientId[c] = n

(***************************************************************************)
(* Under the topology of the command line two routers never hold the same  *)
(* name, and a node counts as connected exactly while some router holds    *)
(* its name: none leaks, none is given away twice over.  A LOAD forgets    *)
(* who holds what.                                                         *)
(***************************************************************************)
HeldOnce == loads = 0 => UniqueIds /\ ConnectedIsHeld

PolledByHolder ==
  \A c \in Client : clientId[c] \in nodes /\ upToDate[clientId[c]]
                      => told[c] = Neighborhood(clientId[c])

(***************************************************************************)
(* As long, the router that holds a node marked up to date is the one that *)
(* received the node's list: nobody polled in its place.                   *)
(***************************************************************************)
HolderIsTold == loads = 0 => PolledByHolder

(***************************************************************************)
(* The table holds the address of every connected router, and its own.     *)
(***************************************************************************)
TableMatchesClients ==
  status = "running" =>
    \A c \in Client : clientId[c] \in Node =>
      Table!HasKey(T, clientId[c]) /\ Table!Lookup(T, clientId[c]) = c

(***************************************************************************)
(* Under one topology, with a name in it for each router, no sequence of   *)
(* routers' events and prompt's commands ends the process, other than QUIT *)
(* and an ADDLINK of a name that is no node's.                             *)
(***************************************************************************)
UnknownLinked ==
  \E m, n \in Node, w \in Weight : ~({m, n} \subseteq nodes) /\ AddLink(m, n, w)

EndsOnlyByCommand ==
  [][status = "running" /\ status' = "crashed" => UnknownLinked]_vars

(***************************************************************************)
(* A change of a router's neighbourhood reaches it at one of its next      *)
(* polls, or it leaves, hangs or the controller quits.                     *)
(***************************************************************************)
ChangesAreTold ==
  \A c \in Client :
    clientId[c] \in nodes /\ told[c] # Neighborhood(clientId[c])
      ~> \/ clientId[c] \in nodes /\ told[c] = Neighborhood(clientId[c])
         \/ clientId[c] \notin nodes \/ c \in silent \/ status # "running"
==============================================================================
