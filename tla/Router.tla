-------------------------------- MODULE Router --------------------------------
(***************************************************************************)
(* The routers and what they do to know their neighbours and the way to    *)
(* every other router: log in, poll the controller, connect to the         *)
(* neighbours it lists, exchange distance vectors (src/router/router.cpp,  *)
(* exec.cpp, sock_actions.cpp, event.cpp over src/common/net.c).           *)
(*                                                                         *)
(* The controller is what module Controller shows it to be: it sends a     *)
(* router that polls its current list whenever that list may have changed. *)
(* No order is assumed among the connections of a router that have         *)
(* something to read: what is written takes any time to arrive.            *)
(***************************************************************************)
EXTENDS RouteTable, Clients, SequencesExt

CONSTANTS
  Node,         \* the routers, numbered in the order of their names
  Weight,
  NoEdge,       \* no link between two routers
  Topology,     \* the links the controller may start with
  Started,      \* the sets of routers that may run at the start
  Leaving,      \* the routers that may be stopped
  Command,      \* <<m, n, w>>: the link of m and n is given w at the prompt
  Controller,   \* the id "controlleur"
  Unnamed,      \* an id that is no router's: bytes of the stack
  NoList,       \* no list read yet
  Open,         \* sockets of connections
  NotAccepted,  \* numbers of connections not accepted yet
  Free, Gone,   \* of a socket: there is none; the other side has closed
  EraseMayEnd,  \* the links of an erased element of the map may be unreadable
  NoBound,
  MaxLists,     \* bound: lists of neighbours sent and unread
  MaxUnread,    \* bound: vectors sent whose answer was not read, each way
  MaxVectors,   \* bound: vectors sent, or NoBound
  MaxLogins,    \* bound: logins
  MaxEdits,     \* bound: commands on the links
  MaxQuits,     \* bound: routers that are stopped
  MaxLost       \* bound: reads of several messages together, unreadable vectors

Edge == {{m, n} : m, n \in Node}
List == UNION {[S -> Weight] : S \in SUBSET Node}
Name == Node \cup {Unnamed, Controller}
Sock == Open \cup NotAccepted
End  == Node \X Sock

ASSUME RouterAssumption ==
  /\ Node \subseteq Nat \ {0} /\ IsFiniteSet(Node) /\ Node # {}
  /\ Weight \subseteq 1..(Half - 1) /\ NoEdge \notin Weight
  /\ \A t \in Topology : t \in [Edge -> Weight \cup {NoEdge}] /\ \A n \in Node : t[{n}] = NoEdge
  /\ Started \subseteq SUBSET Node /\ Leaving \subseteq Node
  /\ Command \subseteq Node \X Node \X (Weight \cup {NoEdge})
  /\ Unnamed \notin Node /\ Controller \notin Node /\ Unnamed # Controller
  /\ Sock \subseteq Nat \ {0, 1} /\ Open \cap NotAccepted = {}
  /\ 2..Cardinality(Node) \subseteq Open
  /\ Free # Gone /\ Free \notin End /\ Gone \notin End
  /\ NoList \notin List /\ NoClient \notin Nat
  /\ IsFiniteSet(Open) /\ IsFiniteSet(NotAccepted)
  /\ EraseMayEnd \in BOOLEAN

VARIABLES
  up,        \* the router's process runs
  table,     \* routeTable
  clients,   \* net->clients, net->nb_clients; the first is the controller
  net,       \* the connections between the routers
  list,      \* the lists the router's polls were answered with, unread
  known,     \* the controller counts the router as connected
  stale,     \* the controller has news for the router
  weight,    \* the label of each link of the controller's graph, or NoEdge
  served,    \* the id of the router's client that was served last
  told,      \* ghost: the last list the router read
  moved,     \* ghost: some client of the router was removed from the array
  borrowed,  \* ghost: the sockets of the clients whose id was left unset
  misread,   \* ghost: the router read a vector from one of these
  vectors, logins, edits, quits, lost   \* counts, for the bounds

controller == <<known, stale, weight>>
serving    == <<served, misread>>
counts     == <<vectors, logins, edits, quits, lost>>
vars       == <<up, table, clients, net, list, controller, told, moved, borrowed, serving, counts>>

------------------------------------------------------------------------------
(***************************************************************************)
(* Connections.  net.peer[n][k] is the other end of the socket k of n,     *)
(* net.inbox[n][k] what can be read from it, net.backlog[n] the            *)
(* connections n has not accepted, in their order.                         *)
(***************************************************************************)

Lowest(S) == CHOOSE k \in S : \A j \in S : k <= j

FreeAmong(N, n, S) == {k \in S : N.peer[n][k] = Free}

WithBox(N, n, k, box) ==
  [peer |-> N.peer, inbox |-> [N.inbox EXCEPT ![n][k] = box], backlog |-> N.backlog]

Write(N, n, k, m) ==
  IF k \in Sock /\ N.peer[n][k] \in End
  THEN LET e == N.peer[n][k] IN WithBox(N, e[1], e[2], Append(N.inbox[e[1]][e[2]], m))
  ELSE N

CloseSock(N, n, k) ==
  LET there == N.peer[n][k]
      peer  == [N.peer EXCEPT ![n][k] = Free]
  IN  [peer    |-> IF there \in End THEN [peer EXCEPT ![there[1]][there[2]] = Gone] ELSE peer,
       inbox   |-> [N.inbox EXCEPT ![n][k] = <<>>],
       backlog |-> N.backlog]

(***************************************************************************)
(* The process of n ends: all its connections are closed.                  *)
(***************************************************************************)
CloseAll(N, n) ==
  [peer  |-> [m \in Node |-> [k \in Sock |->
                IF m = n THEN Free
                ELSE IF N.peer[m][k] \in {n} \X Sock THEN Gone ELSE N.peer[m][k]]],
   inbox |-> [N.inbox EXCEPT ![n] = [k \in Sock |-> <<>>]],
   backlog |-> [N.backlog EXCEPT ![n] = <<>>]]

LinkMessage(n)  == [type |-> "link", id |-> n]
LinkOk          == [type |-> "link ok"]
VectorMessage(v) == [type |-> "vector", vector |-> v]
VectorOk        == [type |-> "vector ok"]
Unreadable      == [type |-> "unreadable"]

(***************************************************************************)
(* n opens a connection to s, which listens, and writes LINK on it.        *)
(***************************************************************************)
Connected(N, n, s) ==
  LET k == Lowest(FreeAmong(N, n, Open))
      j == Lowest(FreeAmong(N, s, NotAccepted))
  IN  [peer    |-> [N.peer EXCEPT ![n][k] = <<s, j>>, ![s][j] = <<n, k>>],
       inbox   |-> [N.inbox EXCEPT ![s][j] = <<LinkMessage(n)>>],
       backlog |-> [N.backlog EXCEPT ![s] = Append(@, j)]]

(***************************************************************************)
(* accept gives the first connection of the backlog its socket.            *)
(***************************************************************************)
Accepted(N, n) ==
  LET j == Head(N.backlog[n])
      k == Lowest(FreeAmong(N, n, Open))
      there == N.peer[n][j]
      peer  == [N.peer EXCEPT ![n][k] = there, ![n][j] = Free]
  IN  [peer    |-> IF there \in End THEN [peer EXCEPT ![there[1]][there[2]] = <<n, k>>] ELSE peer,
       inbox   |-> [N.inbox EXCEPT ![n][k] = N.inbox[n][j], ![n][j] = <<>>],
       backlog |-> [N.backlog EXCEPT ![n] = Tail(@)]]

------------------------------------------------------------------------------
(***************************************************************************)
(* Processes.                                                              *)
(***************************************************************************)

NoNet == [peer    |-> [n \in Node |-> [k \in Sock |-> Free]],
          inbox   |-> [n \in Node |-> [k \in Sock |-> <<>>]],
          backlog |-> [n \in Node |-> <<>>]]

OnlyController == AddClient(NoClients, [sock |-> 1, id |-> Controller])

Adjacent(m, n) == weight[{m, n}] # NoEdge

(***************************************************************************)
(* At the start the routers of S run.  They logged in one after the other, *)
(* long ago, read their lists and are linked with their neighbours, but    *)
(* sent no vector yet.                                                     *)
(***************************************************************************)
Near(n, S) == IF n \in S THEN {m \in S : Adjacent(m, n)} ELSE {}

SlotFor(n, m, S) == 1 + Cardinality({q \in Near(n, S) : q <= m})

LinkedClients(n, S) ==
  LET nb == 1 + Cardinality(Near(n, S))
      neighbor(i) == CHOOSE m \in Near(n, S) : SlotFor(n, m, S) = i
  IN  [slot |-> [i \in 1..nb |-> IF i = 1 THEN [sock |-> 1, id |-> Controller]
                                          ELSE [sock |-> i, id |-> neighbor(i)]],
       nb |-> nb]

LinkedTable(n, S) ==
  [m \in Near(n, S) |-> Opened(NoTable, m, weight[{m, n}], SlotFor(n, m, S))[m]]

LinkedPeer(n, k, S) ==
  IF \E m \in Near(n, S) : k = SlotFor(n, m, S)
  THEN LET m == CHOOSE m \in Near(n, S) : k = SlotFor(n, m, S) IN <<m, SlotFor(m, n, S)>>
  ELSE Free

Init ==
  /\ weight \in Topology
  /\ \E S \in Started :
       /\ up = [n \in Node |-> n \in S]
       /\ known = up
       /\ table = [n \in Node |-> LinkedTable(n, S)]
       /\ clients = [n \in Node |-> IF n \in S THEN LinkedClients(n, S) ELSE NoClients]
       /\ net = [NoNet EXCEPT !.peer = [n \in Node |-> [k \in Sock |-> LinkedPeer(n, k, S)]]]
       /\ told = [n \in Node |-> IF n \in S THEN [m \in Near(n, S) |-> weight[{m, n}]] ELSE NoList]
  /\ list = [n \in Node |-> <<>>]
  /\ stale = [n \in Node |-> FALSE]
  /\ served = [n \in Node |-> Controller]
  /\ moved = [n \in Node |-> FALSE]
  /\ borrowed = [n \in Node |-> {}]
  /\ misread = [n \in Node |-> FALSE]
  /\ vectors = 0 /\ logins = 0 /\ edits = 0 /\ quits = 0 /\ lost = 0

(***************************************************************************)
(* The process of n ends, by the user, an exception or a signal.           *)
(***************************************************************************)
Ends(n, N) ==
  /\ up' = [up EXCEPT ![n] = FALSE]
  /\ table' = [table EXCEPT ![n] = NoTable]
  /\ clients' = [clients EXCEPT ![n] = NoClients]
  /\ net' = CloseAll(N, n)
  /\ list' = [list EXCEPT ![n] = <<>>]
  /\ told' = [told EXCEPT ![n] = NoList]
  /\ moved' = [moved EXCEPT ![n] = FALSE]
  /\ borrowed' = [borrowed EXCEPT ![n] = {}]

(***************************************************************************)
(* network__send to the client c, with t as the table of n: the process    *)
(* ends when the pointer is null, and may, killed by a signal, when the    *)
(* other side has closed.                                                  *)
(***************************************************************************)
Sends(n, t, c, m, N) ==
  \/ /\ c # NoClient
     /\ table' = [table EXCEPT ![n] = t]
     /\ net' = Write(N, n, clients[n].slot[c].sock, m)
     /\ UNCHANGED <<up, clients, list, told, moved, borrowed>>
  \/ /\ c = NoClient \/ (c # NoClient /\ N.peer[n][clients[n].slot[c].sock] = Gone)
     /\ Ends(n, N)

------------------------------------------------------------------------------
(***************************************************************************)
(* The controller.                                                         *)
(***************************************************************************)

Routed == <<up, table, clients, net, list, told, moved, borrowed, serving>>

MarkedStale(S) == [n \in Node |-> stale[n] \/ n \in S]

(***************************************************************************)
(* Router::Router and the controller's LOGIN handler.                      *)
(***************************************************************************)
Login(n) ==
  /\ ~up[n] /\ ~known[n]
  /\ logins < MaxLogins /\ logins' = logins + 1
  /\ up' = [up EXCEPT ![n] = TRUE]
  /\ clients' = [clients EXCEPT ![n] = OnlyController]
  /\ known' = [known EXCEPT ![n] = TRUE]
  /\ stale' = MarkedStale({n} \cup {m \in Node : Adjacent(m, n)})
  /\ served' = [served EXCEPT ![n] = Unnamed]
  /\ misread' = [misread EXCEPT ![n] = FALSE]
  /\ UNCHANGED <<table, net, list, weight, told, moved, borrowed, vectors, edits, quits, lost>>

(***************************************************************************)
(* What the controller's graph and its flags say of n.                     *)
(***************************************************************************)
Neighborhood(n) == [m \in {m \in Node : Adjacent(m, n) /\ known[m]} |-> weight[{m, n}]]

(***************************************************************************)
(* Router::controllerLoop: a poll, of a router that has to be told, and    *)
(* its answer, which is only read later.  Any other poll is answered       *)
(* "neighborhood ok", which changes nothing and is not kept track of.      *)
(***************************************************************************)
Poll(n) ==
  /\ up[n] /\ stale[n] /\ Len(list[n]) < MaxLists
  /\ list' = [list EXCEPT ![n] = Append(@, Neighborhood(n))]
  /\ stale' = [stale EXCEPT ![n] = FALSE]
  /\ UNCHANGED <<up, table, clients, net, known, weight, told, moved, borrowed, serving, counts>>

(***************************************************************************)
(* The controller reads that the connection of n has closed.               *)
(***************************************************************************)
SeesClosed(n) ==
  /\ known[n] /\ ~up[n]
  /\ known' = [known EXCEPT ![n] = FALSE]
  /\ stale' = MarkedStale({m \in Node : Adjacent(m, n)})
  /\ UNCHANGED <<Routed, weight, counts>>

(***************************************************************************)
(* ADDLINK, UPDATELINK or DELLINK at the controller's prompt.              *)
(***************************************************************************)
Edit(m, n, w) ==
  /\ m # n /\ weight[{m, n}] # w
  /\ edits < MaxEdits /\ edits' = edits + 1
  /\ weight' = [weight EXCEPT ![{m, n}] = w]
  /\ stale' = MarkedStale({m, n})
  /\ UNCHANGED <<Routed, known, vectors, logins, quits, lost>>

------------------------------------------------------------------------------
(***************************************************************************)
(* Lists of neighbours (Router::parseNeighborhood).                        *)
(***************************************************************************)

(***************************************************************************)
(* One neighbour of the list that is not in the table.  network__connect   *)
(* fails when it does not run any more or when one of the two has no       *)
(* socket left; its null result is dereferenced.                           *)
(***************************************************************************)
OpensOne(n, L, h, s) ==
  IF ~h.ok \/ ~up[s] \/ FreeAmong(h.net, n, Open) = {} \/ FreeAmong(h.net, s, NotAccepted) = {}
  THEN [h EXCEPT !.ok = FALSE]
  ELSE LET k == Lowest(FreeAmong(h.net, n, Open))
           C == AddClient(h.clients, [sock |-> k, id |-> s])
       IN  [ok |-> TRUE, clients |-> C, net |-> Connected(h.net, n, s),
            table |-> Opened(h.table, s, L[s], C.nb)]

(***************************************************************************)
(* What a loop over names has done when it has passed each name.           *)
(***************************************************************************)
Highest == CHOOSE n \in Node : \A m \in Node : m <= n

Opening(n, L) ==
  LET passed[s \in 0..Highest] ==
        IF s = 0 THEN [ok |-> TRUE, clients |-> clients[n], net |-> net, table |-> table[n]]
        ELSE IF s \in DOMAIN L \ DOMAIN table[n] THEN OpensOne(n, L, passed[s - 1], s)
        ELSE passed[s - 1]
  IN  passed

Opens(n, L) == Opening(n, L)[Highest]

Confirms(t, L, S) == [s \in DOMAIN t |-> IF s \in S THEN Confirmed(t, s, L[s])[s] ELSE t[s]]

(***************************************************************************)
(* network__disconnect of a neighbour that is not in the list: of whatever *)
(* client its pointer now leads to.  A socket that is closed and stays in  *)
(* the array makes the next select fail, and the process exit.             *)
(***************************************************************************)
ClosesOne(n, g, s) ==
  IF ~g.ok \/ g.table[s].client = NoClient THEN [g EXCEPT !.ok = FALSE]
  ELSE LET client == g.clients.slot[g.table[s].client]
           C == RemoveClient(g.clients, client)
       IN  [ok |-> client.sock \notin UsedSocks(C), clients |-> C,
            net |-> CloseSock(g.net, n, client.sock), table |-> g.table]

Closing(n, h, S) ==
  LET passed[s \in 0..Highest] ==
        IF s = 0 THEN h ELSE IF s \in S THEN ClosesOne(n, passed[s - 1], s) ELSE passed[s - 1]
  IN  passed

Closes(n, h, S) == Closing(n, h, S)[Highest]

(***************************************************************************)
(* An empty list clears the table, and closes nothing.  The parser gives   *)
(* it as a string of one byte, and parseNeighborhood reads the next ones:  *)
(* the process ends if they are not zero.                                  *)
(***************************************************************************)
EmptyListRead(n) ==
  \/ /\ table' = [table EXCEPT ![n] = NoTable]
     /\ told' = [told EXCEPT ![n] = Head(list[n])]
     /\ list' = [list EXCEPT ![n] = Tail(@)]
     /\ UNCHANGED <<up, clients, net, moved, borrowed>>
  \/ Ends(n, net)

ListRead(n, L) ==
  LET opened == Opens(n, L)
      all    == [opened EXCEPT !.table = Confirms(@, L, DOMAIN L \cap DOMAIN table[n])]
      gone   == Unlisted(all.table, L) \cup Unreached(all.table, L)
  IN  \E E \in ErasedByLoop(all.table, gone) :
        LET closed == Closes(n, all, Unlisted(all.table, L) \cap E)
        IN  \/ /\ closed.ok
               /\ table' = [table EXCEPT ![n] = Without(all.table, E)]
               /\ clients' = [clients EXCEPT ![n] = closed.clients]
               /\ net' = closed.net
               /\ told' = [told EXCEPT ![n] = L]
               /\ list' = [list EXCEPT ![n] = Tail(@)]
               /\ borrowed' = [borrowed EXCEPT ![n] = {k \in @ : closed.net.peer[n][k] # Free}]
               /\ moved' = [moved EXCEPT ![n] = @ \/ closed.clients.nb < opened.clients.nb]
               /\ UNCHANGED up
            \/ /\ ~closed.ok \/ (EraseMayEnd /\ E # {})
               /\ Ends(n, closed.net)

ReadList(n) ==
  /\ up[n] /\ list[n] # <<>>
  /\ LET L == Head(list[n]) IN IF DOMAIN L = {} THEN EmptyListRead(n) ELSE ListRead(n, L)
  /\ UNCHANGED <<controller, serving, counts>>

(***************************************************************************)
(* Answers of the controller are read together and not recognised: several *)
(* lists, or a list and a "neighborhood ok".  The controller takes the     *)
(* router for told.  An empty list and a next one that ends the read make  *)
(* one list, whose only element has no weight: parseNeighborhood ends the  *)
(* process.                                                                *)
(***************************************************************************)
ListsLost(n) ==
  /\ up[n] /\ list[n] # <<>>
  /\ lost < MaxLost /\ lost' = lost + 1
  /\ \/ \E j \in 1..Len(list[n]) :
          /\ list' = [list EXCEPT ![n] = SubSeq(@, j + 1, Len(@))]
          /\ UNCHANGED <<up, table, clients, net, told, moved, borrowed>>
     \/ Len(list[n]) > 1 /\ DOMAIN Head(list[n]) = {} /\ Ends(n, net)
  /\ UNCHANGED <<controller, serving, vectors, logins, edits, quits>>

------------------------------------------------------------------------------
(***************************************************************************)
(* Messages between routers (Exec::sock_message).                          *)
(***************************************************************************)

(***************************************************************************)
(* What is in the id of a new client until it is set: bytes of the frame   *)
(* of network__update, where it may stand in the place of the client that  *)
(* was served last, a router or, as any poll is answered, the controller.  *)
(***************************************************************************)
UnsetIds(n) == {Unnamed, Controller, served[n]}

(***************************************************************************)
(* Seeded fault: the new client is left without an id.                     *)
(***************************************************************************)
AcceptUnnamed(n) ==
  /\ up[n] /\ net.backlog[n] # <<>> /\ FreeAmong(net, n, Open) # {}
  /\ LET k == Lowest(FreeAmong(net, n, Open))
         N == Accepted(net, n)
         m == Head(N.inbox[n][k]).id
         new == m \notin DOMAIN table[n]
         C == AddClient(clients[n], [sock |-> k, id |-> Unnamed])
     IN  /\ table' = IF new THEN [table EXCEPT ![n] = Linked(@, m, C.nb)] ELSE table
         /\ clients' = [clients EXCEPT ![n] = C]
         /\ net' = Write(WithBox(N, n, k, Tail(N.inbox[n][k])), n, k, LinkOk)
         /\ borrowed' = IF new THEN borrowed ELSE [borrowed EXCEPT ![n] = @ \cup {k}]
  /\ UNCHANGED <<up, list, controller, told, moved, serving, counts>>

(***************************************************************************)
(* The oldest connection is accepted and LINK is read from it.  The client *)
(* is given an id, and its router an entry, only if the table has none.  A *)
(* process that has no descriptor left accepts nothing.                    *)
(***************************************************************************)
Accept(n) ==
  /\ up[n] /\ net.backlog[n] # <<>> /\ FreeAmong(net, n, Open) # {}
  /\ LET k == Lowest(FreeAmong(net, n, Open))
         N == Accepted(net, n)
         m == Head(N.inbox[n][k]).id
         new == m \notin DOMAIN table[n]
     IN  \E id \in IF new THEN {m} ELSE UnsetIds(n) :
           LET C == AddClient(clients[n], [sock |-> k, id |-> id])
           IN  /\ table' = IF new THEN [table EXCEPT ![n] = Linked(@, m, C.nb)] ELSE table
               /\ clients' = [clients EXCEPT ![n] = C]
               /\ net' = Write(WithBox(N, n, k, Tail(N.inbox[n][k])), n, k, LinkOk)
               /\ borrowed' = IF new THEN borrowed ELSE [borrowed EXCEPT ![n] = @ \cup {k}]
  /\ UNCHANGED <<up, list, controller, told, moved, serving, counts>>

(***************************************************************************)
(* LINK is read together with what follows it, and is not recognised.      *)
(***************************************************************************)
AcceptLost(n) ==
  /\ up[n] /\ net.backlog[n] # <<>> /\ FreeAmong(net, n, Open) # {}
  /\ lost < MaxLost /\ lost' = lost + 1
  /\ LET k == Lowest(FreeAmong(net, n, Open)) IN
       /\ Len(net.inbox[n][Head(net.backlog[n])]) > 1
       /\ \E id \in UnsetIds(n) :
            clients' = [clients EXCEPT ![n] = AddClient(@, [sock |-> k, id |-> id])]
       /\ net' = WithBox(Accepted(net, n), n, k, <<>>)
       /\ borrowed' = [borrowed EXCEPT ![n] = @ \cup {k}]
  /\ UNCHANGED <<up, table, list, controller, told, moved, serving, vectors, logins, edits, quits>>

(***************************************************************************)
(* parseVector, vectorAck and the access to the entry of the client's id.  *)
(* An id without an entry gets a default one, and the answer no client.    *)
(***************************************************************************)
VectorRead(n, id, vector, N) ==
  LET t == Touched(table[n], id)
      learned == LearnedFrom(t, id)
  IN  \/ \E E \in ErasedByLoop(t, learned) :
           LET u == Merged(Without(t, E), n, id, vector)
           IN  Sends(n, u, u[id].client, VectorOk, N)
      \/ EraseMayEnd /\ learned # {} /\ Ends(n, N)

Receive(n, i) ==
  /\ up[n] /\ i \in 2..clients[n].nb
  /\ LET client == clients[n].slot[i]
         k == client.sock
         m == Head(net.inbox[n][k])
         N == WithBox(net, n, k, Tail(net.inbox[n][k]))
     IN  /\ net.inbox[n][k] # <<>>
         /\ \/ m.type = "vector" /\ VectorRead(n, client.id, m.vector, N)
            \/ /\ m.type \in {"link ok", "vector ok", "unreadable"}
               /\ table' = IF m.type = "vector ok" THEN [table EXCEPT ![n] = Touched(@, client.id)]
                           ELSE table
               /\ net' = N
               /\ UNCHANGED <<up, clients, list, told, moved, borrowed>>
         /\ served' = [served EXCEPT ![n] = client.id]
         /\ misread' = [misread EXCEPT ![n] = @ \/ (m.type = "vector" /\ k \in borrowed[n])]
  /\ UNCHANGED <<controller, counts>>

(***************************************************************************)
(* Several messages are read together, and not recognised.  Two vectors of *)
(* which the first is empty make one vector, when the second ends the read:*)
(* its only element has no distance, and parseVector ends the process.     *)
(***************************************************************************)
Coalesced(n, i) ==
  /\ up[n] /\ i \in 2..clients[n].nb
  /\ lost < MaxLost /\ lost' = lost + 1
  /\ LET k == clients[n].slot[i].sock
         box == net.inbox[n][k]
         halves(j) == /\ box[1].type = "vector" /\ DOMAIN box[1].vector = {}
                      /\ {h \in 2..j : box[h].type = "vector"} = {j}
     IN  /\ \E j \in 2..Len(box) :
              IF halves(j) THEN Ends(n, net)
              ELSE /\ net' = WithBox(net, n, k, SubSeq(box, j + 1, Len(box)))
                   /\ UNCHANGED <<up, table, clients, list, told, moved, borrowed>>
         /\ served' = [served EXCEPT ![n] = clients[n].slot[i].id]
  /\ UNCHANGED <<controller, misread, vectors, logins, edits, quits>>

(***************************************************************************)
(* The other side has closed and nothing is left to read: the client leaves*)
(* the array, and the table is not looked at.  A client whose id is the    *)
(* controller's makes Event::disconnect end the process.                   *)
(***************************************************************************)
PeerClosed(n, i) ==
  /\ up[n] /\ i \in 2..clients[n].nb
  /\ LET client == clients[n].slot[i]
     IN  /\ net.peer[n][client.sock] = Gone /\ net.inbox[n][client.sock] = <<>>
         /\ \/ /\ client.id # Controller
               /\ clients' = [clients EXCEPT ![n] = RemoveClient(@, client)]
               /\ net' = CloseSock(net, n, client.sock)
               /\ moved' = [moved EXCEPT ![n] = TRUE]
               /\ borrowed' = [borrowed EXCEPT ![n] = @ \ {client.sock}]
               /\ UNCHANGED <<up, table, list, told>>
            \/ client.id = Controller /\ Ends(n, net)
         /\ served' = [served EXCEPT ![n] = client.id]
  /\ UNCHANGED <<controller, misread, counts>>

Unanswered(n, k) ==
  LET there == net.peer[n][k]
      of(box, type) == Len(SelectSeq(box, LAMBDA m : m.type = type))
  IN  of(net.inbox[n][k], "vector ok")
      + IF there \in End THEN of(net.inbox[there[1]][there[2]], "vector") ELSE 0

(***************************************************************************)
(* Router::routerLoop, for one complete neighbour.  The string of the      *)
(* vector is used after it was freed: what is sent is the vector, or a     *)
(* text that no router recognises when the memory has changed meanwhile.   *)
(***************************************************************************)
SendVector(n, s) ==
  /\ up[n] /\ s \in DOMAIN table[n]
  /\ table[n][s].near /\ table[n][s].full
  /\ LET c == table[n][s].client
     IN  /\ c # NoClient => Unanswered(n, clients[n].slot[c].sock) < MaxUnread
         /\ \/ /\ Sends(n, table[n], c, VectorMessage(Vector(table[n], s)), net)
               /\ UNCHANGED lost
            \/ /\ lost < MaxLost /\ lost' = lost + 1
               /\ Sends(n, table[n], c, Unreadable, net)
  /\ IF MaxVectors = NoBound THEN UNCHANGED vectors
     ELSE vectors < MaxVectors /\ vectors' = vectors + 1
  /\ UNCHANGED <<controller, serving, logins, edits, quits>>

Quit(n) ==
  /\ up[n] /\ n \in Leaving
  /\ quits < MaxQuits /\ quits' = quits + 1
  /\ Ends(n, net)
  /\ UNCHANGED <<controller, serving, vectors, logins, edits, lost>>

------------------------------------------------------------------------------

ControllerStep ==
  \/ \E n \in Node : Login(n) \/ Poll(n) \/ SeesClosed(n)
  \/ \E c \in Command : Edit(c[1], c[2], c[3])

Serve(n) ==
  \/ ReadList(n) \/ ListsLost(n) \/ Accept(n) \/ AcceptLost(n)
  \/ \E i \in Used(clients[n]) : Receive(n, i) \/ Coalesced(n, i) \/ PeerClosed(n, i)

Next ==
  \/ ControllerStep
  \/ \E n \in Node : Serve(n) \/ Quit(n)
  \/ \E n, s \in Node : SendVector(n, s)

Spec == Init /\ [][Next]_vars

------------------------------------------------------------------------------
(***************************************************************************)
(* Properties.                                                             *)
(***************************************************************************)

(***************************************************************************)
(* Types: entries are about other routers or about ids that are no         *)
(* router's, their distance is an int and their client a slot of the array.*)
(***************************************************************************)
RouterTypeOK ==
  /\ \A n \in Node : \A s \in DOMAIN table[n] :
       /\ s \in Name \ {n}
       /\ table[n][s].nextHop \in Name \cup {NoHop}
       /\ table[n][s].dist \in -Half..(Half - 1)
       /\ table[n][s].client \in 1..Len(clients[n].slot) \cup {NoClient}
  /\ \A n \in Node, k \in Sock : net.peer[n][k] \in End \cup {Free, Gone}
  /\ \A n \in Node : list[n] \in Seq(List) /\ (list[n] # <<>> => up[n])
  /\ \A n \in Node : (up[n] => known[n]) /\ stale[n] \in BOOLEAN
  /\ \A n \in Node : served[n] \in Name \ {n} /\ borrowed[n] \subseteq Sock /\ misread[n] \in BOOLEAN

(***************************************************************************)
(* The other end of a socket is the socket whose other end it is.          *)
(***************************************************************************)
Leads(n, k, s) == net.peer[n][k] = Gone \/ net.peer[n][k] \in {s} \X Sock

(***************************************************************************)
(* A client that a LINK or a list gave an id is connected with the router  *)
(* of that id, or with nobody any more: however connections cross, close   *)
(* and are opened again, the ids that are given do not get mixed up.       *)
(***************************************************************************)
RightNames ==
  \A n \in Node : \A i \in 2..clients[n].nb :
    LET client == clients[n].slot[i]
    IN  client.sock \notin borrowed[n] => client.id \in Node /\ Leads(n, client.sock, client.id)

(***************************************************************************)
(* As long as no client has left the array, the pointer of a neighbour's   *)
(* entry, when it is not null, is a connection with that neighbour.        *)
(***************************************************************************)
PointersLead ==
  \A n \in Node : ~moved[n] =>
    \A s \in DOMAIN table[n] :
      LET e == table[n][s] IN
      e.near /\ e.client # NoClient =>
        /\ e.client \in 2..clients[n].nb
        /\ clients[n].slot[e.client].id = s
        /\ Leads(n, clients[n].slot[e.client].sock, s)

(***************************************************************************)
(* The distance of a neighbour that is reached directly is the cost in the *)
(* last list, whatever vectors were read since: unless one of them came    *)
(* from a client whose id was left unset, and was read as another's.       *)
(***************************************************************************)
NeighborCost ==
  \A n \in Node : ~misread[n] => \A s \in DOMAIN table[n] :
    LET e == table[n][s] IN
    e.near /\ e.full /\ e.nextHop = s => s \in DOMAIN told[n] /\ e.dist = told[n][s]

(***************************************************************************)
(* What is 0 at s and rises along no link by more than its weight is never *)
(* above the length of a path to s, and the highest such estimate is the   *)
(* length of the shortest one.                                             *)
(***************************************************************************)
Estimates(s, top) ==
  {p \in [Node -> 0..top] :
     p[s] = 0 /\ \A m, n \in Node : Adjacent(m, n) => p[m] - p[n] <= weight[{m, n}]}

(***************************************************************************)
(* No distance is shorter than the shortest path, although vectors give a  *)
(* router its own routes back: no estimate is above it.                    *)
(***************************************************************************)
NeverTooShort ==
  \A n \in Node : \A s \in DOMAIN table[n] :
    LET dist == table[n][s].dist IN
    dist >= 0 /\ \A p \in Estimates(s, dist + 1) : p[n] <= dist

(***************************************************************************)
(* Next hops, followed from any router to any other, never go round: they  *)
(* lead out of every set of routers that the destination is not in.        *)
(***************************************************************************)
NoLoops ==
  \A d \in Node : \A S \in SUBSET (Node \ {d}) :
    S # {} => \E n \in S : d \notin DOMAIN table[n] \/ table[n][d].nextHop \notin S

InOrder(S) == SetToSortSeq(S, <)

(***************************************************************************)
(* The lengths of the walks of at most |Node| links from m to n.           *)
(***************************************************************************)
Lengths ==
  LET further(L, h) ==
        [m, n \in Node |-> L[m, n] \cup
           UNION {{l + weight[{q, n}] : l \in L[m, q]} : q \in {q \in Node : q # n /\ Adjacent(q, n)}}]
      none == [m, n \in Node |-> IF m = n THEN {0} ELSE {}]
  IN  FoldLeft(further, none, InOrder(Node))

(***************************************************************************)
(* Every table has every router that can be reached, at the distance of a  *)
(* shortest path, through a neighbour that is on one.                      *)
(***************************************************************************)
Shortest ==
  LET L == Lengths IN
  \A n \in Node :
    /\ DOMAIN table[n] = {d \in Node \ {n} : L[n, d] # {}}
    /\ \A d \in DOMAIN table[n] :
         LET h == table[n][d].nextHop IN
         /\ table[n][d].dist = Lowest(L[n, d])
         /\ Adjacent(n, h) /\ weight[{n, h}] + Lowest(L[h, d]) = table[n][d].dist

(***************************************************************************)
(* Nothing changes any more: every router runs, has read its current list, *)
(* has the neighbours of the list, and would learn nothing from the vector *)
(* of any of them.                                                         *)
(***************************************************************************)
Stable ==
  \A n \in Node :
    /\ up[n] /\ told[n] = Neighborhood(n)
    /\ \A m \in DOMAIN told[n] :
         /\ m \in DOMAIN table[n] /\ table[n][m].near
         /\ Merged(Without(table[n], LearnedFrom(table[n], m)), n, m, Vector(table[m], n)) = table[n]

(***************************************************************************)
(* The only tables the exchange of vectors can come to rest at are those   *)
(* of the shortest paths: whatever was lost, crossed or erased on the way, *)
(* no wrong route can keep itself alive.                                   *)
(***************************************************************************)
StableIsShortest == Stable => Shortest

(***************************************************************************)
(* rapport_intermediaire.tex:144: a router that has read its list has a    *)
(* permanent connection with each of its neighbours.                       *)
(***************************************************************************)
ListedAreConnected ==
  \A n \in Node : told[n] # NoList =>
    \A s \in DOMAIN told[n] : up[s] =>
      /\ s \in DOMAIN table[n] /\ table[n][s].near /\ table[n][s].client # NoClient
      /\ net.peer[n][clients[n].slot[table[n][s].client].sock] \in {s} \X Sock
==============================================================================
