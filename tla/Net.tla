---------------------------------- MODULE Net ----------------------------------
(***************************************************************************)
(* The network of sockets of one process (src/common/net.c): one call of   *)
(* network__update after another, against peers that connect, write and    *)
(* close when they like.  A handler that an event runs may connect to a    *)
(* peer, or disconnect the client of a pointer it was given earlier.       *)
(***************************************************************************)
EXTENDS Clients, FiniteSets

CONSTANTS
  Peer,         \* the other ends, each with at most one connection at a time
  Unnamed,      \* an id that was never set, and is no name
  NoPeer,
  NoSession,
  NoEvent,
  MaxPending,   \* bound: messages written and not read, per connection
  MaxConnects   \* bound: connections, opened by either side

ASSUME NetAssumption ==
  /\ IsFiniteSet(Peer)
  /\ Unnamed \notin Peer /\ NoPeer \notin Peer
  /\ NoSession \notin Peer \cup {Unnamed}
  /\ MaxPending \in Nat \ {0} /\ MaxConnects \in Nat

VARIABLES
  status,    \* net->status, or "ended" when the process is
  clients,   \* net->clients and net->nb_clients
  backlog,   \* the connections that were not accepted yet
  reading,   \* the connection of the first read after accept, or NoPeer
  sock,      \* the socket of each peer, 0 when there is none
  remote,    \* "away", "there" or "gone": the other end of the connection
  pending,   \* the messages written and not read
  held,      \* the pointer a program keeps for a peer, 0 for none
  connects,  \* connections so far
  event      \* ghost: the last event and the id of the client it was given

peers == <<remote, connects>>
vars  == <<status, clients, backlog, reading, sock, peers, pending, held, event>>

Init ==
  /\ status = "opened"
  /\ clients = NoClients
  /\ backlog = <<>>
  /\ reading = NoPeer
  /\ sock = [p \in Peer |-> 0]
  /\ remote = [p \in Peer |-> "away"]
  /\ pending = [p \in Peer |-> 0]
  /\ held = [p \in Peer |-> 0]
  /\ connects = 0
  /\ event = NoEvent

SockInUse == {sock[p] : p \in Peer} \ {0}

(***************************************************************************)
(* The system gives the lowest number that is free.                        *)
(***************************************************************************)
NewSock == CHOOSE k \in 1..(Cardinality(SockInUse) + 1) :
             k \notin SockInUse /\ \A j \in 1..(k - 1) : j \in SockInUse

PeerOn(k) == CHOOSE p \in Peer : sock[p] = k

------------------------------------------------------------------------------
(***************************************************************************)
(* The peers.                                                              *)
(***************************************************************************)

Dials(p) ==
  /\ status = "opened" /\ remote[p] = "away"
  /\ connects < MaxConnects /\ connects' = connects + 1
  /\ remote' = [remote EXCEPT ![p] = "there"]
  /\ backlog' = Append(backlog, p)
  /\ UNCHANGED <<status, clients, reading, sock, pending, held, event>>

Says(p) ==
  /\ status = "opened" /\ remote[p] = "there" /\ pending[p] < MaxPending
  /\ pending' = [pending EXCEPT ![p] = @ + 1]
  /\ UNCHANGED <<status, clients, backlog, reading, sock, peers, held, event>>

HangsUp(p) ==
  /\ status = "opened" /\ remote[p] = "there"
  /\ remote' = [remote EXCEPT ![p] = "gone"]
  /\ UNCHANGED <<status, clients, backlog, reading, sock, pending, held, connects, event>>

------------------------------------------------------------------------------
(***************************************************************************)
(* network__update.                                                        *)
(***************************************************************************)

Closed ==
  /\ clients' = NoClients
  /\ backlog' = <<>>
  /\ reading' = NoPeer
  /\ sock' = [p \in Peer |-> 0]
  /\ remote' = [p \in Peer |-> "away"]
  /\ pending' = [p \in Peer |-> 0]
  /\ held' = [p \in Peer |-> 0]
  /\ UNCHANGED <<connects, event>>

(***************************************************************************)
(* The connection of p is closed on this side.                             *)
(***************************************************************************)
Forgets(p) ==
  /\ sock' = [sock EXCEPT ![p] = 0]
  /\ remote' = [remote EXCEPT ![p] = "away"]

(***************************************************************************)
(* The closed sockets that are still in the array.                         *)
(***************************************************************************)
DeadSocks == UsedSocks(clients) \ SockInUse

(***************************************************************************)
(* select fails on a socket that is closed, and the process exits.         *)
(***************************************************************************)
SelectFails ==
  /\ status = "opened" /\ reading = NoPeer /\ DeadSocks # {}
  /\ status' = "ended"
  /\ UNCHANGED <<clients, backlog, reading, sock, peers, pending, held, event>>

Selects == status = "opened" /\ reading = NoPeer /\ DeadSocks = {}

(***************************************************************************)
(* The connections are accepted first, in the order they were made.        *)
(***************************************************************************)
Accept ==
  /\ Selects /\ backlog # <<>>
  /\ reading' = Head(backlog)
  /\ backlog' = Tail(backlog)
  /\ sock' = [sock EXCEPT ![Head(backlog)] = NewSock]
  /\ UNCHANGED <<status, clients, peers, pending, held, event>>

(***************************************************************************)
(* Seeded fault: a read returns more than was written.                     *)
(***************************************************************************)
TakesMore(p) == IF pending[p] = 0 THEN {0} ELSE 1..(pending[p] + 1)

(***************************************************************************)
(* A read returns some of what was written; it blocks while there is       *)
(* nothing and the peer has not closed, and returns nothing once it has.   *)
(***************************************************************************)
Ready(p) == pending[p] > 0 \/ remote[p] = "gone"

Takes(p) == IF pending[p] = 0 THEN {0} ELSE 1..pending[p]

(***************************************************************************)
(* The bytes of the stack that become the id of a new client: no name, or  *)
(* the id of the last client that was served.                              *)
(***************************************************************************)
UnsetIds == {Unnamed} \cup (IF event = NoEvent THEN {} ELSE {event[2]})

(***************************************************************************)
(* The first read of an accepted connection, during which nothing else is  *)
(* served; the client is then added and connection_event runs.  The event  *)
(* sets the id of the client and keeps the pointer, or does neither; or it *)
(* disconnects the client.                                                 *)
(***************************************************************************)
FirstRead ==
  /\ status = "opened" /\ reading # NoPeer
  /\ Ready(reading)
  /\ \E k \in Takes(reading), id \in UnsetIds \cup {reading} :
       /\ id \in UnsetIds \/ k > 0
       /\ pending' = [pending EXCEPT ![reading] = @ - k]
       /\ clients' = AddClient(clients, [sock |-> sock[reading], id |-> id])
       /\ held' = [held EXCEPT ![reading] = IF id = reading /\ k > 0 THEN clients'.nb ELSE 0]
       /\ event' = <<"connection", id>>
  /\ reading' = NoPeer
  /\ UNCHANGED <<status, backlog, sock, peers>>

FirstReadRefused ==
  /\ status = "opened" /\ reading # NoPeer
  /\ pending[reading] > 0
  /\ pending' = [pending EXCEPT ![reading] = 0]
  /\ LET client == [sock |-> sock[reading], id |-> Unnamed]
     IN  clients' = RemoveClient(AddClient(clients, client), client)
  /\ Forgets(reading)
  /\ reading' = NoPeer
  /\ UNCHANGED <<status, backlog, connects, held, event>>

(***************************************************************************)
(* Without a connection to accept, the ready client of the lowest index is *)
(* served, and only that one.                                              *)
(***************************************************************************)
Served(i) ==
  /\ i \in Used(clients) /\ Ready(PeerOn(clients.slot[i].sock))
  /\ \A j \in Used(clients) : Ready(PeerOn(clients.slot[j].sock)) => i <= j

(***************************************************************************)
(* network__connect to a peer that listens: no event is raised.            *)
(***************************************************************************)
HandlerConnects(q) ==
  /\ remote[q] = "away"
  /\ connects < MaxConnects /\ connects' = connects + 1
  /\ remote' = [remote EXCEPT ![q] = "there"]
  /\ sock' = [sock EXCEPT ![q] = NewSock]
  /\ clients' = AddClient(clients, [sock |-> NewSock, id |-> q])
  /\ held' = [held EXCEPT ![q] = clients'.nb]
  /\ UNCHANGED status

(***************************************************************************)
(* network__disconnect of a client: its socket is closed, and the first    *)
(* equal client leaves the array, if there is one: the socket may stay in  *)
(* it under another id.                                                    *)
(***************************************************************************)
HandlerDisconnects(client) ==
  /\ clients' = RemoveClient(clients, client)
  /\ IF client.sock \in SockInUse
     THEN Forgets(PeerOn(client.sock))
     ELSE UNCHANGED <<sock, remote>>
  /\ UNCHANGED <<status, connects>>

(***************************************************************************)
(* message_event, with a copy of the client.  The messages of a connection *)
(* that the handler closes are lost.                                       *)
(***************************************************************************)
MessageEvent(i, p) ==
  LET client == clients.slot[i] IN
  /\ pending[p] > 0
  /\ event' = <<"message", client.id>>
  /\ UNCHANGED <<reading, backlog>>
  /\ \E k \in Takes(p) : LET left == [pending EXCEPT ![p] = @ - k] IN
       \/ pending' = left /\ UNCHANGED <<status, clients, sock, peers, held>>
       \/ pending' = left /\ \E q \in Peer : HandlerConnects(q)
       \/ /\ HandlerDisconnects(client)
          /\ pending' = [left EXCEPT ![p] = 0]
          /\ UNCHANGED held
       \/ \E q \in Peer :
            /\ held[q] # 0 /\ held' = [held EXCEPT ![q] = 0]
            /\ HandlerDisconnects(clients.slot[held[q]])
            /\ pending' = [r \in Peer |-> IF sock'[r] = 0 /\ sock[r] # 0 THEN 0 ELSE left[r]]

(***************************************************************************)
(* The peer closed: disconnection_event, then network__disconnect of the   *)
(* local copy of the client.                                               *)
(***************************************************************************)
DisconnectionEvent(i, p) ==
  LET client == clients.slot[i] IN
  /\ pending[p] = 0 /\ remote[p] = "gone"
  /\ event' = <<"disconnection", client.id>>
  /\ HandlerDisconnects(client)
  /\ UNCHANGED <<backlog, reading, pending, held>>

Serve(i) ==
  /\ Selects /\ backlog = <<>>
  /\ Served(i)
  /\ LET p == PeerOn(clients.slot[i].sock)
     IN  MessageEvent(i, p) \/ DisconnectionEvent(i, p)

(***************************************************************************)
(* network__close, by the prompt; or the end of the process.               *)
(***************************************************************************)
Close ==
  /\ status \in {"opened", "ended"}
  /\ status' = "closed"
  /\ Closed

------------------------------------------------------------------------------

Next ==
  \/ \E p \in Peer : Dials(p) \/ Says(p) \/ HangsUp(p)
  \/ Accept \/ FirstRead \/ FirstReadRefused \/ SelectFails
  \/ \E i \in Used(clients) : Serve(i)
  \/ Close

Spec == Init /\ [][Next]_vars

------------------------------------------------------------------------------

Client == [sock : 1..Cardinality(Peer), id : Peer \cup {Unnamed}]

(***************************************************************************)
(* Types of the network's state.                                           *)
(***************************************************************************)
TypeOK ==
  /\ status \in {"opened", "closed", "ended"}
  /\ clients \in [slot : Seq(Client), nb : Nat] /\ clients.nb <= Len(clients.slot)
  /\ backlog \in Seq(Peer)
  /\ reading \in Peer \cup {NoPeer}
  /\ sock \in [Peer -> 0..Cardinality(Peer)]
  /\ remote \in [Peer -> {"away", "there", "gone"}]
  /\ pending \in [Peer -> 0..MaxPending]
  /\ held \in [Peer -> 0..Len(clients.slot)]
  /\ connects \in 0..MaxConnects

(***************************************************************************)
(* However the clients come and go and whatever pointers the program uses, *)
(* no open connection is missing from the array, and no socket is in it    *)
(* twice.                                                                  *)
(***************************************************************************)
SlotsAreConnections ==
  status = "opened" =>
    /\ SockInUse \ {sock[p] : p \in {reading} \cap Peer} \subseteq UsedSocks(clients)
    /\ Cardinality(UsedSocks(clients)) = clients.nb

(***************************************************************************)
(* Pointers that have come to lead to another client do no harm to the     *)
(* array: a socket that is closed stays in it only when the program        *)
(* disconnects a pointer that leads beyond the used slots.                 *)
(***************************************************************************)
OnlyLeftoversHarm ==
  [][DeadSocks' \subseteq DeadSocks \/ \E q \in Peer : held[q] > clients.nb /\ held'[q] = 0]_vars

(***************************************************************************)
(* What the program sees is a set of sessions: the events of a connection  *)
(* come under the id that its client was given, no message is heard twice  *)
(* or, unless the connection is closed on this side, lost.                 *)
(***************************************************************************)
SessionOn(C, k) ==
  LET slots == {i \in Used(C) : C.slot[i].sock = k}
  IN  IF slots = {} THEN NoSession ELSE C.slot[CHOOSE i \in slots : TRUE].id

Abstract == INSTANCE Sessions WITH
  session <- [p \in Peer |-> SessionOn(clients, sock[p])],
  unheard <- pending

ImplementsSessions == Abstract!Spec
==============================================================================
