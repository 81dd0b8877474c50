------------------------------ MODULE Forwarding ------------------------------
(***************************************************************************)
(* How routers send, forward and answer packets, pings and pongs           *)
(* (src/router/exec.cpp, sock_actions.cpp and prompt_actions.cpp), over    *)
(* connections that are already open.  The route tables are given: polls   *)
(* and vectors may replace that of a router by another at any moment.      *)
(*                                                                         *)
(* A connection delivers in order.  A message that is read together with   *)
(* another one, of this module or of the routing, may not be recognised,   *)
(* and is lost: mess__multiline_parse does not split a buffer at '*'.      *)
(***************************************************************************)
EXTENDS Integers, Sequences, FiniteSets

CONSTANTS
  Node,          \* the routers
  Neighbor,      \* the routers each router has a connection with
  Table,         \* the route tables a router may have: [router -> [dest -> next]]
  Unknown,       \* a destination that is not in the route table
  NoClient,      \* a next hop whose entry has no client
  DefaultTTL,    \* default-ttl-value
  PingPackets,   \* default-ping-packet-count
  RouteProbes,   \* bound: pings of a route command (10 in the code)
  User,          \* bound: the routers whose prompt is used
  MaxOf,         \* bound: commands of each kind at one prompt
  MaxChanges     \* bound: changes of the route tables

Command == {"message", "ping", "route"}

ASSUME ForwardingAssumption ==
  /\ Unknown \notin Node /\ NoClient \notin Node /\ Unknown # NoClient
  /\ Neighbor \in [Node -> SUBSET Node]
  /\ Table \subseteq [Node -> [Node -> Node \cup {Unknown, NoClient}]]
  /\ \A t \in Table, n, d \in Node : t[n][d] \in Node => t[n][d] \in Neighbor[n]
  /\ \A t \in Table, n \in Node : t[n][n] = Unknown
  /\ DefaultTTL \in Nat /\ PingPackets \in Nat \ {0} /\ RouteProbes \in Nat \ {0}
  /\ User \subseteq Node
  /\ MaxOf \in [Command -> Nat]
  /\ MaxChanges \in Nat

VARIABLES
  up,         \* the router's process runs
  route,      \* routeTable, as what nextClient answers for each destination
  link,       \* what was written on each connection and not yet read
  prompt,     \* the pings a command still has to send
  seqnum,     \* seqnum, per router
  pending,    \* the keys of messageTimes
  pingCount,  \* pingCount
  waiting,    \* isWaitingForRoute
  routeDest,  \* routeDest
  shown,      \* the hops a route command displayed; routeCount is its length
  issued,     \* commands so far
  changes,    \* changes of the route tables so far
  delivered,  \* ghost: the packets displayed at their destination
  answers,    \* ghost: what was displayed of each message of a router
  lost        \* ghost: some message was read together with another one

commandVars == <<prompt, seqnum, issued>>
replyVars   == <<pending, pingCount, waiting, routeDest, shown, answers>>
vars == <<up, route, link, changes, commandVars, replyVars, delivered, lost>>

Limit == IF RouteProbes > DefaultTTL THEN RouteProbes ELSE DefaultTTL

(***************************************************************************)
(* A message; "given" and "hops" are ghosts: the TTL it was sent with, and *)
(* the count of the routers that forwarded it (up to one more than Limit). *)
(***************************************************************************)
Message ==
  [type : {"packet", "ping", "pong"}, accept : {"not", "ok", "toofar", "ttlzero"},
   src : Node, dst : Node, ttl : Int, seq : Nat,
   given : Nat, hops : Nat]

NoPrompt == [op |-> "none", dst |-> Unknown, via |-> Unknown, next |-> 0]

Init ==
  /\ up = [n \in Node |-> TRUE]
  /\ route \in Table
  /\ link = [e \in Node \X Node |-> <<>>]
  /\ prompt = [n \in Node |-> NoPrompt]
  /\ seqnum = [n \in Node |-> 0]
  /\ pending = [n \in Node |-> {}]
  /\ pingCount = [n \in Node |-> 0]
  /\ waiting = [n \in Node |-> FALSE]
  /\ routeDest = [n \in Node |-> Unknown]
  /\ shown = [n \in Node |-> <<>>]
  /\ issued = [n \in Node |-> [c \in Command |-> 0]]
  /\ changes = 0
  /\ delivered = {}
  /\ answers = [n \in Node |-> {}]
  /\ lost = FALSE

------------------------------------------------------------------------------
(***************************************************************************)
(* Sending.                                                                *)
(***************************************************************************)

(***************************************************************************)
(* Only a message that is not an answer carries its TTL; the parser leaves *)
(* -1 in the others.                                                       *)
(***************************************************************************)
Limited(m) == m.accept = "not"

OnWire(m) == IF Limited(m) THEN m ELSE [m EXCEPT !.ttl = -1]

(***************************************************************************)
(* Where network__send writes for the client of the next hop.  Once the    *)
(* connection of a neighbour closed, remove_client has moved the clients   *)
(* that entries point to: any other one, or none that is open.             *)
(***************************************************************************)
Targets(n, via) == IF \A m \in Neighbor[n] : up[m] THEN {via} ELSE Neighbor[n] \cup {NoClient}

Written(l, n, to, m) ==
  IF to \in Node /\ up[to] THEN [l EXCEPT ![<<n, to>>] = Append(@, OnWire(m))] ELSE l

(***************************************************************************)
(* The process of n ends; what was written to it is lost.                  *)
(***************************************************************************)
Ends(n, l) ==
  /\ up' = [up EXCEPT ![n] = FALSE]
  /\ link' = [e \in Node \X Node |-> IF e[2] = n THEN <<>> ELSE l[e]]

(***************************************************************************)
(* network__send: the process ends when it has no client, and may end,     *)
(* killed by a signal, when it writes on a connection that was closed.     *)
(***************************************************************************)
Sends(n, via, m, l) ==
  \/ /\ via \in Node
     /\ \E to \in Targets(n, via) : link' = Written(l, n, to, m)
     /\ UNCHANGED up
  \/ /\ via \notin Node \/ \E q \in Neighbor[n] : ~up[q]
     /\ Ends(n, l)

(***************************************************************************)
(* SockActions::forward and the end of reverse.  UnknownDest is not caught *)
(* in the network's thread: the process ends, as with no client.           *)
(***************************************************************************)
Forward(n, m, l) == Sends(n, route[n][m.dst], m, l)

(***************************************************************************)
(* Seeded fault: the source and the destination are not swapped.           *)
(***************************************************************************)
ReversedInPlace(m) == [m EXCEPT !.ttl = DefaultTTL, !.given = DefaultTTL, !.hops = 0]

(***************************************************************************)
(* SockActions::reverse, before it sends.                                  *)
(***************************************************************************)
Reversed(m) ==
  [m EXCEPT !.src = m.dst, !.dst = m.src, !.ttl = DefaultTTL, !.given = DefaultTTL, !.hops = 0]

------------------------------------------------------------------------------
(***************************************************************************)
(* Receiving (Exec::sock_message): n reads the message m of a neighbour q, *)
(* which leaves the connections as l.                                      *)
(***************************************************************************)

(***************************************************************************)
(* A packet for n: it is answered, then displayed.                         *)
(***************************************************************************)
PacketArrives(n, m, l) ==
  /\ m.type = "packet" /\ m.dst = n /\ m.accept = "not"
  /\ Forward(n, [Reversed(m) EXCEPT !.accept = "ok"], l)
  /\ delivered' = IF up'[n] THEN delivered \cup {<<m.src, m.seq>>} ELSE delivered
  /\ UNCHANGED replyVars

(***************************************************************************)
(* The answer to a packet of n; only a delivery forgets the packet.        *)
(***************************************************************************)
PacketAnswered(n, m, l) ==
  /\ m.type = "packet" /\ m.dst = n /\ m.accept \in {"ok", "toofar"}
  /\ pending' = IF m.accept = "ok" THEN [pending EXCEPT ![n] = @ \ {m.seq}] ELSE pending
  /\ answers' = [answers EXCEPT ![n] = @ \cup {<<m.seq, m.accept>>}]
  /\ link' = l
  /\ UNCHANGED <<up, delivered, pingCount, waiting, routeDest, shown>>

PingArrives(n, m, l) ==
  /\ m.type = "ping" /\ m.dst = n
  /\ Forward(n, [Reversed(m) EXCEPT !.type = "pong"], l)
  /\ UNCHANGED <<delivered, replyVars>>

(***************************************************************************)
(* Seeded fault: the route command goes on after its destination answered. *)
(***************************************************************************)
StillWaitingAlways(n, m) == waiting[n]

StillWaiting(n, m) == waiting[n] /\ m.src # routeDest[n]

(***************************************************************************)
(* Seeded fault: the count of expected pongs is off by one.                *)
(***************************************************************************)
ExpectsPongOneMore(n) == pingCount[n] >= 0

ExpectsPong(n) == pingCount[n] > 0

(***************************************************************************)
(* A pong for n counts for the ping command as long as it expects some,    *)
(* else for the route command, else for nothing.                           *)
(***************************************************************************)
PongArrives(n, m, l) ==
  /\ m.type = "pong" /\ m.dst = n
  /\ link' = l
  /\ IF ExpectsPong(n)
     THEN /\ pingCount' = [pingCount EXCEPT ![n] = @ - 1]
          /\ UNCHANGED <<waiting, shown>>
     ELSE /\ shown' = IF waiting[n] THEN [shown EXCEPT ![n] = Append(@, m.src)] ELSE shown
          /\ waiting' = [waiting EXCEPT ![n] = StillWaiting(n, m)]
          /\ UNCHANGED pingCount
  /\ UNCHANGED <<up, delivered, pending, routeDest, answers>>

(***************************************************************************)
(* Seeded fault: the TTL is tested and not decremented.                    *)
(***************************************************************************)
PassedAsIs(m) == [m EXCEPT !.hops = IF @ > Limit THEN @ ELSE @ + 1]

(***************************************************************************)
(* n forwards a message whose TTL it read as not zero, and decrements it.  *)
(***************************************************************************)
Passed(m) == [m EXCEPT !.ttl = @ - 1, !.hops = IF @ > Limit THEN @ ELSE @ + 1]

Transits(n, m, l) ==
  /\ m.dst # n
  /\ m.ttl # 0 \/ m.accept = "ttlzero"
  /\ Forward(n, Passed(m), l)
  /\ UNCHANGED <<delivered, replyVars>>

(***************************************************************************)
(* Seeded fault: an expired packet is answered like one that arrived.      *)
(***************************************************************************)
TooFarAsOk(m) == [Reversed(m) EXCEPT !.accept = "ok"]

TooFar(m) == [Reversed(m) EXCEPT !.accept = "toofar"]

(***************************************************************************)
(* The TTL is over.  A packet is sent back "toofar", in the name of its    *)
(* destination; a ping is answered in the name of n; a pong is dropped.    *)
(***************************************************************************)
Expires(n, m, l) ==
  /\ m.dst # n
  /\ m.ttl = 0 /\ m.accept # "ttlzero"
  /\ \/ m.type = "packet" /\ Forward(n, TooFar(m), l)
     \/ /\ m.type = "ping"
        /\ Forward(n, [Reversed(m) EXCEPT !.type = "pong", !.accept = "ttlzero", !.src = n], l)
     \/ m.type = "pong" /\ link' = l /\ UNCHANGED up
  /\ UNCHANGED <<delivered, replyVars>>

Receive(q, n) ==
  /\ up[n] /\ link[<<q, n>>] # <<>>
  /\ LET m == Head(link[<<q, n>>])
         l == [link EXCEPT ![<<q, n>>] = Tail(@)]
     IN  \/ PacketArrives(n, m, l)
         \/ PacketAnswered(n, m, l)
         \/ PingArrives(n, m, l)
         \/ PongArrives(n, m, l)
         \/ Transits(n, m, l)
         \/ Expires(n, m, l)
  /\ UNCHANGED <<route, changes, commandVars, lost>>

(***************************************************************************)
(* The message is read together with another one and is not recognised.    *)
(***************************************************************************)
Coalesced(q, n) ==
  /\ up[n] /\ link[<<q, n>>] # <<>>
  /\ link' = [link EXCEPT ![<<q, n>>] = Tail(@)]
  /\ lost' = TRUE
  /\ UNCHANGED <<up, route, changes, commandVars, replyVars, delivered>>

------------------------------------------------------------------------------
(***************************************************************************)
(* Commands of the prompt (Exec::prompt_message, PromptActions).           *)
(***************************************************************************)

Typed(n, c) ==
  /\ up[n] /\ prompt[n] = NoPrompt
  /\ issued[n][c] < MaxOf[c] /\ issued' = [issued EXCEPT ![n][c] = @ + 1]
  /\ UNCHANGED <<route, changes, delivered, lost>>

(***************************************************************************)
(* The sequence number is taken and recorded before the destination is     *)
(* looked up.                                                              *)
(***************************************************************************)
MessageCommand(n, d) ==
  LET seq == seqnum[n] + 1
      m == [type |-> "packet", accept |-> "not", src |-> n, dst |-> d, ttl |-> DefaultTTL,
            seq |-> seq, given |-> DefaultTTL, hops |-> 0]
  IN  /\ Typed(n, "message")
      /\ seqnum' = [seqnum EXCEPT ![n] = seq]
      /\ pending' = [pending EXCEPT ![n] = @ \cup {seq}]
      /\ IF route[n][d] = Unknown
         THEN answers' = [answers EXCEPT ![n] = @ \cup {<<seq, "unknown">>}] /\ UNCHANGED <<up, link>>
         ELSE Forward(n, m, link) /\ UNCHANGED answers
      /\ UNCHANGED <<prompt, pingCount, waiting, routeDest, shown>>

(***************************************************************************)
(* The client is looked up once, before the first ping.                    *)
(***************************************************************************)
Started(n, op, d) ==
  prompt' = IF route[n][d] = Unknown THEN prompt
            ELSE [prompt EXCEPT ![n] = [op |-> op, dst |-> d, via |-> route[n][d], next |-> 0]]

PingCommand(n, d) ==
  /\ Typed(n, "ping")
  /\ pingCount' = [pingCount EXCEPT ![n] = IF route[n][d] = Unknown THEN 0 ELSE PingPackets]
  /\ Started(n, "ping", d)
  /\ UNCHANGED <<up, link, seqnum, pending, waiting, routeDest, shown, answers>>

RouteCommand(n, d) ==
  /\ Typed(n, "route")
  /\ waiting' = [waiting EXCEPT ![n] = route[n][d] # Unknown]
  /\ routeDest' = [routeDest EXCEPT ![n] = d]
  /\ shown' = [shown EXCEPT ![n] = <<>>]
  /\ Started(n, "route", d)
  /\ UNCHANGED <<up, link, seqnum, pending, pingCount, answers>>

(***************************************************************************)
(* One ping per second: with the default TTL for ping, with a TTL that     *)
(* grows from 0 for route.                                                 *)
(***************************************************************************)
SendPing(n) ==
  LET p == prompt[n]
      seq == seqnum[n] + 1
      ttl == IF p.op = "route" THEN p.next ELSE DefaultTTL
      m == [type |-> "ping", accept |-> "not", src |-> n, dst |-> p.dst, ttl |-> ttl,
            seq |-> seq, given |-> ttl, hops |-> 0]
      last == p.next + 1 = IF p.op = "route" THEN RouteProbes ELSE PingPackets
  IN  /\ up[n] /\ p.op # "none"
      /\ seqnum' = [seqnum EXCEPT ![n] = seq]
      /\ prompt' = [prompt EXCEPT ![n] = IF last THEN NoPrompt ELSE [p EXCEPT !.next = @ + 1]]
      /\ Sends(n, p.via, m, link)
      /\ UNCHANGED <<route, changes, issued, replyVars, delivered, lost>>

(***************************************************************************)
(* A poll or a vector gives n another route table.                         *)
(***************************************************************************)
TableChanges(n) ==
  /\ up[n] /\ changes < MaxChanges /\ changes' = changes + 1
  /\ \E t \in Table : t[n] # route[n] /\ route' = [route EXCEPT ![n] = t[n]]
  /\ UNCHANGED <<up, link, commandVars, replyVars, delivered, lost>>

------------------------------------------------------------------------------

UserCommand(n) ==
  \/ \E d \in Node : MessageCommand(n, d) \/ PingCommand(n, d) \/ RouteCommand(n, d)
  \/ SendPing(n)

Next ==
  \/ \E n \in User : UserCommand(n)
  \/ \E n \in Node : TableChanges(n)
  \/ \E q, n \in Node : Receive(q, n) \/ Coalesced(q, n)

Spec == Init /\ [][Next]_vars

(***************************************************************************)
(* network__update serves one connection that has something to read, and   *)
(* mainLoop calls it again; no order among the connections is assumed.     *)
(* The prompt's thread sends the pings it has to.                          *)
(***************************************************************************)
FairSpec ==
  /\ Spec
  /\ \A n \in Node : WF_vars(\E q \in Node : Receive(q, n))
  /\ \A n \in User : WF_vars(SendPing(n))

------------------------------------------------------------------------------

(***************************************************************************)
(* Types of the routers' state and of the messages.                        *)
(***************************************************************************)
TypeOK ==
  /\ up \in [Node -> BOOLEAN]
  /\ route \in [Node -> [Node -> Node \cup {Unknown, NoClient}]]
  /\ link \in [Node \X Node -> Seq(Message)]
  /\ prompt \in [Node -> [op : {"none", "ping", "route"}, dst : Node \cup {Unknown},
                         via : Node \cup {Unknown, NoClient}, next : Nat]]
  /\ seqnum \in [Node -> Nat]
  /\ pending \in [Node -> SUBSET Nat]
  /\ pingCount \in [Node -> 0..PingPackets]
  /\ waiting \in [Node -> BOOLEAN]
  /\ routeDest \in [Node -> Node \cup {Unknown}]
  /\ shown \in [Node -> Seq(Node)]
  /\ issued \in [Node -> [Command -> Nat]]
  /\ changes \in 0..MaxChanges
  /\ delivered \subseteq Node \X Nat
  /\ answers \in [Node -> SUBSET (Nat \X {"ok", "toofar", "unknown"})]
  /\ lost \in BOOLEAN

InFlight == UNION {{link[e][i] : i \in DOMAIN link[e]} : e \in DOMAIN link}

(***************************************************************************)
(* Whatever the route tables and however they change, loops included, no   *)
(* message that has a TTL is forwarded more often than the TTL it was sent *)
(* with says: a ping of a route command with its own, any other with the   *)
(* default.                                                                *)
(***************************************************************************)
HopsBounded == \A m \in InFlight : Limited(m) => m.hops <= m.given

(***************************************************************************)
(* What the source displays of a message is true: a message reported       *)
(* delivered was displayed at its destination, one reported too far or of  *)
(* unknown destination never is; and no message is reported twice over.    *)
(***************************************************************************)
AnswersAreTrue ==
  \A n \in Node : \A a \in answers[n] :
    /\ a[2] = "ok" <=> <<n, a[1]>> \in delivered
    /\ \A b \in answers[n] : a[1] = b[1] => a = b

(***************************************************************************)
(* Routers that have a route to every other one never end by sending.      *)
(***************************************************************************)
RoutersStayUp == \A n \in Node : up[n]

(***************************************************************************)
(* The k-th router on the way from n to d, Unknown after d.                *)
(***************************************************************************)
Hop(n, d) ==
  LET hop[k \in Nat] == IF k = 0 THEN n
                        ELSE IF hop[k - 1] \in Node THEN route[hop[k - 1]][d] ELSE Unknown
  IN  hop

(***************************************************************************)
(* A route command displays the routers of the path in their order, each   *)
(* once; and each of them, if none of its pings and pongs was lost.  It    *)
(* must be the only command that pongs arrive for: a pong that a ping      *)
(* command still expects is displayed as an echo.                          *)
(***************************************************************************)
RouteFollowsPath ==
  \A n \in Node : LET hop == Hop(n, routeDest[n]) IN
    \A i \in DOMAIN shown[n] :
      IF lost THEN \E k \in i..RouteProbes : /\ shown[n][i] = hop[k]
                                           /\ \A j \in 1..(i - 1) : \E h \in 1..(k - 1) : shown[n][j] = hop[h]
              ELSE shown[n][i] = hop[i]

(***************************************************************************)
(* A route command ends by displaying its destination when none of its     *)
(* pings and pongs is lost.                                                *)
(***************************************************************************)
RouteEnds == \A n \in User : waiting[n] ~> ~waiting[n] \/ lost
==============================================================================
