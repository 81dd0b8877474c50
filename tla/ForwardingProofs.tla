--------------------------- MODULE ForwardingProofs ---------------------------
(***************************************************************************)
(* Proofs about Forwarding: its types; that a TTL bounds the number of     *)
(* routers that forward a message, whatever the connections, the route     *)
(* tables and the way they change; and that no router ends by sending      *)
(* while the tables lead to every destination, which takes an invariant of *)
(* its own (Stays); that what a source displays of its messages is true;   *)
(* and that what a route command displays is the path to its destination.  *)
(*                                                                         *)
(* HopsBounded is not inductive: it says nothing of the TTL.  What every   *)
(* step keeps is that the TTL and the hops of a limited message add up to  *)
(* no more than the TTL it was sent with (Bounded).                        *)
(***************************************************************************)
EXTENDS Forwarding, LoopProofs, TLAPS

Bounded(m) ==
  Limited(m) => /\ m.ttl \in Nat
                /\ m.ttl + m.hops <= m.given
                /\ m.given <= DefaultTTL \/ m.given < RouteProbes

BoundedMessage == {m \in Message : Bounded(m)}

Links == [Node \X Node -> Seq(BoundedMessage)]

Prompts ==
  \A n \in Node : /\ prompt[n].op # "none" => prompt[n].dst \in Node
                  /\ prompt[n].op = "route" => prompt[n].next < RouteProbes

Inv == TypeOK /\ link \in Links /\ Prompts

USE DEF Command

------------------------------------------------------------------------------
(***************************************************************************)
(* What the operators that build and write messages keep.                  *)
(***************************************************************************)

(***************************************************************************)
(* OnWire keeps a bounded message bounded.                                 *)
(***************************************************************************)
LEMMA OnWireBounded == ASSUME NEW m \in BoundedMessage PROVE OnWire(m) \in BoundedMessage
  <1>1. CASE Limited(m)
    BY <1>1 DEF OnWire
  <1>2. CASE ~Limited(m)
    <2>1. OnWire(m) = [m EXCEPT !.ttl = -1]
      BY <1>2 DEF OnWire
    <2>2. OnWire(m) \in Message
      BY <2>1 DEF BoundedMessage, Message
    <2>3. OnWire(m).accept = m.accept
      BY <2>1 DEF BoundedMessage, Message
    <2> QED BY <1>2, <2>2, <2>3 DEF BoundedMessage, Bounded, Limited
  <1> QED BY <1>1, <1>2

(***************************************************************************)
(* So does writing one on a connection.                                    *)
(***************************************************************************)
LEMMA WrittenLinks ==
  ASSUME NEW l \in Links, NEW n \in Node, NEW to, NEW m \in BoundedMessage
  PROVE  Written(l, n, to, m) \in Links
  <1>1. OnWire(m) \in BoundedMessage
    BY OnWireBounded
  <1>2. CASE to \in Node /\ up[to]
    <2>1. Append(l[<<n, to>>], OnWire(m)) \in Seq(BoundedMessage)
      BY <1>1, <1>2 DEF Links
    <2> QED BY <1>2, <2>1 DEF Written, Links
  <1>3. CASE ~(to \in Node /\ up[to])
    BY <1>3 DEF Written
  <1> QED BY <1>2, <1>3

(***************************************************************************)
(* And reading the first message of a connection.                          *)
(***************************************************************************)
LEMMA ReadLinks ==
  ASSUME link \in Links, NEW q \in Node, NEW n \in Node, link[<<q, n>>] # <<>>
  PROVE  /\ Head(link[<<q, n>>]) \in BoundedMessage
         /\ [link EXCEPT ![<<q, n>>] = Tail(@)] \in Links
  <1>1. link[<<q, n>>] \in Seq(BoundedMessage)
    BY DEF Links
  <1>2. /\ Head(link[<<q, n>>]) \in BoundedMessage
        /\ Tail(link[<<q, n>>]) \in Seq(BoundedMessage)
    BY <1>1
  <1> QED BY <1>2 DEF Links

(***************************************************************************)
(* And the end of a process.                                               *)
(***************************************************************************)
LEMMA EndsLinks ==
  ASSUME TypeOK, NEW l \in Links, NEW n \in Node, Ends(n, l)
  PROVE  link' \in Links /\ up' \in [Node -> BOOLEAN]
  <1>1. \A e \in Node \X Node : (IF e[2] = n THEN <<>> ELSE l[e]) \in Seq(BoundedMessage)
    BY DEF Links
  <1> QED BY <1>1 DEF Ends, Links, TypeOK

(***************************************************************************)
(* And sending, whether the process survives it or not.                    *)
(***************************************************************************)
LEMMA SendsLinks ==
  ASSUME TypeOK, NEW l \in Links, NEW n \in Node, NEW via, NEW m \in BoundedMessage,
         Sends(n, via, m, l)
  PROVE  link' \in Links /\ up' \in [Node -> BOOLEAN]
  <1>1. CASE Ends(n, l)
    BY <1>1, EndsLinks
  <1>2. CASE \E to : link' = Written(l, n, to, m) /\ UNCHANGED up
    BY <1>2, WrittenLinks DEF TypeOK
  <1> QED BY <1>1, <1>2 DEF Sends

(***************************************************************************)
(* So does Forward.                                                        *)
(***************************************************************************)
LEMMA ForwardLinks ==
  ASSUME TypeOK, NEW l \in Links, NEW n \in Node, NEW m \in BoundedMessage, Forward(n, m, l)
  PROVE  link' \in Links /\ up' \in [Node -> BOOLEAN]
  BY SendsLinks DEF Forward

(***************************************************************************)
(* An answer is bounded by the default TTL.                                *)
(***************************************************************************)
LEMMA ReversedBounded ==
  ASSUME NEW m \in BoundedMessage, NEW a \in {"not", "ok", "toofar", "ttlzero"},
         NEW t \in {"packet", "ping", "pong"}, NEW s \in Node
  PROVE  /\ [Reversed(m) EXCEPT !.accept = a] \in BoundedMessage
         /\ [Reversed(m) EXCEPT !.type = t] \in BoundedMessage
         /\ [Reversed(m) EXCEPT !.type = t, !.accept = a, !.src = s] \in BoundedMessage
  <1> DEFINE r == Reversed(m)
  <1>1. r \in Message /\ r.ttl = DefaultTTL /\ r.given = DefaultTTL /\ r.hops = 0
    <2>1. m \in Message /\ m.src \in Node /\ m.dst \in Node
      BY DEF BoundedMessage, Message
    <2>2. DefaultTTL \in Int /\ DefaultTTL \in Nat /\ 0 \in Nat
      BY ForwardingAssumption
    <2> QED BY <2>1, <2>2 DEF Reversed, Message
  <1>2. \A p \in Message : p.ttl = DefaultTTL /\ p.given = DefaultTTL /\ p.hops = 0
          => p \in BoundedMessage
    BY ForwardingAssumption DEF BoundedMessage, Bounded
  <1> HIDE DEF r
  <1>3. /\ [r EXCEPT !.accept = a] \in Message
        /\ [r EXCEPT !.accept = a].ttl = DefaultTTL /\ [r EXCEPT !.accept = a].given = DefaultTTL
        /\ [r EXCEPT !.accept = a].hops = 0
    BY <1>1 DEF Message
  <1>4. /\ [r EXCEPT !.type = t] \in Message
        /\ [r EXCEPT !.type = t].ttl = DefaultTTL /\ [r EXCEPT !.type = t].given = DefaultTTL
        /\ [r EXCEPT !.type = t].hops = 0
    BY <1>1 DEF Message
  <1>5. /\ [r EXCEPT !.type = t, !.accept = a, !.src = s] \in Message
        /\ [r EXCEPT !.type = t, !.accept = a, !.src = s].ttl = DefaultTTL
        /\ [r EXCEPT !.type = t, !.accept = a, !.src = s].given = DefaultTTL
        /\ [r EXCEPT !.type = t, !.accept = a, !.src = s].hops = 0
    BY <1>1 DEF Message
  <1> QED BY <1>2, <1>3, <1>4, <1>5 DEF r

(***************************************************************************)
(* A message whose TTL is not zero is still bounded one router further.    *)
(***************************************************************************)
LEMMA PassedBounded ==
  ASSUME NEW m \in BoundedMessage, m.ttl # 0 \/ m.accept = "ttlzero"
  PROVE  Passed(m) \in BoundedMessage
  <1>1. m \in Message /\ m.ttl \in Int /\ m.hops \in Nat /\ m.given \in Nat
    BY DEF BoundedMessage, Message
  <1>2. Limit \in Nat /\ DefaultTTL <= Limit /\ RouteProbes <= Limit
    BY ForwardingAssumption DEF Limit
  <1>3. /\ Passed(m) \in Message
        /\ Passed(m).accept = m.accept
        /\ Passed(m).ttl = m.ttl - 1
        /\ Passed(m).given = m.given
        /\ Passed(m).hops = IF m.hops > Limit THEN m.hops ELSE m.hops + 1
    <2> DEFINE h == IF m.hops > Limit THEN m.hops ELSE m.hops + 1
    <2>1. m.ttl - 1 \in Int /\ h \in Nat
      BY <1>1, <1>2
    <2>2. Passed(m) = [m EXCEPT !.ttl = m.ttl - 1, !.hops = h]
      BY <1>1 DEF Passed, Message
    <2> HIDE DEF h
    <2>3. /\ Passed(m) \in Message /\ Passed(m).accept = m.accept
          /\ Passed(m).ttl = m.ttl - 1 /\ Passed(m).given = m.given /\ Passed(m).hops = h
      BY <1>1, <2>1, <2>2 DEF Message
    <2> QED BY <2>3 DEF h
  <1>4. CASE m.accept = "not"
    <2>1. /\ m.ttl \in Nat
          /\ m.ttl + m.hops <= m.given
          /\ m.given <= DefaultTTL \/ m.given < RouteProbes
      BY <1>4 DEF BoundedMessage, Bounded, Limited
    <2>2. m.ttl - 1 \in Nat
      BY <1>4, <2>1
    <2>3. m.hops <= Limit
      BY <1>1, <1>2, <2>1, ForwardingAssumption
    <2>4. Passed(m).ttl + Passed(m).hops = m.ttl + m.hops
      BY <1>1, <1>2, <1>3, <2>3
    <2> QED BY <1>3, <2>1, <2>2, <2>4 DEF BoundedMessage, Bounded
  <1>5. CASE m.accept # "not"
    BY <1>3, <1>5 DEF BoundedMessage, Bounded, Limited
  <1> QED BY <1>4, <1>5
------------------------------------------------------------------------------
(***************************************************************************)
(* What the handlers of received messages keep.                            *)
(***************************************************************************)

ReplyTypes ==
  /\ pending \in [Node -> SUBSET Nat]
  /\ pingCount \in [Node -> 0..PingPackets]
  /\ waiting \in [Node -> BOOLEAN]
  /\ routeDest \in [Node -> Node \cup {Unknown}]
  /\ shown \in [Node -> Seq(Node)]
  /\ delivered \subseteq Node \X Nat
  /\ answers \in [Node -> SUBSET (Nat \X {"ok", "toofar", "unknown"})]

Kept == link' \in Links /\ up' \in [Node -> BOOLEAN] /\ ReplyTypes'

(***************************************************************************)
(* The fields of a message that is bounded.                                *)
(***************************************************************************)
LEMMA MessageFields ==
  ASSUME NEW m \in BoundedMessage
  PROVE  /\ m.type \in {"packet", "ping", "pong"}
         /\ m.accept \in {"not", "ok", "toofar", "ttlzero"}
         /\ m.src \in Node /\ m.dst \in Node /\ m.ttl \in Int /\ m.seq \in Nat
         /\ m.given \in Nat /\ m.hops \in Nat
  BY DEF BoundedMessage, Message

(***************************************************************************)
(* A packet for n keeps the types and the bound.                           *)
(***************************************************************************)
LEMMA PacketArrivesKeeps ==
  ASSUME TypeOK, NEW l \in Links, NEW n \in Node, NEW m \in BoundedMessage, PacketArrives(n, m, l)
  PROVE  Kept
  <1>1. [Reversed(m) EXCEPT !.accept = "ok"] \in BoundedMessage
    BY ReversedBounded
  <1>2. link' \in Links /\ up' \in [Node -> BOOLEAN]
    BY <1>1, ForwardLinks DEF PacketArrives
  <1>3. delivered' \subseteq Node \X Nat
    <2>1. <<m.src, m.seq>> \in Node \X Nat
      BY MessageFields
    <2>2. delivered' = delivered \/ delivered' = delivered \cup {<<m.src, m.seq>>}
      BY DEF PacketArrives
    <2> QED BY <2>1, <2>2 DEF TypeOK
  <1>4. UNCHANGED replyVars
    BY DEF PacketArrives
  <1> QED BY <1>2, <1>3, <1>4 DEF Kept, ReplyTypes, TypeOK, replyVars

(***************************************************************************)
(* So does the answer to a packet of n.                                    *)
(***************************************************************************)
LEMMA PacketAnsweredKeeps ==
  ASSUME TypeOK, NEW l \in Links, NEW n \in Node, NEW m \in BoundedMessage, PacketAnswered(n, m, l)
  PROVE  Kept
  <1>1. pending' \in [Node -> SUBSET Nat]
    BY DEF PacketAnswered, TypeOK
  <1>2. <<m.seq, m.accept>> \in Nat \X {"ok", "toofar", "unknown"}
    BY MessageFields DEF PacketAnswered
  <1>3. answers' \in [Node -> SUBSET (Nat \X {"ok", "toofar", "unknown"})]
    BY <1>2 DEF PacketAnswered, TypeOK
  <1>4. link' = l /\ UNCHANGED <<up, delivered, pingCount, waiting, routeDest, shown>>
    BY DEF PacketAnswered
  <1> QED BY <1>1, <1>3, <1>4 DEF Kept, ReplyTypes, TypeOK

(***************************************************************************)
(* And a ping for n.                                                       *)
(***************************************************************************)
LEMMA PingArrivesKeeps ==
  ASSUME TypeOK, NEW l \in Links, NEW n \in Node, NEW m \in BoundedMessage, PingArrives(n, m, l)
  PROVE  Kept
  <1>1. [Reversed(m) EXCEPT !.type = "pong"] \in BoundedMessage
    BY ReversedBounded
  <1>2. link' \in Links /\ up' \in [Node -> BOOLEAN]
    BY <1>1, ForwardLinks DEF PingArrives
  <1>3. UNCHANGED <<delivered, replyVars>>
    BY DEF PingArrives
  <1> QED BY <1>2, <1>3 DEF Kept, ReplyTypes, TypeOK, replyVars

(***************************************************************************)
(* And a pong for n: the count of expected pongs does not go below zero.   *)
(***************************************************************************)
LEMMA PongArrivesKeeps ==
  ASSUME TypeOK, NEW l \in Links, NEW n \in Node, NEW m \in BoundedMessage, PongArrives(n, m, l)
  PROVE  Kept
  <1>1. link' = l /\ UNCHANGED <<up, delivered, pending, routeDest, answers>>
    BY DEF PongArrives
  <1>2. m.src \in Node
    BY MessageFields
  <1>3. CASE ExpectsPong(n)
    <2>1. pingCount[n] - 1 \in 0..PingPackets
      BY <1>3, ForwardingAssumption DEF ExpectsPong, TypeOK
    <2>2. pingCount' \in [Node -> 0..PingPackets]
      BY <1>3, <2>1 DEF PongArrives, TypeOK
    <2>3. UNCHANGED <<waiting, shown>>
      BY <1>3 DEF PongArrives
    <2> QED BY <1>1, <2>2, <2>3 DEF Kept, ReplyTypes, TypeOK
  <1>4. CASE ~ExpectsPong(n)
    <2>1. Append(shown[n], m.src) \in Seq(Node)
      BY <1>2 DEF TypeOK
    <2>2. shown' \in [Node -> Seq(Node)]
      BY <1>4, <2>1 DEF PongArrives, TypeOK
    <2>3. StillWaiting(n, m) \in BOOLEAN
      BY DEF StillWaiting, TypeOK
    <2>4. waiting' \in [Node -> BOOLEAN]
      BY <1>4, <2>3 DEF PongArrives, TypeOK
    <2>5. UNCHANGED pingCount
      BY <1>4 DEF PongArrives
    <2> QED BY <1>1, <2>2, <2>4, <2>5 DEF Kept, ReplyTypes, TypeOK
  <1> QED BY <1>3, <1>4

(***************************************************************************)
(* And a message on its way.                                               *)
(***************************************************************************)
LEMMA TransitsKeeps ==
  ASSUME TypeOK, NEW l \in Links, NEW n \in Node, NEW m \in BoundedMessage, Transits(n, m, l)
  PROVE  Kept
  <1>1. Passed(m) \in BoundedMessage
    BY PassedBounded DEF Transits
  <1>2. link' \in Links /\ up' \in [Node -> BOOLEAN]
    BY <1>1, ForwardLinks DEF Transits
  <1>3. UNCHANGED <<delivered, replyVars>>
    BY DEF Transits
  <1> QED BY <1>2, <1>3 DEF Kept, ReplyTypes, TypeOK, replyVars

(***************************************************************************)
(* And a message whose TTL is over.                                        *)
(***************************************************************************)
LEMMA ExpiresKeeps ==
  ASSUME TypeOK, NEW l \in Links, NEW n \in Node, NEW m \in BoundedMessage, Expires(n, m, l)
  PROVE  Kept
  <1>1. link' \in Links /\ up' \in [Node -> BOOLEAN]
    <2>1. CASE Forward(n, TooFar(m), l)
      <3>1. TooFar(m) \in BoundedMessage
        BY ReversedBounded DEF TooFar
      <3> QED BY <2>1, <3>1, ForwardLinks
    <2>2. CASE Forward(n, [Reversed(m) EXCEPT !.type = "pong", !.accept = "ttlzero", !.src = n], l)
      <3>1. [Reversed(m) EXCEPT !.type = "pong", !.accept = "ttlzero", !.src = n] \in BoundedMessage
        BY ReversedBounded
      <3> QED BY <2>2, <3>1, ForwardLinks
    <2>3. CASE link' = l /\ UNCHANGED up
      BY <2>3 DEF TypeOK
    <2> QED BY <2>1, <2>2, <2>3 DEF Expires
  <1>2. UNCHANGED <<delivered, replyVars>>
    BY DEF Expires
  <1> QED BY <1>1, <1>2 DEF Kept, ReplyTypes, TypeOK, replyVars

------------------------------------------------------------------------------
(***************************************************************************)
(* Every step keeps Inv.                                                   *)
(***************************************************************************)

(***************************************************************************)
(* The types of the connections follow from the bound of their messages.   *)
(***************************************************************************)
LEMMA LinksTyped == Links \subseteq [Node \X Node -> Seq(Message)]
  <1>1. BoundedMessage \subseteq Message
    BY DEF BoundedMessage
  <1>2. \A x \in Seq(BoundedMessage) : x \in Seq(Message)
    BY <1>1
  <1> QED BY <1>2 DEF Links

(***************************************************************************)
(* Inv holds at the start.                                                 *)
(***************************************************************************)
LEMMA InvInit == Init => Inv
  <1> SUFFICES ASSUME Init PROVE Inv
    OBVIOUS
  <1>1. link \in Links
    <2>1. <<>> \in Seq(BoundedMessage)
      OBVIOUS
    <2> QED BY <2>1 DEF Init, Links
  <1>2. link \in [Node \X Node -> Seq(Message)]
    BY <1>1, LinksTyped
  <1>3. route \in [Node -> [Node -> Node \cup {Unknown, NoClient}]]
    BY ForwardingAssumption DEF Init
  <1>4. prompt \in [Node -> [op : {"none", "ping", "route"}, dst : Node \cup {Unknown},
                         via : Node \cup {Unknown, NoClient}, next : Nat]]
    BY DEF Init, NoPrompt
  <1>5. ReplyTypes
    BY ForwardingAssumption DEF Init, ReplyTypes
  <1>6. up \in [Node -> BOOLEAN] /\ seqnum \in [Node -> Nat] /\ issued \in [Node -> [Command -> Nat]]
    BY DEF Init
  <1>7. changes \in 0..MaxChanges /\ lost \in BOOLEAN
    <2>1. 0 \in 0..MaxChanges
      BY ForwardingAssumption
    <2> QED BY <2>1 DEF Init
  <1>8. TypeOK
    BY <1>2, <1>3, <1>4, <1>5, <1>6, <1>7 DEF TypeOK, ReplyTypes
  <1>9. Prompts
    BY DEF Init, Prompts, NoPrompt
  <1> QED BY <1>1, <1>8, <1>9 DEF Inv

(***************************************************************************)
(* Receiving a message, of any kind, keeps Inv.                            *)
(***************************************************************************)
LEMMA ReceiveStep ==
  ASSUME Inv, NEW q \in Node, NEW n \in Node, Receive(q, n)
  PROVE  Inv'
  <1> DEFINE m == Head(link[<<q, n>>])
             l == [link EXCEPT ![<<q, n>>] = Tail(@)]
  <1>1. m \in BoundedMessage /\ l \in Links
    BY ReadLinks DEF Inv, Receive
  <1>2. \/ PacketArrives(n, m, l) \/ PacketAnswered(n, m, l) \/ PingArrives(n, m, l)
        \/ PongArrives(n, m, l) \/ Transits(n, m, l) \/ Expires(n, m, l)
    BY DEF Receive
  <1>3. UNCHANGED <<route, changes, prompt, seqnum, issued, lost>>
    BY DEF Receive, commandVars
  <1>4. TypeOK
    BY DEF Inv
  <1> HIDE DEF m, l
  <1>5. Kept
    BY <1>1, <1>2, <1>4, PacketArrivesKeeps, PacketAnsweredKeeps, PingArrivesKeeps,
       PongArrivesKeeps, TransitsKeeps, ExpiresKeeps
  <1>6. link' \in [Node \X Node -> Seq(Message)]
    BY <1>5, LinksTyped DEF Kept
  <1>7. TypeOK'
    BY <1>3, <1>4, <1>5, <1>6 DEF TypeOK, Kept, ReplyTypes
  <1>8. Prompts'
    BY <1>3 DEF Inv, Prompts
  <1> QED BY <1>5, <1>7, <1>8 DEF Inv, Kept, Links

(***************************************************************************)
(* So does losing one.                                                     *)
(***************************************************************************)
LEMMA CoalescedStep ==
  ASSUME Inv, NEW q \in Node, NEW n \in Node, Coalesced(q, n)
  PROVE  Inv'
  <1>1. link' \in Links
    BY ReadLinks DEF Inv, Coalesced
  <1>2. lost' \in BOOLEAN /\ UNCHANGED <<up, route, changes, commandVars, replyVars, delivered>>
    BY DEF Coalesced
  <1>3. link' \in [Node \X Node -> Seq(Message)]
    BY <1>1, LinksTyped
  <1> QED BY <1>1, <1>2, <1>3 DEF Inv, TypeOK, Prompts, commandVars, replyVars, Links

(***************************************************************************)
(* The part of Inv that a command leaves alone, and what is left to show   *)
(* of one.                                                                 *)
(***************************************************************************)
LEMMA CommandKeeps ==
  ASSUME Inv, NEW n \in Node, NEW c \in Command, Typed(n, c)
  PROVE  /\ route' \in [Node -> [Node -> Node \cup {Unknown, NoClient}]]
         /\ issued' \in [Node -> [Command -> Nat]]
         /\ changes' \in 0..MaxChanges /\ lost' \in BOOLEAN /\ delivered' \subseteq Node \X Nat
  <1>1. issued' \in [Node -> [Command -> Nat]]
    <2>1. issued[n] \in [Command -> Nat]
      BY DEF Inv, TypeOK
    <2>2. [issued[n] EXCEPT ![c] = @ + 1] \in [Command -> Nat]
      BY <2>1
    <2>3. issued' = [issued EXCEPT ![n] = [issued[n] EXCEPT ![c] = @ + 1]]
      BY DEF Typed
    <2> QED BY <2>2, <2>3 DEF Inv, TypeOK
  <1> QED BY <1>1 DEF Typed, Inv, TypeOK

(***************************************************************************)
(* The message command keeps Inv.                                          *)
(***************************************************************************)
LEMMA MessageCommandStep ==
  ASSUME Inv, NEW n \in Node, NEW d \in Node, MessageCommand(n, d)
  PROVE  Inv'
  <1> DEFINE seq == seqnum[n] + 1
             m == [type |-> "packet", accept |-> "not", src |-> n, dst |-> d, ttl |-> DefaultTTL,
                   seq |-> seq, given |-> DefaultTTL, hops |-> 0]
  <1>1. TypeOK /\ link \in Links /\ seq \in Nat
    <2>1. TypeOK /\ link \in Links
      BY DEF Inv
    <2>2. seqnum[n] \in Nat
      BY <2>1 DEF TypeOK
    <2> QED BY <2>1, <2>2
  <1>2. m \in BoundedMessage
    BY <1>1, ForwardingAssumption DEF BoundedMessage, Message, Bounded
  <1>3. /\ Typed(n, "message")
        /\ seqnum' = [seqnum EXCEPT ![n] = seq]
        /\ pending' = [pending EXCEPT ![n] = @ \cup {seq}]
        /\ \/ answers' = [answers EXCEPT ![n] = @ \cup {<<seq, "unknown">>}] /\ UNCHANGED <<up, link>>
           \/ Forward(n, m, link) /\ UNCHANGED answers
        /\ UNCHANGED <<prompt, pingCount, waiting, routeDest, shown>>
    BY DEF MessageCommand
  <1> HIDE DEF seq, m
  <1>4. link' \in Links /\ up' \in [Node -> BOOLEAN]
    <2>1. CASE UNCHANGED <<up, link>>
      BY <1>1, <2>1 DEF TypeOK
    <2>2. CASE Forward(n, m, link)
      BY <1>1, <1>2, <2>2, ForwardLinks
    <2> QED BY <1>3, <2>1, <2>2
  <1>5. answers' \in [Node -> SUBSET (Nat \X {"ok", "toofar", "unknown"})]
    <2>1. answers[n] \cup {<<seq, "unknown">>} \in SUBSET (Nat \X {"ok", "toofar", "unknown"})
      BY <1>1, SMTT(30) DEF TypeOK
    <2> QED BY <1>1, <1>3, <2>1 DEF TypeOK
  <1>6. seqnum' \in [Node -> Nat]
    BY <1>1, <1>3 DEF TypeOK
  <1>7. pending' \in [Node -> SUBSET Nat]
    <2>1. pending[n] \cup {seq} \in SUBSET Nat
      BY <1>1 DEF TypeOK
    <2> QED BY <1>1, <1>3, <2>1 DEF TypeOK
  <1>8. link' \in [Node \X Node -> Seq(Message)]
    BY <1>4, LinksTyped
  <1>9. TypeOK'
    BY <1>1, <1>3, <1>4, <1>5, <1>6, <1>7, <1>8, CommandKeeps DEF TypeOK
  <1>10. Prompts'
    BY <1>3 DEF Inv, Prompts
  <1> QED BY <1>4, <1>9, <1>10 DEF Inv, Links

(***************************************************************************)
(* What a ping or a route command starts is a prompt Inv allows.           *)
(***************************************************************************)
LEMMA StartedPrompts ==
  ASSUME Inv, NEW n \in Node, NEW d \in Node, NEW op \in {"ping", "route"}, Started(n, op, d)
  PROVE  /\ prompt' \in [Node -> [op : {"none", "ping", "route"}, dst : Node \cup {Unknown},
                                 via : Node \cup {Unknown, NoClient}, next : Nat]]
         /\ Prompts'
  <1> DEFINE Pings == [op : {"none", "ping", "route"}, dst : Node \cup {Unknown},
                       via : Node \cup {Unknown, NoClient}, next : Nat]
             p == [op |-> op, dst |-> d, via |-> route[n][d], next |-> 0]
  <1>1. prompt \in [Node -> Pings] /\ Prompts
    BY DEF Inv, TypeOK
  <1>2. p \in Pings
    <2>1. route[n][d] \in Node \cup {Unknown, NoClient}
      BY DEF Inv, TypeOK
    <2> QED BY <2>1
  <1>3. prompt' = prompt \/ prompt' = [prompt EXCEPT ![n] = p]
    BY DEF Started
  <1>4. p.dst \in Node /\ p.next < RouteProbes
    BY ForwardingAssumption
  <1> HIDE DEF Pings, p
  <1>5. prompt' \in [Node -> Pings]
    BY <1>1, <1>2, <1>3
  <1>6. Prompts'
    BY <1>1, <1>3, <1>4 DEF Prompts
  <1> QED BY <1>5, <1>6 DEF Pings

(***************************************************************************)
(* The ping command keeps Inv.                                             *)
(***************************************************************************)
LEMMA PingCommandStep ==
  ASSUME Inv, NEW n \in Node, NEW d \in Node, PingCommand(n, d)
  PROVE  Inv'
  <1>1. Typed(n, "ping") /\ Started(n, "ping", d)
    BY DEF PingCommand
  <1>2. UNCHANGED <<up, link, seqnum, pending, waiting, routeDest, shown, answers>>
    BY DEF PingCommand
  <1>3. pingCount' \in [Node -> 0..PingPackets]
    <2>1. 0 \in 0..PingPackets /\ PingPackets \in 0..PingPackets
      BY ForwardingAssumption
    <2> QED BY <2>1 DEF PingCommand, Inv, TypeOK
  <1>4. TypeOK'
    BY <1>1, <1>2, <1>3, CommandKeeps, StartedPrompts DEF Inv, TypeOK
  <1> QED BY <1>1, <1>2, <1>4, StartedPrompts DEF Inv, Links

(***************************************************************************)
(* So does the route command.                                              *)
(***************************************************************************)
LEMMA RouteCommandStep ==
  ASSUME Inv, NEW n \in Node, NEW d \in Node, RouteCommand(n, d)
  PROVE  Inv'
  <1>1. Typed(n, "route") /\ Started(n, "route", d)
    BY DEF RouteCommand
  <1>2. UNCHANGED <<up, link, seqnum, pending, pingCount, answers>>
    BY DEF RouteCommand
  <1>3. waiting' \in [Node -> BOOLEAN] /\ routeDest' \in [Node -> Node \cup {Unknown}]
    BY DEF RouteCommand, Inv, TypeOK
  <1>4. shown' \in [Node -> Seq(Node)]
    <2>1. <<>> \in Seq(Node)
      OBVIOUS
    <2> QED BY <2>1 DEF RouteCommand, Inv, TypeOK
  <1>5. TypeOK'
    BY <1>1, <1>2, <1>3, <1>4, CommandKeeps, StartedPrompts DEF Inv, TypeOK
  <1> QED BY <1>1, <1>2, <1>5, StartedPrompts DEF Inv, Links

(***************************************************************************)
(* A ping is sent with the default TTL, or with one below the number of    *)
(* probes.                                                                 *)
(***************************************************************************)
LEMMA SendPingStep ==
  ASSUME Inv, NEW n \in Node, SendPing(n)
  PROVE  Inv'
  <1> DEFINE Pings == [op : {"none", "ping", "route"}, dst : Node \cup {Unknown},
                       via : Node \cup {Unknown, NoClient}, next : Nat]
             p == prompt[n]
             seq == seqnum[n] + 1
             ttl == IF p.op = "route" THEN p.next ELSE DefaultTTL
             m == [type |-> "ping", accept |-> "not", src |-> n, dst |-> p.dst, ttl |-> ttl,
                   seq |-> seq, given |-> ttl, hops |-> 0]
             q == IF p.next + 1 = IF p.op = "route" THEN RouteProbes ELSE PingPackets
                  THEN NoPrompt ELSE [p EXCEPT !.next = @ + 1]
  <1>1. TypeOK /\ link \in Links /\ Prompts /\ seq \in Nat
    <2>1. TypeOK /\ link \in Links /\ Prompts
      BY DEF Inv
    <2>2. seqnum[n] \in Nat
      BY <2>1 DEF TypeOK
    <2> QED BY <2>1, <2>2
  <1>2. /\ p \in Pings /\ p.op \in {"ping", "route"} /\ p.dst \in Node /\ p.next \in Nat
        /\ p.op = "route" => p.next < RouteProbes
    <2>1. p \in Pings
      BY <1>1 DEF TypeOK
    <2>2. p.op # "none"
      BY DEF SendPing
    <2> QED BY <1>1, <2>1, <2>2 DEF Prompts
  <1>3. m \in BoundedMessage
    <2>1. ttl \in Nat /\ (ttl <= DefaultTTL \/ ttl < RouteProbes)
      BY <1>2, ForwardingAssumption
    <2> HIDE DEF ttl
    <2>3. m \in Message
      BY <1>1, <1>2, <2>1 DEF Message
    <2>4. m.ttl = ttl /\ m.given = ttl /\ m.hops = 0
      OBVIOUS
    <2> HIDE DEF m
    <2> QED BY <2>1, <2>3, <2>4, ForwardingAssumption DEF BoundedMessage, Bounded
  <1>4. q \in Pings /\ (q.op # "none" => q.dst \in Node) /\ (q.op = "route" => q.next < RouteProbes)
    <2>1. CASE q = NoPrompt
      BY <2>1 DEF NoPrompt
    <2>2. CASE q # NoPrompt
      <3>1. q = [p EXCEPT !.next = p.next + 1] /\ (p.op = "route" => p.next + 1 # RouteProbes)
        BY <2>2
      <3> HIDE DEF p, q
      <3>2. q \in Pings /\ q.op = p.op /\ q.dst = p.dst /\ q.next = p.next + 1
        BY <1>2, <3>1
      <3>3. p.op = "route" => p.next + 1 < RouteProbes
        BY <1>2, <3>1, ForwardingAssumption
      <3> QED BY <1>2, <3>2, <3>3
    <2> QED BY <2>1, <2>2
  <1>5. /\ seqnum' = [seqnum EXCEPT ![n] = seq]
        /\ prompt' = [prompt EXCEPT ![n] = q]
        /\ Sends(n, p.via, m, link)
        /\ UNCHANGED <<route, changes, issued, replyVars, delivered, lost>>
    BY DEF SendPing
  <1> HIDE DEF seq, m, q, p, Pings
  <1>6. link' \in Links /\ up' \in [Node -> BOOLEAN]
    BY <1>1, <1>3, <1>5, SendsLinks
  <1>7. link' \in [Node \X Node -> Seq(Message)]
    BY <1>6, LinksTyped
  <1>8. seqnum' \in [Node -> Nat]
    BY <1>1, <1>5 DEF TypeOK
  <1>9. prompt' \in [Node -> Pings] /\ Prompts'
    BY <1>1, <1>4, <1>5 DEF TypeOK, Pings, Prompts
  <1>10. TypeOK'
    BY <1>1, <1>5, <1>6, <1>7, <1>8, <1>9 DEF TypeOK, Pings, replyVars
  <1> QED BY <1>6, <1>9, <1>10 DEF Inv, Links

(***************************************************************************)
(* Another route table.                                                    *)
(***************************************************************************)
LEMMA TableChangesStep ==
  ASSUME Inv, NEW n \in Node, TableChanges(n)
  PROVE  Inv'
  <1>1. PICK t \in Table : route' = [route EXCEPT ![n] = t[n]]
    BY DEF TableChanges
  <1>2. t[n] \in [Node -> Node \cup {Unknown, NoClient}]
    BY ForwardingAssumption
  <1>3. route' \in [Node -> [Node -> Node \cup {Unknown, NoClient}]]
    BY <1>1, <1>2 DEF Inv, TypeOK
  <1>4. changes' \in 0..MaxChanges
    <2>1. changes \in 0..MaxChanges /\ MaxChanges \in Nat
      BY ForwardingAssumption DEF Inv, TypeOK
    <2>2. changes < MaxChanges /\ changes' = changes + 1
      BY DEF TableChanges
    <2> QED BY <2>1, <2>2
  <1>5. UNCHANGED <<up, link, commandVars, replyVars, delivered, lost>>
    BY DEF TableChanges
  <1> QED BY <1>3, <1>4, <1>5 DEF Inv, TypeOK, Prompts, commandVars, replyVars, Links

(***************************************************************************)
(* Every step of the system keeps Inv.                                     *)
(***************************************************************************)
LEMMA InvStep == Inv /\ [Next]_vars => Inv'
  <1> SUFFICES ASSUME Inv, [Next]_vars PROVE Inv'
    OBVIOUS
  <1>1. ASSUME NEW n \in User, UserCommand(n) PROVE Inv'
    <2>1. n \in Node
      BY ForwardingAssumption
    <2>2. CASE \E d \in Node : MessageCommand(n, d) \/ PingCommand(n, d) \/ RouteCommand(n, d)
      BY <2>1, <2>2, MessageCommandStep, PingCommandStep, RouteCommandStep
    <2>3. CASE SendPing(n)
      BY <2>1, <2>3, SendPingStep
    <2> QED BY <1>1, <2>2, <2>3 DEF UserCommand
  <1>2. ASSUME NEW n \in Node, TableChanges(n) PROVE Inv'
    BY <1>2, TableChangesStep
  <1>3. ASSUME NEW q \in Node, NEW n \in Node, Receive(q, n) \/ Coalesced(q, n) PROVE Inv'
    BY <1>3, ReceiveStep, CoalescedStep
  <1>4. CASE UNCHANGED vars
    BY <1>4 DEF vars, commandVars, replyVars, Inv, TypeOK, Prompts, Links
  <1> QED BY <1>1, <1>2, <1>3, <1>4 DEF Next

------------------------------------------------------------------------------
(***************************************************************************)
(* The bound of the messages in flight is the one HopsBounded states.      *)
(***************************************************************************)
LEMMA InvBoundsHops == Inv => HopsBounded
  <1> SUFFICES ASSUME Inv, NEW m \in InFlight, Limited(m)
               PROVE  m.hops <= m.given
    BY DEF HopsBounded
  <1>1. PICK e \in DOMAIN link : \E i \in DOMAIN link[e] : m = link[e][i]
    BY DEF InFlight
  <1>2. link \in [Node \X Node -> Seq(BoundedMessage)]
    BY DEF Inv, Links
  <1>3. link[e] \in Seq(BoundedMessage)
    BY <1>1, <1>2
  <1>4. m \in BoundedMessage
    BY <1>1, <1>3
  <1>5. /\ m.ttl \in Nat /\ m.hops \in Nat /\ m.given \in Nat
        /\ m.ttl + m.hops <= m.given
    BY <1>4, MessageFields DEF BoundedMessage, Bounded
  <1> QED BY <1>5

(***************************************************************************)
(* Every reachable state of the routers is well typed, whatever the        *)
(* connections, the route tables and the bounds: in particular the count   *)
(* of expected pongs stays between zero and the number of pings sent,      *)
(* although pongs of other commands are counted too (exec.cpp, PONG).      *)
(***************************************************************************)
THEOREM TypesAreKept == Spec => []TypeOK
  <1>1. Inv => TypeOK
    BY DEF Inv
  <1> QED BY <1>1, InvInit, InvStep, PTL DEF Spec

(***************************************************************************)
(* No packet or ping, and no pong that carries a TTL, is forwarded more    *)
(* often than the TTL it was sent with says, for every network, every      *)
(* route tables, loops included, and however they change under the         *)
(* messages (exec.cpp, PACKET, PING and PONG in transit;                   *)
(* mess__getAndDecTTL).                                                    *)
(***************************************************************************)
THEOREM TTLBoundsHops == Spec => []HopsBounded
  <1> QED BY InvInit, InvStep, InvBoundsHops, PTL DEF Spec

------------------------------------------------------------------------------
(***************************************************************************)
(* Routers with complete tables that lead to each destination stay up.     *)
(***************************************************************************)

(***************************************************************************)
(* Every table a router may have gives a next hop for every other router,  *)
(* and some distance to the destination goes down along all of them: no    *)
(* message can run in a circle, even one that meets tables of before and   *)
(* of after a change.                                                      *)
(***************************************************************************)
Distances == [Node -> [Node -> Nat]]

GoesDown(D) ==
  \A t \in Table, n, d \in Node : n # d => t[n][d] \in Node /\ D[t[n][d]][d] < D[n][d]

TablesLeadTo == \E D \in Distances : GoesDown(D)

(***************************************************************************)
(* A message on its way to n may still be answered: an answer does not     *)
(* expire, and a packet or a ping that does is not at its source.          *)
(***************************************************************************)
Question(m) == m.type # "pong" /\ m.accept = "not"

Closer(D, n, m) == m.src # m.dst /\ D[n][m.dst] < D[m.src][m.dst]

Due(D, n, m) ==
  /\ m.type = "ping" => m.accept = "not"
  /\ m.accept # "not" => m.ttl # 0
  /\ Question(m) => Closer(D, n, m)

DueAt(D, n) == {m \in Message : Due(D, n, m)}

DueLinks(D) == {l \in [Node \X Node -> Seq(Message)] :
                  \A e \in Node \X Node : l[e] \in Seq(DueAt(D, e[2]))}

RoutesOfTables == \A n \in Node : \E t \in Table : route[n] = t[n]

PromptsLead(D) ==
  \A n \in Node : prompt[n].op # "none" =>
    LET p == prompt[n] IN p.dst \in Node /\ p.dst # n /\ p.via \in Node /\ D[p.via][p.dst] < D[n][p.dst]

Stays(D) ==
  /\ RoutersStayUp /\ RoutesOfTables
  /\ link \in DueLinks(D)
  /\ PromptsLead(D)

(***************************************************************************)
(* Where a route leads.                                                    *)
(***************************************************************************)
LEMMA RouteGoesDown ==
  ASSUME NEW D \in Distances, GoesDown(D), RoutesOfTables, NEW n \in Node, NEW d \in Node, n # d
  PROVE  route[n][d] \in Node /\ D[route[n][d]][d] < D[n][d]
  BY DEF RoutesOfTables, GoesDown

(***************************************************************************)
(* Writing messages that are due on a connection.                          *)
(***************************************************************************)
LEMMA PutDue ==
  ASSUME NEW D, NEW l \in DueLinks(D), NEW q \in Node, NEW n \in Node,
         NEW s \in Seq(DueAt(D, n)), s \in Seq(Message)
  PROVE  [l EXCEPT ![<<q, n>>] = s] \in DueLinks(D)
  <1> DEFINE k == [l EXCEPT ![<<q, n>>] = s]
             S(e) == Seq(DueAt(D, e[2]))
  <1>1. l \in [Node \X Node -> Seq(Message)] /\ \A e \in Node \X Node : l[e] \in S(e)
    BY DEF DueLinks
  <1>2. <<q, n>> \in Node \X Node /\ s \in S(<<q, n>>)
    OBVIOUS
  <1>3. k \in [Node \X Node -> Seq(Message)]
    BY <1>1
  <1> HIDE DEF S
  <1>4. \A e \in Node \X Node : k[e] \in S(e)
    BY <1>1, <1>2
  <1>5. \A x \in [Node \X Node -> Seq(Message)] :
          (\A e \in Node \X Node : x[e] \in S(e)) => x \in DueLinks(D)
    BY DEF DueLinks, S
  <1> HIDE DEF k
  <1>6. k \in DueLinks(D)
    BY <1>3, <1>4, <1>5
  <1> QED BY <1>6 DEF k

(***************************************************************************)
(* A router sends to a next hop that is up, and stays up, when every       *)
(* router is.                                                              *)
(***************************************************************************)
LEMMA SendsStays ==
  ASSUME NEW D \in Distances, TypeOK, RoutersStayUp, NEW l \in DueLinks(D), NEW n \in Node,
         NEW via \in Node, NEW m \in Message, m.type = "ping" => m.accept = "not",
         Question(m) => Closer(D, via, m), Sends(n, via, m, l)
  PROVE  link' \in DueLinks(D) /\ up' = up
  <1>1. up[via] /\ \A q \in Neighbor[n] : up[q]
    BY ForwardingAssumption DEF RoutersStayUp
  <1>2. link' = Written(l, n, via, m) /\ up' = up
    BY <1>1 DEF Sends, Targets
  <1> DEFINE w == OnWire(m)
  <1>3. w \in DueAt(D, via)
    <2>1. CASE m.accept = "not"
      BY <2>1 DEF OnWire, Limited, DueAt, Due
    <2>2. CASE m.accept # "not"
      <3>1. w = [m EXCEPT !.ttl = -1]
        BY <2>2 DEF OnWire, Limited
      <3> HIDE DEF w
      <3>2. w \in Message /\ w.type = m.type /\ w.accept = m.accept /\ w.ttl = -1
        BY <3>1 DEF Message
      <3> QED BY <2>2, <3>2 DEF DueAt, Due, Question
    <2> QED BY <2>1, <2>2
  <1> HIDE DEF w
  <1>4. w \in Message /\ l \in [Node \X Node -> Seq(Message)] /\ l[<<n, via>>] \in Seq(DueAt(D, via))
    BY <1>3 DEF DueAt, DueLinks
  <1>5. Append(l[<<n, via>>], w) \in Seq(DueAt(D, via)) /\ Append(l[<<n, via>>], w) \in Seq(Message)
    BY <1>3, <1>4
  <1>6. link' = [l EXCEPT ![<<n, via>>] = Append(@, w)]
    BY <1>1, <1>2 DEF Written, w
  <1>7. link' \in DueLinks(D)
    BY <1>4, <1>5, <1>6, PutDue
  <1> QED BY <1>2, <1>7

(***************************************************************************)
(* So does one that forwards a message to another router.                  *)
(***************************************************************************)
LEMMA ForwardStays ==
  ASSUME NEW D \in Distances, GoesDown(D), RoutesOfTables, TypeOK, RoutersStayUp,
         NEW l \in DueLinks(D), NEW n \in Node, NEW m \in Message, m.dst # n,
         m.type = "ping" => m.accept = "not",
         Question(m) => m.src # m.dst /\ D[n][m.dst] <= D[m.src][m.dst], Forward(n, m, l)
  PROVE  link' \in DueLinks(D) /\ up' = up
  <1>1. m.dst \in Node /\ m.src \in Node
    BY DEF Message
  <1> DEFINE via == route[n][m.dst]
  <1>2. via \in Node /\ D[via][m.dst] < D[n][m.dst]
    BY <1>1, RouteGoesDown
  <1> HIDE DEF via
  <1>3. Question(m) => Closer(D, via, m)
    <2>1. D[via][m.dst] \in Nat /\ D[n][m.dst] \in Nat /\ D[m.src][m.dst] \in Nat
      BY <1>1, <1>2 DEF Distances
    <2> QED BY <1>2, <2>1 DEF Closer
  <1>4. Sends(n, via, m, l)
    BY DEF Forward, via
  <1> QED BY <1>2, <1>3, <1>4, SendsStays

(***************************************************************************)
(* The first message of a connection is due, and the others still are.     *)
(***************************************************************************)
LEMMA ReadStays ==
  ASSUME NEW D, link \in DueLinks(D), NEW q \in Node, NEW n \in Node, link[<<q, n>>] # <<>>
  PROVE  /\ Head(link[<<q, n>>]) \in Message /\ Due(D, n, Head(link[<<q, n>>]))
         /\ [link EXCEPT ![<<q, n>>] = Tail(@)] \in DueLinks(D)
  <1>1. /\ link[<<q, n>>] \in Seq(DueAt(D, n)) /\ link[<<q, n>>] \in Seq(Message)
        /\ link \in [Node \X Node -> Seq(Message)]
    BY DEF DueLinks
  <1>2. /\ Head(link[<<q, n>>]) \in DueAt(D, n)
        /\ Tail(link[<<q, n>>]) \in Seq(DueAt(D, n)) /\ Tail(link[<<q, n>>]) \in Seq(Message)
    BY <1>1
  <1>3. [link EXCEPT ![<<q, n>>] = Tail(@)] \in DueLinks(D)
    BY <1>1, <1>2, PutDue
  <1> QED BY <1>2, <1>3 DEF DueAt

(***************************************************************************)
(* What an answer says and where it goes.                                  *)
(***************************************************************************)
LEMMA AnswerFields ==
  ASSUME NEW m \in Message, NEW a \in {"ok", "toofar", "ttlzero"}, NEW s \in Node
  PROVE  /\ LET p == [Reversed(m) EXCEPT !.accept = a]
            IN  p \in Message /\ p.type = m.type /\ p.accept = a /\ p.dst = m.src
         /\ LET p == [Reversed(m) EXCEPT !.type = "pong"]
            IN  p \in Message /\ p.type = "pong" /\ p.dst = m.src
         /\ LET p == [Reversed(m) EXCEPT !.type = "pong", !.accept = a, !.src = s]
            IN  p \in Message /\ p.type = "pong" /\ p.dst = m.src
  <1> DEFINE r == Reversed(m)
  <1>1. r \in Message /\ r.type = m.type /\ r.dst = m.src
    <2>1. m \in Message /\ m.src \in Node /\ m.dst \in Node /\ DefaultTTL \in Int /\ DefaultTTL \in Nat /\ 0 \in Nat
      BY ForwardingAssumption DEF Message
    <2> QED BY <2>1 DEF Reversed, Message
  <1> HIDE DEF r
  <1>2. LET p == [r EXCEPT !.accept = a]
        IN  p \in Message /\ p.type = m.type /\ p.accept = a /\ p.dst = m.src
    BY <1>1 DEF Message
  <1>3. LET p == [r EXCEPT !.type = "pong"] IN p \in Message /\ p.type = "pong" /\ p.dst = m.src
    BY <1>1 DEF Message
  <1>4. LET p == [r EXCEPT !.type = "pong", !.accept = a, !.src = s]
        IN  p \in Message /\ p.type = "pong" /\ p.dst = m.src
    BY <1>1 DEF Message
  <1> QED BY <1>2, <1>3, <1>4 DEF r

(***************************************************************************)
(* The answer to a ping whose TTL ran out.                                 *)
(***************************************************************************)
LEMMA TtlZeroFields ==
  ASSUME NEW m \in Message, NEW s \in Node,
         NEW p, p = [Reversed(m) EXCEPT !.type = "pong", !.accept = "ttlzero", !.src = s]
  PROVE  p \in Message /\ p.type = "pong" /\ p.dst = m.src
  <1>1. PICK r : r = Reversed(m)
    OBVIOUS
  <1>2. r \in Message /\ r.dst = m.src
    <2>1. m \in Message /\ m.src \in Node /\ m.dst \in Node /\ DefaultTTL \in Int /\ DefaultTTL \in Nat /\ 0 \in Nat
      BY ForwardingAssumption DEF Message
    <2> QED BY <1>1, <2>1 DEF Reversed, Message
  <1>3. p = [r EXCEPT !.type = "pong", !.accept = "ttlzero", !.src = s]
    BY <1>1
  <1> QED BY <1>2, <1>3 DEF Message

(***************************************************************************)
(* A message that arrives leaves every router up, answered or not.         *)
(***************************************************************************)
LEMMA ArrivalStays ==
  ASSUME NEW D \in Distances, GoesDown(D), RoutesOfTables, TypeOK, RoutersStayUp,
         NEW l \in DueLinks(D), NEW n \in Node, NEW m \in Message, Due(D, n, m),
         \/ PacketArrives(n, m, l) \/ PacketAnswered(n, m, l)
         \/ PingArrives(n, m, l) \/ PongArrives(n, m, l)
  PROVE  link' \in DueLinks(D) /\ up' = up
  <1>1. CASE PacketArrives(n, m, l)
    <2> DEFINE p == [Reversed(m) EXCEPT !.accept = "ok"]
    <2>1. m.src # n /\ m.type = "packet"
      BY <1>1 DEF PacketArrives, Due, Question, Closer
    <2>2. Forward(n, p, l)
      BY <1>1 DEF PacketArrives
    <2>3. p \in Message /\ p.type = m.type /\ p.accept = "ok" /\ p.dst = m.src
      BY AnswerFields
    <2> HIDE DEF p
    <2> QED BY <2>1, <2>2, <2>3, ForwardStays DEF Question
  <1>2. CASE PingArrives(n, m, l)
    <2> DEFINE p == [Reversed(m) EXCEPT !.type = "pong"]
    <2>1. m.src # n
      BY <1>2 DEF PingArrives, Due, Question, Closer
    <2>2. Forward(n, p, l)
      BY <1>2 DEF PingArrives
    <2>3. p \in Message /\ p.type = "pong" /\ p.dst = m.src
      BY AnswerFields
    <2> HIDE DEF p
    <2> QED BY <2>1, <2>2, <2>3, ForwardStays DEF Question
  <1>3. CASE PacketAnswered(n, m, l) \/ PongArrives(n, m, l)
    BY <1>3 DEF PacketAnswered, PongArrives
  <1> QED BY <1>1, <1>2, <1>3

(***************************************************************************)
(* So does one that is passed on: it comes closer to its destination.      *)
(***************************************************************************)
LEMMA TransitStays ==
  ASSUME NEW D \in Distances, GoesDown(D), RoutesOfTables, TypeOK, RoutersStayUp,
         NEW l \in DueLinks(D), NEW n \in Node, NEW m \in Message, Due(D, n, m),
         Transits(n, m, l)
  PROVE  link' \in DueLinks(D) /\ up' = up
  <1> DEFINE h == IF m.hops > Limit THEN m.hops ELSE m.hops + 1
             p == Passed(m)
  <1>1. m.src \in Node /\ m.dst \in Node /\ m.ttl - 1 \in Int /\ h \in Nat
    BY ForwardingAssumption DEF Message, Limit
  <1>2. p = [m EXCEPT !.ttl = m.ttl - 1, !.hops = h]
    BY DEF Passed, Message
  <1> HIDE DEF h, p
  <1>3. /\ p \in Message /\ p.type = m.type /\ p.accept = m.accept
        /\ p.src = m.src /\ p.dst = m.dst
    BY <1>1, <1>2 DEF Message
  <1>4. m.dst # n /\ Forward(n, p, l)
    BY DEF Transits, p
  <1>5. D[n][m.dst] \in Nat /\ D[m.src][m.dst] \in Nat
    BY <1>1 DEF Distances
  <1>6. Question(p) => p.src # p.dst /\ D[n][p.dst] <= D[p.src][p.dst]
    BY <1>3, <1>5 DEF Due, Question, Closer
  <1>7. p.type = "ping" => p.accept = "not"
    BY <1>3 DEF Due
  <1> QED BY <1>3, <1>4, <1>6, <1>7, ForwardStays

(***************************************************************************)
(* So does one that expires: it is not at its source, where the answer     *)
(* goes.                                                                   *)
(***************************************************************************)
LEMMA ExpiryStays ==
  ASSUME NEW D \in Distances, GoesDown(D), RoutesOfTables, TypeOK, RoutersStayUp,
         NEW l \in DueLinks(D), NEW n \in Node, NEW m \in Message, Due(D, n, m),
         Expires(n, m, l)
  PROVE  link' \in DueLinks(D) /\ up' = up
  <1>1. CASE m.type = "pong" /\ link' = l /\ UNCHANGED up
    BY <1>1
  <1>2. ASSUME m.type # "pong" PROVE m.src # n
    <2>1. Question(m)
      BY <1>2 DEF Due, Expires, Question
    <2>2. m.src \in Node /\ m.dst \in Node
      BY DEF Message
    <2>3. D[n][m.dst] \in Nat
      BY <2>2 DEF Distances
    <2> QED BY <2>1, <2>2, <2>3 DEF Due, Closer
  <1>3. CASE m.type = "packet" /\ Forward(n, TooFar(m), l)
    <2> DEFINE p == TooFar(m)
    <2>1. p \in Message /\ p.type = m.type /\ p.accept = "toofar" /\ p.dst = m.src
      BY AnswerFields DEF TooFar
    <2> HIDE DEF p
    <2>2. Forward(n, p, l) /\ p.dst # n /\ p.type = "packet"
      BY <1>2, <1>3, <2>1 DEF p
    <2> QED BY <2>1, <2>2, ForwardStays DEF Question
  <1>4. CASE /\ m.type = "ping"
             /\ Forward(n, [Reversed(m) EXCEPT !.type = "pong", !.accept = "ttlzero", !.src = n], l)
    <2>0. PICK p : p = [Reversed(m) EXCEPT !.type = "pong", !.accept = "ttlzero", !.src = n]
      OBVIOUS
    <2>1. p \in Message /\ p.type = "pong" /\ p.dst = m.src
      BY <2>0, TtlZeroFields
    <2>2. Forward(n, p, l)
      BY <1>4, <2>0
    <2>3. p.dst # n
      BY <1>2, <1>4, <2>1
    <2> QED BY <2>1, <2>2, <2>3, ForwardStays DEF Question
  <1> QED BY <1>1, <1>3, <1>4 DEF Expires

(***************************************************************************)
(* Every step keeps the routers up: receiving a message or losing it.      *)
(***************************************************************************)
LEMMA ReceiveStays ==
  ASSUME NEW D \in Distances, GoesDown(D), TypeOK, Stays(D),
         NEW q \in Node, NEW n \in Node, Receive(q, n) \/ Coalesced(q, n)
  PROVE  Stays(D)'
  <1> DEFINE m == Head(link[<<q, n>>])
             l == [link EXCEPT ![<<q, n>>] = Tail(@)]
  <1>1. m \in Message /\ Due(D, n, m) /\ l \in DueLinks(D)
    <2>1. link[<<q, n>>] # <<>>
      BY DEF Receive, Coalesced
    <2> QED BY <2>1, ReadStays DEF Stays
  <1>2. \/ PacketArrives(n, m, l) \/ PacketAnswered(n, m, l)
        \/ PingArrives(n, m, l) \/ PongArrives(n, m, l)
        \/ Transits(n, m, l) \/ Expires(n, m, l) \/ (link' = l /\ up' = up)
    BY DEF Receive, Coalesced
  <1>3. route' = route /\ prompt' = prompt
    BY DEF Receive, Coalesced, commandVars
  <1> HIDE DEF m, l
  <1>4. link' \in DueLinks(D) /\ up' = up
    BY <1>1, <1>2, ArrivalStays, TransitStays, ExpiryStays DEF Stays
  <1> QED BY <1>3, <1>4 DEF Stays, RoutersStayUp, RoutesOfTables, PromptsLead, DueLinks

(***************************************************************************)
(* The message command: a router has no route to itself only.              *)
(***************************************************************************)
LEMMA MessageStays ==
  ASSUME NEW D \in Distances, GoesDown(D), TypeOK, Stays(D),
         NEW n \in Node, NEW d \in Node, MessageCommand(n, d)
  PROVE  Stays(D)'
  <1> DEFINE seq == seqnum[n] + 1
             m == [type |-> "packet", accept |-> "not", src |-> n, dst |-> d, ttl |-> DefaultTTL,
                   seq |-> seq, given |-> DefaultTTL, hops |-> 0]
  <1>1. route' = route /\ prompt' = prompt
    BY DEF MessageCommand, Typed
  <1>2. link' \in DueLinks(D) /\ up' = up
    <2>1. CASE route[n][d] = Unknown
      BY <2>1 DEF MessageCommand, Stays
    <2>2. CASE route[n][d] # Unknown
      <3>1. Forward(n, m, link)
        BY <2>2 DEF MessageCommand
      <3>2. n # d
        BY <2>2, ForwardingAssumption DEF Stays, RoutesOfTables
      <3>3. seq \in Nat
        BY DEF TypeOK
      <3> HIDE DEF seq
      <3>4. /\ m \in Message /\ m.type = "packet" /\ m.dst = d /\ m.src = n
        BY <3>3, ForwardingAssumption DEF Message
      <3>5. D[n][d] <= D[n][d]
        BY DEF Distances
      <3> HIDE DEF m
      <3> QED BY <3>1, <3>2, <3>4, <3>5, ForwardStays DEF Stays
    <2> QED BY <2>1, <2>2
  <1> QED BY <1>1, <1>2 DEF Stays, RoutersStayUp, RoutesOfTables, PromptsLead, DueLinks

(***************************************************************************)
(* The ping and route commands, which keep the next hop they looked up.    *)
(***************************************************************************)
LEMMA StartStays ==
  ASSUME NEW D \in Distances, GoesDown(D), TypeOK, Stays(D),
         NEW n \in Node, NEW d \in Node, PingCommand(n, d) \/ RouteCommand(n, d)
  PROVE  Stays(D)'
  <1>1. PICK op \in {"ping", "route"} : Started(n, op, d)
    BY DEF PingCommand, RouteCommand
  <1>2. UNCHANGED <<up, link, route>>
    BY DEF PingCommand, RouteCommand, Typed
  <1>3. PromptsLead(D)'
    <2>1. CASE route[n][d] = Unknown
      BY <1>1, <2>1 DEF Started, Stays, PromptsLead
    <2>2. CASE route[n][d] # Unknown
      <3> DEFINE p == [op |-> op, dst |-> d, via |-> route[n][d], next |-> 0]
      <3>1. prompt' = [prompt EXCEPT ![n] = p]
        BY <1>1, <2>2 DEF Started
      <3>2. n # d
        BY <2>2, ForwardingAssumption DEF Stays, RoutesOfTables
      <3>3. p.dst \in Node /\ p.dst # n /\ p.via \in Node /\ D[p.via][p.dst] < D[n][p.dst]
        BY <3>2, RouteGoesDown DEF Stays
      <3> HIDE DEF p
      <3>4. \A k \in Node : k # n => prompt'[k] = prompt[k]
        BY <3>1 DEF TypeOK
      <3>5. prompt'[n] = p
        BY <3>1 DEF TypeOK
      <3> QED BY <3>3, <3>4, <3>5 DEF Stays, PromptsLead
    <2> QED BY <2>1, <2>2
  <1> QED BY <1>2, <1>3 DEF Stays, RoutersStayUp, RoutesOfTables, DueLinks

(***************************************************************************)
(* A ping of theirs, sent to that next hop whatever the table is by then.  *)
(***************************************************************************)
LEMMA SendPingStays ==
  ASSUME NEW D \in Distances, GoesDown(D), TypeOK, Stays(D), NEW n \in Node, SendPing(n)
  PROVE  Stays(D)'
  <1> DEFINE Pings == [op : {"none", "ping", "route"}, dst : Node \cup {Unknown},
                       via : Node \cup {Unknown, NoClient}, next : Nat]
             p == prompt[n]
             seq == seqnum[n] + 1
             ttl == IF p.op = "route" THEN p.next ELSE DefaultTTL
             m == [type |-> "ping", accept |-> "not", src |-> n, dst |-> p.dst, ttl |-> ttl,
                   seq |-> seq, given |-> ttl, hops |-> 0]
             q == IF p.next + 1 = IF p.op = "route" THEN RouteProbes ELSE PingPackets
                  THEN NoPrompt ELSE [p EXCEPT !.next = @ + 1]
  <1>1. /\ p.op # "none" /\ prompt' = [prompt EXCEPT ![n] = q] /\ Sends(n, p.via, m, link)
        /\ route' = route
    BY DEF SendPing
  <1>2. p.dst \in Node /\ p.dst # n /\ p.via \in Node /\ D[p.via][p.dst] < D[n][p.dst]
    BY <1>1 DEF Stays, PromptsLead
  <1>3. p \in Pings /\ seq \in Nat
    BY DEF TypeOK
  <1>4. ttl \in Int /\ ttl \in Nat
    BY <1>3, ForwardingAssumption
  <1>5. q.op # "none" => q.dst = p.dst /\ q.via = p.via
    <2>1. CASE q = NoPrompt
      BY <2>1 DEF NoPrompt
    <2>2. CASE q = [p EXCEPT !.next = p.next + 1]
      <3> HIDE DEF p, q
      <3> QED BY <1>3, <2>2
    <2> QED BY <2>1, <2>2
  <1>6. m \in Message /\ m.type = "ping" /\ m.accept = "not" /\ m.src = n /\ m.dst = p.dst
    <2> HIDE DEF ttl, seq
    <2> QED BY <1>2, <1>3, <1>4 DEF Message
  <1> HIDE DEF m, q, Pings, ttl, seq
  <1>7. Closer(D, p.via, m)
    BY <1>2, <1>6 DEF Closer
  <1>8. link' \in DueLinks(D) /\ up' = up
    BY <1>1, <1>2, <1>6, <1>7, SendsStays DEF Stays
  <1>9. PromptsLead(D)'
    <2>1. \A k \in Node : k # n => prompt'[k] = prompt[k]
      BY <1>1 DEF TypeOK
    <2>2. prompt'[n] = q
      BY <1>1 DEF TypeOK
    <2> QED BY <1>2, <1>5, <2>1, <2>2 DEF Stays, PromptsLead
  <1> QED BY <1>1, <1>8, <1>9 DEF Stays, RoutersStayUp, RoutesOfTables, DueLinks

(***************************************************************************)
(* Every step of the system, a change of the tables included.              *)
(***************************************************************************)
LEMMA StaysStep ==
  ASSUME NEW D \in Distances, GoesDown(D)
  PROVE  TypeOK /\ Stays(D) /\ [Next]_vars => Stays(D)'
  <1> SUFFICES ASSUME TypeOK, Stays(D), [Next]_vars PROVE Stays(D)'
    OBVIOUS
  <1>1. ASSUME NEW n \in User, UserCommand(n) PROVE Stays(D)'
    <2>1. n \in Node
      BY ForwardingAssumption
    <2> QED BY <1>1, <2>1, MessageStays, StartStays, SendPingStays DEF UserCommand
  <1>2. ASSUME NEW n \in Node, TableChanges(n) PROVE Stays(D)'
    <2>1. PICK t \in Table : route' = [route EXCEPT ![n] = t[n]]
      BY <1>2 DEF TableChanges
    <2>2. UNCHANGED <<up, link, prompt>>
      BY <1>2 DEF TableChanges, commandVars
    <2>3. RoutesOfTables'
      <3>1. route' \in [Node -> [Node -> Node \cup {Unknown, NoClient}]]
        BY <2>1, ForwardingAssumption DEF TypeOK
      <3>2. \A k \in Node : route'[k] = IF k = n THEN t[n] ELSE route[k]
        BY <2>1 DEF TypeOK
      <3> QED BY <3>2 DEF Stays, RoutesOfTables
    <2> QED BY <2>2, <2>3 DEF Stays, RoutersStayUp, PromptsLead, DueLinks
  <1>3. ASSUME NEW q \in Node, NEW n \in Node, Receive(q, n) \/ Coalesced(q, n) PROVE Stays(D)'
    BY <1>3, ReceiveStays
  <1>4. CASE UNCHANGED vars
    BY <1>4 DEF vars, commandVars, Stays, RoutersStayUp, RoutesOfTables, PromptsLead, DueLinks
  <1> QED BY <1>1, <1>2, <1>3, <1>4 DEF Next

(***************************************************************************)
(* Every router is up at the start, and nothing was sent.                  *)
(***************************************************************************)
LEMMA StaysInit ==
  ASSUME NEW D \in Distances, GoesDown(D)
  PROVE  Init => Stays(D)
  <1> SUFFICES ASSUME Init PROVE Stays(D)
    OBVIOUS
  <1>1. link \in DueLinks(D)
    <2>1. link \in [Node \X Node -> Seq(Message)] /\ \A e \in Node \X Node : link[e] = <<>>
      BY DEF Init
    <2>2. \A e \in Node \X Node : <<>> \in Seq(DueAt(D, e[2]))
      OBVIOUS
    <2>3. \A e \in Node \X Node : link[e] \in Seq(DueAt(D, e[2]))
      BY <2>1, <2>2
    <2> QED BY <2>1, <2>3 DEF DueLinks
  <1>2. RoutersStayUp /\ RoutesOfTables
    BY DEF Init, RoutersStayUp, RoutesOfTables
  <1>3. PromptsLead(D)
    BY DEF Init, PromptsLead, NoPrompt
  <1> QED BY <1>1, <1>2, <1>3 DEF Stays

(***************************************************************************)
(* No router ends by sending, when every table leads to every destination  *)
(* and no message can run in a circle: the UnknownDest that Exec lets out  *)
(* of the network's thread is then never thrown.  A next hop for every     *)
(* destination is not enough: a packet that a circle brings back to its    *)
(* source and that expires there is answered to a router that has no route *)
(* to itself (sock_actions.cpp, reverse; exec.cpp, PACKET).                *)
(***************************************************************************)
THEOREM NoRouterEnds ==
  ASSUME TablesLeadTo
  PROVE  Spec => []RoutersStayUp
  <1>1. PICK D \in Distances : GoesDown(D)
    BY DEF TablesLeadTo
  <1>2. Init => Stays(D)
    BY <1>1, StaysInit
  <1>3. TypeOK /\ Stays(D) /\ [Next]_vars => Stays(D)'
    BY <1>1, StaysStep
  <1>4. Stays(D) => RoutersStayUp
    BY DEF Stays
  <1> QED BY <1>2, <1>3, <1>4, TypesAreKept, PTL DEF Spec

------------------------------------------------------------------------------
(***************************************************************************)
(* What a source displays of its messages is true, whatever the            *)
(* connections, the route tables and the way they change.                  *)
(*                                                                         *)
(* AnswersAreTrue is not inductive: it says nothing of what is still on    *)
(* the connections.  What every step keeps is that a message and its       *)
(* answer are never on their way together (OnceEach), and that whichever   *)
(* of them is agrees with what was displayed at both ends (MessageIsTrue). *)
(***************************************************************************)
Edges == Node \X Node

IsPacket(m) == m.type = "packet"

(***************************************************************************)
(* The router a packet, or the answer to one, comes from in the end.       *)
(***************************************************************************)
Owner(m) == IF m.accept = "not" THEN m.src ELSE m.dst

(***************************************************************************)
(* A message on its way has a number its owner took and displayed nothing  *)
(* of; it is an answer "ok" just when its packet was displayed.            *)
(***************************************************************************)
MessageIsTrue(m) ==
  /\ m.accept \in {"not", "ok", "toofar"}
  /\ m.accept # "not" => m.ttl = -1
  /\ m.seq <= seqnum[Owner(m)]
  /\ \A a \in answers[Owner(m)] : a[1] # m.seq
  /\ m.accept = "ok" <=> <<Owner(m), m.seq>> \in delivered

(***************************************************************************)
(* A packet and its answers are together at most once on the connections.  *)
(***************************************************************************)
OnceEach(l) ==
  \A e, f \in Edges : \A i \in 1..Len(l[e]), j \in 1..Len(l[f]) :
    /\ IsPacket(l[e][i]) /\ IsPacket(l[f][j])
    /\ Owner(l[e][i]) = Owner(l[f][j]) /\ l[e][i].seq = l[f][j].seq
    => e = f /\ i = j

(***************************************************************************)
(* No packet of o with number s, nor its answer, is on the connections l.  *)
(***************************************************************************)
Clear(l, o, s) ==
  \A e \in Edges : \A i \in 1..Len(l[e]) :
    IsPacket(l[e][i]) => Owner(l[e][i]) # o \/ l[e][i].seq # s

On(l, m) == \E e \in Edges : \E i \in 1..Len(l[e]) : l[e][i] = m

(***************************************************************************)
(* Every message on the connections k was on the connections l.            *)
(***************************************************************************)
From(k, l) ==
  \A e \in Edges : \A i \in 1..Len(k[e]) : On(l, k[e][i])

(***************************************************************************)
(* Every one but w.                                                        *)
(***************************************************************************)
FromOr(k, l, w) ==
  \A e \in Edges : \A i \in 1..Len(k[e]) : k[e][i] = w \/ On(l, k[e][i])

(***************************************************************************)
(* What was displayed has a number that was taken.                         *)
(***************************************************************************)
RecordsAreKnown ==
  /\ \A n \in Node : \A a \in answers[n] : a[1] <= seqnum[n]
  /\ \A n \in Node : \A s \in Nat : <<n, s>> \in delivered => s <= seqnum[n]

MessagesAreTrue ==
  \A m \in BoundedMessage : IsPacket(m) /\ On(link, m) => MessageIsTrue(m)

AInv == OnceEach(link) /\ AnswersAreTrue /\ RecordsAreKnown /\ MessagesAreTrue

(***************************************************************************)
(* Nothing is on the connections, nor recorded, at the start.              *)
(***************************************************************************)
LEMMA AInvInit == Init => AInv
  <1> SUFFICES ASSUME Init PROVE AInv
    OBVIOUS
  <1>1. \A e \in Edges : link[e] = <<>>
    BY DEF Init, Edges
  <1>2. \A n \in Node : answers[n] = {}
    BY DEF Init
  <1>3. delivered = {}
    BY DEF Init
  <1>4. \A e \in Edges : 1..Len(link[e]) = {}
    BY <1>1
  <1> QED
    BY <1>2, <1>3, <1>4 DEF AInv, OnceEach, AnswersAreTrue, RecordsAreKnown, MessagesAreTrue, On

------------------------------------------------------------------------------
(***************************************************************************)
(* Reading and writing on the connections.                                 *)
(***************************************************************************)

(***************************************************************************)
(* Each message of a connection is on the connections.                     *)
(***************************************************************************)
LEMMA ItselfOn ==
  ASSUME NEW l, NEW e \in Edges, NEW i \in 1..Len(l[e])
  PROVE  On(l, l[e][i])
  BY DEF On

(***************************************************************************)
(* The connections after n read the first message of q.                    *)
(***************************************************************************)
AfterRead(q, n) == [link EXCEPT ![<<q, n>>] = Tail(@)]

(***************************************************************************)
(* What is left after the first message of a connection was read.          *)
(***************************************************************************)
LEMMA ReadOnce ==
  ASSUME link \in Links, OnceEach(link), NEW q \in Node, NEW n \in Node, link[<<q, n>>] # <<>>,
         NEW m, m = Head(link[<<q, n>>])
  PROVE  /\ OnceEach(AfterRead(q, n)) /\ From(AfterRead(q, n), link)
         /\ IsPacket(m) => Clear(AfterRead(q, n), Owner(m), m.seq)
         /\ AfterRead(q, n) \in Links /\ m \in BoundedMessage
         /\ On(link, m)
  <1> DEFINE r == <<q, n>>
             l == AfterRead(q, n)
             at(e, i) == IF e = r THEN i + 1 ELSE i
  <1>1. r \in Edges /\ link[r] \in Seq(BoundedMessage) /\ link[r] # <<>>
    BY DEF Edges, Links
  <1>2. /\ Len(Tail(link[r])) = Len(link[r]) - 1
        /\ \A i \in 1..Len(Tail(link[r])) : Tail(link[r])[i] = link[r][i + 1]
        /\ Len(link[r]) \in Nat /\ Len(link[r]) >= 1
    BY <1>1
  <1>3. \A e \in Edges : l[e] = IF e = r THEN Tail(link[r]) ELSE link[e]
    BY <1>1 DEF Edges, Links, AfterRead
  <1>4. \A e \in Edges : \A i \in 1..Len(l[e]) :
          /\ at(e, i) \in 1..Len(link[e]) /\ l[e][i] = link[e][at(e, i)]
          /\ e = r => at(e, i) # 1
    <2> SUFFICES ASSUME NEW e \in Edges, NEW i \in 1..Len(l[e])
                 PROVE  /\ at(e, i) \in 1..Len(link[e]) /\ l[e][i] = link[e][at(e, i)]
                        /\ e = r => at(e, i) # 1
      OBVIOUS
    <2>1. CASE e = r
      <3>1. l[e] = Tail(link[r])
        BY <1>3, <2>1
      <3>2. i \in 1..(Len(link[r]) - 1) /\ l[e][i] = link[r][i + 1]
        BY <1>2, <3>1
      <3> HIDE DEF r
      <3>3. i + 1 \in 1..Len(link[r]) /\ i + 1 # 1
        BY <1>2, <3>2
      <3> QED
        BY <2>1, <3>2, <3>3
    <2>2. CASE e # r
      <3>1. l[e] = link[e]
        BY <1>3, <2>2
      <3> HIDE DEF r
      <3> QED
        BY <2>2, <3>1
    <2> QED
      BY <2>1, <2>2
  <1>5. \A e \in Edges : \A i, j \in 1..Len(l[e]) : at(e, i) = at(e, j) => i = j
    OBVIOUS
  <1> HIDE DEF at, l
  <1>6. OnceEach(l)
    <2> SUFFICES ASSUME NEW e \in Edges, NEW f \in Edges,
                        NEW i \in 1..Len(l[e]), NEW j \in 1..Len(l[f]),
                        IsPacket(l[e][i]), IsPacket(l[f][j]),
                        Owner(l[e][i]) = Owner(l[f][j]), l[e][i].seq = l[f][j].seq
                 PROVE  e = f /\ i = j
      BY DEF OnceEach
    <2>1. l[e][i] = link[e][at(e, i)] /\ l[f][j] = link[f][at(f, j)]
      BY <1>4
    <2>2. at(e, i) \in 1..Len(link[e]) /\ at(f, j) \in 1..Len(link[f])
      BY <1>4
    <2>3. e = f /\ at(e, i) = at(f, j)
      <3>1. PICK a, b : a = at(e, i) /\ b = at(f, j)
        OBVIOUS
      <3>2. a \in 1..Len(link[e]) /\ b \in 1..Len(link[f])
        BY <2>2, <3>1
      <3>3. /\ IsPacket(link[e][a]) /\ IsPacket(link[f][b])
            /\ Owner(link[e][a]) = Owner(link[f][b]) /\ link[e][a].seq = link[f][b].seq
        BY <2>1, <3>1
      <3>4. e = f /\ a = b
        BY <3>2, <3>3, SMTT(30) DEF OnceEach
      <3> QED
        BY <3>1, <3>4
    <2> QED
      BY <1>5, <2>3
  <1>7. From(l, link)
    <2>1. \A e \in Edges : \A i \in 1..Len(l[e]) : On(link, link[e][at(e, i)])
      BY <1>4, ItselfOn
    <2> QED
      BY <1>4, <2>1 DEF From
  <1>8. m = link[r][1] /\ 1 \in 1..Len(link[r])
    BY <1>1, <1>2
  <1>9. IsPacket(m) => Clear(l, Owner(m), m.seq)
    <2> SUFFICES ASSUME IsPacket(m), NEW e \in Edges, NEW i \in 1..Len(l[e]), IsPacket(l[e][i]),
                        Owner(l[e][i]) = Owner(m), l[e][i].seq = m.seq
                 PROVE  FALSE
      BY DEF Clear
    <2>1. at(e, i) \in 1..Len(link[e]) /\ l[e][i] = link[e][at(e, i)] /\ (e = r => at(e, i) # 1)
      BY <1>4
    <2> HIDE DEF r
    <2>2. e = r /\ at(e, i) = 1
      BY <1>1, <1>8, <2>1 DEF OnceEach
    <2> QED
      BY <2>1, <2>2
  <1> HIDE DEF r
  <1>10. On(link, m)
    BY <1>1, <1>8 DEF On
  <1> QED
    BY <1>6, <1>7, <1>9, <1>10, ReadLinks DEF l, AfterRead

(***************************************************************************)
(* A message that is written is the packet, or the answer, it was.         *)
(***************************************************************************)
LEMMA OnWireSame ==
  ASSUME NEW m \in BoundedMessage
  PROVE  /\ OnWire(m) \in BoundedMessage
         /\ IsPacket(OnWire(m)) = IsPacket(m) /\ Owner(OnWire(m)) = Owner(m)
         /\ OnWire(m).seq = m.seq /\ OnWire(m).accept = m.accept
         /\ m.accept # "not" => OnWire(m).ttl = -1
  <1>1. m \in Message
    BY DEF BoundedMessage
  <1> QED
    BY <1>1, OnWireBounded DEF OnWire, Limited, IsPacket, Owner, Message

(***************************************************************************)
(* Writing a packet that was nowhere writes it once.                       *)
(***************************************************************************)
LEMMA WrittenOnce ==
  ASSUME NEW l \in Links, NEW n \in Node, NEW to, NEW m \in BoundedMessage,
         OnceEach(l), IsPacket(m) => Clear(l, Owner(m), m.seq)
  PROVE  OnceEach(Written(l, n, to, m)) /\ FromOr(Written(l, n, to, m), l, OnWire(m))
  <1>1. CASE to \in Node /\ up[to]
    <2> DEFINE r == <<n, to>>
               w == OnWire(m)
               k == Written(l, n, to, m)
               new(e, i) == e = r /\ i = Len(l[r]) + 1
    <2>1. r \in Edges /\ l[r] \in Seq(BoundedMessage)
      BY <1>1 DEF Edges, Links
    <2>2. \A e \in Edges : k[e] = IF e = r THEN Append(l[r], w) ELSE l[e]
      BY <1>1, <2>1 DEF Written, Edges, Links
    <2>3. \A e \in Edges : \A i \in 1..Len(k[e]) :
            IF new(e, i) THEN k[e][i] = w ELSE i \in 1..Len(l[e]) /\ k[e][i] = l[e][i]
      <3>1. /\ Len(Append(l[r], w)) = Len(l[r]) + 1 /\ Len(l[r]) \in Nat
            /\ Append(l[r], w)[Len(l[r]) + 1] = w
            /\ \A i \in 1..Len(l[r]) : Append(l[r], w)[i] = l[r][i]
        BY <2>1
      <3> HIDE DEF w, k, r
      <3> SUFFICES ASSUME NEW e \in Edges, NEW i \in 1..Len(k[e])
                   PROVE  IF new(e, i) THEN k[e][i] = w
                          ELSE i \in 1..Len(l[e]) /\ k[e][i] = l[e][i]
        OBVIOUS
      <3>2. CASE e = r
        <4>1. k[e] = Append(l[r], w)
          BY <2>2, <3>2
        <4> QED
          BY <3>1, <3>2, <4>1
      <3>3. CASE e # r
        BY <2>2, <3>3
      <3> QED
        BY <3>2, <3>3
    <2>4. \A e, f \in Edges : \A i, j : new(e, i) /\ new(f, j) => e = f /\ i = j
      OBVIOUS
    <2> HIDE DEF new
    <2>5. IsPacket(w) => Clear(l, Owner(w), w.seq)
      BY OnWireSame
    <2> HIDE DEF w, k, r
    <2>6. FromOr(k, l, w)
      <3>1. \A e \in Edges : \A i \in 1..Len(l[e]) : On(l, l[e][i])
        BY ItselfOn
      <3> QED
        BY <2>3, <3>1 DEF FromOr
    <2>7. OnceEach(k)
      <3> SUFFICES ASSUME NEW e \in Edges, NEW f \in Edges,
                          NEW i \in 1..Len(k[e]), NEW j \in 1..Len(k[f]),
                          IsPacket(k[e][i]), IsPacket(k[f][j]),
                          Owner(k[e][i]) = Owner(k[f][j]), k[e][i].seq = k[f][j].seq
                   PROVE  e = f /\ i = j
        BY DEF OnceEach
      <3>1. CASE new(e, i) /\ new(f, j)
        BY <2>4, <3>1
      <3>2. CASE new(e, i) /\ ~new(f, j)
        <4>1. k[e][i] = w /\ j \in 1..Len(l[f]) /\ k[f][j] = l[f][j]
          BY <2>3, <3>2
        <4> QED
          BY <2>5, <4>1 DEF Clear
      <3>3. CASE ~new(e, i) /\ new(f, j)
        <4>1. k[f][j] = w /\ i \in 1..Len(l[e]) /\ k[e][i] = l[e][i]
          BY <2>3, <3>3
        <4> QED
          BY <2>5, <4>1 DEF Clear
      <3>4. CASE ~new(e, i) /\ ~new(f, j)
        <4>1. i \in 1..Len(l[e]) /\ k[e][i] = l[e][i] /\ j \in 1..Len(l[f]) /\ k[f][j] = l[f][j]
          BY <2>3, <3>4
        <4> QED
          BY <4>1 DEF OnceEach
      <3> QED
        BY <3>1, <3>2, <3>3, <3>4
    <2> QED
      BY <2>6, <2>7 DEF w, k
  <1>2. CASE ~(to \in Node /\ up[to])
    <2>1. Written(l, n, to, m) = l
      BY <1>2 DEF Written
    <2> QED
      BY <2>1, ItselfOn DEF FromOr
  <1> QED
    BY <1>1, <1>2

(***************************************************************************)
(* The end of a process writes nothing.                                    *)
(***************************************************************************)
LEMMA EndsOnce ==
  ASSUME TypeOK, NEW l \in Links, NEW n \in Node, OnceEach(l), Ends(n, l)
  PROVE  OnceEach(link') /\ From(link', l) /\ ~up'[n]
  <1>1. \A e \in Edges : link'[e] = IF e[2] = n THEN <<>> ELSE l[e]
    BY DEF Ends, Edges
  <1>2. \A e \in Edges : \A i \in 1..Len(link'[e]) : link'[e] = l[e]
    <2> SUFFICES ASSUME NEW e \in Edges, NEW i \in 1..Len(link'[e]) PROVE link'[e] = l[e]
      OBVIOUS
    <2>1. CASE e[2] = n
      <3>1. link'[e] = <<>>
        BY <1>1, <2>1
      <3> QED
        BY <3>1
    <2>2. CASE e[2] # n
      BY <1>1, <2>2
    <2> QED
      BY <2>1, <2>2
  <1>3. From(link', l)
    <2>1. \A e \in Edges : \A i \in 1..Len(l[e]) : On(l, l[e][i])
      BY ItselfOn
    <2> QED
      BY <1>2, <2>1 DEF From
  <1>4. OnceEach(link')
    BY <1>2 DEF OnceEach
  <1>5. ~up'[n]
    BY DEF Ends, TypeOK
  <1> QED
    BY <1>3, <1>4, <1>5

(***************************************************************************)
(* What a process that sends a packet leaves on the connections: the       *)
(* packet at most once, and never when it does not survive.                *)
(***************************************************************************)
LEMMA SendsOnce ==
  ASSUME TypeOK, NEW l \in Links, NEW n \in Node, NEW via, NEW m \in BoundedMessage,
         OnceEach(l), IsPacket(m) => Clear(l, Owner(m), m.seq), Sends(n, via, m, l)
  PROVE  /\ OnceEach(link')
         /\ \/ From(link', l) /\ ~up'[n]
            \/ FromOr(link', l, OnWire(m)) /\ UNCHANGED up
  <1>1. CASE Ends(n, l)
    BY <1>1, EndsOnce
  <1>2. CASE \E to : link' = Written(l, n, to, m) /\ UNCHANGED up
    BY <1>2, WrittenOnce
  <1> QED
    BY <1>1, <1>2 DEF Sends

(***************************************************************************)
(* What is on connections that come from others and one new message.       *)
(***************************************************************************)
LEMMA OnFrom ==
  ASSUME NEW k, NEW l, NEW w, FromOr(k, l, w), NEW m, On(k, m)
  PROVE  m = w \/ On(l, m)
  BY DEF FromOr, On

(***************************************************************************)
(* The new message need not be there.                                      *)
(***************************************************************************)
LEMMA FromIsFromOr == ASSUME NEW k, NEW l, NEW w, From(k, l) PROVE FromOr(k, l, w)
  BY DEF From, FromOr

(***************************************************************************)
(* What comes from connections that come from others comes from these.     *)
(***************************************************************************)
LEMMA FromAfter ==
  ASSUME NEW k, NEW l, NEW h, NEW w, FromOr(k, l, w), From(l, h) PROVE FromOr(k, h, w)
  <1> SUFFICES ASSUME NEW e \in Edges, NEW i \in 1..Len(k[e]), k[e][i] # w
               PROVE  On(h, k[e][i])
    BY DEF FromOr
  <1>1. On(l, k[e][i])
    BY DEF FromOr
  <1>2. \E f \in Edges : \E j \in 1..Len(l[f]) : l[f][j] = k[e][i]
    BY <1>1 DEF On
  <1> QED
    BY <1>2 DEF From

(***************************************************************************)
(* The same for one message that is there.                                 *)
(***************************************************************************)
LEMMA FromOn == ASSUME NEW k, NEW l, From(k, l), NEW m, On(k, m) PROVE On(l, m)
  BY DEF From, On

(***************************************************************************)
(* The same, without a new message.                                        *)
(***************************************************************************)
LEMMA FromTrans == ASSUME NEW k, NEW l, NEW h, From(k, l), From(l, h) PROVE From(k, h)
  <1> SUFFICES ASSUME NEW e \in Edges, NEW i \in 1..Len(k[e])
               PROVE  On(h, k[e][i])
    BY DEF From
  <1>1. On(l, k[e][i])
    BY DEF From
  <1>2. \E f \in Edges : \E j \in 1..Len(l[f]) : l[f][j] = k[e][i]
    BY <1>1 DEF On
  <1> QED
    BY <1>2 DEF From

(***************************************************************************)
(* What is on connections that are clear of a number has another one.      *)
(***************************************************************************)
LEMMA ClearOn ==
  ASSUME NEW l, NEW o, NEW s, Clear(l, o, s), NEW m, On(l, m), IsPacket(m), Owner(m) = o
  PROVE  m.seq # s
  BY DEF Clear, On

------------------------------------------------------------------------------
(***************************************************************************)
(* A step that records no answer and no delivery keeps AInv, whatever      *)
(* numbers are taken, when what it sends is true.                          *)
(***************************************************************************)
LEMMA QuietStep ==
  ASSUME Inv, Inv', AInv, UNCHANGED <<answers, delivered>>,
         \A n \in Node : seqnum[n] <= seqnum'[n],
         OnceEach(link'), NEW w, FromOr(link', link, w),
         w \in BoundedMessage /\ IsPacket(w) => MessageIsTrue(w)'
  PROVE  AInv'
  <1>1. OnceEach(link)'
    BY DEF OnceEach
  <1>2. AnswersAreTrue'
    BY DEF AInv, AnswersAreTrue
  <1>3. /\ seqnum \in [Node -> Nat] /\ seqnum' \in [Node -> Nat]
        /\ answers \in [Node -> SUBSET (Nat \X {"ok", "toofar", "unknown"})]
    BY DEF Inv, TypeOK
  <1>4. RecordsAreKnown'
    <2>1. ASSUME NEW n \in Node, NEW a \in answers[n] PROVE a[1] <= seqnum'[n]
      <3>1. a[1] \in Nat /\ a[1] <= seqnum[n]
        BY <1>3 DEF AInv, RecordsAreKnown
      <3> QED
        BY <1>3, <3>1
    <2>2. ASSUME NEW n \in Node, NEW s \in Nat, <<n, s>> \in delivered PROVE s <= seqnum'[n]
      <3>1. s <= seqnum[n]
        BY <2>2 DEF AInv, RecordsAreKnown
      <3> QED
        BY <1>3, <3>1
    <2> QED
      BY <2>1, <2>2 DEF RecordsAreKnown
  <1>5. ASSUME NEW m \in BoundedMessage, IsPacket(m), On(link', m) PROVE MessageIsTrue(m)'
    <2>1. CASE m = w
      BY <1>5, <2>1
    <2>2. CASE m # w
      <3>1. MessageIsTrue(m)
        BY <1>5, <2>2, OnFrom DEF AInv, MessagesAreTrue
      <3>2. Owner(m) \in Node /\ m.seq \in Nat
        BY MessageFields DEF Owner
      <3>3. m.seq <= seqnum'[Owner(m)]
        BY <1>3, <3>1, <3>2 DEF MessageIsTrue
      <3> QED
        BY <3>1, <3>3 DEF MessageIsTrue
    <2> QED
      BY <2>1, <2>2
  <1>6. MessagesAreTrue'
    BY <1>5 DEF MessagesAreTrue, On
  <1> QED
    BY <1>1, <1>2, <1>4, <1>6 DEF AInv

(***************************************************************************)
(* What a router passes on of the message m that it read is true: a packet *)
(* or an answer as it was, or a packet sent back too far.                  *)
(***************************************************************************)
LEMMA PassesOn ==
  ASSUME Inv, Inv', AInv, NEW q \in Node, NEW n \in Node, link[<<q, n>>] # <<>>,
         NEW m, m = Head(link[<<q, n>>]), NEW x \in BoundedMessage,
         IsPacket(x) => /\ IsPacket(m) /\ Owner(x) = Owner(m) /\ x.seq = m.seq
                        /\ x.accept = m.accept \/ (m.accept = "not" /\ x.accept = "toofar"),
         Forward(n, x, AfterRead(q, n)), UNCHANGED <<answers, delivered, seqnum>>
  PROVE  AInv'
  <1> DEFINE l == AfterRead(q, n)
             w == OnWire(x)
  <1>1. TypeOK /\ link \in Links /\ OnceEach(link)
    BY DEF Inv, AInv
  <1>2. /\ OnceEach(l) /\ From(l, link) /\ l \in Links
        /\ IsPacket(m) => Clear(l, Owner(m), m.seq)
        /\ m \in BoundedMessage /\ On(link, m)
    BY <1>1, ReadOnce
  <1>3. Sends(n, route[n][x.dst], x, l)
    BY DEF Forward
  <1> HIDE DEF l
  <1>4. IsPacket(x) => Clear(l, Owner(x), x.seq)
    BY <1>2
  <1>5. /\ OnceEach(link')
        /\ From(link', l) \/ FromOr(link', l, w)
    BY <1>1, <1>2, <1>3, <1>4, SendsOnce
  <1>6. FromOr(link', link, w)
    BY <1>2, <1>5, FromIsFromOr, FromAfter
  <1>7. \A k \in Node : seqnum[k] <= seqnum'[k]
    BY <1>1 DEF TypeOK
  <1>8. ASSUME IsPacket(w) PROVE MessageIsTrue(w)'
    <2>1. /\ IsPacket(x) /\ Owner(w) = Owner(x) /\ w.seq = x.seq /\ w.accept = x.accept
          /\ x.accept # "not" => w.ttl = -1
      BY <1>8, OnWireSame
    <2>2. MessageIsTrue(m)
      BY <1>2, <2>1 DEF AInv, MessagesAreTrue
    <2> HIDE DEF w
    <2> QED
      BY <2>1, <2>2 DEF MessageIsTrue
  <1> HIDE DEF w
  <1> QED
    BY <1>5, <1>6, <1>7, <1>8, QuietStep

(***************************************************************************)
(* A packet and the answer to it have the same owner and number.           *)
(***************************************************************************)
LEMMA ReversedSame ==
  ASSUME NEW m \in BoundedMessage, m.accept = "not", NEW a \in {"ok", "toofar"}
  PROVE  LET x == [Reversed(m) EXCEPT !.accept = a]
         IN  /\ x \in BoundedMessage /\ IsPacket(x) = IsPacket(m) /\ Owner(x) = Owner(m)
             /\ x.seq = m.seq /\ x.accept = a
  <1> DEFINE x == [Reversed(m) EXCEPT !.accept = a]
  <1>1. m \in Message
    BY DEF BoundedMessage
  <1>2. x.type = m.type /\ x.dst = m.src /\ x.seq = m.seq /\ x.accept = a
    BY <1>1 DEF Reversed, Message
  <1>3. x \in BoundedMessage
    <2>1. /\ a \in {"not", "ok", "toofar", "ttlzero"} /\ m.type \in {"packet", "ping", "pong"}
          /\ m.src \in Node
      BY MessageFields
    <2> QED
      BY <2>1, ReversedBounded
  <1> HIDE DEF x
  <1>4. IsPacket(x) = IsPacket(m) /\ Owner(x) = Owner(m)
    BY <1>2 DEF IsPacket, Owner
  <1> QED
    BY <1>2, <1>3, <1>4 DEF x

(***************************************************************************)
(* A ping for n is answered by a pong, which is no packet.                 *)
(***************************************************************************)
LEMMA PingArrivesTrue ==
  ASSUME Inv, Inv', AInv, NEW q \in Node, NEW n \in Node, link[<<q, n>>] # <<>>,
         UNCHANGED seqnum, PingArrives(n, Head(link[<<q, n>>]), AfterRead(q, n))
  PROVE  AInv'
  <1> DEFINE m == Head(link[<<q, n>>])
             x == [Reversed(m) EXCEPT !.type = "pong"]
  <1>1. m \in BoundedMessage
    BY ReadLinks DEF Inv
  <1> HIDE DEF m
  <1>2. x \in BoundedMessage
    BY <1>1, ReversedBounded
  <1>3. x.type = "pong"
    BY <1>1 DEF Reversed, BoundedMessage, Message
  <1>4. Forward(n, x, AfterRead(q, n)) /\ UNCHANGED <<answers, delivered>>
    BY DEF PingArrives, replyVars, m
  <1> HIDE DEF x
  <1>5. ~IsPacket(x)
    BY <1>3 DEF IsPacket
  <1> QED
    BY <1>2, <1>4, <1>5, PassesOn DEF m

(***************************************************************************)
(* A message on its way stays the packet or the answer it is.              *)
(***************************************************************************)
LEMMA TransitsTrue ==
  ASSUME Inv, Inv', AInv, NEW q \in Node, NEW n \in Node, link[<<q, n>>] # <<>>,
         UNCHANGED seqnum, Transits(n, Head(link[<<q, n>>]), AfterRead(q, n))
  PROVE  AInv'
  <1> DEFINE m == Head(link[<<q, n>>])
             x == Passed(m)
  <1>1. m \in BoundedMessage
    BY ReadLinks DEF Inv
  <1>2. m.ttl # 0 \/ m.accept = "ttlzero"
    BY DEF Transits
  <1>3. Forward(n, x, AfterRead(q, n)) /\ UNCHANGED <<answers, delivered>>
    BY DEF Transits, replyVars
  <1> HIDE DEF m
  <1>4. x \in BoundedMessage
    BY <1>1, <1>2, PassedBounded
  <1>5. x.type = m.type /\ x.src = m.src /\ x.dst = m.dst /\ x.seq = m.seq /\ x.accept = m.accept
    BY <1>1 DEF Passed, BoundedMessage, Message
  <1> HIDE DEF x
  <1>6. IsPacket(x) = IsPacket(m) /\ Owner(x) = Owner(m)
    BY <1>5 DEF IsPacket, Owner
  <1>7. IsPacket(x) => /\ IsPacket(m) /\ Owner(x) = Owner(m) /\ x.seq = m.seq
                       /\ x.accept = m.accept \/ (m.accept = "not" /\ x.accept = "toofar")
    BY <1>5, <1>6
  <1> QED
    BY <1>3, <1>4, <1>7, PassesOn DEF m

(***************************************************************************)
(* The packet that expires is no answer, because answers carry no TTL.     *)
(***************************************************************************)
LEMMA ExpiresTrue ==
  ASSUME Inv, Inv', AInv, NEW q \in Node, NEW n \in Node, link[<<q, n>>] # <<>>,
         UNCHANGED seqnum, Expires(n, Head(link[<<q, n>>]), AfterRead(q, n))
  PROVE  AInv'
  <1> DEFINE m == Head(link[<<q, n>>])
             l == AfterRead(q, n)
             p == [Reversed(m) EXCEPT !.type = "pong", !.accept = "ttlzero", !.src = n]
  <1>1. m \in BoundedMessage /\ OnceEach(l) /\ From(l, link) /\ On(link, m)
    BY ReadOnce DEF Inv, AInv
  <1>2. m.ttl = 0 /\ UNCHANGED <<answers, delivered>>
    BY DEF Expires, replyVars
  <1>3. \/ m.type = "packet" /\ Forward(n, TooFar(m), l)
        \/ Forward(n, p, l)
        \/ link' = l
    BY DEF Expires
  <1> HIDE DEF m, l
  <1>4. CASE m.type = "packet" /\ Forward(n, TooFar(m), l)
    <2>1. m.accept = "not"
      <3>1. MessageIsTrue(m)
        BY <1>1, <1>4 DEF AInv, MessagesAreTrue, IsPacket
      <3> QED
        BY <1>2, <3>1 DEF MessageIsTrue
    <2>2. /\ TooFar(m) \in BoundedMessage /\ Owner(TooFar(m)) = Owner(m)
          /\ IsPacket(TooFar(m)) = IsPacket(m)
          /\ TooFar(m).seq = m.seq /\ TooFar(m).accept = "toofar"
      BY <1>1, <2>1, ReversedSame DEF TooFar
    <2> QED
      BY <1>2, <1>4, <2>1, <2>2, PassesOn DEF IsPacket, m, l
  <1>5. CASE Forward(n, p, l)
    <2>1. p \in BoundedMessage
      BY <1>1, ReversedBounded
    <2>2. p.type = "pong"
      BY <1>1 DEF Reversed, BoundedMessage, Message
    <2> HIDE DEF p
    <2>3. ~IsPacket(p)
      BY <2>2 DEF IsPacket
    <2> QED
      BY <1>2, <1>5, <2>1, <2>3, PassesOn DEF m, l
  <1>6. CASE link' = l
    <2>1. \A k \in Node : seqnum[k] <= seqnum'[k]
      BY DEF Inv, TypeOK
    <2>2. FromOr(link', link, p)
      BY <1>1, <1>6, FromIsFromOr
    <2>3. ~IsPacket(p)
      BY <1>1 DEF Reversed, BoundedMessage, Message, IsPacket
    <2> HIDE DEF p
    <2> QED
      BY <1>1, <1>2, <1>6, <2>1, <2>2, <2>3, QuietStep
  <1> QED
    BY <1>3, <1>4, <1>5, <1>6

(***************************************************************************)
(* A step that only reads messages, and records nothing.                   *)
(***************************************************************************)
LEMMA OnlyReads ==
  ASSUME Inv, Inv', AInv, UNCHANGED <<answers, delivered, seqnum>>,
         OnceEach(link'), From(link', link)
  PROVE  AInv'
  <1> DEFINE w == [type |-> "ping"]
  <1>1. \A k \in Node : seqnum[k] <= seqnum'[k]
    BY DEF Inv, TypeOK
  <1>2. ~IsPacket(w)
    BY DEF IsPacket
  <1>3. FromOr(link', link, w)
    BY FromIsFromOr
  <1> HIDE DEF w
  <1> QED
    BY <1>1, <1>2, <1>3, QuietStep

------------------------------------------------------------------------------
(***************************************************************************)
(* The steps that display a message, or the answer to it.                  *)
(***************************************************************************)

(***************************************************************************)
(* The packet is on no connection any more when its delivery is recorded,  *)
(* and the answer that says so is the only trace of it.                    *)
(***************************************************************************)
LEMMA PacketArrivesTrue ==
  ASSUME Inv, Inv', AInv, NEW q \in Node, NEW n \in Node, link[<<q, n>>] # <<>>,
         UNCHANGED seqnum, up[n], PacketArrives(n, Head(link[<<q, n>>]), AfterRead(q, n))
  PROVE  AInv'
  <1> DEFINE m == Head(link[<<q, n>>])
             l == AfterRead(q, n)
             x == [Reversed(m) EXCEPT !.accept = "ok"]
             w == OnWire(x)
             o == Owner(m)
  <1>1. TypeOK /\ link \in Links /\ OnceEach(link)
    BY DEF Inv, AInv
  <1>2. /\ OnceEach(l) /\ From(l, link) /\ l \in Links
        /\ IsPacket(m) => Clear(l, Owner(m), m.seq)
        /\ m \in BoundedMessage /\ On(link, m)
    BY <1>1, ReadOnce
  <1>3. /\ m.type = "packet" /\ m.accept = "not" /\ Forward(n, x, l)
        /\ delivered' = IF up'[n] THEN delivered \cup {<<m.src, m.seq>>} ELSE delivered
        /\ UNCHANGED answers
    BY DEF PacketArrives, replyVars
  <1> HIDE DEF m, l
  <1>4. IsPacket(m) /\ Clear(l, o, m.seq) /\ MessageIsTrue(m) /\ o = m.src
    BY <1>2, <1>3 DEF IsPacket, Owner, AInv, MessagesAreTrue
  <1>5. /\ x \in BoundedMessage /\ IsPacket(x) = IsPacket(m) /\ Owner(x) = o
        /\ x.seq = m.seq /\ x.accept = "ok"
    BY <1>2, <1>3, ReversedSame
  <1>6. o \in Node /\ m.seq \in Nat
    BY <1>2, <1>4, MessageFields
  <1> HIDE DEF x, o
  <1>7. Sends(n, route[n][x.dst], x, l)
    BY <1>3 DEF Forward
  <1>8. /\ OnceEach(link')
        /\ \/ From(link', l) /\ ~up'[n]
           \/ FromOr(link', l, w) /\ UNCHANGED up
    BY <1>1, <1>2, <1>4, <1>5, <1>7, SendsOnce
  <1>9. CASE From(link', l) /\ ~up'[n]
    <2>1. From(link', link)
      BY <1>2, <1>9, FromTrans
    <2> QED
      BY <1>3, <1>8, <1>9, <2>1, OnlyReads
  <1>10. CASE FromOr(link', l, w) /\ UNCHANGED up
    <2>1. delivered' = delivered \cup {<<o, m.seq>>}
      BY <1>3, <1>4, <1>10
    <2>2. /\ Owner(w) = o /\ w.seq = m.seq /\ w.accept = "ok" /\ w.ttl = -1
      BY <1>5, OnWireSame
    <2> HIDE DEF w
    <2>3. OnceEach(link)'
      BY <1>8 DEF OnceEach
    <2>4. m.seq <= seqnum[o] /\ \A a \in answers[o] : a[1] # m.seq
      BY <1>4 DEF MessageIsTrue, o
    <2>5. AnswersAreTrue'
      <3> SUFFICES ASSUME NEW k \in Node, NEW a \in answers[k]
                   PROVE  /\ a[2] = "ok" <=> <<k, a[1]>> \in delivered'
                          /\ \A b \in answers[k] : a[1] = b[1] => a = b
        BY <1>3 DEF AnswersAreTrue
      <3>1. /\ a[2] = "ok" <=> <<k, a[1]>> \in delivered
            /\ \A b \in answers[k] : a[1] = b[1] => a = b
        BY DEF AInv, AnswersAreTrue
      <3>2. <<k, a[1]>> # <<o, m.seq>>
        BY <2>4
      <3> QED
        BY <2>1, <3>1, <3>2
    <2>6. RecordsAreKnown'
      <3>1. RecordsAreKnown
        BY DEF AInv
      <3>2. \A k \in Node : \A s \in Nat : <<k, s>> \in delivered' => s <= seqnum[k]
        BY <2>1, <2>4, <3>1 DEF RecordsAreKnown
      <3> QED
        BY <1>3, <3>1, <3>2 DEF RecordsAreKnown
    <2>7. ASSUME NEW y \in BoundedMessage, IsPacket(y), On(link', y) PROVE MessageIsTrue(y)'
      <3>1. CASE y = w
        <4>1. /\ y.accept = "ok" /\ y.ttl = -1 /\ Owner(y) = o /\ y.seq = m.seq
          BY <2>2, <3>1
        <4>2. <<Owner(y), y.seq>> \in delivered'
          BY <2>1, <4>1
        <4> QED
          BY <1>3, <2>4, <4>1, <4>2 DEF MessageIsTrue
      <3>2. CASE y # w
        <4>1. On(l, y)
          BY <1>10, <2>7, <3>2, OnFrom
        <4>2. On(link, y)
          BY <1>2, <4>1, FromOn
        <4>3. MessageIsTrue(y)
          BY <2>7, <4>2 DEF AInv, MessagesAreTrue
        <4>4. <<Owner(y), y.seq>> # <<o, m.seq>>
          BY <1>4, <2>7, <4>1, ClearOn
        <4> QED
          BY <1>3, <2>1, <4>3, <4>4 DEF MessageIsTrue
      <3> QED
        BY <3>1, <3>2
    <2>8. MessagesAreTrue'
      BY <2>7 DEF MessagesAreTrue, On
    <2> QED
      BY <2>3, <2>5, <2>6, <2>8 DEF AInv
  <1> QED
    BY <1>8, <1>9, <1>10

(***************************************************************************)
(* The answer that is displayed was the only one on its way.               *)
(***************************************************************************)
LEMMA PacketAnsweredTrue ==
  ASSUME Inv, Inv', AInv, NEW q \in Node, NEW n \in Node, link[<<q, n>>] # <<>>,
         UNCHANGED seqnum, PacketAnswered(n, Head(link[<<q, n>>]), AfterRead(q, n))
  PROVE  AInv'
  <1> DEFINE m == Head(link[<<q, n>>])
             l == AfterRead(q, n)
  <1>1. /\ OnceEach(l) /\ From(l, link)
        /\ IsPacket(m) => Clear(l, Owner(m), m.seq)
        /\ m \in BoundedMessage /\ On(link, m)
    BY ReadOnce DEF Inv, AInv
  <1>2. /\ m.type = "packet" /\ m.dst = n /\ m.accept \in {"ok", "toofar"}
        /\ answers' = [answers EXCEPT ![n] = @ \cup {<<m.seq, m.accept>>}]
        /\ link' = l /\ UNCHANGED delivered
    BY DEF PacketAnswered
  <1> HIDE DEF m, l
  <1>3. IsPacket(m) /\ Owner(m) = n /\ m.seq \in Nat /\ MessageIsTrue(m)
    BY <1>1, <1>2, MessageFields DEF IsPacket, Owner, AInv, MessagesAreTrue
  <1>4. /\ m.seq <= seqnum[n] /\ \A a \in answers[n] : a[1] # m.seq
        /\ m.accept = "ok" <=> <<n, m.seq>> \in delivered
    BY <1>3 DEF MessageIsTrue
  <1>5. /\ answers \in [Node -> SUBSET (Nat \X {"ok", "toofar", "unknown"})]
        /\ \A k \in Node : answers'[k] = IF k = n THEN answers[n] \cup {<<m.seq, m.accept>>}
                                         ELSE answers[k]
    BY <1>2 DEF Inv, TypeOK
  <1>6. OnceEach(link)'
    BY <1>1, <1>2 DEF OnceEach
  <1>7. AnswersAreTrue'
    <2> SUFFICES ASSUME NEW k \in Node, NEW a \in answers'[k]
                 PROVE  /\ a[2] = "ok" <=> <<k, a[1]>> \in delivered
                        /\ \A b \in answers'[k] : a[1] = b[1] => a = b
      BY <1>2 DEF AnswersAreTrue
    <2>1. ASSUME NEW b \in answers[k]
          PROVE  /\ b[2] = "ok" <=> <<k, b[1]>> \in delivered
                 /\ \A c \in answers[k] : b[1] = c[1] => b = c
      BY DEF AInv, AnswersAreTrue
    <2>2. CASE k # n
      BY <1>5, <2>1, <2>2
    <2>3. CASE k = n
      <3> DEFINE r == <<m.seq, m.accept>>
      <3>1. /\ answers'[k] = answers[k] \cup {r} /\ r[1] = m.seq /\ r[2] = m.accept
        BY <1>5, <2>3
      <3> HIDE DEF r
      <3>2. r[2] = "ok" <=> <<k, r[1]>> \in delivered
        BY <1>4, <2>3, <3>1
      <3>3. \A b \in answers[k] : b[1] # r[1]
        BY <1>4, <2>3, <3>1
      <3> QED
        BY <2>1, <3>1, <3>2, <3>3
    <2> QED
      BY <2>2, <2>3
  <1>8. RecordsAreKnown'
    <2>1. RecordsAreKnown
      BY DEF AInv
    <2>2. \A k \in Node : \A a \in answers'[k] : a[1] <= seqnum[k]
      BY <1>4, <1>5, <2>1 DEF RecordsAreKnown
    <2> QED
      BY <1>2, <2>1, <2>2 DEF RecordsAreKnown
  <1>9. ASSUME NEW y \in BoundedMessage, IsPacket(y), On(link', y) PROVE MessageIsTrue(y)'
    <2>1. On(link, y)
      BY <1>1, <1>2, <1>9, FromOn
    <2>2. MessageIsTrue(y)
      BY <1>9, <2>1 DEF AInv, MessagesAreTrue
    <2>3. Owner(y) = n => y.seq # m.seq
      BY <1>1, <1>2, <1>3, <1>9, ClearOn
    <2>4. Owner(y) \in Node
      BY MessageFields DEF Owner
    <2>5. \A a \in answers'[Owner(y)] : a[1] # y.seq
      BY <1>5, <2>2, <2>3, <2>4 DEF MessageIsTrue
    <2> QED
      BY <1>2, <2>2, <2>5 DEF MessageIsTrue
  <1>10. MessagesAreTrue'
    BY <1>9 DEF MessagesAreTrue, On
  <1> QED
    BY <1>6, <1>7, <1>8, <1>10 DEF AInv

(***************************************************************************)
(* Receiving a message, of any kind, keeps AInv.                           *)
(***************************************************************************)
LEMMA ReceiveTrue ==
  ASSUME Inv, Inv', AInv, NEW q \in Node, NEW n \in Node, Receive(q, n)
  PROVE  AInv'
  <1> DEFINE m == Head(link[<<q, n>>])
             l == AfterRead(q, n)
  <1>1. /\ link[<<q, n>>] # <<>> /\ up[n] /\ UNCHANGED seqnum
        /\ \/ PacketArrives(n, m, l) \/ PacketAnswered(n, m, l) \/ PingArrives(n, m, l)
           \/ PongArrives(n, m, l) \/ Transits(n, m, l) \/ Expires(n, m, l)
    BY DEF Receive, AfterRead, commandVars
  <1>2. CASE PongArrives(n, m, l)
    <2>1. link' = l /\ UNCHANGED <<answers, delivered>>
      BY <1>2 DEF PongArrives
    <2>2. OnceEach(l) /\ From(l, link)
      BY <1>1, ReadOnce DEF Inv, AInv
    <2> HIDE DEF l
    <2> QED
      BY <1>1, <2>1, <2>2, OnlyReads
  <1> QED
    BY <1>1, <1>2, PacketArrivesTrue, PacketAnsweredTrue, PingArrivesTrue, TransitsTrue,
       ExpiresTrue

(***************************************************************************)
(* So does losing one.                                                     *)
(***************************************************************************)
LEMMA CoalescedTrue ==
  ASSUME Inv, Inv', AInv, NEW q \in Node, NEW n \in Node, Coalesced(q, n)
  PROVE  AInv'
  <1> DEFINE l == AfterRead(q, n)
  <1>1. /\ link[<<q, n>>] # <<>> /\ link' = l
        /\ UNCHANGED <<seqnum, answers, delivered>>
    BY DEF Coalesced, AfterRead, commandVars, replyVars
  <1>2. OnceEach(l) /\ From(l, link)
    BY <1>1, ReadOnce DEF Inv, AInv
  <1> HIDE DEF l
  <1> QED
    BY <1>1, <1>2, OnlyReads

------------------------------------------------------------------------------
(***************************************************************************)
(* The commands.                                                           *)
(***************************************************************************)

(***************************************************************************)
(* A number above the last one taken is nobody's.                          *)
(***************************************************************************)
LEMMA FreshNumber ==
  ASSUME Inv, AInv, NEW n \in Node
  PROVE  /\ seqnum[n] \in Nat /\ Clear(link, n, seqnum[n] + 1)
         /\ \A a \in answers[n] : a[1] # seqnum[n] + 1
         /\ <<n, seqnum[n] + 1>> \notin delivered
  <1>1. /\ seqnum[n] \in Nat /\ answers[n] \subseteq Nat \X {"ok", "toofar", "unknown"}
        /\ link \in [Edges -> Seq(BoundedMessage)]
    BY DEF Inv, TypeOK, Links, Edges
  <1>2. \A a \in answers[n] : a[1] # seqnum[n] + 1
    <2>1. \A a \in answers[n] : a[1] \in Nat /\ a[1] <= seqnum[n]
      BY <1>1 DEF AInv, RecordsAreKnown
    <2> QED
      BY <1>1, <2>1
  <1>3. <<n, seqnum[n] + 1>> \notin delivered
    <2>1. \A s \in Nat : <<n, s>> \in delivered => s <= seqnum[n]
      BY DEF AInv, RecordsAreKnown
    <2> QED
      BY <1>1, <2>1
  <1>4. Clear(link, n, seqnum[n] + 1)
    <2> SUFFICES ASSUME NEW e \in Edges, NEW i \in 1..Len(link[e]), IsPacket(link[e][i]),
                        Owner(link[e][i]) = n
                 PROVE  link[e][i].seq # seqnum[n] + 1
      BY DEF Clear
    <2>1. link[e][i] \in BoundedMessage /\ On(link, link[e][i])
      BY <1>1 DEF On
    <2>2. MessageIsTrue(link[e][i])
      BY <2>1 DEF AInv, MessagesAreTrue
    <2>3. link[e][i].seq \in Nat /\ link[e][i].seq <= seqnum[n]
      BY <2>1, <2>2, MessageFields DEF MessageIsTrue
    <2> QED
      BY <1>1, <2>3
  <1> QED
    BY <1>1, <1>2, <1>3, <1>4

(***************************************************************************)
(* The message command: the number is fresh, whether a packet leaves with  *)
(* it or its destination is unknown.                                       *)
(***************************************************************************)
LEMMA MessageCommandTrue ==
  ASSUME Inv, Inv', AInv, NEW n \in Node, NEW d \in Node, MessageCommand(n, d)
  PROVE  AInv'
  <1> DEFINE seq == seqnum[n] + 1
             m == [type |-> "packet", accept |-> "not", src |-> n, dst |-> d, ttl |-> DefaultTTL,
                   seq |-> seq, given |-> DefaultTTL, hops |-> 0]
  <1>1. /\ seqnum[n] \in Nat /\ Clear(link, n, seq)
        /\ \A a \in answers[n] : a[1] # seq
        /\ <<n, seq>> \notin delivered
    BY FreshNumber
  <1>2. /\ seqnum' = [seqnum EXCEPT ![n] = seq] /\ UNCHANGED delivered
        /\ \/ Forward(n, m, link) /\ UNCHANGED answers
           \/ /\ answers' = [answers EXCEPT ![n] = @ \cup {<<seq, "unknown">>}]
              /\ UNCHANGED link
    BY DEF MessageCommand, Typed
  <1>3. seq \in Nat /\ m \in BoundedMessage
    <2>1. seq \in Nat
      BY <1>1
    <2> QED
      BY <2>1, ForwardingAssumption DEF BoundedMessage, Message, Bounded
  <1>4. IsPacket(m) /\ Owner(m) = n /\ m.seq = seq /\ m.accept = "not"
    BY DEF IsPacket, Owner
  <1> HIDE DEF m
  <1>5. /\ seqnum \in [Node -> Nat] /\ TypeOK /\ link \in Links /\ OnceEach(link)
        /\ answers \in [Node -> SUBSET (Nat \X {"ok", "toofar", "unknown"})]
    BY DEF Inv, TypeOK, AInv
  <1>6. \A k \in Node : seqnum[k] <= seqnum'[k]
    BY <1>1, <1>2, <1>5
  <1>7. seqnum'[n] = seq
    BY <1>2, <1>5
  <1> HIDE DEF seq
  <1>8. CASE Forward(n, m, link) /\ UNCHANGED answers
    <2>1. Sends(n, route[n][m.dst], m, link)
      BY <1>8 DEF Forward
    <2> PICK w : w = OnWire(m)
      OBVIOUS
    <2>2. OnceEach(link') /\ (From(link', link) \/ FromOr(link', link, w))
      BY <1>1, <1>3, <1>4, <1>5, <2>1, SendsOnce
    <2>3. FromOr(link', link, w)
      BY <2>2, FromIsFromOr
    <2>4. Owner(w) = n /\ w.seq = seq /\ w.accept = "not"
      BY <1>3, <1>4, OnWireSame
    <2>5. MessageIsTrue(w)'
      <3>1. seq <= seqnum'[n]
        BY <1>3, <1>7
      <3> QED
        BY <1>1, <1>2, <1>8, <2>4, <3>1 DEF MessageIsTrue
    <2> QED
      BY <1>2, <1>6, <1>8, <2>2, <2>3, <2>5, QuietStep
  <1>9. CASE /\ answers' = [answers EXCEPT ![n] = @ \cup {<<seq, "unknown">>}]
             /\ UNCHANGED link
    <2>1. \A k \in Node : answers'[k] = IF k = n THEN answers[n] \cup {<<seq, "unknown">>}
                                        ELSE answers[k]
      BY <1>5, <1>9
    <2>2. OnceEach(link)'
      BY <1>5, <1>9 DEF OnceEach
    <2>3. AnswersAreTrue'
      <3> SUFFICES ASSUME NEW k \in Node, NEW a \in answers'[k]
                   PROVE  /\ a[2] = "ok" <=> <<k, a[1]>> \in delivered
                          /\ \A b \in answers'[k] : a[1] = b[1] => a = b
        BY <1>2 DEF AnswersAreTrue
      <3>1. ASSUME NEW b \in answers[k]
            PROVE  /\ b[2] = "ok" <=> <<k, b[1]>> \in delivered
                   /\ \A c \in answers[k] : b[1] = c[1] => b = c
        BY DEF AInv, AnswersAreTrue
      <3>2. CASE k # n
        BY <2>1, <3>1, <3>2
      <3>3. CASE k = n
        <4> DEFINE r == <<seq, "unknown">>
        <4>1. answers'[k] = answers[k] \cup {r} /\ r[1] = seq /\ r[2] # "ok"
          BY <2>1, <3>3
        <4> HIDE DEF r
        <4>2. <<k, r[1]>> \notin delivered
          BY <1>1, <3>3, <4>1
        <4>3. \A b \in answers[k] : b[1] # r[1]
          BY <1>1, <3>3, <4>1
        <4> QED
          BY <3>1, <4>1, <4>2, <4>3
      <3> QED
        BY <3>2, <3>3
    <2>4. RecordsAreKnown'
      <3>1. ASSUME NEW k \in Node, NEW a \in answers'[k] PROVE a[1] <= seqnum'[k]
        <4>1. CASE a \in answers[k]
          <5>1. a[1] \in Nat /\ a[1] <= seqnum[k]
            BY <1>5, <4>1 DEF AInv, RecordsAreKnown
          <5>2. seqnum[k] \in Nat /\ seqnum'[k] \in Nat
            BY <1>2, <1>3, <1>5
          <5> QED
            BY <1>6, <5>1, <5>2
        <4>2. CASE a \notin answers[k]
          <5>1. k = n /\ a = <<seq, "unknown">>
            BY <2>1, <3>1, <4>2
          <5> QED
            BY <1>3, <1>7, <5>1
        <4> QED
          BY <4>1, <4>2
      <3>2. ASSUME NEW k \in Node, NEW s \in Nat, <<k, s>> \in delivered PROVE s <= seqnum'[k]
        <4>1. s <= seqnum[k]
          BY <3>2 DEF AInv, RecordsAreKnown
        <4>2. seqnum[k] \in Nat /\ seqnum'[k] \in Nat
          BY <1>2, <1>3, <1>5
        <4> QED
          BY <1>6, <4>1, <4>2
      <3> QED
        BY <1>2, <3>1, <3>2 DEF RecordsAreKnown
    <2>5. ASSUME NEW y \in BoundedMessage, IsPacket(y), On(link, y) PROVE MessageIsTrue(y)'
      <3>1. MessageIsTrue(y)
        BY <2>5 DEF AInv, MessagesAreTrue
      <3>2. Owner(y) \in Node /\ y.seq \in Nat
        BY MessageFields DEF Owner
      <3>3. Owner(y) = n => y.seq # seq
        BY <1>1, <2>5, ClearOn
      <3>4. y.seq <= seqnum'[Owner(y)]
        <4>1. y.seq <= seqnum[Owner(y)]
          BY <3>1 DEF MessageIsTrue
        <4>2. seqnum[Owner(y)] \in Nat /\ seqnum'[Owner(y)] \in Nat
          BY <1>2, <1>3, <1>5, <3>2
        <4> QED
          BY <1>6, <3>2, <4>1, <4>2
      <3>5. \A a \in answers'[Owner(y)] : a[1] # y.seq
        BY <2>1, <3>1, <3>2, <3>3 DEF MessageIsTrue
      <3> QED
        BY <1>2, <3>1, <3>4, <3>5 DEF MessageIsTrue
    <2>6. MessagesAreTrue'
      BY <1>9, <2>5 DEF MessagesAreTrue, On
    <2> QED
      BY <2>2, <2>3, <2>4, <2>6 DEF AInv
  <1> QED
    BY <1>2, <1>8, <1>9

(***************************************************************************)
(* A ping takes a number too; it is no packet.                             *)
(***************************************************************************)
LEMMA SendPingTrue ==
  ASSUME Inv, Inv', AInv, NEW n \in Node, SendPing(n)
  PROVE  AInv'
  <1> DEFINE p == prompt[n]
             seq == seqnum[n] + 1
             ttl == IF p.op = "route" THEN p.next ELSE DefaultTTL
             m == [type |-> "ping", accept |-> "not", src |-> n, dst |-> p.dst, ttl |-> ttl,
                   seq |-> seq, given |-> ttl, hops |-> 0]
             w == OnWire(m)
  <1>1. /\ p.op \in {"ping", "route"} /\ p.dst \in Node /\ p.next \in Nat
        /\ p.op = "route" => p.next < RouteProbes
    <2>1. /\ p.op \in {"none", "ping", "route"} /\ p.next \in Nat
          /\ p.op # "none" => p.dst \in Node
          /\ p.op = "route" => p.next < RouteProbes
      BY DEF Inv, TypeOK, Prompts
    <2>2. p.op # "none"
      BY DEF SendPing
    <2> QED
      BY <2>1, <2>2
  <1>2. /\ seqnum \in [Node -> Nat] /\ seq \in Nat /\ TypeOK /\ link \in Links /\ OnceEach(link)
    <2>1. seqnum \in [Node -> Nat] /\ TypeOK /\ link \in Links /\ OnceEach(link)
      BY DEF Inv, TypeOK, AInv
    <2> QED
      BY <2>1
  <1>3. m \in BoundedMessage
    <2>1. ttl \in Nat /\ (ttl <= DefaultTTL \/ ttl < RouteProbes)
      BY <1>1, ForwardingAssumption
    <2> HIDE DEF ttl, p, seq
    <2>2. m \in Message
      BY <1>1, <1>2, <2>1 DEF Message
    <2>3. m.ttl = ttl /\ m.given = ttl /\ m.hops = 0
      OBVIOUS
    <2> HIDE DEF m
    <2> QED
      BY <2>1, <2>2, <2>3, ForwardingAssumption DEF BoundedMessage, Bounded
  <1>4. /\ seqnum' = [seqnum EXCEPT ![n] = seq]
        /\ Sends(n, p.via, m, link)
        /\ UNCHANGED <<answers, delivered>>
    BY DEF SendPing, replyVars
  <1>5. \A k \in Node : seqnum[k] <= seqnum'[k]
    BY <1>2, <1>4
  <1>6. ~IsPacket(m)
    BY DEF IsPacket
  <1> HIDE DEF m, p, seq
  <1>7. OnceEach(link') /\ (From(link', link) \/ FromOr(link', link, w))
    BY <1>2, <1>3, <1>4, <1>6, SendsOnce
  <1>8. FromOr(link', link, w)
    BY <1>7, FromIsFromOr
  <1>9. ~IsPacket(w)
    BY <1>3, <1>6, OnWireSame
  <1> HIDE DEF w
  <1> QED
    BY <1>4, <1>5, <1>7, <1>8, <1>9, QuietStep

(***************************************************************************)
(* Every step of the system keeps AInv.                                    *)
(***************************************************************************)
LEMMA AInvStep == Inv /\ Inv' /\ AInv /\ [Next]_vars => AInv'
  <1> SUFFICES ASSUME Inv, Inv', AInv, [Next]_vars PROVE AInv'
    OBVIOUS
  <1>1. ASSUME UNCHANGED <<link, seqnum, answers, delivered>> PROVE AInv'
    BY <1>1 DEF AInv, OnceEach, AnswersAreTrue, RecordsAreKnown, MessagesAreTrue, MessageIsTrue, On
  <1>2. ASSUME NEW n \in User, UserCommand(n) PROVE AInv'
    <2>1. n \in Node
      BY ForwardingAssumption
    <2>2. ASSUME NEW d \in Node, MessageCommand(n, d) PROVE AInv'
      BY <2>1, <2>2, MessageCommandTrue
    <2>3. ASSUME NEW d \in Node, PingCommand(n, d) \/ RouteCommand(n, d) PROVE AInv'
      <3>1. UNCHANGED <<link, seqnum, answers, delivered>>
        BY <2>3 DEF PingCommand, RouteCommand, Typed
      <3> QED
        BY <1>1, <3>1
    <2>4. CASE SendPing(n)
      BY <2>1, <2>4, SendPingTrue
    <2> QED
      BY <1>2, <2>2, <2>3, <2>4 DEF UserCommand
  <1>3. ASSUME NEW n \in Node, TableChanges(n) PROVE AInv'
    <2>1. UNCHANGED <<link, seqnum, answers, delivered>>
      BY <1>3 DEF TableChanges, commandVars, replyVars
    <2> QED
      BY <1>1, <2>1
  <1>4. ASSUME NEW q \in Node, NEW n \in Node, Receive(q, n) \/ Coalesced(q, n) PROVE AInv'
    BY <1>4, ReceiveTrue, CoalescedTrue
  <1>5. CASE UNCHANGED vars
    BY <1>1, <1>5 DEF vars, commandVars, replyVars
  <1> QED
    BY <1>2, <1>3, <1>4, <1>5 DEF Next

(***************************************************************************)
(* What the source displays of a message is true, for every network and    *)
(* whichever way its route tables change, processes end and messages are   *)
(* lost: "delivered" is displayed of exactly the messages that were, and   *)
(* no message is reported twice over (exec.cpp, PACKET; sock_actions.cpp,  *)
(* reverse; prompt_actions.cpp, sendMessage).                              *)
(***************************************************************************)
THEOREM ReportsAreTrue == Spec => []AnswersAreTrue
  <1>1. AInv => AnswersAreTrue
    BY DEF AInv
  <1> QED
    BY InvInit, InvStep, AInvInit, AInvStep, <1>1, PTL DEF Spec

------------------------------------------------------------------------------
(***************************************************************************)
(* What a route command displays follows the path to its destination, when *)
(* the tables do not change and lead back the way they lead there, and     *)
(* when no other command of the router expects pongs.                      *)
(*                                                                         *)
(* p is the path, of which p[far] is the destination.  The pings and pongs *)
(* of the command are all on it, there or back.  RouteFollowsPath says     *)
(* nothing of them; what every step keeps is that those sent first turn    *)
(* back no later than the others, and stay ahead of them (InOrder).        *)
(***************************************************************************)
RouteOnly == MaxOf["ping"] = 0 /\ MaxOf["route"] <= 1

SameWayBack ==
  \E t : /\ Table = {t}
         /\ \A x, n, d \in Node : x # d /\ t[x][d] # t[x][n] => t[t[x][d]][n] = x

(***************************************************************************)
(* The pings of n, and their pongs.                                        *)
(***************************************************************************)
Mine(n, m) == (m.type = "ping" /\ m.src = n) \/ (m.type = "pong" /\ m.dst = n)

(***************************************************************************)
(* A path from n, and what it is to the tables: they lead along it to its  *)
(* end, and back along it to n.                                            *)
(***************************************************************************)
Path(p, far, n) ==
  /\ far \in Nat \ {0} /\ p \in [0..far -> Node] /\ p[0] = n
  /\ \A i, j \in 0..far : p[i] = p[j] => i = j

Routed(p, far) ==
  \A k \in 0..(far - 1) : route[p[k]][p[far]] = p[k + 1] /\ route[p[k + 1]][p[0]] = p[k]

Index(p, far, x) == CHOOSE k \in 0..far : p[k] = x

(***************************************************************************)
(* A ping on its way there, and a pong on its way back from p[s].  Only    *)
(* the destination's pongs carry a TTL.                                    *)
(***************************************************************************)
Asks(p, far, e, m) ==
  /\ m.type = "ping" /\ m.accept = "not" /\ m.dst = p[far] /\ m.ttl \in Nat
  /\ \E h \in 0..(far - 1) : e = <<p[h], p[h + 1]>> /\ m.hops = h

Reports(p, far, e, m) ==
  /\ m.type = "pong" /\ m.accept \in {"not", "ttlzero"}
  /\ \E h \in 0..(far - 1) : e = <<p[h + 1], p[h]>> /\
       \E s \in (h + 1)..far : m.src = p[s] /\ (m.accept = "not" => s = far)

OnPath(p, far, e, m) == Asks(p, far, e, m) \/ Reports(p, far, e, m)

(***************************************************************************)
(* Where a ping turns back, or a pong has; and how far each has come.      *)
(***************************************************************************)
Turn(p, far, m) ==
  IF m.type = "ping" THEN IF m.ttl + m.hops < far THEN m.ttl + m.hops + 1 ELSE far
  ELSE Index(p, far, m.src)

Pos(p, far, e, m) ==
  IF m.type = "ping" THEN Index(p, far, e[2]) ELSE 2 * far - Index(p, far, e[2])

Sooner(p, far, m, w) ==
  Turn(p, far, m) < Turn(p, far, w) \/ (Turn(p, far, m) = far /\ Turn(p, far, w) = far)

(***************************************************************************)
(* Of two messages of n, the one that was sent first is for a router that  *)
(* is nearer, unless both are for the destination, and has come further.   *)
(***************************************************************************)
InOrder(l, n, p, far) ==
  \A e, f \in Edges : \A i \in 1..Len(l[e]), j \in 1..Len(l[f]) :
    Mine(n, l[e][i]) /\ Mine(n, l[f][j]) =>
      /\ l[e][i].seq = l[f][j].seq => e = f /\ i = j
      /\ l[e][i].seq < l[f][j].seq =>
           /\ Sooner(p, far, l[e][i], l[f][j])
           /\ Pos(p, far, e, l[e][i]) >= Pos(p, far, f, l[f][j])
           /\ e = f => i < j

(***************************************************************************)
(* What is known of each message: s is the last number taken, c the count  *)
(* of the pings sent, S what was displayed.                                *)
(***************************************************************************)
UpTo(p, k) == {p[h] : h \in 1..k}

Known(p, far, s, c, S, e, m) ==
  /\ OnPath(p, far, e, m) /\ m.seq <= s /\ Turn(p, far, m) <= c
  /\ S \subseteq UpTo(p, Turn(p, far, m) - 1)

AllKnown(l, n, p, far, s, c, S) ==
  \A e \in Edges : \A i \in 1..Len(l[e]) : Mine(n, l[e][i]) => Known(p, far, s, c, S, e, l[e][i])

Present(l, n, p, far, k) ==
  \E e \in Edges : \E i \in 1..Len(l[e]) : Mine(n, l[e][i]) /\ Turn(p, far, l[e][i]) = k

(***************************************************************************)
(* A position of the path is found again.                                  *)
(***************************************************************************)
LEMMA IndexIs ==
  ASSUME NEW n, NEW p, NEW far, Path(p, far, n), NEW k \in 0..far
  PROVE  Index(p, far, p[k]) = k
  BY DEF Path, Index

(***************************************************************************)
(* How far a message of the command has come and where it turns back.      *)
(***************************************************************************)
LEMMA OnPathFacts ==
  ASSUME NEW n, NEW p, NEW far, Path(p, far, n), NEW e, NEW m \in BoundedMessage, OnPath(p, far, e, m)
  PROVE  /\ Turn(p, far, m) \in 1..far /\ Pos(p, far, e, m) \in 1..(2 * far)
         /\ m.type = "ping" =>
              \E h \in 0..(far - 1) : /\ e = <<p[h], p[h + 1]>> /\ Pos(p, far, e, m) = h + 1
                                      /\ m.hops = h /\ h + 1 <= Turn(p, far, m)
         /\ m.type # "ping" =>
              \E h \in 0..(far - 1) : /\ e = <<p[h + 1], p[h]>> /\ Pos(p, far, e, m) = 2 * far - h
                                      /\ h + 1 <= Turn(p, far, m) /\ m.src = p[Turn(p, far, m)]
                                      /\ (m.accept = "not" => Turn(p, far, m) = far)
  <1>1. far \in Nat \ {0}
    BY DEF Path
  <1>2. CASE Asks(p, far, e, m)
    <2>1. m.type = "ping" /\ m.ttl \in Nat
      BY <1>2 DEF Asks
    <2>2. PICK h \in 0..(far - 1) : e = <<p[h], p[h + 1]>> /\ m.hops = h
      BY <1>2 DEF Asks
    <2>3. Index(p, far, p[h + 1]) = h + 1 /\ e[2] = p[h + 1]
      BY <1>1, <2>2, IndexIs
    <2>4. Pos(p, far, e, m) = h + 1
      BY <2>1, <2>3 DEF Pos
    <2>5. Turn(p, far, m) \in 1..far /\ h + 1 <= Turn(p, far, m)
      BY <1>1, <2>1, <2>2 DEF Turn
    <2> QED
      BY <1>1, <2>1, <2>2, <2>4, <2>5
  <1>3. CASE Reports(p, far, e, m)
    <2>1. m.type = "pong"
      BY <1>3 DEF Reports
    <2>2. PICK h \in 0..(far - 1) : e = <<p[h + 1], p[h]>> /\
                 \E s \in (h + 1)..far : m.src = p[s] /\ (m.accept = "not" => s = far)
      BY <1>3 DEF Reports
    <2>3. PICK s \in (h + 1)..far : m.src = p[s] /\ (m.accept = "not" => s = far)
      BY <2>2
    <2>4. Index(p, far, p[h]) = h /\ e[2] = p[h] /\ Index(p, far, p[s]) = s
      BY <1>1, <2>2, <2>3, IndexIs
    <2>5. Pos(p, far, e, m) = 2 * far - h /\ Turn(p, far, m) = s
      BY <2>1, <2>3, <2>4 DEF Pos, Turn
    <2> QED
      BY <1>1, <2>1, <2>2, <2>3, <2>5
  <1> QED
    BY <1>2, <1>3 DEF OnPath

(***************************************************************************)
(* Two messages have come equally far when they are on the same connection.*)
(***************************************************************************)
LEMMA PosIsLink ==
  ASSUME NEW n, NEW p, NEW far, Path(p, far, n),
         NEW e, NEW m \in BoundedMessage, OnPath(p, far, e, m),
         NEW f, NEW w \in BoundedMessage, OnPath(p, far, f, w)
  PROVE  Pos(p, far, e, m) = Pos(p, far, f, w) <=> e = f
  <1>1. far \in Nat \ {0} /\ \A i, j \in 0..far : p[i] = p[j] => i = j
    BY DEF Path
  <1>2. CASE m.type = "ping" /\ w.type = "ping"
    <2>1. PICK h \in 0..(far - 1) : e = <<p[h], p[h + 1]>> /\ Pos(p, far, e, m) = h + 1
      BY <1>2, OnPathFacts
    <2>2. PICK k \in 0..(far - 1) : f = <<p[k], p[k + 1]>> /\ Pos(p, far, f, w) = k + 1
      BY <1>2, OnPathFacts
    <2> QED
      BY <1>1, <2>1, <2>2
  <1>3. CASE m.type # "ping" /\ w.type # "ping"
    <2>1. PICK h \in 0..(far - 1) : e = <<p[h + 1], p[h]>> /\ Pos(p, far, e, m) = 2 * far - h
      BY <1>3, OnPathFacts
    <2>2. PICK k \in 0..(far - 1) : f = <<p[k + 1], p[k]>> /\ Pos(p, far, f, w) = 2 * far - k
      BY <1>3, OnPathFacts
    <2> QED
      BY <1>1, <2>1, <2>2
  <1>4. CASE m.type = "ping" /\ w.type # "ping"
    <2>1. PICK h \in 0..(far - 1) : e = <<p[h], p[h + 1]>> /\ Pos(p, far, e, m) = h + 1
      BY <1>4, OnPathFacts
    <2>2. PICK k \in 0..(far - 1) : f = <<p[k + 1], p[k]>> /\ Pos(p, far, f, w) = 2 * far - k
      BY <1>4, OnPathFacts
    <2> QED
      BY <1>1, <2>1, <2>2
  <1>5. CASE m.type # "ping" /\ w.type = "ping"
    <2>1. PICK h \in 0..(far - 1) : e = <<p[h + 1], p[h]>> /\ Pos(p, far, e, m) = 2 * far - h
      BY <1>5, OnPathFacts
    <2>2. PICK k \in 0..(far - 1) : f = <<p[k], p[k + 1]>> /\ Pos(p, far, f, w) = k + 1
      BY <1>5, OnPathFacts
    <2> QED
      BY <1>1, <2>1, <2>2
  <1> QED
    BY <1>2, <1>3, <1>4, <1>5

------------------------------------------------------------------------------
(***************************************************************************)
(* The connections after the first message of r was read, and after w was  *)
(* written on it; and where the messages of the first are in them.         *)
(***************************************************************************)
Without(l, r) == [l EXCEPT ![r] = Tail(@)]

With(l, r, w) == [l EXCEPT ![r] = Append(@, w)]

ReadAs(l, r, k) ==
  /\ \A e \in Edges : \A i \in 1..Len(k[e]) :
       /\ e = r => i + 1 \in 1..Len(l[e]) /\ k[e][i] = l[e][i + 1]
       /\ e # r => i \in 1..Len(l[e]) /\ k[e][i] = l[e][i]
  /\ \A e \in Edges : \A j \in 1..Len(l[e]) :
       (e = r /\ j = 1) \/ \E i \in 1..Len(k[e]) : k[e][i] = l[e][j]

(***************************************************************************)
(* The messages of a connection after one was read, or written.            *)
(***************************************************************************)
LEMMA ReadPlaces ==
  ASSUME NEW l \in Links, NEW r \in Edges, l[r] # <<>>, NEW k, k = Without(l, r)
  PROVE  /\ k \in Links /\ l[r][1] \in BoundedMessage /\ 1 \in 1..Len(l[r])
         /\ ReadAs(l, r, k)
  <1>1. /\ l \in [Edges -> Seq(BoundedMessage)] /\ l[r] \in Seq(BoundedMessage)
        /\ k \in [Edges -> Seq(BoundedMessage)]
        /\ Len(Tail(l[r])) = Len(l[r]) - 1 /\ Len(l[r]) \in Nat \ {0}
    BY DEF Links, Edges, Without
  <1>2. k[r] = Tail(l[r]) /\ \A e \in Edges \ {r} : k[e] = l[e]
    BY <1>1 DEF Without
  <1>3. \A i \in 1..Len(Tail(l[r])) : Tail(l[r])[i] = l[r][i + 1]
    BY <1>1
  <1>4. ASSUME NEW e \in Edges, NEW i \in 1..Len(k[e])
        PROVE  /\ e = r => i + 1 \in 1..Len(l[e]) /\ k[e][i] = l[e][i + 1]
               /\ e # r => i \in 1..Len(l[e]) /\ k[e][i] = l[e][i]
    <2>1. CASE e = r
      <3>1. i \in 1..Len(Tail(l[r])) /\ i + 1 \in 1..Len(l[r])
        BY <1>1, <1>2, <2>1
      <3> QED
        BY <1>2, <1>3, <2>1, <3>1
    <2>2. CASE e # r
      <3>1. k[e] = l[e]
        BY <1>2, <2>2
      <3> QED
        BY <2>2, <3>1
    <2> QED
      BY <2>1, <2>2
  <1>5. ASSUME NEW e \in Edges, NEW j \in 1..Len(l[e]), ~(e = r /\ j = 1)
        PROVE  \E i \in 1..Len(k[e]) : k[e][i] = l[e][j]
    <2>1. CASE e = r
      <3>1. j - 1 \in 1..Len(k[e]) /\ (j - 1) + 1 = j
        BY <1>1, <1>2, <1>5, <2>1
      <3>2. k[e][j - 1] = l[e][(j - 1) + 1]
        BY <1>2, <1>3, <2>1, <3>1
      <3>3. k[e][j - 1] = l[e][j]
        BY <3>1, <3>2
      <3> QED
        BY <3>1, <3>3
    <2>2. CASE e # r
      <3>1. k[e] = l[e]
        BY <1>2, <2>2
      <3> QED
        BY <3>1
    <2> QED
      BY <2>1, <2>2
  <1>6. k \in Links
    BY <1>1 DEF Links, Edges
  <1>7. l[r][1] \in BoundedMessage /\ 1 \in 1..Len(l[r])
    BY <1>1
  <1> QED
    BY <1>4, <1>5, <1>6, <1>7 DEF ReadAs

LEMMA PutPlaces ==
  ASSUME NEW l \in Links, NEW r \in Edges, NEW w \in BoundedMessage, NEW k, k = With(l, r, w)
  PROVE  /\ k \in Links
         /\ \A e \in Edges : \A i \in 1..Len(k[e]) :
              \/ i \in 1..Len(l[e]) /\ k[e][i] = l[e][i]
              \/ e = r /\ i = Len(l[r]) + 1 /\ k[e][i] = w
         /\ \A e \in Edges : \A i \in 1..Len(l[e]) : i \in 1..Len(k[e]) /\ k[e][i] = l[e][i]
         /\ Len(l[r]) + 1 \in 1..Len(k[r]) /\ k[r][Len(l[r]) + 1] = w
  <1>1. /\ l \in [Edges -> Seq(BoundedMessage)] /\ l[r] \in Seq(BoundedMessage)
        /\ k \in [Edges -> Seq(BoundedMessage)] /\ Len(l[r]) \in Nat
    BY DEF Links, Edges, With
  <1>2. k[r] = Append(l[r], w) /\ \A e \in Edges \ {r} : k[e] = l[e]
    BY <1>1 DEF With
  <1>3. /\ Len(Append(l[r], w)) = Len(l[r]) + 1 /\ Append(l[r], w)[Len(l[r]) + 1] = w
        /\ \A i \in 1..Len(l[r]) : Append(l[r], w)[i] = l[r][i]
    BY <1>1
  <1>4. ASSUME NEW e \in Edges, NEW i \in 1..Len(k[e])
        PROVE  \/ i \in 1..Len(l[e]) /\ k[e][i] = l[e][i]
               \/ e = r /\ i = Len(l[r]) + 1 /\ k[e][i] = w
    <2>1. CASE e = r
      <3>1. i \in 1..(Len(l[r]) + 1)
        BY <1>2, <1>3, <2>1
      <3>2. i \in 1..Len(l[r]) \/ i = Len(l[r]) + 1
        BY <1>1, <3>1
      <3> QED
        BY <1>2, <1>3, <2>1, <3>2
    <2>2. CASE e # r
      <3>1. k[e] = l[e]
        BY <1>2, <2>2
      <3> QED
        BY <3>1
    <2> QED
      BY <2>1, <2>2
  <1>5. ASSUME NEW e \in Edges, NEW i \in 1..Len(l[e]) PROVE i \in 1..Len(k[e]) /\ k[e][i] = l[e][i]
    <2>1. CASE e = r
      <3>1. i \in 1..(Len(l[r]) + 1)
        BY <1>1, <2>1
      <3> QED
        BY <1>2, <1>3, <2>1, <3>1
    <2>2. CASE e # r
      <3>1. k[e] = l[e]
        BY <1>2, <2>2
      <3> QED
        BY <3>1
    <2> QED
      BY <2>1, <2>2
  <1> QED
    BY <1>1, <1>2, <1>3, <1>4, <1>5 DEF Links, Edges

------------------------------------------------------------------------------
(***************************************************************************)
(* Reading the first message of a connection.                              *)
(***************************************************************************)
LEMMA ReadKnown ==
  ASSUME NEW n, NEW p, NEW far, NEW s, NEW c, NEW S, NEW l \in Links, AllKnown(l, n, p, far, s, c, S),
         NEW r \in Edges, l[r] # <<>>, NEW k, k = Without(l, r)
  PROVE  /\ AllKnown(k, n, p, far, s, c, S)
         /\ Mine(n, l[r][1]) => Known(p, far, s, c, S, r, l[r][1])
  <1>1. ASSUME NEW e \in Edges, NEW i \in 1..Len(k[e])
        PROVE  \E j \in 1..Len(l[e]) : k[e][i] = l[e][j]
    <2>1. ReadAs(l, r, k)
      BY ReadPlaces
    <2> QED
      BY <2>1 DEF ReadAs
  <1>2. 1 \in 1..Len(l[r])
    BY ReadPlaces
  <1> QED
    BY <1>1, <1>2 DEF AllKnown

(***************************************************************************)
(* The others stay in their order, and each was sent before the one that   *)
(* was read and is ahead of it, or after it and is not.                    *)
(***************************************************************************)
LEMMA ReadInOrder ==
  ASSUME NEW n, NEW p, NEW far, Path(p, far, n), NEW s, NEW c, NEW S,
         NEW l \in Links, AllKnown(l, n, p, far, s, c, S), InOrder(l, n, p, far),
         NEW r \in Edges, l[r] # <<>>, NEW k, k = Without(l, r)
  PROVE  /\ InOrder(k, n, p, far)
         /\ Mine(n, l[r][1]) =>
              \A e \in Edges : \A i \in 1..Len(k[e]) : Mine(n, k[e][i]) =>
                /\ k[e][i].seq # l[r][1].seq
                /\ k[e][i].seq < l[r][1].seq =>
                     Sooner(p, far, k[e][i], l[r][1]) /\ Pos(p, far, e, k[e][i]) > Pos(p, far, r, l[r][1])
                /\ l[r][1].seq < k[e][i].seq =>
                     Sooner(p, far, l[r][1], k[e][i]) /\ Pos(p, far, r, l[r][1]) >= Pos(p, far, e, k[e][i])
  <1> DEFINE at(e, i) == IF e = r THEN i + 1 ELSE i
  <1>1. /\ \A e \in Edges : \A i \in 1..Len(k[e]) : at(e, i) \in 1..Len(l[e]) /\ k[e][i] = l[e][at(e, i)]
        /\ 1 \in 1..Len(l[r]) /\ l[r][1] \in BoundedMessage
    <2>1. ReadAs(l, r, k) /\ 1 \in 1..Len(l[r]) /\ l[r][1] \in BoundedMessage
      BY ReadPlaces
    <2> QED
      BY <2>1 DEF ReadAs
  <1>2. \A e \in Edges : \A i \in 1..Len(k[e]) : i \in Nat \ {0} /\ at(e, i) \in Nat \ {0} /\ (e = r => at(e, i) # 1)
    <2> SUFFICES ASSUME NEW e \in Edges, NEW i \in 1..Len(k[e])
                 PROVE  i \in Nat \ {0} /\ at(e, i) \in Nat \ {0} /\ (e = r => at(e, i) # 1)
      OBVIOUS
    <2>1. k \in Links
      BY ReadPlaces
    <2>2. Len(k[e]) \in Nat
      BY <2>1 DEF Links, Edges
    <2> QED
      BY <2>2
  <1>3. \A e \in Edges : \A i, j \in Nat : (at(e, i) = at(e, j) <=> i = j) /\ (at(e, i) < at(e, j) <=> i < j)
    OBVIOUS
  <1> HIDE DEF at
  <1>4. InOrder(k, n, p, far)
    <2> SUFFICES ASSUME NEW e \in Edges, NEW f \in Edges, NEW i \in 1..Len(k[e]), NEW j \in 1..Len(k[f]),
                        Mine(n, k[e][i]), Mine(n, k[f][j])
                 PROVE  /\ k[e][i].seq = k[f][j].seq => e = f /\ i = j
                        /\ k[e][i].seq < k[f][j].seq =>
                             /\ Sooner(p, far, k[e][i], k[f][j])
                             /\ Pos(p, far, e, k[e][i]) >= Pos(p, far, f, k[f][j])
                             /\ e = f => i < j
      BY DEF InOrder
    <2>1. /\ at(e, i) \in 1..Len(l[e]) /\ k[e][i] = l[e][at(e, i)]
          /\ at(f, j) \in 1..Len(l[f]) /\ k[f][j] = l[f][at(f, j)]
      BY <1>1
    <2>2. /\ l[e][at(e, i)].seq = l[f][at(f, j)].seq => e = f /\ at(e, i) = at(f, j)
          /\ l[e][at(e, i)].seq < l[f][at(f, j)].seq =>
               /\ Sooner(p, far, l[e][at(e, i)], l[f][at(f, j)])
               /\ Pos(p, far, e, l[e][at(e, i)]) >= Pos(p, far, f, l[f][at(f, j)])
               /\ e = f => at(e, i) < at(f, j)
      BY <2>1 DEF InOrder
    <2>3. i \in Nat /\ j \in Nat
      BY <1>2
    <2>4. e = f => (at(e, i) = at(f, j) <=> i = j) /\ (at(e, i) < at(f, j) <=> i < j)
      BY <1>3, <2>3
    <2> QED
      BY <2>1, <2>2, <2>4
  <1>5. ASSUME Mine(n, l[r][1]), NEW e \in Edges, NEW i \in 1..Len(k[e]), Mine(n, k[e][i])
        PROVE  /\ k[e][i].seq # l[r][1].seq
               /\ k[e][i].seq < l[r][1].seq =>
                    Sooner(p, far, k[e][i], l[r][1]) /\ Pos(p, far, e, k[e][i]) > Pos(p, far, r, l[r][1])
               /\ l[r][1].seq < k[e][i].seq =>
                    Sooner(p, far, l[r][1], k[e][i]) /\ Pos(p, far, r, l[r][1]) >= Pos(p, far, e, k[e][i])
    <2> DEFINE j == at(e, i)
               m == l[r][1]
               w == l[e][j]
    <2>1. j \in 1..Len(l[e]) /\ k[e][i] = w /\ 1 \in 1..Len(l[r]) /\ j \in Nat \ {0} /\ (e = r => j # 1)
      BY <1>1, <1>2
    <2>2. /\ m.seq = w.seq => r = e /\ 1 = j
          /\ m.seq < w.seq => Sooner(p, far, m, w) /\ Pos(p, far, r, m) >= Pos(p, far, e, w)
          /\ w.seq < m.seq => Sooner(p, far, w, m) /\ Pos(p, far, e, w) >= Pos(p, far, r, m) /\ (e = r => j < 1)
      BY <1>5, <2>1 DEF InOrder
    <2>3. OnPath(p, far, r, m) /\ OnPath(p, far, e, w) /\ w \in BoundedMessage /\ m \in BoundedMessage
      <3>1. l[e] \in Seq(BoundedMessage)
        BY DEF Links, Edges
      <3> QED
        BY <1>1, <1>5, <2>1, <3>1 DEF AllKnown, Known
    <2> HIDE DEF j, m, w
    <2>4. Pos(p, far, r, m) = Pos(p, far, e, w) <=> r = e
      BY <2>3, PosIsLink
    <2>5. Pos(p, far, r, m) \in Int /\ Pos(p, far, e, w) \in Int
      <3>1. far \in Nat
        BY DEF Path
      <3>2. Pos(p, far, r, m) \in 1..(2 * far) /\ Pos(p, far, e, w) \in 1..(2 * far)
        BY <2>3, OnPathFacts
      <3> QED
        BY <3>1, <3>2
    <2>6. /\ w.seq # m.seq
          /\ w.seq < m.seq => Sooner(p, far, w, m) /\ Pos(p, far, e, w) > Pos(p, far, r, m)
          /\ m.seq < w.seq => Sooner(p, far, m, w) /\ Pos(p, far, r, m) >= Pos(p, far, e, w)
      BY <2>1, <2>2, <2>4, <2>5
    <2> QED
      BY <2>1, <2>6 DEF m
  <1> QED
    BY <1>4, <1>5

LEMMA ReadPresent ==
  ASSUME NEW n, NEW p, NEW far, NEW l \in Links, NEW r \in Edges, l[r] # <<>>,
         NEW k, k = Without(l, r), NEW x, Present(l, n, p, far, x)
  PROVE  Present(k, n, p, far, x) \/ (Mine(n, l[r][1]) /\ Turn(p, far, l[r][1]) = x)
  <1>0. PICK e \in Edges : \E j \in 1..Len(l[e]) : Mine(n, l[e][j]) /\ Turn(p, far, l[e][j]) = x
    BY DEF Present
  <1>1. PICK j \in 1..Len(l[e]) : Mine(n, l[e][j]) /\ Turn(p, far, l[e][j]) = x
    BY <1>0
  <1>2. (e = r /\ j = 1) \/ \E i \in 1..Len(k[e]) : k[e][i] = l[e][j]
    <2>1. ReadAs(l, r, k)
      BY ReadPlaces
    <2> QED
      BY <2>1 DEF ReadAs
  <1> QED
    BY <1>1, <1>2 DEF Present

------------------------------------------------------------------------------
(***************************************************************************)
(* Writing a message that is not of the command.                           *)
(***************************************************************************)
LEMMA PutOther ==
  ASSUME NEW n, NEW p, NEW far, NEW s, NEW c, NEW S, NEW l \in Links,
         AllKnown(l, n, p, far, s, c, S), InOrder(l, n, p, far),
         NEW r \in Edges, NEW w \in BoundedMessage, ~Mine(n, w), NEW k, k = With(l, r, w)
  PROVE  AllKnown(k, n, p, far, s, c, S) /\ InOrder(k, n, p, far)
  <1>1. \A e \in Edges : \A i \in 1..Len(k[e]) : Mine(n, k[e][i]) => i \in 1..Len(l[e]) /\ k[e][i] = l[e][i]
    BY PutPlaces
  <1>2. AllKnown(k, n, p, far, s, c, S)
    BY <1>1 DEF AllKnown
  <1>3. InOrder(k, n, p, far)
    <2> SUFFICES ASSUME NEW e \in Edges, NEW f \in Edges, NEW i \in 1..Len(k[e]), NEW j \in 1..Len(k[f]),
                        Mine(n, k[e][i]), Mine(n, k[f][j])
                 PROVE  /\ k[e][i].seq = k[f][j].seq => e = f /\ i = j
                        /\ k[e][i].seq < k[f][j].seq =>
                             /\ Sooner(p, far, k[e][i], k[f][j])
                             /\ Pos(p, far, e, k[e][i]) >= Pos(p, far, f, k[f][j])
                             /\ e = f => i < j
      BY DEF InOrder
    <2>1. i \in 1..Len(l[e]) /\ k[e][i] = l[e][i] /\ j \in 1..Len(l[f]) /\ k[f][j] = l[f][j]
      BY <1>1
    <2> QED
      BY <2>1 DEF InOrder
  <1> QED
    BY <1>2, <1>3

LEMMA PutPresent ==
  ASSUME NEW n, NEW p, NEW far, NEW l \in Links, NEW r \in Edges, NEW w \in BoundedMessage,
         NEW k, k = With(l, r, w)
  PROVE  /\ \A x : Present(l, n, p, far, x) => Present(k, n, p, far, x)
         /\ Mine(n, w) => Present(k, n, p, far, Turn(p, far, w))
  <1>1. /\ \A e \in Edges : \A i \in 1..Len(l[e]) : i \in 1..Len(k[e]) /\ k[e][i] = l[e][i]
        /\ Len(l[r]) + 1 \in 1..Len(k[r]) /\ k[r][Len(l[r]) + 1] = w
    BY PutPlaces
  <1>2. ASSUME NEW x, Present(l, n, p, far, x) PROVE Present(k, n, p, far, x)
    BY <1>1, <1>2 DEF Present
  <1>3. Mine(n, w) => Present(k, n, p, far, Turn(p, far, w))
    BY <1>1 DEF Present
  <1> QED
    BY <1>2, <1>3

(***************************************************************************)
(* Writing one of the command: it is last on its connection, and has to be *)
(* where the order of sending puts it.                                     *)
(***************************************************************************)
LEMMA PutMine ==
  ASSUME NEW n, NEW p, NEW far, Path(p, far, n), NEW s, NEW c, NEW S, NEW l \in Links,
         AllKnown(l, n, p, far, s, c, S), InOrder(l, n, p, far),
         NEW r \in Edges, NEW w \in BoundedMessage, Known(p, far, s, c, S, r, w),
         \A e \in Edges : \A i \in 1..Len(l[e]) : Mine(n, l[e][i]) =>
           /\ l[e][i].seq # w.seq
           /\ l[e][i].seq < w.seq =>
                Sooner(p, far, l[e][i], w) /\ Pos(p, far, e, l[e][i]) >= Pos(p, far, r, w)
           /\ w.seq < l[e][i].seq =>
                Sooner(p, far, w, l[e][i]) /\ Pos(p, far, r, w) > Pos(p, far, e, l[e][i]),
         NEW k, k = With(l, r, w)
  PROVE  AllKnown(k, n, p, far, s, c, S) /\ InOrder(k, n, p, far)
  <1>1. \A e \in Edges : \A i \in 1..Len(k[e]) :
          \/ i \in 1..Len(l[e]) /\ k[e][i] = l[e][i]
          \/ e = r /\ i = Len(l[r]) + 1 /\ k[e][i] = w
    BY PutPlaces
  <1>2. AllKnown(k, n, p, far, s, c, S)
    BY <1>1 DEF AllKnown
  <1>3. \A e \in Edges : Len(l[e]) \in Nat /\ l[e] \in Seq(BoundedMessage)
    BY DEF Links, Edges
  <1>4. InOrder(k, n, p, far)
    <2> SUFFICES ASSUME NEW e \in Edges, NEW f \in Edges, NEW i \in 1..Len(k[e]), NEW j \in 1..Len(k[f]),
                        Mine(n, k[e][i]), Mine(n, k[f][j])
                 PROVE  /\ k[e][i].seq = k[f][j].seq => e = f /\ i = j
                        /\ k[e][i].seq < k[f][j].seq =>
                             /\ Sooner(p, far, k[e][i], k[f][j])
                             /\ Pos(p, far, e, k[e][i]) >= Pos(p, far, f, k[f][j])
                             /\ e = f => i < j
      BY DEF InOrder
    <2>1. CASE i \in 1..Len(l[e]) /\ k[e][i] = l[e][i] /\ j \in 1..Len(l[f]) /\ k[f][j] = l[f][j]
      BY <2>1 DEF InOrder
    <2>2. CASE i \in 1..Len(l[e]) /\ k[e][i] = l[e][i] /\ f = r /\ j = Len(l[r]) + 1 /\ k[f][j] = w
      BY <1>3, <2>2
    <2>3. CASE e = r /\ i = Len(l[r]) + 1 /\ k[e][i] = w /\ j \in 1..Len(l[f]) /\ k[f][j] = l[f][j]
      <3> DEFINE b == l[f][j]
      <3>1. /\ b \in BoundedMessage /\ OnPath(p, far, f, b) /\ OnPath(p, far, r, w)
        BY <1>3, <2>3 DEF AllKnown, Known
      <3>2. /\ b.seq # w.seq
            /\ w.seq < b.seq => Sooner(p, far, w, b) /\ Pos(p, far, r, w) > Pos(p, far, f, b)
        BY <2>3
      <3> HIDE DEF b
      <3>3. Pos(p, far, r, w) = Pos(p, far, f, b) <=> r = f
        BY <3>1, PosIsLink
      <3>4. Pos(p, far, r, w) \in Int /\ Pos(p, far, f, b) \in Int
        <4>1. far \in Nat
          BY DEF Path
        <4>2. Pos(p, far, r, w) \in 1..(2 * far) /\ Pos(p, far, f, b) \in 1..(2 * far)
          BY <3>1, OnPathFacts
        <4> QED
          BY <4>1, <4>2
      <3>5. w.seq < b.seq => Sooner(p, far, w, b) /\ Pos(p, far, r, w) >= Pos(p, far, f, b) /\ r # f
        BY <3>2, <3>3, <3>4
      <3> QED
        BY <2>3, <3>2, <3>5 DEF b
    <2>4. CASE e = r /\ i = Len(l[r]) + 1 /\ k[e][i] = w /\ f = r /\ j = Len(l[r]) + 1 /\ k[f][j] = w
      <3>1. w.seq \in Nat
        BY MessageFields
      <3> QED
        BY <2>4, <3>1
    <2> QED
      BY <1>1, <2>1, <2>2, <2>3, <2>4
  <1> QED
    BY <1>2, <1>4

------------------------------------------------------------------------------
(***************************************************************************)
(* A step that reads m from r and writes w on f, further on, past none of  *)
(* the messages that were sent before m.                                   *)
(***************************************************************************)
Moves(n, p, far, r, m, f, w) ==
  /\ f \in Edges /\ w \in BoundedMessage /\ Mine(n, w) /\ OnPath(p, far, f, w)
  /\ w.seq = m.seq /\ Turn(p, far, w) = Turn(p, far, m)
  /\ Pos(p, far, f, w) > Pos(p, far, r, m)
  /\ \A e \in Edges, b \in BoundedMessage :
       OnPath(p, far, e, b) /\ Sooner(p, far, b, m) /\ Pos(p, far, e, b) > Pos(p, far, r, m)
         => Pos(p, far, e, b) >= Pos(p, far, f, w)

LEMMA MovesKeep ==
  ASSUME NEW n, NEW p, NEW far, Path(p, far, n), NEW s, NEW c, NEW S, NEW l \in Links,
         AllKnown(l, n, p, far, s, c, S), InOrder(l, n, p, far),
         NEW r \in Edges, l[r] # <<>>, Mine(n, l[r][1]), NEW k, k = Without(l, r),
         NEW f, NEW w, Moves(n, p, far, r, l[r][1], f, w), NEW h, h = With(k, f, w)
  PROVE  /\ AllKnown(h, n, p, far, s, c, S) /\ InOrder(h, n, p, far)
         /\ \A x : Present(l, n, p, far, x) => Present(h, n, p, far, x)
  <1> DEFINE m == l[r][1]
  <1>1. k \in Links /\ m \in BoundedMessage
    BY ReadPlaces
  <1>2. /\ f \in Edges /\ w \in BoundedMessage /\ Mine(n, w) /\ OnPath(p, far, f, w)
        /\ w.seq = m.seq /\ Turn(p, far, w) = Turn(p, far, m) /\ Pos(p, far, f, w) > Pos(p, far, r, m)
        /\ \A e \in Edges, b \in BoundedMessage :
             OnPath(p, far, e, b) /\ Sooner(p, far, b, m) /\ Pos(p, far, e, b) > Pos(p, far, r, m)
               => Pos(p, far, e, b) >= Pos(p, far, f, w)
    BY DEF Moves
  <1>3. AllKnown(k, n, p, far, s, c, S) /\ Known(p, far, s, c, S, r, m)
    BY ReadKnown
  <1>4. /\ InOrder(k, n, p, far)
        /\ \A e \in Edges : \A i \in 1..Len(k[e]) : Mine(n, k[e][i]) =>
             /\ k[e][i].seq # m.seq
             /\ k[e][i].seq < m.seq =>
                  Sooner(p, far, k[e][i], m) /\ Pos(p, far, e, k[e][i]) > Pos(p, far, r, m)
             /\ m.seq < k[e][i].seq =>
                  Sooner(p, far, m, k[e][i]) /\ Pos(p, far, r, m) >= Pos(p, far, e, k[e][i])
    BY ReadInOrder
  <1>5. ASSUME NEW x, Present(l, n, p, far, x) PROVE Present(k, n, p, far, x) \/ Turn(p, far, m) = x
    BY <1>5, ReadPresent
  <1> HIDE DEF m
  <1>6. Known(p, far, s, c, S, f, w)
    BY <1>2, <1>3 DEF Known
  <1>7. \A b : (Sooner(p, far, b, w) <=> Sooner(p, far, b, m)) /\ (Sooner(p, far, w, b) <=> Sooner(p, far, m, b))
    BY <1>2 DEF Sooner
  <1>8. ASSUME NEW e \in Edges, NEW i \in 1..Len(k[e]), Mine(n, k[e][i])
        PROVE  /\ k[e][i].seq # w.seq
               /\ k[e][i].seq < w.seq =>
                    Sooner(p, far, k[e][i], w) /\ Pos(p, far, e, k[e][i]) >= Pos(p, far, f, w)
               /\ w.seq < k[e][i].seq =>
                    Sooner(p, far, w, k[e][i]) /\ Pos(p, far, f, w) > Pos(p, far, e, k[e][i])
    <2> DEFINE b == k[e][i]
    <2>1. b \in BoundedMessage /\ OnPath(p, far, e, b)
      <3>1. k[e] \in Seq(BoundedMessage)
        BY <1>1 DEF Links, Edges
      <3> QED
        BY <1>3, <1>8, <3>1 DEF AllKnown, Known
    <2>2. /\ b.seq # m.seq
          /\ b.seq < m.seq => Sooner(p, far, b, m) /\ Pos(p, far, e, b) > Pos(p, far, r, m)
          /\ m.seq < b.seq => Sooner(p, far, m, b) /\ Pos(p, far, r, m) >= Pos(p, far, e, b)
      BY <1>4, <1>8
    <2> HIDE DEF b
    <2>3. far \in Nat
      BY DEF Path
    <2>4. /\ Pos(p, far, e, b) \in 1..(2 * far) /\ Pos(p, far, f, w) \in 1..(2 * far)
          /\ Pos(p, far, r, m) \in 1..(2 * far)
      BY <1>1, <1>2, <1>3, <2>1, OnPathFacts DEF Known, m
    <2>5. /\ Pos(p, far, e, b) \in Int /\ Pos(p, far, f, w) \in Int /\ Pos(p, far, r, m) \in Int
      BY <2>3, <2>4
    <2>6. b.seq < w.seq => Sooner(p, far, b, w) /\ Pos(p, far, e, b) >= Pos(p, far, f, w)
      BY <1>2, <1>7, <2>1, <2>2
    <2>7. w.seq < b.seq => Sooner(p, far, w, b) /\ Pos(p, far, f, w) > Pos(p, far, e, b)
      BY <1>2, <1>7, <2>2, <2>5
    <2> QED
      BY <1>2, <2>2, <2>6, <2>7 DEF b
  <1>9. AllKnown(h, n, p, far, s, c, S) /\ InOrder(h, n, p, far)
    BY <1>1, <1>2, <1>3, <1>4, <1>6, <1>8, PutMine
  <1>10. \A x : Present(l, n, p, far, x) => Present(h, n, p, far, x)
    <2>1. \A x : Present(k, n, p, far, x) => Present(h, n, p, far, x)
      BY <1>1, <1>2, PutPresent
    <2>2. Present(h, n, p, far, Turn(p, far, w))
      BY <1>1, <1>2, PutPresent
    <2> QED
      BY <1>2, <1>5, <2>1, <2>2
  <1> QED
    BY <1>9, <1>10

------------------------------------------------------------------------------
(***************************************************************************)
(* The messages that forwarding and answering write.                       *)
(***************************************************************************)
LEMMA OnWireFields ==
  ASSUME NEW m \in BoundedMessage
  PROVE  /\ OnWire(m) \in BoundedMessage
         /\ OnWire(m).type = m.type /\ OnWire(m).accept = m.accept /\ OnWire(m).src = m.src
         /\ OnWire(m).dst = m.dst /\ OnWire(m).seq = m.seq /\ OnWire(m).hops = m.hops
         /\ m.accept = "not" => OnWire(m).ttl = m.ttl
  <1>1. CASE m.accept = "not"
    BY <1>1, OnWireBounded DEF OnWire, Limited
  <1>2. CASE m.accept # "not"
    <2>1. OnWire(m) = [m EXCEPT !.ttl = -1]
      BY <1>2 DEF OnWire, Limited
    <2> QED
      BY <1>2, <2>1, OnWireBounded DEF BoundedMessage, Message
  <1> QED
    BY <1>1, <1>2

LEMMA PassedFields ==
  ASSUME NEW m \in BoundedMessage
  PROVE  /\ Passed(m).type = m.type /\ Passed(m).accept = m.accept /\ Passed(m).src = m.src
         /\ Passed(m).dst = m.dst /\ Passed(m).seq = m.seq /\ Passed(m).ttl = m.ttl - 1
         /\ m.accept = "not" => Passed(m).hops = m.hops + 1
  <1>1. m \in Message /\ m.hops \in Nat
    BY DEF BoundedMessage, Message
  <1>2. m.accept = "not" => m.hops <= Limit
    <2> SUFFICES ASSUME m.accept = "not" PROVE m.hops <= Limit
      OBVIOUS
    <2>1. /\ m.ttl \in Nat /\ m.given \in Nat /\ m.ttl + m.hops <= m.given
          /\ m.given <= DefaultTTL \/ m.given < RouteProbes
      BY DEF BoundedMessage, Bounded, Limited, Message
    <2>2. Limit \in Nat /\ DefaultTTL <= Limit /\ RouteProbes <= Limit /\ DefaultTTL \in Nat /\ RouteProbes \in Nat
      BY ForwardingAssumption DEF Limit
    <2> QED
      BY <1>1, <2>1, <2>2
  <1>3. Limit \in Nat
    BY ForwardingAssumption DEF Limit
  <1>4. m.accept = "not" => ~(m.hops > Limit)
    BY <1>1, <1>2, <1>3
  <1> QED
    BY <1>1, <1>4 DEF Passed, Message

LEMMA PongFields ==
  ASSUME NEW m \in BoundedMessage, NEW x \in Node
  PROVE  /\ LET a == [Reversed(m) EXCEPT !.type = "pong"]
            IN  a \in BoundedMessage /\ a.type = "pong" /\ a.accept = m.accept /\ a.src = m.dst
                /\ a.dst = m.src /\ a.seq = m.seq
         /\ LET a == [Reversed(m) EXCEPT !.type = "pong", !.accept = "ttlzero", !.src = x]
            IN  a \in BoundedMessage /\ a.type = "pong" /\ a.accept = "ttlzero" /\ a.src = x
                /\ a.dst = m.src /\ a.seq = m.seq
  <1>1. m \in Message
    BY DEF BoundedMessage
  <1>2. /\ [Reversed(m) EXCEPT !.type = "pong"] \in BoundedMessage
        /\ [Reversed(m) EXCEPT !.type = "pong", !.accept = "ttlzero", !.src = x] \in BoundedMessage
    BY ReversedBounded
  <1> QED
    BY <1>1, <1>2 DEF Reversed, Message

(***************************************************************************)
(* Among routers that are up and stay up, a message is written where it is *)
(* sent.                                                                   *)
(***************************************************************************)
LEMMA SendsTo ==
  ASSUME TypeOK, RoutersStayUp, RoutersStayUp', NEW l, NEW x \in Node, NEW via, NEW m, Sends(x, via, m, l)
  PROVE  via \in Node /\ link' = With(l, <<x, via>>, OnWire(m))
  <1>1. ~Ends(x, l)
    <2> SUFFICES ASSUME Ends(x, l) PROVE FALSE
      OBVIOUS
    <2>1. up' = [up EXCEPT ![x] = FALSE] /\ up \in [Node -> BOOLEAN]
      BY DEF Ends, TypeOK
    <2> QED
      BY <2>1 DEF RoutersStayUp
  <1>2. /\ via \in Node /\ up[via]
        /\ \E to \in Targets(x, via) : link' = Written(l, x, to, m)
    BY <1>1 DEF Sends, RoutersStayUp
  <1>3. Targets(x, via) = {via}
    BY ForwardingAssumption DEF Targets, RoutersStayUp
  <1>4. link' = Written(l, x, via, m)
    BY <1>2, <1>3
  <1> QED
    BY <1>2, <1>4 DEF Written, With

------------------------------------------------------------------------------
(***************************************************************************)
(* A ping of the command is read: it goes on, or turns back as a pong.     *)
(***************************************************************************)
LEMMA PingMoves ==
  ASSUME TypeOK, RoutersStayUp, RoutersStayUp', NEW n, NEW p, NEW far, Path(p, far, n), Routed(p, far),
         NEW q \in Node, NEW x \in Node, NEW m \in BoundedMessage, NEW k,
         Mine(n, m), m.type = "ping", OnPath(p, far, <<q, x>>, m),
         PingArrives(x, m, k) \/ Transits(x, m, k) \/ Expires(x, m, k)
  PROVE  \E f, w : Moves(n, p, far, <<q, x>>, m, f, w) /\ link' = With(k, f, w)
  <1>1. /\ far \in Nat \ {0} /\ p \in [0..far -> Node] /\ p[0] = n
        /\ \A i, j \in 0..far : p[i] = p[j] => i = j
    BY DEF Path
  <1>2. m.accept = "not" /\ m.dst = p[far] /\ m.ttl \in Nat /\ m.src = n
    BY DEF OnPath, Asks, Reports, Mine
  <1>3. PICK h \in 0..(far - 1) :
          /\ <<q, x>> = <<p[h], p[h + 1]>> /\ Pos(p, far, <<q, x>>, m) = h + 1
          /\ m.hops = h /\ h + 1 <= Turn(p, far, m)
    BY OnPathFacts
  <1>4. /\ q = p[h] /\ x = p[h + 1] /\ h + 1 \in 0..far /\ h \in 0..far /\ far \in 0..far
        /\ Turn(p, far, m) \in 1..far
    BY <1>1, <1>3, OnPathFacts
  <1>5. x = p[far] <=> h + 1 = far
    BY <1>1, <1>4
  <1>6. ASSUME NEW a \in BoundedMessage, Forward(x, a, k), a.type = "pong", a.dst = n, a.seq = m.seq,
               a.src = x, Turn(p, far, m) = h + 1, a.accept \in {"not", "ttlzero"},
               a.accept = "not" => h + 1 = far
        PROVE  \E f, w : Moves(n, p, far, <<q, x>>, m, f, w) /\ link' = With(k, f, w)
    <2> DEFINE w == OnWire(a)
               f == <<x, q>>
    <2>1. route[x][a.dst] = q
      BY <1>1, <1>4, <1>6 DEF Routed
    <2>2. link' = With(k, f, w)
      BY <1>6, <2>1, SendsTo DEF Forward
    <2>3. /\ w \in BoundedMessage /\ w.type = "pong" /\ w.accept = a.accept /\ w.src = x
          /\ w.dst = n /\ w.seq = m.seq
      BY <1>6, OnWireFields
    <2> HIDE DEF w
    <2>4. Reports(p, far, f, w)
      <3>1. h + 1 \in (h + 1)..far
        BY <1>1, <1>4
      <3> QED
        BY <1>4, <1>6, <2>3, <3>1 DEF Reports
    <2>5. OnPath(p, far, f, w) /\ Mine(n, w) /\ f \in Edges
      BY <2>3, <2>4 DEF OnPath, Mine, Edges
    <2>6. Turn(p, far, w) = h + 1 /\ Pos(p, far, f, w) = 2 * far - h
      <3>1. Index(p, far, p[h + 1]) = h + 1 /\ Index(p, far, p[h]) = h
        BY <1>4, IndexIs
      <3> QED
        BY <1>4, <2>3, <3>1 DEF Turn, Pos
    <2>7. ASSUME NEW e \in Edges, NEW b \in BoundedMessage, OnPath(p, far, e, b), Sooner(p, far, b, m),
                 Pos(p, far, e, b) > Pos(p, far, <<q, x>>, m)
          PROVE  Pos(p, far, e, b) >= Pos(p, far, f, w)
      <3>1. Turn(p, far, b) \in 1..far /\ Turn(p, far, b) <= h + 1
        BY <1>1, <1>4, <1>6, <2>7, OnPathFacts DEF Sooner
      <3>2. CASE b.type = "ping"
        <4>1. PICK i \in 0..(far - 1) : Pos(p, far, e, b) = i + 1 /\ i + 1 <= Turn(p, far, b)
          BY <2>7, <3>2, OnPathFacts
        <4> QED
          BY <1>3, <2>7, <3>1, <4>1
      <3>3. CASE b.type # "ping"
        <4>1. PICK i \in 0..(far - 1) : Pos(p, far, e, b) = 2 * far - i /\ i + 1 <= Turn(p, far, b)
          BY <2>7, <3>3, OnPathFacts
        <4> QED
          BY <1>1, <2>6, <3>1, <4>1
      <3> QED
        BY <3>2, <3>3
    <2>8. Pos(p, far, f, w) > Pos(p, far, <<q, x>>, m)
      BY <1>1, <1>3, <2>6
    <2> HIDE DEF f
    <2>9. Moves(n, p, far, <<q, x>>, m, f, w)
      BY <1>6, <2>3, <2>5, <2>6, <2>7, <2>8 DEF Moves
    <2> QED
      BY <2>2, <2>9
  <1>7. CASE PingArrives(x, m, k)
    <2> DEFINE a == [Reversed(m) EXCEPT !.type = "pong"]
    <2>1. m.dst = x /\ Forward(x, a, k)
      BY <1>7 DEF PingArrives
    <2>2. a \in BoundedMessage /\ a.type = "pong" /\ a.accept = "not" /\ a.src = x /\ a.dst = n /\ a.seq = m.seq
      BY <1>2, <2>1, PongFields
    <2>3. h + 1 = far
      BY <1>2, <1>5, <2>1
    <2>4. Turn(p, far, m) = h + 1
      BY <1>1, <1>3, <1>4, <2>3
    <2> HIDE DEF a
    <2> QED
      BY <1>6, <2>1, <2>2, <2>3, <2>4
  <1>8. CASE Expires(x, m, k)
    <2> DEFINE a == [Reversed(m) EXCEPT !.type = "pong", !.accept = "ttlzero", !.src = x]
    <2>1. m.dst # x /\ m.ttl = 0 /\ Forward(x, a, k)
      BY <1>8 DEF Expires
    <2>2. a \in BoundedMessage /\ a.type = "pong" /\ a.accept = "ttlzero" /\ a.src = x /\ a.dst = n /\ a.seq = m.seq
      BY <1>2, PongFields
    <2>3. h + 1 < far
      BY <1>1, <1>2, <1>4, <1>5, <2>1
    <2>4. m.ttl + m.hops < far /\ m.ttl + m.hops + 1 = h + 1
      BY <1>1, <1>3, <2>1, <2>3
    <2>5. Turn(p, far, m) = h + 1
      BY <2>4 DEF Turn
    <2> HIDE DEF a
    <2> QED
      BY <1>6, <2>1, <2>2, <2>5
  <1>9. CASE Transits(x, m, k)
    <2> DEFINE a == Passed(m)
               w == OnWire(a)
               f == <<x, p[h + 2]>>
    <2>1. m.dst # x /\ m.ttl # 0 /\ Forward(x, a, k)
      BY <1>2, <1>9 DEF Transits
    <2>2. h + 1 \in 0..(far - 1) /\ h + 2 \in 0..far /\ (h + 1) + 1 = h + 2
      BY <1>1, <1>2, <1>4, <1>5, <2>1
    <2>3. /\ a \in BoundedMessage /\ a.type = "ping" /\ a.accept = "not" /\ a.src = n /\ a.dst = p[far]
          /\ a.seq = m.seq /\ a.ttl = m.ttl - 1 /\ a.hops = h + 1
      BY <1>2, <1>3, <2>1, PassedBounded, PassedFields
    <2>4. route[x][a.dst] = p[h + 2]
      BY <1>4, <2>2, <2>3 DEF Routed
    <2> HIDE DEF a
    <2>5. link' = With(k, f, w)
      <3>1. Sends(x, p[h + 2], a, k)
        BY <2>1, <2>4 DEF Forward
      <3> QED
        BY <3>1, SendsTo
    <2>6. /\ w \in BoundedMessage /\ w.type = "ping" /\ w.accept = "not" /\ w.src = n /\ w.dst = p[far]
          /\ w.seq = m.seq /\ w.ttl = m.ttl - 1 /\ w.hops = h + 1
      BY <2>3, OnWireFields
    <2> HIDE DEF w
    <2>7. f \in Edges
      BY <1>1, <2>2 DEF Edges
    <2>8. Asks(p, far, f, w)
      <3>1. f = <<p[h + 1], p[(h + 1) + 1]>>
        BY <1>4, <2>2
      <3>2. w.ttl \in Nat
        BY <1>2, <2>1, <2>6
      <3> QED
        BY <2>2, <2>6, <3>1, <3>2 DEF Asks
    <2>9. OnPath(p, far, f, w) /\ Mine(n, w)
      BY <2>6, <2>8 DEF OnPath, Mine
    <2>10. Turn(p, far, w) = Turn(p, far, m)
      <3>1. w.ttl + w.hops = m.ttl + m.hops
        BY <1>2, <1>3, <2>6
      <3> QED
        BY <2>6, <3>1 DEF Turn
    <2>11. Pos(p, far, f, w) = h + 2
      <3>1. Index(p, far, p[h + 2]) = h + 2
        BY <2>2, IndexIs
      <3> QED
        BY <2>6, <3>1 DEF Pos
    <2>12. Pos(p, far, f, w) > Pos(p, far, <<q, x>>, m)
      BY <1>3, <2>11
    <2>13. ASSUME NEW e \in Edges, NEW b \in BoundedMessage, OnPath(p, far, e, b),
                  Pos(p, far, e, b) > Pos(p, far, <<q, x>>, m)
           PROVE  Pos(p, far, e, b) >= Pos(p, far, f, w)
      <3>1. Pos(p, far, e, b) \in 1..(2 * far)
        BY <2>13, OnPathFacts
      <3>2. Pos(p, far, e, b) \in Int
        BY <1>1, <3>1
      <3> QED
        BY <1>3, <2>11, <2>13, <3>2
    <2> HIDE DEF f
    <2>14. Moves(n, p, far, <<q, x>>, m, f, w)
      BY <2>6, <2>7, <2>9, <2>10, <2>12, <2>13 DEF Moves
    <2> QED
      BY <2>5, <2>14
  <1> QED
    BY <1>7, <1>8, <1>9

(***************************************************************************)
(* A pong of the command is read by a router of the path: it goes on, or   *)
(* is dropped, which only happens to the destination's.                    *)
(***************************************************************************)
LEMMA PongMoves ==
  ASSUME TypeOK, RoutersStayUp, RoutersStayUp', NEW n, NEW p, NEW far, Path(p, far, n), Routed(p, far),
         NEW q \in Node, NEW x \in Node, x # n, NEW m \in BoundedMessage, NEW k,
         Mine(n, m), m.type = "pong", OnPath(p, far, <<q, x>>, m),
         Transits(x, m, k) \/ Expires(x, m, k)
  PROVE  \/ \E f, w : Moves(n, p, far, <<q, x>>, m, f, w) /\ link' = With(k, f, w)
         \/ link' = k /\ Turn(p, far, m) = far
  <1>1. /\ far \in Nat \ {0} /\ p \in [0..far -> Node] /\ p[0] = n
        /\ \A i, j \in 0..far : p[i] = p[j] => i = j
    BY DEF Path
  <1>2. m.accept \in {"not", "ttlzero"} /\ m.dst = n
    BY DEF OnPath, Asks, Reports, Mine
  <1>3. PICK h \in 0..(far - 1) :
          /\ <<q, x>> = <<p[h + 1], p[h]>> /\ Pos(p, far, <<q, x>>, m) = 2 * far - h
          /\ h + 1 <= Turn(p, far, m) /\ m.src = p[Turn(p, far, m)]
          /\ m.accept = "not" => Turn(p, far, m) = far
    BY OnPathFacts
  <1>4. /\ q = p[h + 1] /\ x = p[h] /\ h \in 1..(far - 1) /\ h - 1 \in 0..(far - 1) /\ h - 1 \in 0..far
        /\ (h - 1) + 1 = h /\ Turn(p, far, m) \in 1..far
    BY <1>1, <1>3, OnPathFacts
  <1>5. CASE Expires(x, m, k)
    <2>1. link' = k /\ m.accept = "not"
      BY <1>2, <1>5 DEF Expires
    <2> QED
      BY <1>3, <2>1
  <1>6. CASE Transits(x, m, k)
    <2> DEFINE a == Passed(m)
               w == OnWire(a)
               f == <<x, p[h - 1]>>
    <2>1. Forward(x, a, k) /\ (m.ttl # 0 \/ m.accept = "ttlzero")
      BY <1>6 DEF Transits
    <2>2. /\ a \in BoundedMessage /\ a.type = "pong" /\ a.accept = m.accept /\ a.src = m.src /\ a.dst = n
          /\ a.seq = m.seq
      BY <1>2, <2>1, PassedBounded, PassedFields
    <2> HIDE DEF a
    <2>3. route[x][a.dst] = p[h - 1]
      BY <1>1, <1>4, <2>2 DEF Routed
    <2>4. link' = With(k, f, w)
      <3>1. Sends(x, p[h - 1], a, k)
        BY <2>1, <2>3 DEF Forward
      <3> QED
        BY <3>1, SendsTo
    <2>5. /\ w \in BoundedMessage /\ w.type = "pong" /\ w.accept = m.accept /\ w.src = m.src /\ w.dst = n
          /\ w.seq = m.seq
      BY <2>2, OnWireFields
    <2> HIDE DEF w
    <2>6. f \in Edges
      BY <1>1, <1>4 DEF Edges
    <2>7. Turn(p, far, w) = Turn(p, far, m)
      BY <2>5 DEF Turn
    <2>8. Reports(p, far, f, w)
      <3>1. f = <<p[(h - 1) + 1], p[h - 1]>>
        BY <1>4
      <3>2. Turn(p, far, m) \in ((h - 1) + 1)..far
        BY <1>3, <1>4
      <3>3. w.src = p[Turn(p, far, m)] /\ (w.accept = "not" => Turn(p, far, m) = far)
        BY <1>3, <2>5
      <3> QED
        BY <1>2, <1>4, <2>5, <3>1, <3>2, <3>3 DEF Reports
    <2>9. OnPath(p, far, f, w) /\ Mine(n, w)
      BY <2>5, <2>8 DEF OnPath, Mine
    <2>10. Pos(p, far, f, w) = 2 * far - h + 1
      <3>1. Index(p, far, p[h - 1]) = h - 1
        BY <1>4, IndexIs
      <3> QED
        BY <1>1, <1>4, <2>5, <3>1 DEF Pos
    <2>11. Pos(p, far, f, w) > Pos(p, far, <<q, x>>, m)
      BY <1>1, <1>3, <2>10
    <2>12. ASSUME NEW e \in Edges, NEW b \in BoundedMessage, OnPath(p, far, e, b),
                  Pos(p, far, e, b) > Pos(p, far, <<q, x>>, m)
           PROVE  Pos(p, far, e, b) >= Pos(p, far, f, w)
      <3>1. Pos(p, far, e, b) \in 1..(2 * far)
        BY <2>12, OnPathFacts
      <3>2. Pos(p, far, e, b) \in Int
        BY <1>1, <3>1
      <3> QED
        BY <1>1, <1>3, <2>10, <2>12, <3>2
    <2> HIDE DEF f
    <2>13. Moves(n, p, far, <<q, x>>, m, f, w)
      BY <2>5, <2>6, <2>7, <2>9, <2>11, <2>12 DEF Moves
    <2> QED
      BY <2>4, <2>13
  <1> QED
    BY <1>5, <1>6

------------------------------------------------------------------------------
(***************************************************************************)
(* What receiving does to the messages of n, and to what its commands know.*)
(***************************************************************************)
LEMMA ReceiveIs ==
  ASSUME Inv, NEW q, NEW x, Receive(q, x), NEW k, k = Without(link, <<q, x>>), <<q, x>> \in Edges
  PROVE  LET m == link[<<q, x>>][1]
         IN  /\ link \in Links /\ k \in Links /\ m \in BoundedMessage /\ link[<<q, x>>] # <<>>
             /\ \/ PacketArrives(x, m, k) \/ PacketAnswered(x, m, k) \/ PingArrives(x, m, k)
                \/ PongArrives(x, m, k) \/ Transits(x, m, k) \/ Expires(x, m, k)
  <1>1. link \in Links /\ link[<<q, x>>] # <<>>
    BY DEF Inv, Receive
  <1>2. Head(link[<<q, x>>]) = link[<<q, x>>][1]
    <2>1. link[<<q, x>>] \in Seq(BoundedMessage)
      BY <1>1 DEF Links, Edges
    <2> QED
      BY <1>1, <2>1
  <1>3. k \in Links /\ link[<<q, x>>][1] \in BoundedMessage
    BY <1>1, ReadPlaces
  <1> DEFINE m == link[<<q, x>>][1]
  <1>4. \/ PacketArrives(x, m, k) \/ PacketAnswered(x, m, k) \/ PingArrives(x, m, k)
        \/ PongArrives(x, m, k) \/ Transits(x, m, k) \/ Expires(x, m, k)
    BY <1>2 DEF Receive, Without
  <1> QED
    BY <1>1, <1>3, <1>4

(***************************************************************************)
(* The commands of n know nothing of what another router receives.         *)
(***************************************************************************)
SameCommand(n) ==
  /\ prompt'[n] = prompt[n] /\ shown'[n] = shown[n] /\ waiting'[n] = waiting[n]
  /\ routeDest'[n] = routeDest[n] /\ pingCount'[n] = pingCount[n]
  /\ issued'[n]["route"] = issued[n]["route"]

LEMMA ReceiveSame ==
  ASSUME Inv, NEW n \in Node, NEW q \in Node, NEW x \in Node, Receive(q, x),
         NEW m, NEW k,
         \/ PacketArrives(x, m, k) \/ PacketAnswered(x, m, k) \/ PingArrives(x, m, k)
         \/ (PongArrives(x, m, k) /\ x # n) \/ Transits(x, m, k) \/ Expires(x, m, k)
  PROVE  SameCommand(n)
  <1>1. UNCHANGED <<prompt, issued>>
    BY DEF Receive, commandVars
  <1>2. UNCHANGED <<routeDest>> /\ shown'[n] = shown[n] /\ waiting'[n] = waiting[n] /\ pingCount'[n] = pingCount[n]
    <2>1. CASE PongArrives(x, m, k) /\ x # n
      BY <2>1 DEF PongArrives, Inv, TypeOK
    <2>2. CASE PacketAnswered(x, m, k)
      BY <2>2 DEF PacketAnswered
    <2>3. CASE PacketArrives(x, m, k) \/ PingArrives(x, m, k) \/ Transits(x, m, k) \/ Expires(x, m, k)
      BY <2>3 DEF PacketArrives, PingArrives, Transits, Expires, replyVars
    <2> QED
      BY <2>1, <2>2, <2>3
  <1> QED
    BY <1>1, <1>2 DEF SameCommand

(***************************************************************************)
(* A message that is not of n leaves none behind.                          *)
(***************************************************************************)
LEMMA NotMine ==
  ASSUME Inv, RoutersStayUp, RoutersStayUp', NEW n \in Node, NEW x \in Node, NEW m \in BoundedMessage, ~Mine(n, m),
         NEW k,
         \/ PacketArrives(x, m, k) \/ PacketAnswered(x, m, k) \/ PingArrives(x, m, k)
         \/ PongArrives(x, m, k) \/ Transits(x, m, k) \/ Expires(x, m, k)
  PROVE  link' = k \/ \E f \in Edges, w \in BoundedMessage : ~Mine(n, w) /\ link' = With(k, f, w)
  <1>1. ASSUME NEW a \in BoundedMessage, ~Mine(n, a), Forward(x, a, k)
        PROVE  \E f \in Edges, w \in BoundedMessage : ~Mine(n, w) /\ link' = With(k, f, w)
    <2> DEFINE via == route[x][a.dst]
    <2>1. via \in Node /\ link' = With(k, <<x, via>>, OnWire(a))
      BY <1>1, SendsTo DEF Forward, Inv
    <2>2. OnWire(a) \in BoundedMessage /\ ~Mine(n, OnWire(a))
      BY <1>1, OnWireFields DEF Mine
    <2>3. <<x, via>> \in Edges
      BY <2>1 DEF Edges
    <2> QED
      BY <2>1, <2>2, <2>3
  <1>2. CASE PacketArrives(x, m, k)
    <2> DEFINE a == [Reversed(m) EXCEPT !.accept = "ok"]
    <2>1. m.type = "packet" /\ Forward(x, a, k) /\ a \in BoundedMessage
      BY <1>2, ReversedBounded DEF PacketArrives
    <2>2. a.type = "packet"
      BY <2>1 DEF Reversed, BoundedMessage, Message
    <2> HIDE DEF a
    <2> QED
      BY <1>1, <2>1, <2>2 DEF Mine
  <1>3. CASE PacketAnswered(x, m, k) \/ PongArrives(x, m, k)
    BY <1>3 DEF PacketAnswered, PongArrives
  <1>4. CASE PingArrives(x, m, k)
    <2> DEFINE a == [Reversed(m) EXCEPT !.type = "pong"]
    <2>1. m.type = "ping" /\ Forward(x, a, k) /\ a \in BoundedMessage /\ a.type = "pong" /\ a.dst = m.src
      BY <1>4, PongFields DEF PingArrives
    <2> HIDE DEF a
    <2> QED
      BY <1>1, <2>1 DEF Mine
  <1>5. CASE Transits(x, m, k)
    <2> DEFINE a == Passed(m)
    <2>1. Forward(x, a, k) /\ a \in BoundedMessage /\ a.type = m.type /\ a.src = m.src /\ a.dst = m.dst
      BY <1>5, PassedBounded, PassedFields DEF Transits
    <2> HIDE DEF a
    <2> QED
      BY <1>1, <2>1 DEF Mine
  <1>6. CASE Expires(x, m, k)
    <2>1. CASE m.type = "packet" /\ Forward(x, TooFar(m), k)
      <3>1. TooFar(m) \in BoundedMessage
        BY ReversedBounded DEF TooFar
      <3>2. TooFar(m).type = "packet"
        BY <2>1 DEF TooFar, Reversed, BoundedMessage, Message
      <3> QED
        BY <1>1, <2>1, <3>1, <3>2 DEF Mine
    <2>2. CASE m.type = "ping" /\ Forward(x, [Reversed(m) EXCEPT !.type = "pong", !.accept = "ttlzero", !.src = x], k)
      <3> DEFINE a == [Reversed(m) EXCEPT !.type = "pong", !.accept = "ttlzero", !.src = x]
      <3>1. Forward(x, a, k) /\ a \in BoundedMessage /\ a.type = "pong" /\ a.dst = m.src
        BY <2>2, PongFields
      <3> HIDE DEF a
      <3> QED
        BY <1>1, <2>2, <3>1 DEF Mine
    <2>3. CASE link' = k
      BY <2>3
    <2> QED
      BY <1>6, <2>1, <2>2, <2>3 DEF Expires
  <1> QED
    BY <1>2, <1>3, <1>4, <1>5, <1>6

------------------------------------------------------------------------------
(***************************************************************************)
(* The path of a route command, and what is known while it goes on.        *)
(* Count is how many pings the command has sent.  A displayed router is    *)
(* p[k] for some k, and k is its place on the display if nothing was lost; *)
(* then, too, every router still to be displayed has a message on its way  *)
(* (Complete).                                                             *)
(***************************************************************************)
Count(n) == IF prompt[n].op = "route" THEN prompt[n].next ELSE RouteProbes

Told(n) == IF waiting[n] THEN {shown[n][i] : i \in DOMAIN shown[n]} ELSE {}

DisplayedFrom(n, p, far, i, k) ==
  /\ shown[n][i] = p[k] /\ k <= Count(n)
  /\ waiting[n] => k < far
  /\ ~lost => k = i
  /\ \A j \in 1..(i - 1) : shown[n][j] \in UpTo(p, k - 1)

Displayed(n, p, far) == \A i \in DOMAIN shown[n] : \E k \in i..far : DisplayedFrom(n, p, far, i, k)

Complete(n, p, far) ==
  waiting[n] /\ ~lost =>
    \A i \in (Len(shown[n]) + 1)..Count(n) : i < far => Present(link, n, p, far, i)

Prompted(n, p, far) == prompt[n].op = "route" => prompt[n].dst = p[far] /\ prompt[n].via = p[1]

Trace(n, p, far) ==
  /\ Path(p, far, n) /\ Routed(p, far) /\ routeDest[n] = p[far]
  /\ AllKnown(link, n, p, far, seqnum[n], Count(n), Told(n)) /\ InOrder(link, n, p, far)
  /\ Displayed(n, p, far) /\ Complete(n, p, far) /\ Prompted(n, p, far)

NoneOf(l, n) == \A e \in Edges : \A i \in 1..Len(l[e]) : ~Mine(n, l[e][i])

Idle(n) == prompt[n].op = "none" /\ shown[n] = <<>> /\ ~waiting[n] /\ NoneOf(link, n)

Tracing(n) ==
  /\ pingCount[n] = 0 /\ prompt[n].op # "ping"
  /\ issued[n]["route"] = 0 => Idle(n)
  /\ Idle(n) \/ \E p, far : Trace(n, p, far)

(***************************************************************************)
(* A step that leaves the command alone and its messages in their order    *)
(* keeps both.                                                             *)
(***************************************************************************)
LEMMA KnownLater ==
  ASSUME NEW l, NEW n, NEW p, NEW far, NEW s \in Nat, NEW t \in Nat, s <= t, NEW c, NEW S,
         l \in Links, AllKnown(l, n, p, far, s, c, S)
  PROVE  AllKnown(l, n, p, far, t, c, S)
  <1> SUFFICES ASSUME NEW e \in Edges, NEW i \in 1..Len(l[e]), Mine(n, l[e][i])
               PROVE  Known(p, far, t, c, S, e, l[e][i])
    BY DEF AllKnown
  <1>1. Known(p, far, s, c, S, e, l[e][i])
    BY DEF AllKnown
  <1>2. l[e][i] \in BoundedMessage
    BY DEF Links, Edges
  <1>3. l[e][i].seq \in Nat
    BY <1>2, MessageFields
  <1> QED
    BY <1>1, <1>3 DEF Known

LEMMA TraceKept ==
  ASSUME NEW n \in Node, NEW p, NEW far, Trace(n, p, far), SameCommand(n), UNCHANGED route,
         lost => lost', AllKnown(link', n, p, far, seqnum'[n], Count(n), Told(n)),
         InOrder(link', n, p, far), Complete(n, p, far)'
  PROVE  Trace(n, p, far)'
  <1>1. Count(n)' = Count(n) /\ Told(n)' = Told(n) /\ UNCHANGED <<shown[n], waiting[n]>>
    BY DEF SameCommand, Count, Told
  <1>2. Displayed(n, p, far)'
    BY <1>1 DEF Trace, Displayed, DisplayedFrom
  <1>3. AllKnown(link, n, p, far, seqnum[n], Count(n), Told(n))' /\ InOrder(link, n, p, far)'
    BY <1>1
  <1> QED
    BY <1>2, <1>3 DEF Trace, SameCommand, Prompted, Routed

LEMMA CompleteKept ==
  ASSUME NEW n \in Node, NEW p, NEW far, Complete(n, p, far), SameCommand(n), lost => lost',
         ~lost' => \A x \in Nat : x < far => (Present(link, n, p, far, x) => Present(link', n, p, far, x))
  PROVE  Complete(n, p, far)'
  <1>1. Count(n)' = Count(n) /\ UNCHANGED <<shown[n], waiting[n]>>
    BY DEF SameCommand, Count
  <1> SUFFICES ASSUME waiting[n], ~lost', NEW i \in (Len(shown[n]) + 1)..Count(n), i < far
               PROVE  Present(link', n, p, far, i)
    BY <1>1 DEF Complete
  <1> QED
    BY DEF Complete

LEMMA ReadNone ==
  ASSUME NEW n, NEW l \in Links, NoneOf(l, n), NEW r \in Edges, l[r] # <<>>, NEW k, k = Without(l, r)
  PROVE  NoneOf(k, n)
  <1>1. ReadAs(l, r, k)
    BY ReadPlaces
  <1> QED
    BY <1>1 DEF NoneOf, ReadAs

(***************************************************************************)
(* A step that reads or writes a message that is not of n.                 *)
(***************************************************************************)
LEMMA OtherKeeps ==
  ASSUME Inv, NEW n \in Node, Tracing(n), SameCommand(n), UNCHANGED route, lost' = lost,
         seqnum'[n] \in Nat, seqnum[n] <= seqnum'[n], NEW k \in Links,
         k = link \/ \E r \in Edges : link[r] # <<>> /\ k = Without(link, r) /\ ~Mine(n, link[r][1]),
         link' = k \/ \E f \in Edges, w \in BoundedMessage : ~Mine(n, w) /\ link' = With(k, f, w)
  PROVE  Tracing(n)'
  <1>1. link \in Links /\ seqnum[n] \in Nat
    BY DEF Inv, TypeOK
  <1>2. ASSUME NEW p, NEW far, Trace(n, p, far) PROVE Trace(n, p, far)'
    <2> DEFINE Same(l) == /\ AllKnown(l, n, p, far, seqnum'[n], Count(n), Told(n)) /\ InOrder(l, n, p, far)
                          /\ \A x : Present(link, n, p, far, x) => Present(l, n, p, far, x)
    <2>1. Same(link)
      BY <1>1, <1>2, KnownLater DEF Trace
    <2>2. Same(k)
      <3>1. CASE k = link
        BY <2>1, <3>1
      <3>2. ASSUME NEW r \in Edges, link[r] # <<>>, k = Without(link, r), ~Mine(n, link[r][1])
            PROVE  Same(k)
        <4>1. Path(p, far, n)
          BY <1>2 DEF Trace
        <4>2. AllKnown(k, n, p, far, seqnum'[n], Count(n), Told(n))
          BY <1>1, <2>1, <3>2, ReadKnown
        <4>3. InOrder(k, n, p, far)
          BY <1>1, <2>1, <3>2, <4>1, ReadInOrder
        <4>4. ASSUME NEW x, Present(link, n, p, far, x) PROVE Present(k, n, p, far, x)
          BY <1>1, <3>2, <4>4, ReadPresent
        <4> QED
          BY <4>2, <4>3, <4>4
      <3> QED
        BY <3>1, <3>2
    <2>3. Same(link')
      <3>1. CASE link' = k
        BY <2>2, <3>1
      <3>2. ASSUME NEW f \in Edges, NEW w \in BoundedMessage, ~Mine(n, w), link' = With(k, f, w)
            PROVE  Same(link')
        <4>1. AllKnown(link', n, p, far, seqnum'[n], Count(n), Told(n)) /\ InOrder(link', n, p, far)
          BY <2>2, <3>2, PutOther
        <4>2. \A x : Present(k, n, p, far, x) => Present(link', n, p, far, x)
          BY <3>2, PutPresent
        <4> QED
          BY <2>2, <4>1, <4>2
      <3> QED
        BY <3>1, <3>2
    <2>4. Complete(n, p, far)'
      BY <1>2, <2>3, CompleteKept DEF Trace
    <2> QED
      BY <1>2, <2>3, <2>4, TraceKept
  <1>3. ASSUME Idle(n) PROVE Idle(n)'
    <2>1. NoneOf(k, n)
      <3>1. CASE k = link
        BY <1>3, <3>1 DEF Idle
      <3>2. ASSUME NEW r \in Edges, link[r] # <<>>, k = Without(link, r) PROVE NoneOf(k, n)
        BY <1>1, <1>3, <3>2, ReadNone DEF Idle
      <3> QED
        BY <3>1, <3>2
    <2>2. NoneOf(link', n)
      <3>1. CASE link' = k
        BY <2>1, <3>1
      <3>2. ASSUME NEW f \in Edges, NEW w \in BoundedMessage, ~Mine(n, w), link' = With(k, f, w)
            PROVE  NoneOf(link', n)
        <4>1. \A e \in Edges : \A i \in 1..Len(link'[e]) :
                \/ i \in 1..Len(k[e]) /\ link'[e][i] = k[e][i]
                \/ link'[e][i] = w
          BY <3>2, PutPlaces
        <4> QED
          BY <2>1, <3>2, <4>1 DEF NoneOf
      <3> QED
        BY <3>1, <3>2
    <2> QED
      BY <1>3, <2>2 DEF Idle, SameCommand
  <1> QED
    BY <1>2, <1>3 DEF Tracing, SameCommand

(***************************************************************************)
(* A message that is lost: none of the others changes its place.           *)
(***************************************************************************)
LEMMA LossKeeps ==
  ASSUME Inv, NEW n \in Node, Tracing(n), NEW q \in Node, NEW x \in Node, Coalesced(q, x)
  PROVE  Tracing(n)'
  <1> DEFINE r == <<q, x>>
  <1>1. /\ link \in Links /\ r \in Edges /\ link[r] # <<>> /\ link' = Without(link, r) /\ lost'
        /\ UNCHANGED <<route, seqnum>> /\ SameCommand(n)
    BY DEF Coalesced, Inv, Edges, Without, SameCommand, commandVars, replyVars
  <1> HIDE DEF r
  <1>2. ASSUME NEW p, NEW far, Trace(n, p, far) PROVE Trace(n, p, far)'
    <2>1. AllKnown(link', n, p, far, seqnum[n], Count(n), Told(n)) /\ InOrder(link', n, p, far)
      BY <1>1, <1>2, ReadKnown, ReadInOrder DEF Trace
    <2>2. Complete(n, p, far)'
      BY <1>1 DEF Complete
    <2> QED
      BY <1>1, <1>2, <2>1, <2>2, TraceKept
  <1>3. ASSUME Idle(n) PROVE Idle(n)'
    BY <1>1, <1>3, ReadNone DEF Idle, SameCommand
  <1> QED
    BY <1>1, <1>2, <1>3 DEF Tracing, SameCommand

(***************************************************************************)
(* A router receives a message of the command that goes on.                *)
(***************************************************************************)
LEMMA MineGoesOn ==
  ASSUME Inv, RoutersStayUp, RoutersStayUp', NEW n \in Node, Tracing(n),
         NEW q \in Node, NEW x \in Node, Receive(q, x), Mine(n, link[<<q, x>>][1]),
         x # n \/ link[<<q, x>>][1].type = "ping"
  PROVE  Tracing(n)'
  <1> DEFINE r == <<q, x>>
             m == link[r][1]
             k == Without(link, r)
  <1>1. /\ link \in Links /\ k \in Links /\ m \in BoundedMessage /\ link[r] # <<>> /\ r \in Edges
        /\ \/ PacketArrives(x, m, k) \/ PacketAnswered(x, m, k) \/ PingArrives(x, m, k)
           \/ PongArrives(x, m, k) \/ Transits(x, m, k) \/ Expires(x, m, k)
    BY ReceiveIs DEF Edges
  <1>2. UNCHANGED <<route, seqnum, lost>>
    BY DEF Receive, commandVars
  <1>3. TypeOK /\ Mine(n, m) /\ (x # n \/ m.type = "ping") /\ 1 \in 1..Len(link[r])
    BY <1>1, ReadPlaces DEF Inv
  <1> HIDE DEF m, k
  <1>4. /\ m.type \in {"ping", "pong"} /\ (m.type = "pong" => m.dst = n)
        /\ ~PacketArrives(x, m, k) /\ ~PacketAnswered(x, m, k) /\ ~PongArrives(x, m, k)
        /\ m.type = "pong" => ~PingArrives(x, m, k)
    BY <1>3 DEF Mine, PacketArrives, PacketAnswered, PongArrives, PingArrives
  <1>5. SameCommand(n)
    BY <1>1, <1>4, ReceiveSame
  <1>6. ~Idle(n)
    BY <1>1, <1>3 DEF Idle, NoneOf, m
  <1>7. PICK p, far : Trace(n, p, far)
    BY <1>6 DEF Tracing
  <1>8. /\ Path(p, far, n) /\ Routed(p, far) /\ InOrder(link, n, p, far)
        /\ AllKnown(link, n, p, far, seqnum[n], Count(n), Told(n))
    BY <1>7 DEF Trace
  <1>9. OnPath(p, far, r, m)
    BY <1>1, <1>3, <1>8, ReadKnown DEF Known, m
  <1>10. \/ \E f, w : Moves(n, p, far, r, m, f, w) /\ link' = With(k, f, w)
         \/ link' = k /\ Turn(p, far, m) = far
    <2>1. CASE m.type = "ping"
      BY <1>1, <1>3, <1>4, <1>8, <1>9, <2>1, PingMoves
    <2>2. CASE m.type = "pong"
      BY <1>1, <1>3, <1>4, <1>8, <1>9, <2>2, PongMoves
    <2> QED
      BY <1>4, <2>1, <2>2
  <1>11. /\ AllKnown(link', n, p, far, seqnum[n], Count(n), Told(n)) /\ InOrder(link', n, p, far)
         /\ \A x1 : x1 # far => (Present(link, n, p, far, x1) => Present(link', n, p, far, x1))
    <2>1. ASSUME NEW f, NEW w, Moves(n, p, far, r, m, f, w), link' = With(k, f, w)
          PROVE  /\ AllKnown(link', n, p, far, seqnum[n], Count(n), Told(n)) /\ InOrder(link', n, p, far)
                 /\ \A x1 : Present(link, n, p, far, x1) => Present(link', n, p, far, x1)
      BY <1>1, <1>3, <1>8, <2>1, MovesKeep DEF m, k
    <2>2. CASE link' = k /\ Turn(p, far, m) = far
      <3>1. AllKnown(k, n, p, far, seqnum[n], Count(n), Told(n)) /\ InOrder(k, n, p, far)
        BY <1>1, <1>8, ReadKnown, ReadInOrder DEF k
      <3>2. ASSUME NEW x1, x1 # far, Present(link, n, p, far, x1) PROVE Present(k, n, p, far, x1)
        BY <1>1, <2>2, <3>2, ReadPresent DEF k, m
      <3> QED
        BY <2>2, <3>1, <3>2
    <2> QED
      BY <1>10, <2>1, <2>2
  <1>12. Complete(n, p, far)'
    <2>1. far \in Nat
      BY <1>8 DEF Path
    <2>2. \A x1 \in Nat : x1 < far => (Present(link, n, p, far, x1) => Present(link', n, p, far, x1))
      BY <1>11, <2>1
    <2> QED
      BY <1>2, <1>5, <1>7, <2>2, CompleteKept DEF Trace
  <1>13. Trace(n, p, far)'
    BY <1>2, <1>5, <1>7, <1>11, <1>12, TraceKept
  <1> QED
    BY <1>5, <1>6, <1>13 DEF Tracing, SameCommand

(***************************************************************************)
(* A pong of the command is back: every message that was sent before is    *)
(* read or lost, so that the router it comes from is after those that were *)
(* displayed, and the next one if none was lost.                           *)
(***************************************************************************)
LEMMA BackInOrder ==
  ASSUME Inv, NEW n \in Node, NEW p, NEW far, Trace(n, p, far), NEW r \in Edges, link[r] # <<>>,
         Mine(n, link[r][1]), link[r][1].type = "pong", r[2] = n, waiting[n]
  PROVE  LET t == Turn(p, far, link[r][1])  L == Len(shown[n])
         IN  /\ L \in Nat /\ t \in 1..far /\ t <= Count(n) /\ link[r][1].src = p[t]
             /\ \A j \in 1..L : shown[n][j] \in UpTo(p, t - 1)
             /\ L + 1 <= t /\ (~lost => L + 1 = t)
             /\ LET k == Without(link, r)
                IN  \A e \in Edges : \A i \in 1..Len(k[e]) : Mine(n, k[e][i]) =>
                      Sooner(p, far, link[r][1], k[e][i])
  <1> DEFINE m == link[r][1]
             t == Turn(p, far, m)
             L == Len(shown[n])
             k == Without(link, r)
             s == seqnum[n]
             c == Count(n)
             S == Told(n)
  <1>1. /\ Path(p, far, n) /\ AllKnown(link, n, p, far, s, c, S) /\ InOrder(link, n, p, far)
        /\ Displayed(n, p, far) /\ Complete(n, p, far) /\ link \in Links
    BY DEF Trace, Inv
  <1>2. /\ far \in Nat \ {0} /\ p \in [0..far -> Node] /\ p[0] = n
        /\ \A i, j \in 0..far : p[i] = p[j] => i = j
    BY <1>1 DEF Path
  <1>3. m \in BoundedMessage /\ k \in Links
    BY <1>1, ReadPlaces
  <1>4. Known(p, far, s, c, S, r, m)
    BY <1>1, ReadKnown
  <1>5. OnPath(p, far, r, m) /\ t <= c /\ S \subseteq UpTo(p, t - 1) /\ m.type # "ping"
    BY <1>4 DEF Known
  <1>6. t \in 1..far /\ m.src = p[t] /\ Pos(p, far, r, m) = 2 * far
    <2> HIDE DEF m, t
    <2>1. PICK h \in 0..(far - 1) : r = <<p[h + 1], p[h]>> /\ Pos(p, far, r, m) = 2 * far - h /\ m.src = p[t]
      BY <1>1, <1>3, <1>5, OnPathFacts DEF t
    <2>2. h \in 0..far /\ 0 \in 0..far /\ p[h] = p[0]
      BY <1>2, <2>1
    <2>3. h = 0
      BY <1>2, <2>2
    <2>4. t \in 1..far
      BY <1>1, <1>3, <1>5, OnPathFacts DEF t
    <2> QED
      BY <1>2, <2>1, <2>3, <2>4
  <1>7. shown[n] \in Seq(Node) /\ L \in Nat /\ DOMAIN shown[n] = 1..L
    BY DEF Inv, TypeOK
  <1>8. \A j \in 1..L : shown[n][j] \in UpTo(p, t - 1)
    BY <1>5, <1>7 DEF Told
  <1> DEFINE Others(l) == \A e \in Edges : \A i \in 1..Len(l[e]) : Mine(n, l[e][i]) => Sooner(p, far, m, l[e][i])
  <1>9. Others(k)
    <2> SUFFICES ASSUME NEW e \in Edges, NEW i \in 1..Len(k[e]), Mine(n, k[e][i])
                 PROVE  Sooner(p, far, m, k[e][i])
      OBVIOUS
    <2> DEFINE w == k[e][i]
    <2>1. /\ w.seq # m.seq
          /\ w.seq < m.seq => Pos(p, far, e, w) > Pos(p, far, r, m)
          /\ m.seq < w.seq => Sooner(p, far, m, w)
      BY <1>1, ReadInOrder
    <2>2. w \in BoundedMessage
      BY <1>3 DEF Links, Edges
    <2>3. OnPath(p, far, e, w)
      <3>1. AllKnown(k, n, p, far, s, c, S)
        BY <1>1, ReadKnown
      <3> QED
        BY <3>1 DEF AllKnown, Known
    <2> HIDE DEF w, m, k
    <2>4. Pos(p, far, e, w) \in 1..(2 * far)
      BY <1>1, <2>2, <2>3, OnPathFacts
    <2>5. ~(w.seq < m.seq)
      BY <1>2, <1>6, <2>1, <2>4
    <2>6. w.seq \in Nat /\ m.seq \in Nat
      BY <1>3, <2>2, MessageFields
    <2>7. Sooner(p, far, m, w)
      BY <2>1, <2>5, <2>6
    <2> QED
      BY <2>7 DEF w
  <1>10. L + 1 <= t
    <2>1. CASE L = 0
      BY <1>2, <1>6, <2>1
    <2>2. CASE L # 0
      <3>1. L \in 1..L
        BY <1>7, <2>2
      <3>2. PICK x \in L..far : shown[n][L] = p[x]
        BY <1>1, <1>7, <3>1 DEF Displayed, DisplayedFrom
      <3>3. PICK h \in 1..(t - 1) : shown[n][L] = p[h]
        BY <1>8, <3>1 DEF UpTo
      <3>4. x \in 0..far /\ h \in 0..far
        BY <1>2, <1>6, <1>7, <3>2, <3>3
      <3>5. x = h
        BY <1>2, <3>2, <3>3, <3>4
      <3> QED
        BY <1>2, <1>6, <1>7, <3>2, <3>3, <3>5
    <2> QED
      BY <2>1, <2>2
  <1>11. ~lost => L + 1 = t
    <2> SUFFICES ASSUME ~lost, L + 1 # t PROVE FALSE
      OBVIOUS
    <2>1. L + 1 < t /\ L + 1 < far /\ t \in Int
      BY <1>2, <1>6, <1>7, <1>10
    <2>2. c \in Nat
      BY ForwardingAssumption DEF Count, Inv, TypeOK
    <2>3. L + 1 \in (L + 1)..c
      BY <1>5, <1>7, <2>1, <2>2
    <2>4. Present(link, n, p, far, L + 1)
      BY <1>1, <2>1, <2>3 DEF Complete
    <2>5. Present(k, n, p, far, L + 1)
      BY <1>1, <2>1, <2>4, ReadPresent
    <2>6. PICK e \in Edges : \E i \in 1..Len(k[e]) : Mine(n, k[e][i]) /\ Turn(p, far, k[e][i]) = L + 1
      BY <2>5 DEF Present
    <2>7. PICK i \in 1..Len(k[e]) : Mine(n, k[e][i]) /\ Turn(p, far, k[e][i]) = L + 1
      BY <2>6
    <2>8. Sooner(p, far, m, k[e][i])
      BY <1>9, <2>7
    <2> HIDE DEF m, k
    <2> QED
      BY <1>6, <1>7, <2>1, <2>7, <2>8 DEF Sooner, t
  <1> HIDE DEF m, t, L, k
  <1> QED
    BY <1>5, <1>6, <1>7, <1>8, <1>9, <1>10, <1>11 DEF m, t, L, k

(***************************************************************************)
(* n receives it: the route command displays its source.                   *)
(***************************************************************************)
LEMMA PongDisplayed ==
  ASSUME Inv, NEW n \in Node, Tracing(n), NEW q \in Node, Receive(q, n),
         Mine(n, link[<<q, n>>][1]), link[<<q, n>>][1].type = "pong"
  PROVE  Tracing(n)'
  <1> DEFINE r == <<q, n>>
             m == link[r][1]
             k == Without(link, r)
             L == Len(shown[n])
  <1>1. /\ link \in Links /\ k \in Links /\ m \in BoundedMessage /\ link[r] # <<>> /\ r \in Edges
        /\ \/ PacketArrives(n, m, k) \/ PacketAnswered(n, m, k) \/ PingArrives(n, m, k)
           \/ PongArrives(n, m, k) \/ Transits(n, m, k) \/ Expires(n, m, k)
    BY ReceiveIs DEF Edges
  <1>2. UNCHANGED <<route, seqnum, lost, prompt, issued>>
    BY DEF Receive, commandVars
  <1>3. Mine(n, m) /\ m.type = "pong" /\ 1 \in 1..Len(link[r]) /\ r[2] = n
    BY <1>1, ReadPlaces
  <1>4. PongArrives(n, m, k)
    <2> HIDE DEF m, k
    <2> QED
      BY <1>1, <1>3 DEF Mine, PacketArrives, PacketAnswered, PingArrives, Transits, Expires
  <1>5. /\ link' = k /\ UNCHANGED <<routeDest, pingCount>>
        /\ shown' = IF waiting[n] THEN [shown EXCEPT ![n] = Append(@, m.src)] ELSE shown
        /\ waiting' = [waiting EXCEPT ![n] = waiting[n] /\ m.src # routeDest[n]]
    <2>1. ~ExpectsPong(n)
      BY DEF Tracing, ExpectsPong
    <2> QED
      BY <1>4, <2>1 DEF PongArrives, StillWaiting
  <1>0. ~Idle(n)
    BY <1>1, <1>3 DEF Idle, NoneOf
  <1>6. PICK p, far : Trace(n, p, far)
    BY <1>0 DEF Tracing
  <1>7. /\ Path(p, far, n) /\ Routed(p, far) /\ InOrder(link, n, p, far) /\ routeDest[n] = p[far]
        /\ AllKnown(link, n, p, far, seqnum[n], Count(n), Told(n))
        /\ Displayed(n, p, far) /\ Complete(n, p, far) /\ Prompted(n, p, far)
    BY <1>6 DEF Trace
  <1>8. AllKnown(k, n, p, far, seqnum[n], Count(n), Told(n)) /\ InOrder(k, n, p, far)
    BY <1>1, <1>7, ReadKnown, ReadInOrder
  <1>9. waiting'[n] = (waiting[n] /\ m.src # routeDest[n]) /\ shown[n] \in Seq(Node) /\ m.src \in Node
    <2>1. m.src \in Node
      BY <1>1, MessageFields
    <2> QED
      BY <1>5, <2>1 DEF Inv, TypeOK
  <1>10. Count(n)' = Count(n)
    BY <1>2 DEF Count
  <1>11. CASE ~waiting[n]
    <2>1. SameCommand(n)
      <3>1. ~waiting'[n] /\ waiting'[n] \in BOOLEAN /\ waiting[n] \in BOOLEAN
        BY <1>5, <1>9, <1>11 DEF Inv, TypeOK
      <3>2. waiting'[n] = waiting[n] /\ shown' = shown
        BY <1>5, <1>11, <3>1
      <3> QED
        BY <1>2, <1>5, <3>2 DEF SameCommand
    <2>2. Complete(n, p, far)'
      BY <1>9, <1>11 DEF Complete
    <2>3. Trace(n, p, far)'
      BY <1>2, <1>5, <1>6, <1>8, <2>1, <2>2, TraceKept
    <2> QED
      BY <1>0, <1>2, <1>5, <2>3 DEF Tracing
  <1>12. CASE waiting[n]
    <2>0. PICK t : t = Turn(p, far, m)
      OBVIOUS
    <2>1. /\ L \in Nat /\ t \in 1..far /\ t <= Count(n) /\ m.src = p[t]
          /\ \A j \in 1..L : shown[n][j] \in UpTo(p, t - 1)
          /\ L + 1 <= t /\ (~lost => L + 1 = t)
          /\ \A e \in Edges : \A i \in 1..Len(k[e]) : Mine(n, k[e][i]) => Sooner(p, far, m, k[e][i])
      BY <1>1, <1>3, <1>6, <1>12, <2>0, BackInOrder
    <2> HIDE DEF m, k
    <2>2. /\ shown'[n] = Append(shown[n], p[t]) /\ Len(shown'[n]) = L + 1 /\ shown'[n][L + 1] = p[t]
          /\ \A i \in 1..L : shown'[n][i] = shown[n][i]
          /\ DOMAIN shown'[n] = 1..(L + 1)
      <3>1. shown'[n] = Append(shown[n], p[t])
        BY <1>5, <1>12, <2>1 DEF Inv, TypeOK
      <3> QED
        BY <1>9, <2>1, <3>1
    <2>3. far \in Nat \ {0} /\ \A i, j \in 0..far : p[i] = p[j] => i = j
      BY <1>7 DEF Path
    <2>4. waiting'[n] <=> t # far
      <3>1. p[t] = p[far] <=> t = far
        BY <2>1, <2>3
      <3> QED
        BY <1>7, <1>9, <1>12, <2>1, <3>1
    <2>5. Displayed(n, p, far)'
      <3> SUFFICES ASSUME NEW i \in 1..(L + 1) PROVE \E x \in i..far : DisplayedFrom(n, p, far, i, x)'
        BY <2>2 DEF Displayed
      <3>1. CASE i \in 1..L
        <4>1. i \in DOMAIN shown[n]
          BY <1>9, <3>1
        <4>2. PICK x \in i..far : DisplayedFrom(n, p, far, i, x)
          BY <1>7, <4>1 DEF Displayed
        <4>3. \A j \in 1..(i - 1) : shown'[n][j] = shown[n][j]
          BY <2>1, <2>2, <3>1
        <4>4. DisplayedFrom(n, p, far, i, x)'
          BY <1>2, <1>10, <1>12, <2>2, <3>1, <4>2, <4>3 DEF DisplayedFrom
        <4> QED
          BY <4>4
      <3>2. CASE i = L + 1
        <4>1. t \in i..far
          BY <2>1, <2>3, <3>2
        <4>2. shown'[n][i] = p[t] /\ t <= Count(n)' /\ (waiting'[n] => t < far) /\ (~lost' => t = i)
          BY <1>2, <1>10, <2>1, <2>2, <2>3, <2>4, <3>2
        <4>3. \A j \in 1..(i - 1) : shown'[n][j] \in UpTo(p, t - 1)
          BY <2>1, <2>2, <3>2
        <4>4. DisplayedFrom(n, p, far, i, t)'
          BY <4>2, <4>3 DEF DisplayedFrom
        <4> QED
          BY <4>1, <4>4
      <3> QED
        BY <2>1, <3>1, <3>2
    <2>6. AllKnown(k, n, p, far, seqnum[n], Count(n), Told(n)')
      <3> SUFFICES ASSUME NEW e \in Edges, NEW i \in 1..Len(k[e]), Mine(n, k[e][i])
                   PROVE  Known(p, far, seqnum[n], Count(n), Told(n)', e, k[e][i])
        BY DEF AllKnown
      <3> DEFINE w == k[e][i]
      <3>1. Known(p, far, seqnum[n], Count(n), Told(n), e, w) /\ Sooner(p, far, m, w)
        BY <1>8, <2>1 DEF AllKnown
      <3>2. w \in BoundedMessage
        BY <1>1 DEF Links, Edges
      <3> HIDE DEF w
      <3>3. Told(n)' \subseteq UpTo(p, Turn(p, far, w) - 1)
        <4>1. CASE ~waiting'[n]
          BY <4>1 DEF Told
        <4>2. CASE waiting'[n]
          <5>1. Turn(p, far, w) \in 1..far
            BY <1>7, <3>1, <3>2, OnPathFacts DEF Known
          <5>2. t < Turn(p, far, w)
            BY <2>0, <2>4, <3>1, <4>2 DEF Sooner
          <5>3. p[t] \in UpTo(p, Turn(p, far, w) - 1)
            <6>1. t \in 1..(Turn(p, far, w) - 1)
              BY <2>1, <2>3, <5>1, <5>2
            <6> QED
              BY <6>1 DEF UpTo
          <5>4. Told(n)' \subseteq Told(n) \cup {p[t]}
            <6>1. Told(n)' = {shown'[n][j] : j \in 1..(L + 1)} /\ Told(n) = {shown[n][j] : j \in 1..L}
              BY <1>9, <1>12, <2>2, <4>2 DEF Told
            <6>2. \A j \in 1..(L + 1) : j \in 1..L \/ j = L + 1
              BY <2>1
            <6> QED
              BY <2>2, <6>1, <6>2
          <5> QED
            BY <3>1, <5>3, <5>4 DEF Known
        <4> QED
          BY <4>1, <4>2
      <3> QED
        BY <3>1, <3>3 DEF Known, w
    <2>7. Complete(n, p, far)'
      <3> SUFFICES ASSUME ~lost', NEW i \in (Len(shown'[n]) + 1)..Count(n), i < far
                   PROVE  Present(link', n, p, far, i)
        BY <1>10 DEF Complete
      <3>1. Count(n) \in Nat
        BY ForwardingAssumption DEF Count, Inv, TypeOK
      <3>2. i \in (L + 1)..Count(n) /\ i # t
        BY <1>2, <2>1, <2>2, <3>1
      <3>3. Present(link, n, p, far, i)
        BY <1>2, <1>7, <1>12, <3>2 DEF Complete
      <3>4. Present(k, n, p, far, i)
        BY <1>1, <2>0, <3>2, <3>3, ReadPresent DEF k, m
      <3> QED
        BY <1>5, <3>4
    <2>8. Trace(n, p, far)'
      <3>1. AllKnown(link, n, p, far, seqnum[n], Count(n), Told(n))' /\ InOrder(link, n, p, far)'
        BY <1>2, <1>5, <1>8, <1>10, <2>6
      <3>2. Path(p, far, n) /\ Routed(p, far)' /\ routeDest'[n] = p[far] /\ Prompted(n, p, far)'
        BY <1>2, <1>5, <1>7 DEF Routed, Prompted
      <3> QED
        BY <2>5, <2>7, <3>1, <3>2 DEF Trace
    <2> QED
      BY <1>0, <1>2, <1>5, <2>8 DEF Tracing
  <1> QED
    BY <1>11, <1>12

------------------------------------------------------------------------------
(***************************************************************************)
(* The commands of the prompt: the next ping of the route command.         *)
(***************************************************************************)
LEMMA KnownMore ==
  ASSUME NEW l, NEW n, NEW p, NEW far, Path(p, far, n), NEW s, NEW c \in Nat, NEW b \in Nat, c <= b, NEW S,
         l \in Links, AllKnown(l, n, p, far, s, c, S)
  PROVE  AllKnown(l, n, p, far, s, b, S)
  <1> SUFFICES ASSUME NEW e \in Edges, NEW i \in 1..Len(l[e]), Mine(n, l[e][i])
               PROVE  Known(p, far, s, b, S, e, l[e][i])
    BY DEF AllKnown
  <1>1. Known(p, far, s, c, S, e, l[e][i])
    BY DEF AllKnown
  <1>2. l[e][i] \in BoundedMessage
    BY DEF Links, Edges
  <1>3. far \in Nat
    BY DEF Path
  <1>4. Turn(p, far, l[e][i]) \in 1..far
    BY <1>1, <1>2, OnPathFacts DEF Known
  <1> QED
    BY <1>1, <1>3, <1>4 DEF Known

LEMMA PingSent ==
  ASSUME Inv, RoutersStayUp, RoutersStayUp', NEW n \in Node, Tracing(n), SendPing(n)
  PROVE  Tracing(n)'
  <1> DEFINE z == prompt[n]
             seq == seqnum[n] + 1
             ttl == IF z.op = "route" THEN z.next ELSE DefaultTTL
             a == [type |-> "ping", accept |-> "not", src |-> n, dst |-> z.dst, ttl |-> ttl,
                   seq |-> seq, given |-> ttl, hops |-> 0]
             w == OnWire(a)
             y == IF z.next + 1 = IF z.op = "route" THEN RouteProbes ELSE PingPackets
                  THEN NoPrompt ELSE [z EXCEPT !.next = @ + 1]
             c == z.next
  <1>1. /\ z.op # "none" /\ prompt' = [prompt EXCEPT ![n] = y] /\ Sends(n, z.via, a, link)
        /\ seqnum' = [seqnum EXCEPT ![n] = seq]
        /\ UNCHANGED <<route, issued, pingCount, waiting, routeDest, shown, lost>>
    BY DEF SendPing, replyVars
  <1>2. /\ z \in [op : {"none", "ping", "route"}, dst : Node \cup {Unknown},
                  via : Node \cup {Unknown, NoClient}, next : Nat]
        /\ z.op = "route" /\ c \in Nat /\ c < RouteProbes /\ z.dst \in Node /\ seqnum[n] \in Nat
    <2>1. /\ z \in [op : {"none", "ping", "route"}, dst : Node \cup {Unknown},
                    via : Node \cup {Unknown, NoClient}, next : Nat]
          /\ seqnum[n] \in Nat
      BY DEF Inv, TypeOK
    <2>2. z.op = "route"
      BY <1>1, <2>1 DEF Tracing
    <2> QED
      BY <2>1, <2>2 DEF Inv, Prompts
  <1>3. ~Idle(n)
    BY <1>1 DEF Idle
  <1>4. PICK p, far : Trace(n, p, far)
    BY <1>3 DEF Tracing
  <1>5. /\ Path(p, far, n) /\ Routed(p, far) /\ InOrder(link, n, p, far) /\ routeDest[n] = p[far]
        /\ AllKnown(link, n, p, far, seqnum[n], c, Told(n)) /\ Count(n) = c
        /\ Displayed(n, p, far) /\ Complete(n, p, far) /\ z.dst = p[far] /\ z.via = p[1]
    BY <1>2, <1>4 DEF Trace, Count, Prompted
  <1>6. far \in Nat \ {0} /\ p \in [0..far -> Node] /\ p[0] = n
    BY <1>5 DEF Path
  <1>7. prompt'[n] = y /\ seqnum'[n] = seq
    BY <1>1 DEF Inv, TypeOK
  <1>8. Count(n)' = c + 1 /\ Prompted(n, p, far)' /\ prompt'[n].op # "ping"
    <2>1. CASE c + 1 = RouteProbes
      <3>1. y = NoPrompt
        BY <1>2, <2>1
      <3> QED
        BY <1>7, <2>1, <3>1 DEF Count, Prompted, NoPrompt
    <2>2. CASE c + 1 # RouteProbes
      <3>1. y = [z EXCEPT !.next = c + 1]
        BY <1>2, <2>2
      <3> HIDE DEF y, z
      <3>2. y.op = "route" /\ y.next = c + 1 /\ y.dst = z.dst /\ y.via = z.via
        BY <1>2, <3>1
      <3> QED
        BY <1>5, <1>7, <3>2 DEF Count, Prompted
    <2> QED
      BY <2>1, <2>2
  <1>9. /\ a \in BoundedMessage /\ a.type = "ping" /\ a.accept = "not" /\ a.src = n /\ a.dst = p[far]
        /\ a.ttl = c /\ a.seq = seq /\ a.hops = 0
    <2>1. ttl = c /\ seq \in Nat
      BY <1>2
    <2> HIDE DEF ttl, seq, z
    <2>2. a \in Message /\ Bounded(a)
      BY <1>2, <2>1, ForwardingAssumption DEF Message, Bounded, Limited
    <2> QED
      BY <1>5, <2>1, <2>2 DEF BoundedMessage
  <1> HIDE DEF a
  <1>10. /\ w \in BoundedMessage /\ w.type = "ping" /\ w.accept = "not" /\ w.src = n /\ w.dst = p[far]
         /\ w.ttl = c /\ w.seq = seq /\ w.hops = 0
    BY <1>9, OnWireFields
  <1> DEFINE f == <<n, p[1]>>
  <1>11. link' = With(link, f, w)
    BY <1>1, <1>5, SendsTo DEF Inv
  <1> HIDE DEF w, y
  <1>12. f \in Edges /\ 1 \in 0..far
    <2>1. 1 \in 0..far
      BY <1>6
    <2> QED
      BY <1>6, <2>1 DEF Edges
  <1>13. OnPath(p, far, f, w) /\ Mine(n, w) /\ Pos(p, far, f, w) = 1
    <2>1. f = <<p[0], p[0 + 1]>> /\ 0 \in 0..(far - 1)
      BY <1>6
    <2>2. Asks(p, far, f, w)
      BY <1>2, <1>10, <2>1 DEF Asks
    <2>3. Index(p, far, p[1]) = 1
      BY <1>5, <1>12, IndexIs
    <2> QED
      BY <1>10, <2>2, <2>3 DEF OnPath, Mine, Pos
  <1> DEFINE t == IF c < far THEN c + 1 ELSE far
  <1>14. Turn(p, far, w) = t
    <2>1. w.ttl + w.hops = c
      BY <1>2, <1>10
    <2> QED
      BY <1>10, <2>1 DEF Turn
  <1>15. t \in Nat /\ t <= c + 1 /\ t <= far
    BY <1>2, <1>6
  <1>16. Told(n) \subseteq UpTo(p, t - 1)
    <2> SUFFICES ASSUME waiting[n], NEW i \in DOMAIN shown[n] PROVE shown[n][i] \in UpTo(p, t - 1)
      BY DEF Told
    <2>1. PICK k \in i..far : shown[n][i] = p[k] /\ k <= c /\ k < far
      BY <1>5 DEF Displayed, DisplayedFrom
    <2>2. i \in Nat \ {0}
      <3>1. shown[n] \in Seq(Node)
        BY DEF Inv, TypeOK
      <3> QED
        BY <3>1
    <2>3. k \in 1..(t - 1)
      BY <1>2, <1>6, <2>1, <2>2
    <2> QED
      BY <2>1, <2>3 DEF UpTo
  <1>17. Told(n)' = Told(n)
    BY <1>1 DEF Told
  <1>18. link \in Links /\ seq \in Nat /\ seqnum[n] <= seq /\ c + 1 \in Nat /\ c <= c + 1
    BY <1>2 DEF Inv
  <1>19. AllKnown(link, n, p, far, seq, c + 1, Told(n))
    <2> HIDE DEF seq, c
    <2>1. AllKnown(link, n, p, far, seq, c, Told(n))
      BY <1>2, <1>5, <1>18, KnownLater
    <2> QED
      BY <1>2, <1>5, <1>18, <2>1, KnownMore
  <1>20. Known(p, far, seq, c + 1, Told(n), f, w)
    BY <1>10, <1>13, <1>14, <1>15, <1>16, <1>18 DEF Known
  <1>21. ASSUME NEW e \in Edges, NEW i \in 1..Len(link[e]), Mine(n, link[e][i])
         PROVE  /\ link[e][i].seq # w.seq
                /\ link[e][i].seq < w.seq =>
                     Sooner(p, far, link[e][i], w) /\ Pos(p, far, e, link[e][i]) >= Pos(p, far, f, w)
                /\ w.seq < link[e][i].seq =>
                     Sooner(p, far, w, link[e][i]) /\ Pos(p, far, f, w) > Pos(p, far, e, link[e][i])
    <2> DEFINE b == link[e][i]
    <2>1. b \in BoundedMessage
      BY <1>18 DEF Links, Edges
    <2>2. OnPath(p, far, e, b) /\ b.seq <= seqnum[n] /\ Turn(p, far, b) <= c
      BY <1>5, <1>21 DEF AllKnown, Known
    <2> HIDE DEF b
    <2>3. b.seq \in Nat /\ Turn(p, far, b) \in 1..far /\ Pos(p, far, e, b) \in 1..(2 * far)
      BY <1>5, <2>1, <2>2, MessageFields, OnPathFacts
    <2>4. Sooner(p, far, b, w)
      BY <1>2, <1>6, <1>14, <2>2, <2>3 DEF Sooner
    <2>5. b.seq < w.seq
      BY <1>2, <1>10, <2>2, <2>3
    <2>6. ~(w.seq < b.seq) /\ b.seq # w.seq
      BY <1>10, <1>18, <2>3, <2>5
    <2>7. Pos(p, far, e, b) >= Pos(p, far, f, w)
      BY <1>6, <1>13, <2>3
    <2> QED
      BY <2>4, <2>6, <2>7 DEF b
  <1>22. AllKnown(link', n, p, far, seq, c + 1, Told(n)) /\ InOrder(link', n, p, far)
    <2> HIDE DEF seq, f, c
    <2> QED
      BY <1>5, <1>10, <1>11, <1>12, <1>18, <1>19, <1>20, <1>21, PutMine
  <1>23. Complete(n, p, far)'
    <2> SUFFICES ASSUME waiting[n], ~lost, NEW i \in (Len(shown[n]) + 1)..(c + 1), i < far
                 PROVE  Present(link', n, p, far, i)
      BY <1>1, <1>8 DEF Complete
    <2>1. Len(shown[n]) \in Nat
      BY DEF Inv, TypeOK
    <2>2. CASE i \in (Len(shown[n]) + 1)..c
      <3>1. Present(link, n, p, far, i)
        BY <1>5, <2>2 DEF Complete
      <3> QED
        BY <1>10, <1>11, <1>12, <1>18, <3>1, PutPresent
    <2>3. CASE i = c + 1
      <3>1. t = i
        BY <1>2, <1>6, <2>3
      <3>2. Present(link', n, p, far, Turn(p, far, w))
        BY <1>10, <1>11, <1>12, <1>13, <1>18, PutPresent
      <3> QED
        BY <1>14, <3>1, <3>2
    <2> QED
      BY <1>2, <2>1, <2>2, <2>3
  <1>24. Displayed(n, p, far)'
    <2> SUFFICES ASSUME NEW i \in DOMAIN shown[n] PROVE \E k \in i..far : DisplayedFrom(n, p, far, i, k)'
      BY <1>1 DEF Displayed
    <2>1. PICK k \in i..far : DisplayedFrom(n, p, far, i, k)
      BY <1>5 DEF Displayed
    <2>2. i \in Nat
      <3>1. shown[n] \in Seq(Node)
        BY DEF Inv, TypeOK
      <3> QED
        BY <3>1
    <2>3. k <= Count(n)'
      BY <1>2, <1>5, <1>6, <1>8, <2>1, <2>2 DEF DisplayedFrom
    <2>4. DisplayedFrom(n, p, far, i, k)'
      BY <1>1, <2>1, <2>3 DEF DisplayedFrom
    <2> QED
      BY <2>4
  <1>25. Trace(n, p, far)'
    <2>1. AllKnown(link, n, p, far, seqnum[n], Count(n), Told(n))' /\ InOrder(link, n, p, far)'
      BY <1>7, <1>8, <1>17, <1>22
    <2>2. Path(p, far, n) /\ Routed(p, far)' /\ routeDest'[n] = p[far]
      BY <1>1, <1>5 DEF Routed
    <2> QED
      BY <1>8, <1>23, <1>24, <2>1, <2>2 DEF Trace
  <1> QED
    BY <1>1, <1>3, <1>8, <1>25 DEF Tracing

(***************************************************************************)
(* A path of the tables leads from one router to another, along which the  *)
(* distance goes down; and the tables lead back the same way.              *)
(***************************************************************************)
Leads(D, p, far, x, d) ==
  /\ far \in Nat /\ p \in [0..far -> Node] /\ p[0] = x /\ p[far] = d
  /\ \A k \in 0..(far - 1) : route[p[k]][d] = p[k + 1]
  /\ \A i, j \in 0..far : i < j => D[p[j]][d] < D[p[i]][d]

LEMMA PathLonger ==
  ASSUME NEW D \in Distances, NEW d \in Node, NEW x \in Node, NEW p, NEW far,
         Leads(D, p, far, route[x][d], d), D[route[x][d]][d] < D[x][d]
  PROVE  \E q, more : Leads(D, q, more, x, d)
  <1> DEFINE y == route[x][d]
             q == [k \in 0..(far + 1) |-> IF k = 0 THEN x ELSE p[k - 1]]
  <1>1. /\ far \in Nat /\ p \in [0..far -> Node] /\ p[0] = y /\ p[far] = d
        /\ \A k \in 0..(far - 1) : route[p[k]][d] = p[k + 1]
        /\ \A i, j \in 0..far : i < j => D[p[j]][d] < D[p[i]][d]
    BY DEF Leads
  <1>2. q[0] = x /\ \A k \in 1..(far + 1) : k - 1 \in 0..far /\ q[k] = p[k - 1]
    BY <1>1
  <1>3. q \in [0..(far + 1) -> Node]
    <2>1. \A k \in 0..(far + 1) : (IF k = 0 THEN x ELSE p[k - 1]) \in Node
      BY <1>1
    <2> QED
      BY <2>1
  <1> HIDE DEF q
  <1>4. q[far + 1] = d
    BY <1>1, <1>2
  <1>5. ASSUME NEW k \in 0..far PROVE route[q[k]][d] = q[k + 1]
    <2>1. CASE k = 0
      BY <1>1, <1>2, <2>1
    <2>2. CASE k # 0
      <3>1. k \in 1..(far + 1) /\ k + 1 \in 1..(far + 1) /\ k - 1 \in 0..(far - 1) /\ (k - 1) + 1 = k /\ (k + 1) - 1 = k
        BY <1>1, <2>2
      <3> QED
        BY <1>1, <1>2, <3>1
    <2> QED
      BY <2>1, <2>2
  <1>6. ASSUME NEW j \in 0..far PROVE D[p[j]][d] < D[x][d]
    <2>1. D[p[j]][d] \in Nat /\ D[y][d] \in Nat /\ D[x][d] \in Nat
      BY <1>1, SMTT(30) DEF Distances
    <2>2. CASE j = 0
      BY <1>1, <2>2
    <2>3. CASE j # 0
      <3>1. 0 \in 0..far /\ 0 < j
        BY <1>1, <2>3
      <3>2. D[p[j]][d] < D[y][d]
        BY <1>1, <3>1
      <3> QED
        BY <2>1, <3>2
    <2> QED
      BY <2>2, <2>3
  <1>7. ASSUME NEW i \in 0..(far + 1), NEW j \in 0..(far + 1), i < j PROVE D[q[j]][d] < D[q[i]][d]
    <2>1. j \in 1..(far + 1) /\ j - 1 \in 0..far /\ q[j] = p[j - 1]
      BY <1>1, <1>2, <1>7
    <2>2. CASE i = 0
      BY <1>2, <1>6, <2>1, <2>2
    <2>3. CASE i # 0
      <3>1. i \in 1..(far + 1) /\ i - 1 \in 0..far /\ q[i] = p[i - 1] /\ i - 1 < j - 1
        BY <1>1, <1>2, <1>7, <2>3
      <3> QED
        BY <1>1, <2>1, <3>1
    <2> QED
      BY <2>2, <2>3
  <1>8. far + 1 \in Nat /\ (far + 1) - 1 = far
    BY <1>1
  <1>9. Leads(D, q, far + 1, x, d)
    BY <1>2, <1>3, <1>4, <1>5, <1>7, <1>8 DEF Leads
  <1> QED
    BY <1>9

LEMMA WayThere ==
  ASSUME NEW D \in Distances, GoesDown(D), RoutesOfTables, NEW x \in Node, NEW d \in Node
  PROVE  \E p, far : Leads(D, p, far, x, d)
  <1> DEFINE S == {m \in Nat : \A z \in Node : D[z][d] < m => \E p, far : Leads(D, p, far, z, d)}
  <1>1. 0 \in S
    <2>1. \A z \in Node : D[z][d] \in Nat
      BY DEF Distances
    <2>2. \A z \in Node : ~(D[z][d] < 0)
      BY <2>1
    <2> QED
      BY <2>2
  <1>2. ASSUME NEW m \in Nat, m \in S PROVE m + 1 \in S
    <2> SUFFICES ASSUME NEW z \in Node, D[z][d] < m + 1 PROVE \E p, far : Leads(D, p, far, z, d)
      BY <1>2
    <2>1. CASE z = d
      <3> DEFINE p == [k \in 0..0 |-> d]
      <3>1. p \in [0..0 -> Node] /\ p[0] = d
        OBVIOUS
      <3>2. Leads(D, p, 0, z, d)
        <4> HIDE DEF p
        <4> QED
          BY <2>1, <3>1 DEF Leads
      <3> QED
        BY <3>2
    <2>2. CASE z # d
      <3>1. route[z][d] \in Node /\ D[route[z][d]][d] < D[z][d]
        BY <2>2, RouteGoesDown
      <3>2. D[route[z][d]][d] \in Nat /\ D[z][d] \in Nat
        BY <3>1 DEF Distances
      <3>3. D[route[z][d]][d] < m
        BY <3>1, <3>2
      <3>4. PICK p, far : Leads(D, p, far, route[z][d], d)
        BY <1>2, <3>1, <3>3
      <3> QED
        BY <3>1, <3>4, PathLonger
    <2> QED
      BY <2>1, <2>2
  <1>3. Nat \subseteq S
    <2> HIDE DEF S
    <2> QED
      BY <1>1, <1>2, SetInduction
  <1>4. D[x][d] \in Nat
    BY DEF Distances
  <1>5. D[x][d] + 1 \in S /\ D[x][d] < D[x][d] + 1
    BY <1>3, <1>4
  <1> QED
    BY <1>5

LEMMA PathExists ==
  ASSUME NEW D \in Distances, GoesDown(D), RoutesOfTables, SameWayBack, NEW n \in Node, NEW d \in Node, n # d
  PROVE  \E p, far : Path(p, far, n) /\ Routed(p, far) /\ p[far] = d
  <1>1. PICK p, far : Leads(D, p, far, n, d)
    BY WayThere
  <1>2. /\ far \in Nat /\ p \in [0..far -> Node] /\ p[0] = n /\ p[far] = d
        /\ \A k \in 0..(far - 1) : route[p[k]][d] = p[k + 1]
        /\ \A i, j \in 0..far : i < j => D[p[j]][d] < D[p[i]][d]
    BY <1>1 DEF Leads
  <1>3. far \in Nat \ {0}
    BY <1>2
  <1>4. ASSUME NEW i \in 0..far, NEW j \in 0..far, p[i] = p[j] PROVE i = j
    <2>1. D[p[i]][d] \in Nat /\ D[p[j]][d] \in Nat
      BY <1>2 DEF Distances
    <2>2. ~(i < j) /\ ~(j < i)
      BY <1>2, <1>4, <2>1
    <2> QED
      BY <2>2
  <1>5. PICK t : /\ Table = {t}
                 /\ \A x, o, e \in Node : x # e /\ t[x][e] # t[x][o] => t[t[x][e]][o] = x
    BY DEF SameWayBack
  <1>6. \A x \in Node : route[x] = t[x]
    BY <1>5 DEF RoutesOfTables
  <1>7. t[n][n] = Unknown /\ Unknown \notin Node
    BY <1>5, ForwardingAssumption
  <1> DEFINE R == {k \in 0..(far - 1) : route[p[k + 1]][n] = p[k]}
  <1>8. 0 \in R
    <2>1. 0 \in 0..(far - 1) /\ 1 \in 0..far /\ p[1] \in Node /\ route[n][d] = p[1]
      BY <1>2, <1>3
    <2>2. t[p[1]][n] = n
      BY <1>5, <1>6, <1>7, <2>1
    <2> QED
      BY <1>2, <1>6, <2>1, <2>2
  <1>9. ASSUME NEW k \in 0..((far - 1) - 1), k \in R PROVE k + 1 \in R
    <2>1. /\ k + 1 \in 0..(far - 1) /\ k \in 0..far /\ k + 1 \in 0..far /\ (k + 1) + 1 \in 0..far /\ far \in 0..far
          /\ k + 1 # far /\ (k + 1) + 1 # k
      BY <1>2
    <2> DEFINE x == p[k + 1]
    <2>2. x \in Node /\ p[k] \in Node /\ p[(k + 1) + 1] \in Node
      BY <1>2, <2>1
    <2>3. x # d
      BY <1>2, <1>4, <2>1
    <2>4. t[x][d] = p[(k + 1) + 1] /\ t[x][n] = p[k]
      BY <1>2, <1>6, <1>9, <2>1, <2>2
    <2>5. p[(k + 1) + 1] # p[k]
      BY <1>4, <2>1
    <2>6. t[p[(k + 1) + 1]][n] = x
      BY <1>5, <2>2, <2>3, <2>4, <2>5
    <2> QED
      BY <1>6, <2>1, <2>2, <2>6
  <1>10. 0..(far - 1) \subseteq R
    <2>1. far - 1 \in Nat
      BY <1>3
    <2> HIDE DEF R
    <2> QED
      BY <1>8, <1>9, <2>1, BoundedInduction
  <1>11. Routed(p, far)
    BY <1>2, <1>10 DEF Routed
  <1> QED
    BY <1>2, <1>3, <1>4, <1>11 DEF Path

(***************************************************************************)
(* A route command is typed: its path is the one of the tables.            *)
(***************************************************************************)
LEMMA RouteStarts ==
  ASSUME NEW D \in Distances, GoesDown(D), Inv, RoutesOfTables, SameWayBack, RouteOnly,
         NEW n \in Node, Tracing(n), NEW d \in Node, RouteCommand(n, d)
  PROVE  Tracing(n)'
  <1>1. /\ issued[n]["route"] < MaxOf["route"] /\ issued' = [issued EXCEPT ![n]["route"] = @ + 1]
        /\ waiting' = [waiting EXCEPT ![n] = route[n][d] # Unknown]
        /\ routeDest' = [routeDest EXCEPT ![n] = d]
        /\ shown' = [shown EXCEPT ![n] = <<>>]
        /\ Started(n, "route", d)
        /\ UNCHANGED <<link, route, seqnum, pingCount, lost>>
    BY DEF RouteCommand, Typed
  <1>2. issued[n]["route"] = 0
    <2>1. issued[n]["route"] \in Nat /\ MaxOf["route"] \in Nat
      BY ForwardingAssumption DEF Inv, TypeOK, Command
    <2> QED
      BY <1>1, <2>1 DEF RouteOnly
  <1>3. issued'[n]["route"] = 1
    BY <1>1, <1>2 DEF Inv, TypeOK, Command
  <1>4. Idle(n)
    BY <1>2 DEF Tracing
  <1>5. waiting'[n] = (route[n][d] # Unknown) /\ routeDest'[n] = d /\ shown'[n] = <<>>
    BY <1>1 DEF Inv, TypeOK
  <1>6. CASE route[n][d] = Unknown
    <2>1. prompt' = prompt
      BY <1>1, <1>6 DEF Started
    <2>2. Idle(n)'
      BY <1>1, <1>4, <1>5, <1>6, <2>1 DEF Idle
    <2> QED
      BY <1>1, <1>3, <2>1, <2>2 DEF Tracing
  <1>7. CASE route[n][d] # Unknown
    <2>1. n # d
      BY <1>7, ForwardingAssumption DEF RoutesOfTables
    <2>2. PICK p, far : Path(p, far, n) /\ Routed(p, far) /\ p[far] = d
      BY <2>1, PathExists
    <2>3. far \in Nat \ {0} /\ p[0] = n
      BY <2>2 DEF Path
    <2>4. route[n][d] = p[1]
      <3>1. 0 \in 0..(far - 1) /\ 0 + 1 = 1
        BY <2>3
      <3> QED
        BY <2>2, <2>3, <3>1 DEF Routed
    <2>5. prompt'[n] = [op |-> "route", dst |-> d, via |-> p[1], next |-> 0]
      BY <1>1, <1>7, <2>4 DEF Started, Inv, TypeOK
    <2>6. Count(n)' = 0 /\ Prompted(n, p, far)' /\ prompt'[n].op = "route"
      BY <2>2, <2>5 DEF Count, Prompted
    <2>7. NoneOf(link', n)
      BY <1>1, <1>4 DEF Idle
    <2>8. AllKnown(link, n, p, far, seqnum[n], Count(n), Told(n))' /\ InOrder(link, n, p, far)'
      BY <2>7 DEF NoneOf, AllKnown, InOrder
    <2>9. Displayed(n, p, far)'
      BY <1>5 DEF Displayed
    <2>10. Complete(n, p, far)'
      BY <1>5, <2>6 DEF Complete
    <2>11. Routed(p, far)'
      BY <1>1, <2>2 DEF Routed
    <2>12. Trace(n, p, far)'
      BY <1>5, <2>2, <2>6, <2>8, <2>9, <2>10, <2>11 DEF Trace
    <2> QED
      BY <1>1, <1>3, <2>6, <2>12 DEF Tracing
  <1> QED
    BY <1>6, <1>7

(***************************************************************************)
(* Another router's commands, and packets, are nothing to a route command. *)
(***************************************************************************)
LEMMA OthersCommand ==
  ASSUME Inv, RoutersStayUp, RoutersStayUp', NEW n \in Node, Tracing(n), NEW x \in Node,
         \/ \E d \in Node : MessageCommand(x, d)
         \/ x # n /\ ((\E d \in Node : RouteCommand(x, d)) \/ SendPing(x))
  PROVE  Tracing(n)'
  <1>1. link \in Links /\ seqnum \in [Node -> Nat]
    BY DEF Inv, TypeOK
  <1>2. ASSUME NEW d \in Node, MessageCommand(x, d) PROVE Tracing(n)'
    <2> DEFINE seq == seqnum[x] + 1
               a == [type |-> "packet", accept |-> "not", src |-> x, dst |-> d, ttl |-> DefaultTTL,
                     seq |-> seq, given |-> DefaultTTL, hops |-> 0]
    <2>1. /\ UNCHANGED <<route, lost, prompt, pingCount, waiting, routeDest, shown>>
          /\ seqnum' = [seqnum EXCEPT ![x] = seq] /\ issued' = [issued EXCEPT ![x]["message"] = @ + 1]
      BY <1>2 DEF MessageCommand, Typed
    <2>2. SameCommand(n)
      BY <2>1 DEF SameCommand, Inv, TypeOK
    <2>3. seqnum'[n] \in Nat /\ seqnum[n] <= seqnum'[n]
      BY <1>1, <2>1
    <2>4. link' = link \/ \E f \in Edges, w \in BoundedMessage : ~Mine(n, w) /\ link' = With(link, f, w)
      <3>1. CASE route[x][d] = Unknown
        BY <1>2, <3>1 DEF MessageCommand
      <3>2. CASE route[x][d] # Unknown
        <4>1. Forward(x, a, link)
          BY <1>2, <3>2 DEF MessageCommand
        <4>2. a \in BoundedMessage /\ a.type = "packet"
          <5>1. seq \in Nat
            BY <1>1
          <5> HIDE DEF seq
          <5>2. a \in Message /\ Bounded(a)
            BY <5>1, ForwardingAssumption DEF Message, Bounded, Limited
          <5> QED
            BY <5>2 DEF BoundedMessage
        <4> HIDE DEF a
        <4> DEFINE via == route[x][a.dst]
        <4>3. via \in Node /\ link' = With(link, <<x, via>>, OnWire(a))
          BY <4>1, SendsTo DEF Forward, Inv
        <4>4. OnWire(a) \in BoundedMessage /\ ~Mine(n, OnWire(a)) /\ <<x, via>> \in Edges
          BY <4>2, <4>3, OnWireFields DEF Mine, Edges
        <4> QED
          BY <4>3, <4>4
      <3> QED
        BY <3>1, <3>2
    <2> QED
      BY <1>1, <2>1, <2>2, <2>3, <2>4, OtherKeeps
  <1>3. ASSUME x # n, NEW d \in Node, RouteCommand(x, d) PROVE Tracing(n)'
    <2>1. /\ UNCHANGED <<route, lost, seqnum, link>> /\ SameCommand(n)
      BY <1>3 DEF RouteCommand, Typed, Started, SameCommand, Inv, TypeOK
    <2>2. seqnum[n] <= seqnum'[n] /\ seqnum'[n] \in Nat
      BY <1>1, <2>1
    <2> QED
      BY <1>1, <2>1, <2>2, OtherKeeps
  <1>4. ASSUME x # n, SendPing(x) PROVE Tracing(n)'
    <2> DEFINE z == prompt[x]
               seq == seqnum[x] + 1
               ttl == IF z.op = "route" THEN z.next ELSE DefaultTTL
               a == [type |-> "ping", accept |-> "not", src |-> x, dst |-> z.dst, ttl |-> ttl,
                     seq |-> seq, given |-> ttl, hops |-> 0]
    <2>1. /\ z.op # "none" /\ Sends(x, z.via, a, link) /\ seqnum' = [seqnum EXCEPT ![x] = seq]
          /\ UNCHANGED <<route, lost, issued, pingCount, waiting, routeDest, shown>>
          /\ prompt'[n] = prompt[n]
      BY <1>4 DEF SendPing, replyVars, Inv, TypeOK
    <2>2. SameCommand(n)
      BY <2>1 DEF SameCommand
    <2>3. seqnum'[n] \in Nat /\ seqnum[n] <= seqnum'[n]
      <3> HIDE DEF a, z, ttl, seq
      <3>1. seqnum'[n] = seqnum[n] /\ seqnum[n] \in Nat
        BY <1>1, <1>4, <2>1
      <3> QED
        BY <3>1
    <2>4. a \in BoundedMessage /\ a.type = "ping" /\ a.src = x
      <3>1. /\ z \in [op : {"none", "ping", "route"}, dst : Node \cup {Unknown},
                      via : Node \cup {Unknown, NoClient}, next : Nat]
            /\ z.dst \in Node /\ seq \in Nat /\ (z.op = "route" => z.next < RouteProbes)
        <4>1. z \in [op : {"none", "ping", "route"}, dst : Node \cup {Unknown},
                     via : Node \cup {Unknown, NoClient}, next : Nat]
          BY DEF Inv, TypeOK
        <4>2. z.dst \in Node /\ (z.op = "route" => z.next < RouteProbes)
          BY <2>1 DEF Inv, Prompts
        <4>3. seq \in Nat
          BY <1>1
        <4> QED
          BY <4>1, <4>2, <4>3
      <3>2. ttl \in Nat /\ (ttl <= DefaultTTL \/ ttl < RouteProbes)
        BY <3>1, ForwardingAssumption
      <3> HIDE DEF seq, ttl, z
      <3>3. a \in Message /\ Bounded(a)
        BY <3>1, <3>2, ForwardingAssumption DEF Message, Bounded, Limited
      <3> QED
        BY <3>3 DEF BoundedMessage
    <2> HIDE DEF a, seq
    <2>5. z.via \in Node /\ link' = With(link, <<x, z.via>>, OnWire(a))
      BY <2>1, SendsTo DEF Inv
    <2>6. OnWire(a) \in BoundedMessage /\ ~Mine(n, OnWire(a)) /\ <<x, z.via>> \in Edges
      BY <1>4, <2>4, <2>5, OnWireFields DEF Mine, Edges
    <2> QED
      BY <1>1, <2>1, <2>2, <2>3, <2>5, <2>6, OtherKeeps
  <1> QED
    BY <1>2, <1>3, <1>4

------------------------------------------------------------------------------
(***************************************************************************)
(* Every step keeps what is known of the route commands.                   *)
(***************************************************************************)
LEMMA ReceiveTraced ==
  ASSUME Inv, RoutersStayUp, RoutersStayUp', NEW n \in Node, Tracing(n), NEW q \in Node, NEW x \in Node, Receive(q, x)
  PROVE  Tracing(n)'
  <1> DEFINE r == <<q, x>>
             m == link[r][1]
             k == Without(link, r)
  <1>1. /\ link \in Links /\ k \in Links /\ m \in BoundedMessage /\ link[r] # <<>> /\ r \in Edges
        /\ \/ PacketArrives(x, m, k) \/ PacketAnswered(x, m, k) \/ PingArrives(x, m, k)
           \/ PongArrives(x, m, k) \/ Transits(x, m, k) \/ Expires(x, m, k)
    BY ReceiveIs DEF Edges
  <1>2. UNCHANGED <<route, seqnum, lost>> /\ seqnum[n] \in Nat
    BY DEF Receive, commandVars, Inv, TypeOK
  <1>3. CASE Mine(n, m)
    <2>1. m.type = "ping" \/ m.type = "pong"
      BY <1>3 DEF Mine
    <2> QED
      BY <1>3, <2>1, MineGoesOn, PongDisplayed
  <1>4. CASE ~Mine(n, m)
    <2> HIDE DEF m, k, r
    <2>1. link' = k \/ \E f \in Edges, w \in BoundedMessage : ~Mine(n, w) /\ link' = With(k, f, w)
      BY <1>1, <1>4, NotMine
    <2>2. PongArrives(x, m, k) => x # n
      BY <1>4 DEF Mine, PongArrives
    <2>3. SameCommand(n)
      BY <1>1, <2>2, ReceiveSame
    <2>4. link[r] # <<>> /\ k = Without(link, r) /\ ~Mine(n, link[r][1]) /\ r \in Edges
      BY <1>1, <1>4 DEF k, m
    <2>5. seqnum[n] <= seqnum'[n] /\ seqnum'[n] \in Nat
      BY <1>2
    <2> QED
      BY <1>1, <1>2, <2>1, <2>3, <2>4, <2>5, OtherKeeps
  <1> QED
    BY <1>3, <1>4

Traced == \A n \in Node : Tracing(n)

LEMMA TracedStep ==
  ASSUME NEW D \in Distances, GoesDown(D), SameWayBack, RouteOnly
  PROVE  Inv /\ Stays(D) /\ Stays(D)' /\ Traced /\ [Next]_vars => Traced'
  <1> SUFFICES ASSUME Inv, Stays(D), Stays(D)', Traced, [Next]_vars, NEW n \in Node PROVE Tracing(n)'
    BY DEF Traced
  <1>1. RoutersStayUp /\ RoutersStayUp' /\ RoutesOfTables /\ Tracing(n)
    BY DEF Stays, Traced
  <1>2. ASSUME NEW x \in User, UserCommand(x) PROVE Tracing(n)'
    <2>1. x \in Node
      BY ForwardingAssumption
    <2>2. ASSUME NEW d \in Node PROVE ~PingCommand(x, d)
      <3>1. issued[x]["ping"] \in Nat
        BY <2>1 DEF Inv, TypeOK, Command
      <3>2. ~(issued[x]["ping"] < MaxOf["ping"])
        BY <3>1 DEF RouteOnly
      <3> QED
        BY <3>2 DEF PingCommand, Typed
    <2>3. \/ \E d \in Node : MessageCommand(x, d)
          \/ \E d \in Node : RouteCommand(x, d)
          \/ SendPing(x)
      BY <1>2, <2>2 DEF UserCommand
    <2>4. CASE x = n /\ \E d \in Node : RouteCommand(x, d)
      BY <1>1, <2>4, RouteStarts
    <2>5. CASE x = n /\ SendPing(x)
      BY <1>1, <2>5, PingSent
    <2> QED
      BY <1>1, <2>1, <2>3, <2>4, <2>5, OthersCommand
  <1>3. ASSUME NEW x \in Node PROVE ~TableChanges(x)
    BY <1>1 DEF TableChanges, RoutesOfTables, SameWayBack
  <1>4. ASSUME NEW q \in Node, NEW x \in Node, Receive(q, x) \/ Coalesced(q, x) PROVE Tracing(n)'
    BY <1>1, <1>4, ReceiveTraced, LossKeeps
  <1>5. CASE UNCHANGED vars
    <2>1. UNCHANGED <<route, link, prompt, issued, pingCount, waiting, routeDest, shown, seqnum, lost>>
      BY <1>5 DEF vars, commandVars, replyVars
    <2>2. SameCommand(n) /\ seqnum[n] \in Nat /\ seqnum[n] <= seqnum'[n] /\ link \in Links
      BY <2>1 DEF SameCommand, Inv, TypeOK
    <2> QED
      BY <1>1, <2>1, <2>2, OtherKeeps
  <1> QED
    BY <1>2, <1>3, <1>4, <1>5 DEF Next

LEMMA TracedInit == Init => Traced
  <1> SUFFICES ASSUME Init, NEW n \in Node PROVE Tracing(n)
    BY DEF Traced
  <1>1. NoneOf(link, n)
    BY DEF Init, NoneOf, Edges
  <1>2. Idle(n)
    BY <1>1 DEF Init, Idle, NoPrompt
  <1> QED
    BY <1>2 DEF Init, Tracing, NoPrompt

------------------------------------------------------------------------------
(***************************************************************************)
(* The hops to the destination are the path, and it ends there.            *)
(***************************************************************************)
LEMMA HopsArePath ==
  ASSUME RoutesOfTables, NEW n \in Node, NEW p, NEW far, Path(p, far, n), Routed(p, far)
  PROVE  \A k \in 0..far : Hop(n, p[far])[k] = p[k]
  <1> DEFINE d == p[far]
             Is(g) == g = [k \in Nat |-> IF k = 0 THEN n
                                         ELSE IF g[k - 1] \in Node THEN route[g[k - 1]][d] ELSE Unknown]
             path == [k \in Nat |-> IF k <= far THEN p[k] ELSE Unknown]
  <1>1. far \in Nat \ {0} /\ p \in [0..far -> Node] /\ p[0] = n
    BY DEF Path
  <1>2. d \in Node /\ route[d][d] = Unknown /\ Unknown \notin Node
    <2>1. d \in Node
      BY <1>1
    <2> QED
      BY <2>1, ForwardingAssumption DEF RoutesOfTables
  <1>3. Is(path)
    <2> SUFFICES ASSUME NEW k \in Nat
                 PROVE  path[k] = IF k = 0 THEN n
                                  ELSE IF path[k - 1] \in Node THEN route[path[k - 1]][d] ELSE Unknown
      OBVIOUS
    <2>1. CASE k = 0
      BY <1>1, <2>1
    <2>2. CASE k # 0 /\ k <= far
      <3>1. k - 1 \in 0..(far - 1) /\ (k - 1) + 1 = k /\ k - 1 \in Nat /\ k - 1 <= far
        BY <1>1, <2>2
      <3>2. path[k] = p[k] /\ path[k - 1] = p[k - 1] /\ p[k - 1] \in Node
        BY <1>1, <2>2, <3>1
      <3>3. route[p[k - 1]][d] = p[k]
        BY <3>1 DEF Routed
      <3> QED
        BY <2>2, <3>2, <3>3
    <2>3. CASE k = far + 1
      <3>1. path[k] = Unknown /\ path[k - 1] = d /\ k # 0
        BY <1>1, <2>3
      <3> QED
        BY <1>2, <3>1
    <2>4. CASE k > far + 1
      <3>1. path[k] = Unknown /\ path[k - 1] = Unknown /\ k # 0
        BY <1>1, <2>4
      <3> QED
        BY <1>2, <3>1
    <2> QED
      BY <1>1, <2>1, <2>2, <2>3, <2>4
  <1> HIDE DEF path
  <1> DEFINE hop == Hop(n, d)
  <1>4. Is(hop)
    <2>1. hop = CHOOSE g : Is(g)
      BY DEF Hop
    <2> HIDE DEF hop, Is
    <2> QED
      BY <1>3, <2>1
  <1>5. hop[0] = n
    <2> HIDE DEF hop
    <2> QED
      BY <1>4
  <1>6. ASSUME NEW k \in Nat, k # 0 PROVE hop[k] = IF hop[k - 1] \in Node THEN route[hop[k - 1]][d] ELSE Unknown
    <2> HIDE DEF hop
    <2> QED
      BY <1>4, <1>6
  <1> HIDE DEF hop
  <1> DEFINE S == {k \in 0..far : hop[k] = p[k]}
  <1>7. 0 \in S
    BY <1>1, <1>5
  <1>8. ASSUME NEW k \in 0..(far - 1), k \in S PROVE k + 1 \in S
    <2>1. k + 1 \in Nat /\ k + 1 # 0 /\ (k + 1) - 1 = k /\ k + 1 \in 0..far /\ k \in 0..far
      BY <1>1
    <2>2. hop[k] = p[k] /\ p[k] \in Node /\ route[p[k]][d] = p[k + 1]
      BY <1>1, <1>8, <2>1 DEF Routed
    <2>3. hop[k + 1] = p[k + 1]
      BY <1>6, <2>1, <2>2
    <2> QED
      BY <2>1, <2>3
  <1>9. 0..far \subseteq S
    <2> HIDE DEF S
    <2> QED
      BY <1>1, <1>7, <1>8, BoundedInduction
  <1> QED
    BY <1>9 DEF hop

LEMMA TracedFollows == Inv /\ RoutesOfTables /\ Traced => RouteFollowsPath
  <1> SUFFICES ASSUME Inv, RoutesOfTables, Traced, NEW n \in Node, NEW i \in DOMAIN shown[n]
               PROVE  LET hop == Hop(n, routeDest[n])
                      IN  IF lost THEN \E k \in i..RouteProbes :
                                         /\ shown[n][i] = hop[k]
                                         /\ \A j \in 1..(i - 1) : \E h \in 1..(k - 1) : shown[n][j] = hop[h]
                                  ELSE shown[n][i] = hop[i]
    BY DEF RouteFollowsPath
  <1>1. shown[n] # <<>>
    OBVIOUS
  <1>2. PICK p, far : Trace(n, p, far)
    BY <1>1 DEF Traced, Tracing, Idle
  <1>3. /\ Path(p, far, n) /\ Routed(p, far) /\ routeDest[n] = p[far] /\ Displayed(n, p, far)
    BY <1>2 DEF Trace
  <1>4. PICK k \in i..far : DisplayedFrom(n, p, far, i, k)
    BY <1>3 DEF Displayed
  <1>5. /\ shown[n][i] = p[k] /\ k <= Count(n) /\ (~lost => k = i)
        /\ \A j \in 1..(i - 1) : shown[n][j] \in UpTo(p, k - 1)
    BY <1>4 DEF DisplayedFrom
  <1>6. i \in Nat \ {0} /\ far \in Nat
    <2>1. shown[n] \in Seq(Node) /\ far \in Nat
      BY <1>3 DEF Inv, TypeOK, Path
    <2> QED
      BY <2>1
  <1>7. Count(n) \in Nat /\ Count(n) <= RouteProbes
    <2>1. /\ prompt[n].next \in Nat /\ RouteProbes \in Nat
          /\ prompt[n].op = "route" => prompt[n].next < RouteProbes
      BY ForwardingAssumption DEF Inv, TypeOK, Prompts
    <2> QED
      BY <2>1 DEF Count
  <1> DEFINE hop == Hop(n, routeDest[n])
  <1>8. \A h \in 0..far : hop[h] = p[h]
    BY <1>3, HopsArePath
  <1> HIDE DEF hop
  <1>9. k \in 0..far /\ k \in i..RouteProbes /\ hop[k] = p[k]
    BY <1>4, <1>5, <1>6, <1>7, <1>8, ForwardingAssumption
  <1>10. ASSUME NEW j \in 1..(i - 1) PROVE \E h \in 1..(k - 1) : shown[n][j] = hop[h]
    <2>1. PICK h \in 1..(k - 1) : shown[n][j] = p[h]
      BY <1>5 DEF UpTo
    <2>2. h \in 0..far
      BY <1>6, <1>9
    <2> QED
      BY <1>8, <2>1, <2>2
  <1> QED
    BY <1>5, <1>9, <1>10 DEF hop

(***************************************************************************)
(* A route command displays the routers of the path to its destination in  *)
(* their order, each once, and each of them if nothing was lost, however   *)
(* its pings, its pongs and the other messages are delivered: the pings it *)
(* sent first come back first, from the routers that are nearer            *)
(* (prompt_actions.cpp, sendRoute; exec.cpp, PONG; sock_actions.cpp,       *)
(* reverse). It is so while the tables do not change and lead back the way *)
(* they lead there, and while no other command of the router awaits pongs. *)
(***************************************************************************)
THEOREM RoutesAreTraced ==
  ASSUME TablesLeadTo, SameWayBack, RouteOnly
  PROVE  Spec => []RouteFollowsPath
  <1>1. PICK D \in Distances : GoesDown(D)
    BY DEF TablesLeadTo
  <1>2. Init => Stays(D)
    BY <1>1, StaysInit
  <1>3. Inv /\ Stays(D) /\ [Next]_vars => Stays(D)'
    BY <1>1, StaysStep DEF Inv
  <1>4. Inv /\ Stays(D) /\ Stays(D)' /\ Traced /\ [Next]_vars => Traced'
    BY <1>1, TracedStep
  <1>5. Inv /\ Stays(D) /\ Traced => RouteFollowsPath
    BY TracedFollows DEF Stays
  <1> QED
    BY InvInit, InvStep, TracedInit, <1>2, <1>3, <1>4, <1>5, PTL DEF Spec
===============================================================================
