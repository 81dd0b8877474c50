----------------------------- MODULE RouterProofs -----------------------------
(***************************************************************************)
(* The types, the names and the pointers of Router, the costs of           *)
(* neighbours, and the distances and next hops of networks at peace, for   *)
(* any number of routers.  The invariant is Inv, and Calm at peace.        *)
(*                                                                         *)
(* What a router believes of a client is said at the other end of its      *)
(* connection, so most of Inv is about both ends: they know each other     *)
(* (Paired); what waits to be read under the id of a router was written    *)
(* by that router, and none of its vectors has that router in it (Speaks); *)
(* a connection that was not accepted begins with the LINK of who opened   *)
(* it (Introduced).  Houses then says that an array holds each connection  *)
(* of its router once, under an id that speaks there unless it was left    *)
(* unset, Points that a pointer of the table leads into what was ever      *)
(* filled of the array, and Fits that it leads to its own neighbour, until *)
(* a client has moved.                                                     *)
(*                                                                         *)
(* Calm is about tables and the vectors that are still to be read: each is *)
(* no shorter than any estimate of the distances allows (Sane), gets no    *)
(* worse from one vector to the next (Mail), and the next hop of an entry  *)
(* has one that is shorter by the way to it (Down).                        *)
(***************************************************************************)
EXTENDS Router, LoopProofs, SequenceTheorems, FiniteSetTheorems

(***************************************************************************)
(* What is written on connections, and the connections themselves.         *)
(***************************************************************************)
Dist == (-Half)..(Half - 1)

Vectors == UNION {[S -> Dist] : S \in SUBSET Name}

Message ==
  {LinkOk, VectorOk, Unreadable} \cup {LinkMessage(n) : n \in Node} \cup {VectorMessage(v) : v \in Vectors}

Nets == [peer    : [Node -> [Sock -> End \cup {Free, Gone}]],
         inbox   : [Node -> [Sock -> Seq(Message)]],
         backlog : [Node -> Seq(NotAccepted)]]

(***************************************************************************)
(* The two ends of a connection know each other.                           *)
(***************************************************************************)
Paired(N) ==
  \A a, b \in Node : \A i, j \in Sock : N.peer[a][i] = <<b, j>> => a # b /\ N.peer[b][j] = <<a, i>>

(***************************************************************************)
(* What is read from the socket k of n was written by s: the other end is  *)
(* a socket of s, or closed, and no vector that waits there has s in it.   *)
(***************************************************************************)
LeadsIn(N, n, k, s) == N.peer[n][k] = Gone \/ N.peer[n][k] \in {s} \X Sock

Honest(box, s) ==
  \A i \in DOMAIN box : box[i].type = "vector" => s \notin DOMAIN box[i].vector

Speaks(N, n, k, s) == LeadsIn(N, n, k, s) /\ Honest(N.inbox[n][k], s)

(***************************************************************************)
(* The connections n has not accepted are each in its backlog once, and    *)
(* begin with the LINK of the router that opened them.                     *)
(***************************************************************************)
Introduced(N, n, j) ==
  N.inbox[n][j] # <<>> /\ \E s \in Node \ {n} : N.inbox[n][j][1] = LinkMessage(s) /\ Speaks(N, n, j, s)

Waits(N, n) ==
  /\ \A i, j \in DOMAIN N.backlog[n] : N.backlog[n][i] = N.backlog[n][j] => i = j
  /\ \A j \in NotAccepted : N.peer[n][j] # Free <=> \E i \in DOMAIN N.backlog[n] : N.backlog[n][i] = j
  /\ \A j \in NotAccepted : N.peer[n][j] # Free => Introduced(N, n, j)

(***************************************************************************)
(* Nothing is left on a socket that is not in use.                         *)
(***************************************************************************)
Quiet(N) == \A n \in Node : \A k \in Sock : N.peer[n][k] = Free => N.inbox[n][k] = <<>>

IsNet(N) == N \in Nets /\ Paired(N) /\ Quiet(N) /\ \A n \in Node : Waits(N, n)

(***************************************************************************)
(* What a change of the connections from N to W leaves alone: the use of   *)
(* the socket, and who speaks on it.                                       *)
(***************************************************************************)
Kept(N, W, n, k) ==
  /\ N.peer[n][k] = Free <=> W.peer[n][k] = Free
  /\ \A s \in Node : Speaks(N, n, k, s) => Speaks(W, n, k, s)

Own(m, n) == m.type = "vector" => n \notin DOMAIN m.vector

LEMMA NetTypes ==
  ASSUME NEW N \in Nets, NEW n \in Node
  PROVE  /\ N = [peer |-> N.peer, inbox |-> N.inbox, backlog |-> N.backlog]
         /\ DOMAIN N.peer = Node /\ DOMAIN N.inbox = Node /\ DOMAIN N.backlog = Node
         /\ DOMAIN N.peer[n] = Sock /\ DOMAIN N.inbox[n] = Sock
         /\ \A k \in Sock : N.peer[n][k] \in End \cup {Free, Gone} /\ N.inbox[n][k] \in Seq(Message)
         /\ N.backlog[n] \in Seq(NotAccepted)
  BY DEF Nets

LEMMA Names ==
  /\ Free # Gone /\ Free \notin End /\ Gone \notin End
  /\ Open \cap NotAccepted = {} /\ 1 \notin Sock
  /\ Open \subseteq Nat \ {0, 1} /\ NotAccepted \subseteq Nat \ {0, 1}
  /\ Unnamed \notin Node /\ Controller \notin Node /\ Unnamed # Controller
  BY RouterAssumption DEF RouterAssumption, Sock, Name

(***************************************************************************)
(* The operators on connections, field by field.                           *)
(***************************************************************************)
LEMMA BoxShape ==
  ASSUME NEW N \in Nets, NEW n \in Node, NEW k \in Sock, NEW box \in Seq(Message)
  PROVE  /\ WithBox(N, n, k, box) \in Nets
         /\ WithBox(N, n, k, box).peer = N.peer
         /\ WithBox(N, n, k, box).backlog = N.backlog
         /\ \A x \in Node, y \in Sock :
              WithBox(N, n, k, box).inbox[x][y] = IF <<x, y>> = <<n, k>> THEN box ELSE N.inbox[x][y]
  <1> DEFINE W == WithBox(N, n, k, box)
  <1>1. W = [peer |-> N.peer, inbox |-> [N.inbox EXCEPT ![n][k] = box], backlog |-> N.backlog]
    BY DEF WithBox
  <1>2. [N.inbox EXCEPT ![n][k] = box] \in [Node -> [Sock -> Seq(Message)]]
    BY DEF Nets
  <1>3. W \in Nets
    BY <1>1, <1>2 DEF Nets
  <1> QED
    BY <1>1, <1>3, NetTypes

(***************************************************************************)
(* Writing on a socket: what n writes does not have n in it.               *)
(***************************************************************************)
LEMMA WriteShape ==
  ASSUME NEW N \in Nets, NEW n \in Node, NEW k, NEW m \in Message
  PROVE  /\ Write(N, n, k, m) \in Nets
         /\ Write(N, n, k, m).peer = N.peer
         /\ Write(N, n, k, m).backlog = N.backlog
         /\ \A x \in Node, y \in Sock :
              Write(N, n, k, m).inbox[x][y] =
                IF k \in Sock /\ N.peer[n][k] = <<x, y>> THEN Append(N.inbox[x][y], m) ELSE N.inbox[x][y]
  <1> DEFINE W == Write(N, n, k, m)
  <1>1. CASE k \in Sock /\ N.peer[n][k] \in End
    <2>1. PICK a \in Node, b \in Sock : N.peer[n][k] = <<a, b>>
      BY <1>1 DEF End
    <2> DEFINE box == Append(N.inbox[a][b], m)
    <2>2. W = WithBox(N, a, b, box)
      BY <1>1, <2>1 DEF Write
    <2>3. box \in Seq(Message)
      BY NetTypes, AppendProperties
    <2> HIDE DEF box, W
    <2>4. /\ W \in Nets /\ W.peer = N.peer /\ W.backlog = N.backlog
          /\ \A x \in Node, y \in Sock : W.inbox[x][y] = IF <<x, y>> = <<a, b>> THEN box ELSE N.inbox[x][y]
      BY <2>2, <2>3, BoxShape
    <2>5. \A x \in Node, y \in Sock : N.peer[n][k] = <<x, y>> <=> <<x, y>> = <<a, b>>
      BY <2>1
    <2>6. ASSUME NEW x \in Node, NEW y \in Sock
          PROVE  W.inbox[x][y] = IF k \in Sock /\ N.peer[n][k] = <<x, y>> THEN Append(N.inbox[x][y], m)
                                                                         ELSE N.inbox[x][y]
      BY <1>1, <2>4, <2>5 DEF box
    <2> QED
      BY <2>4, <2>6 DEF W
  <1>2. CASE ~(k \in Sock /\ N.peer[n][k] \in End)
    <2>1. W = N
      BY <1>2 DEF Write
    <2>2. \A x \in Node, y \in Sock : k \in Sock => N.peer[n][k] # <<x, y>>
      BY <1>2, SMTT(30) DEF End
    <2> QED
      BY <2>1, <2>2
  <1> QED
    BY <1>1, <1>2

LEMMA HonestAppend ==
  ASSUME NEW box \in Seq(Message), NEW m \in Message, NEW s, Honest(box, s), Own(m, s)
  PROVE  Honest(Append(box, m), s)
  BY AppendProperties DEF Honest, Own

LEMMA WriteKeeps ==
  ASSUME NEW N, IsNet(N), NEW n \in Node, NEW k, NEW m \in Message, Own(m, n)
  PROVE  /\ IsNet(Write(N, n, k, m))
         /\ \A x \in Node, y \in Sock : Kept(N, Write(N, n, k, m), x, y)
  <1> DEFINE W == Write(N, n, k, m)
  <1>1. N \in Nets
    BY DEF IsNet
  <1>2. /\ W \in Nets /\ W.peer = N.peer /\ W.backlog = N.backlog
        /\ \A x \in Node, y \in Sock : W.inbox[x][y] =
             IF k \in Sock /\ N.peer[n][k] = <<x, y>> THEN Append(N.inbox[x][y], m) ELSE N.inbox[x][y]
    BY <1>1, WriteShape
  <1> HIDE DEF W
  <1>3. ASSUME NEW x \in Node, NEW y \in Sock, NEW s \in Node, Speaks(N, x, y, s)
        PROVE  Speaks(W, x, y, s)
    <2>1. CASE k \in Sock /\ N.peer[n][k] = <<x, y>>
      <3>1. N.peer[x][y] = <<n, k>>
        BY <2>1 DEF IsNet, Paired
      <3>2. <<n, k>> \in End
        BY <2>1 DEF End
      <3>3. s = n
        BY <1>3, <3>1, <3>2, Names DEF Speaks, LeadsIn
      <3>4. Honest(Append(N.inbox[x][y], m), s)
        BY <1>1, <1>3, <3>3, HonestAppend, NetTypes DEF Speaks
      <3> QED
        BY <1>2, <1>3, <2>1, <3>4 DEF Speaks, LeadsIn
    <2>2. CASE ~(k \in Sock /\ N.peer[n][k] = <<x, y>>)
      BY <1>2, <1>3, <2>2 DEF Speaks, LeadsIn
    <2> QED
      BY <2>1, <2>2
  <1>4. \A x \in Node, y \in Sock : Kept(N, W, x, y)
    BY <1>2, <1>3 DEF Kept
  <1>5. Paired(W)
    <2>1. W.peer = N.peer
      BY <1>2
    <2>2. Paired(N)
      BY DEF IsNet
    <2>3. ASSUME NEW a \in Node, NEW b \in Node, NEW i \in Sock, NEW j \in Sock, W.peer[a][i] = <<b, j>>
          PROVE  a # b /\ W.peer[b][j] = <<a, i>>
      <3>1. N.peer[a][i] = <<b, j>>
        BY <2>1, <2>3
      <3>2. a # b /\ N.peer[b][j] = <<a, i>>
        BY <2>2, <3>1 DEF Paired
      <3> QED
        BY <2>1, <3>2
    <2> QED
      BY <2>3 DEF Paired
  <1>6. Quiet(W)
    <2> SUFFICES ASSUME NEW x \in Node, NEW y \in Sock, W.peer[x][y] = Free PROVE W.inbox[x][y] = <<>>
      BY DEF Quiet
    <2>1. k \in Sock => N.peer[n][k] # <<x, y>>
      <3> SUFFICES ASSUME k \in Sock, N.peer[n][k] = <<x, y>> PROVE FALSE
        OBVIOUS
      <3>1. N.peer[x][y] = <<n, k>> /\ <<n, k>> \in End
        BY SMTT(30) DEF IsNet, Paired, End
      <3> QED
        BY <1>2, <3>1, Names
    <2> QED
      BY <1>2, <2>1 DEF IsNet, Quiet
  <1>7. ASSUME NEW x \in Node PROVE Waits(W, x)
    <2>1. Waits(N, x)
      BY DEF IsNet
    <2>2. ASSUME NEW j \in NotAccepted, N.peer[x][j] # Free PROVE Introduced(W, x, j)
      <3>0. j \in Sock
        BY DEF Sock
      <3>1. PICK s \in Node \ {x} : N.inbox[x][j][1] = LinkMessage(s) /\ Speaks(N, x, j, s)
        BY <2>1, <2>2 DEF Waits, Introduced
      <3>2. N.inbox[x][j] # <<>> /\ N.inbox[x][j] \in Seq(Message)
        BY <1>1, <2>1, <2>2, <3>0, NetTypes DEF Waits, Introduced
      <3>3. /\ Append(N.inbox[x][j], m) # <<>>
            /\ Append(N.inbox[x][j], m)[1] = N.inbox[x][j][1]
        BY <3>2, AppendProperties, EmptySeq
      <3>4. W.inbox[x][j] # <<>> /\ W.inbox[x][j][1] = LinkMessage(s)
        BY <1>2, <3>0, <3>1, <3>2, <3>3
      <3>5. Speaks(W, x, j, s)
        BY <1>3, <3>0, <3>1
      <3> QED
        BY <3>4, <3>5 DEF Introduced
    <2> QED
      BY <1>2, <2>1, <2>2 DEF Waits
  <1> QED
    BY <1>2, <1>4, <1>5, <1>6, <1>7 DEF IsNet, W

(***************************************************************************)
(* What is left of a box when messages were read from it.                  *)
(***************************************************************************)
Remains(box, old) == box \in Seq(Message) /\ \A i \in DOMAIN box : \E j \in DOMAIN old : box[i] = old[j]

(***************************************************************************)
(* Connections that agree but for what is in the boxes.                    *)
(***************************************************************************)
LEMMA SamePaired ==
  ASSUME NEW N, NEW W, Paired(N), W.peer = N.peer
  PROVE  Paired(W)
  <1> SUFFICES ASSUME NEW a \in Node, NEW b \in Node, NEW i \in Sock, NEW j \in Sock,
                      W.peer[a][i] = <<b, j>>
               PROVE  a # b /\ W.peer[b][j] = <<a, i>>
    BY DEF Paired
  <1>1. N.peer[a][i] = <<b, j>>
    OBVIOUS
  <1>2. a # b /\ N.peer[b][j] = <<a, i>>
    BY <1>1 DEF Paired
  <1> QED
    BY <1>2

LEMMA BoxKeeps ==
  ASSUME NEW N, IsNet(N), NEW n \in Node, NEW k \in Open, NEW box, Remains(box, N.inbox[n][k])
  PROVE  /\ IsNet(WithBox(N, n, k, box))
         /\ \A x \in Node, y \in Sock : Kept(N, WithBox(N, n, k, box), x, y)
  <1> DEFINE W == WithBox(N, n, k, box)
  <1>0. k \in Sock /\ k \notin NotAccepted
    BY Names DEF Sock
  <1>1. N \in Nets /\ box \in Seq(Message)
    BY DEF IsNet, Remains
  <1>2. /\ W \in Nets /\ W.peer = N.peer /\ W.backlog = N.backlog
        /\ \A x \in Node, y \in Sock : W.inbox[x][y] = IF <<x, y>> = <<n, k>> THEN box ELSE N.inbox[x][y]
    BY <1>0, <1>1, BoxShape
  <1> HIDE DEF W
  <1>3. ASSUME NEW x \in Node, NEW y \in Sock, NEW s \in Node, Speaks(N, x, y, s)
        PROVE  Speaks(W, x, y, s)
    <2>1. CASE <<x, y>> = <<n, k>>
      <3>1. Honest(N.inbox[n][k], s)
        BY <1>3, <2>1 DEF Speaks
      <3>2. Honest(box, s)
        BY <3>1 DEF Honest, Remains
      <3> QED
        BY <1>2, <1>3, <2>1, <3>2 DEF Speaks, LeadsIn
    <2>2. CASE <<x, y>> # <<n, k>>
      BY <1>2, <1>3, <2>2 DEF Speaks, LeadsIn
    <2> QED
      BY <2>1, <2>2
  <1>4. \A x \in Node, y \in Sock : Kept(N, W, x, y)
    BY <1>2, <1>3 DEF Kept
  <1>5. Paired(W)
    BY <1>2, SamePaired DEF IsNet
  <1>6. Quiet(W)
    <2> SUFFICES ASSUME NEW x \in Node, NEW y \in Sock, W.peer[x][y] = Free PROVE W.inbox[x][y] = <<>>
      BY DEF Quiet
    <2>1. N.inbox[x][y] = <<>>
      BY <1>2 DEF IsNet, Quiet
    <2>2. CASE <<x, y>> = <<n, k>>
      <3>1. DOMAIN box = {}
        BY <2>1, <2>2 DEF Remains
      <3> QED
        BY <1>1, <1>2, <2>2, <3>1, EmptySeq
    <2> QED
      BY <1>2, <2>1, <2>2
  <1>7. ASSUME NEW x \in Node PROVE Waits(W, x)
    <2>1. Waits(N, x)
      BY DEF IsNet
    <2>2. ASSUME NEW j \in NotAccepted, N.peer[x][j] # Free PROVE Introduced(W, x, j)
      <3>0. j \in Sock /\ j # k
        BY <1>0 DEF Sock
      <3>1. Introduced(N, x, j)
        BY <2>1, <2>2 DEF Waits
      <3>2. W.inbox[x][j] = N.inbox[x][j]
        BY <1>2, <3>0
      <3> QED
        BY <1>3, <3>0, <3>1, <3>2 DEF Introduced
    <2> QED
      BY <1>2, <2>1, <2>2 DEF Waits
  <1> QED
    BY <1>2, <1>4, <1>5, <1>6, <1>7 DEF IsNet, W

(***************************************************************************)
(* Closing a socket.                                                       *)
(***************************************************************************)
LEMMA CloseShape ==
  ASSUME NEW N, N \in Nets, Paired(N), NEW n \in Node, NEW k \in Sock
  PROVE  /\ CloseSock(N, n, k) \in Nets
         /\ CloseSock(N, n, k).backlog = N.backlog
         /\ \A x \in Node, y \in Sock :
              /\ CloseSock(N, n, k).peer[x][y] =
                   IF <<x, y>> = <<n, k>> THEN Free
                   ELSE IF N.peer[n][k] = <<x, y>> THEN Gone ELSE N.peer[x][y]
              /\ CloseSock(N, n, k).inbox[x][y] = IF <<x, y>> = <<n, k>> THEN <<>> ELSE N.inbox[x][y]
  <1> DEFINE W == CloseSock(N, n, k)
             P == [N.peer EXCEPT ![n][k] = Free]
             B == [N.inbox EXCEPT ![n][k] = <<>>]
  <1>1. P \in [Node -> [Sock -> End \cup {Free, Gone}]]
        /\ \A x \in Node, y \in Sock : P[x][y] = IF <<x, y>> = <<n, k>> THEN Free ELSE N.peer[x][y]
    BY DEF Nets
  <1>2. B \in [Node -> [Sock -> Seq(Message)]]
        /\ \A x \in Node, y \in Sock : B[x][y] = IF <<x, y>> = <<n, k>> THEN <<>> ELSE N.inbox[x][y]
    BY EmptySeq DEF Nets
  <1>3. CASE N.peer[n][k] \in End
    <2>1. PICK a \in Node, b \in Sock : N.peer[n][k] = <<a, b>>
      BY <1>3 DEF End
    <2>2. a # n
      BY <2>1 DEF Paired
    <2> DEFINE Q == [P EXCEPT ![a][b] = Gone]
    <2>3. W = [peer |-> Q, inbox |-> B, backlog |-> N.backlog]
      BY <1>3, <2>1 DEF CloseSock
    <2>4. Q \in [Node -> [Sock -> End \cup {Free, Gone}]]
          /\ \A x \in Node, y \in Sock : Q[x][y] = IF <<x, y>> = <<a, b>> THEN Gone ELSE P[x][y]
      BY <1>1
    <2> HIDE DEF P, Q, B, W
    <2>5. W \in Nets
      BY <1>2, <2>3, <2>4 DEF Nets
    <2>6. W.peer = Q /\ W.inbox = B /\ W.backlog = N.backlog
      BY <2>3
    <2>7. \A x \in Node, y \in Sock : N.peer[n][k] = <<x, y>> <=> <<x, y>> = <<a, b>>
      BY <2>1
    <2>8. \A x \in Node, y \in Sock : <<x, y>> = <<a, b>> => <<x, y>> # <<n, k>>
      BY <2>2
    <2> QED
      BY <1>1, <1>2, <2>4, <2>5, <2>6, <2>7, <2>8 DEF W
  <1>4. CASE N.peer[n][k] \notin End
    <2>1. W = [peer |-> P, inbox |-> B, backlog |-> N.backlog]
      BY <1>4 DEF CloseSock
    <2>2. \A x \in Node, y \in Sock : N.peer[n][k] # <<x, y>>
      BY <1>4 DEF End
    <2> HIDE DEF P, B, W
    <2>3. W \in Nets
      BY <1>1, <1>2, <2>1 DEF Nets
    <2>4. W.peer = P /\ W.inbox = B /\ W.backlog = N.backlog
      BY <2>1
    <2> QED
      BY <1>1, <1>2, <2>2, <2>3, <2>4 DEF W
  <1> QED
    BY <1>3, <1>4

LEMMA CloseKeeps ==
  ASSUME NEW N, IsNet(N), NEW n \in Node, NEW k \in Open
  PROVE  /\ IsNet(CloseSock(N, n, k))
         /\ CloseSock(N, n, k).peer[n][k] = Free
         /\ CloseSock(N, n, k).backlog = N.backlog
         /\ \A x \in Node, y \in Sock : <<x, y>> # <<n, k>> => Kept(N, CloseSock(N, n, k), x, y)
  <1> DEFINE W == CloseSock(N, n, k)
  <1>0. k \in Sock /\ k \notin NotAccepted
    BY Names DEF Sock
  <1>1. N \in Nets /\ Paired(N)
    BY DEF IsNet
  <1>2. /\ W \in Nets /\ W.backlog = N.backlog
        /\ \A x \in Node, y \in Sock :
             /\ W.peer[x][y] = IF <<x, y>> = <<n, k>> THEN Free
                               ELSE IF N.peer[n][k] = <<x, y>> THEN Gone ELSE N.peer[x][y]
             /\ W.inbox[x][y] = IF <<x, y>> = <<n, k>> THEN <<>> ELSE N.inbox[x][y]
    BY <1>0, <1>1, CloseShape
  <1> HIDE DEF W
  <1>3. ASSUME NEW x \in Node, NEW y \in Sock, <<x, y>> # <<n, k>>
        PROVE  /\ W.peer[x][y] = N.peer[x][y] \/ (W.peer[x][y] = Gone /\ N.peer[x][y] = <<n, k>>)
               /\ W.inbox[x][y] = N.inbox[x][y]
               /\ N.peer[x][y] = Free <=> W.peer[x][y] = Free
               /\ \A s \in Node : Speaks(N, x, y, s) => Speaks(W, x, y, s)
    <2>1. W.inbox[x][y] = N.inbox[x][y]
      BY <1>2, <1>3
    <2>2. CASE N.peer[n][k] = <<x, y>>
      <3>1. W.peer[x][y] = Gone
        BY <1>2, <1>3, <2>2
      <3>2. N.peer[x][y] = <<n, k>> /\ <<n, k>> \in End
        BY <1>0, <1>1, <2>2 DEF Paired, End
      <3> QED
        BY <2>1, <3>1, <3>2, Names DEF Speaks, LeadsIn
    <2>3. CASE N.peer[n][k] # <<x, y>>
      <3>1. W.peer[x][y] = N.peer[x][y]
        BY <1>2, <1>3, <2>3
      <3> QED
        BY <2>1, <3>1 DEF Speaks, LeadsIn
    <2> QED
      BY <2>2, <2>3
  <1>4. \A x \in Node, y \in Sock : <<x, y>> # <<n, k>> => Kept(N, W, x, y)
    BY <1>3 DEF Kept
  <1>5. W.peer[n][k] = Free /\ W.inbox[n][k] = <<>>
    BY <1>0, <1>2
  <1>6. Paired(W)
    <2> SUFFICES ASSUME NEW a \in Node, NEW b \in Node, NEW i \in Sock, NEW j \in Sock,
                        W.peer[a][i] = <<b, j>>
                 PROVE  a # b /\ W.peer[b][j] = <<a, i>>
      BY DEF Paired
    <2>1. <<b, j>> \in End /\ <<a, i>> \in End
      BY DEF End
    <2>2. <<a, i>> # <<n, k>>
      BY <1>5, <2>1, Names
    <2>3. N.peer[a][i] = <<b, j>>
      BY <1>3, <2>1, <2>2, Names
    <2>4. a # b /\ N.peer[b][j] = <<a, i>>
      BY <1>1, <2>3 DEF Paired
    <2>5. <<b, j>> # <<n, k>>
      <3> SUFFICES ASSUME <<b, j>> = <<n, k>> PROVE FALSE
        OBVIOUS
      <3>1. N.peer[n][k] = <<a, i>>
        BY <2>4
      <3>2. W.peer[a][i] = Gone
        BY <1>2, <2>2, <3>1
      <3> QED
        BY <2>1, <3>2, Names
    <2>6. N.peer[n][k] # <<b, j>>
      <3> SUFFICES ASSUME N.peer[n][k] = <<b, j>> PROVE FALSE
        OBVIOUS
      <3>1. N.peer[b][j] = <<n, k>>
        BY <1>0, <1>1 DEF Paired
      <3> QED
        BY <2>2, <2>4, <3>1
    <2>7. W.peer[b][j] = N.peer[b][j]
      BY <1>2, <2>5, <2>6
    <2> QED
      BY <2>4, <2>7
  <1>7. Quiet(W)
    <2> SUFFICES ASSUME NEW x \in Node, NEW y \in Sock, W.peer[x][y] = Free PROVE W.inbox[x][y] = <<>>
      BY DEF Quiet
    <2> QED
      BY <1>3, <1>5 DEF IsNet, Quiet
  <1>8. ASSUME NEW x \in Node PROVE Waits(W, x)
    <2>1. Waits(N, x)
      BY DEF IsNet
    <2>2. ASSUME NEW j \in NotAccepted
          PROVE  /\ N.peer[x][j] = Free <=> W.peer[x][j] = Free
                 /\ Introduced(N, x, j) => Introduced(W, x, j)
      <3>1. j \in Sock /\ <<x, j>> # <<n, k>>
        BY <1>0 DEF Sock
      <3> QED
        BY <1>3, <3>1 DEF Introduced
    <2> QED
      BY <1>2, <2>1, <2>2 DEF Waits
  <1> QED
    BY <1>2, <1>4, <1>5, <1>6, <1>7, <1>8 DEF IsNet, W

(***************************************************************************)
(* The end of a process.                                                   *)
(***************************************************************************)
Silent(N, n) == N.backlog[n] = <<>> /\ \A k \in Sock : N.peer[n][k] = Free

LEMMA CloseAllKeeps ==
  ASSUME NEW N, IsNet(N), NEW n \in Node
  PROVE  /\ IsNet(CloseAll(N, n))
         /\ Silent(CloseAll(N, n), n)
         /\ \A x \in Node \ {n} : /\ CloseAll(N, n).backlog[x] = N.backlog[x]
                                  /\ \A y \in Sock : Kept(N, CloseAll(N, n), x, y)
  <1> DEFINE W == CloseAll(N, n)
             P == [m \in Node |-> [k \in Sock |->
                     IF m = n THEN Free
                     ELSE IF N.peer[m][k] \in {n} \X Sock THEN Gone ELSE N.peer[m][k]]]
             B == [N.inbox EXCEPT ![n] = [k \in Sock |-> <<>>]]
             L == [N.backlog EXCEPT ![n] = <<>>]
  <1>1. N \in Nets
    BY DEF IsNet
  <1>2. W.peer = P /\ W.inbox = B /\ W.backlog = L /\ W = [peer |-> P, inbox |-> B, backlog |-> L]
    BY DEF CloseAll
  <1>3. /\ P \in [Node -> [Sock -> End \cup {Free, Gone}]]
        /\ B \in [Node -> [Sock -> Seq(Message)]] /\ L \in [Node -> Seq(NotAccepted)]
    BY <1>1, EmptySeq DEF Nets
  <1>4. \A y \in Sock : P[n][y] = Free /\ B[n][y] = <<>>
    BY <1>1 DEF Nets
  <1>5. \A x \in Node \ {n}, y \in Sock :
          /\ P[x][y] = IF N.peer[x][y] \in {n} \X Sock THEN Gone ELSE N.peer[x][y]
          /\ B[x][y] = N.inbox[x][y] /\ L[x] = N.backlog[x]
    BY <1>1 DEF Nets
  <1>6. L[n] = <<>> /\ \A x \in Node \ {n} : L[x] = N.backlog[x]
    BY <1>1 DEF Nets
  <1> HIDE DEF P, B, L, W
  <1>7. W \in Nets
    BY <1>2, <1>3 DEF Nets
  <1>8. ASSUME NEW x \in Node \ {n}, NEW y \in Sock
        PROVE  /\ W.peer[x][y] = N.peer[x][y] \/ (W.peer[x][y] = Gone /\ N.peer[x][y] \in {n} \X Sock)
               /\ W.inbox[x][y] = N.inbox[x][y]
               /\ N.peer[x][y] = Free <=> W.peer[x][y] = Free
               /\ \A s \in Node : Speaks(N, x, y, s) => Speaks(W, x, y, s)
    <2>1. W.inbox[x][y] = N.inbox[x][y]
      BY <1>2, <1>5
    <2>2. W.peer[x][y] = N.peer[x][y] \/ (W.peer[x][y] = Gone /\ N.peer[x][y] \in {n} \X Sock)
      BY <1>2, <1>5
    <2>3. {n} \X Sock \subseteq End
      BY DEF End
    <2> QED
      BY <2>1, <2>2, <2>3, Names DEF Speaks, LeadsIn
  <1>9. \A x \in Node \ {n}, y \in Sock : Kept(N, W, x, y)
    BY <1>8 DEF Kept
  <1>10. Silent(W, n) /\ \A y \in Sock : W.inbox[n][y] = <<>>
    BY <1>2, <1>4, <1>6 DEF Silent
  <1>11. Paired(W)
    <2> SUFFICES ASSUME NEW a \in Node, NEW b \in Node, NEW i \in Sock, NEW j \in Sock,
                        W.peer[a][i] = <<b, j>>
                 PROVE  a # b /\ W.peer[b][j] = <<a, i>>
      BY DEF Paired
    <2>1. <<b, j>> \in End /\ <<a, i>> \in End
      BY DEF End
    <2>2. a # n
      BY <1>10, <2>1, Names DEF Silent
    <2>3. W.peer[a][i] = N.peer[a][i] /\ N.peer[a][i] \notin {n} \X Sock
      BY <1>2, <1>5, <2>1, <2>2, Names
    <2>4. b # n
      <3>1. <<b, j>> \notin {n} \X Sock
        BY <2>3
      <3> QED
        BY <3>1
    <2>5. a # b /\ N.peer[b][j] = <<a, i>>
      BY <2>3 DEF Paired, IsNet
    <2>6. N.peer[b][j] \notin {n} \X Sock
      BY <2>2, <2>5
    <2>7. W.peer[b][j] = N.peer[b][j]
      BY <1>2, <1>5, <2>4, <2>6
    <2> QED
      BY <2>5, <2>7
  <1>12. Quiet(W)
    <2> SUFFICES ASSUME NEW x \in Node, NEW y \in Sock, W.peer[x][y] = Free PROVE W.inbox[x][y] = <<>>
      BY DEF Quiet
    <2>1. CASE x = n
      BY <1>10, <2>1
    <2>2. CASE x # n
      BY <1>8, <2>2 DEF IsNet, Quiet
    <2> QED
      BY <2>1, <2>2
  <1>13. ASSUME NEW x \in Node PROVE Waits(W, x)
    <2>0. \A j \in NotAccepted : j \in Sock
      BY DEF Sock
    <2>1. CASE x = n
      <3>1. W.backlog[x] = <<>> /\ DOMAIN W.backlog[x] = {}
        BY <1>10, <2>1 DEF Silent
      <3> QED
        BY <1>10, <2>0, <2>1, <3>1 DEF Waits, Silent
    <2>2. CASE x # n
      <3>1. Waits(N, x) /\ W.backlog[x] = N.backlog[x]
        BY <1>2, <1>6, <2>2 DEF IsNet
      <3>2. ASSUME NEW j \in NotAccepted
            PROVE  /\ N.peer[x][j] = Free <=> W.peer[x][j] = Free
                   /\ Introduced(N, x, j) => Introduced(W, x, j)
        BY <1>8, <2>0, <2>2 DEF Introduced
      <3> QED
        BY <3>1, <3>2 DEF Waits
    <2> QED
      BY <2>1, <2>2
  <1> QED
    BY <1>2, <1>6, <1>7, <1>9, <1>10, <1>11, <1>12, <1>13 DEF IsNet, W

(***************************************************************************)
(* A set of numbers has a lowest one.                                      *)
(***************************************************************************)
LEMMA LowestIn ==
  ASSUME NEW S, S \subseteq Nat, S # {}
  PROVE  Lowest(S) \in S
  <1>1. \E x \in S : \A y \in S : <<y, x>> \notin OpToRel(<, Nat)
    BY NatLessThanWellFounded, WFMin
  <1>2. PICK x \in S : \A y \in S : <<y, x>> \notin OpToRel(<, Nat)
    BY <1>1
  <1>3. \A y \in S : x <= y
    <2> SUFFICES ASSUME NEW y \in S, ~(x <= y) PROVE FALSE
      OBVIOUS
    <2>1. y < x /\ x \in Nat /\ y \in Nat
      OBVIOUS
    <2>2. <<y, x>> \in OpToRel(<, Nat)
      BY <2>1 DEF OpToRel
    <2> QED
      BY <1>2, <2>2
  <1> QED
    BY <1>3 DEF Lowest

LEMMA FreeSocket ==
  ASSUME NEW N, NEW n, NEW S, S \subseteq Sock, FreeAmong(N, n, S) # {}
  PROVE  LET k == Lowest(FreeAmong(N, n, S)) IN k \in S /\ N.peer[n][k] = Free
  <1>1. FreeAmong(N, n, S) \subseteq Nat
    BY Names DEF FreeAmong, Sock
  <1>2. Lowest(FreeAmong(N, n, S)) \in FreeAmong(N, n, S)
    BY <1>1, LowestIn
  <1> QED
    BY <1>2 DEF FreeAmong

(***************************************************************************)
(* A router opens a connection to another one.                             *)
(***************************************************************************)
LEMMA ConnectedKeeps ==
  ASSUME NEW N, IsNet(N), NEW n \in Node, NEW s \in Node, n # s,
         FreeAmong(N, n, Open) # {}, FreeAmong(N, s, NotAccepted) # {}
  PROVE  LET k == Lowest(FreeAmong(N, n, Open))
             W == Connected(N, n, s)
         IN  /\ IsNet(W)
             /\ k \in Open /\ N.peer[n][k] = Free /\ W.peer[n][k] # Free /\ Speaks(W, n, k, s)
             /\ \A x \in Node, y \in Open : <<x, y>> # <<n, k>> => Kept(N, W, x, y)
             /\ \A x \in Node \ {s} : W.backlog[x] = N.backlog[x]
             /\ \A x \in Node \ {n, s}, y \in Sock : Kept(N, W, x, y)
  <1> DEFINE k == Lowest(FreeAmong(N, n, Open))
             j == Lowest(FreeAmong(N, s, NotAccepted))
             W == Connected(N, n, s)
             P == [N.peer EXCEPT ![n][k] = <<s, j>>, ![s][j] = <<n, k>>]
             B == [N.inbox EXCEPT ![s][j] = <<LinkMessage(n)>>]
             L == [N.backlog EXCEPT ![s] = Append(N.backlog[s], j)]
  <1>1. N \in Nets /\ Paired(N)
    BY DEF IsNet
  <1>2. /\ k \in Open /\ k \in Sock /\ N.peer[n][k] = Free
        /\ j \in NotAccepted /\ j \in Sock /\ N.peer[s][j] = Free /\ j # k
    BY FreeSocket, Names DEF Sock
  <1>3. W.peer = P /\ W.inbox = B /\ W.backlog = L /\ W = [peer |-> P, inbox |-> B, backlog |-> L]
    BY DEF Connected
  <1> HIDE DEF k, j, W
  <1>4. <<s, j>> \in End /\ <<n, k>> \in End
    BY <1>2 DEF End
  <1>5. /\ P \in [Node -> [Sock -> End \cup {Free, Gone}]]
        /\ \A x \in Node, y \in Sock :
             P[x][y] = IF <<x, y>> = <<n, k>> THEN <<s, j>> ELSE IF <<x, y>> = <<s, j>> THEN <<n, k>>
                       ELSE N.peer[x][y]
    BY <1>1, <1>2, <1>4 DEF Nets
  <1>6. /\ B \in [Node -> [Sock -> Seq(Message)]]
        /\ \A x \in Node, y \in Sock :
             B[x][y] = IF <<x, y>> = <<s, j>> THEN <<LinkMessage(n)>> ELSE N.inbox[x][y]
    <2>1. <<LinkMessage(n)>> \in Seq(Message)
      BY DEF Message
    <2> QED
      BY <1>1, <1>2, <2>1 DEF Nets
  <1>7. /\ L \in [Node -> Seq(NotAccepted)] /\ L[s] = Append(N.backlog[s], j)
        /\ \A x \in Node \ {s} : L[x] = N.backlog[x]
    <2>1. Append(N.backlog[s], j) \in Seq(NotAccepted)
      BY <1>1, <1>2, NetTypes, AppendProperties
    <2> QED
      BY <1>1, <2>1 DEF Nets
  <1> HIDE DEF P, B, L
  <1>8. W \in Nets
    BY <1>3, <1>5, <1>6, <1>7 DEF Nets
  <1>9. ASSUME NEW x \in Node, NEW y \in Sock, <<x, y>> # <<n, k>>, <<x, y>> # <<s, j>>
        PROVE  W.peer[x][y] = N.peer[x][y] /\ W.inbox[x][y] = N.inbox[x][y]
    BY <1>3, <1>5, <1>6, <1>9
  <1>10. \A x \in Node, y \in Sock : <<x, y>> # <<n, k>> /\ <<x, y>> # <<s, j>> => Kept(N, W, x, y)
    BY <1>9 DEF Kept, Speaks, LeadsIn
  <1>11. /\ W.peer[n][k] = <<s, j>> /\ W.peer[s][j] = <<n, k>>
         /\ W.inbox[s][j] = <<LinkMessage(n)>> /\ W.inbox[n][k] = N.inbox[n][k]
    BY <1>2, <1>3, <1>5, <1>6
  <1>12. W.peer[n][k] # Free /\ W.peer[s][j] # Free
    BY <1>4, <1>11, Names
  <1>13. Speaks(W, n, k, s)
    <2>1. W.inbox[n][k] = <<>> /\ DOMAIN W.inbox[n][k] = {}
      BY <1>2, <1>11, EmptySeq DEF IsNet, Quiet
    <2> QED
      BY <1>2, <1>11, <2>1 DEF Speaks, LeadsIn, Honest
  <1>14. Speaks(W, s, j, n) /\ Introduced(W, s, j)
    <2>1. DOMAIN <<LinkMessage(n)>> = {1} /\ <<LinkMessage(n)>>[1] = LinkMessage(n)
      OBVIOUS
    <2>2. LinkMessage(n).type # "vector"
      BY DEF LinkMessage
    <2>3. Honest(<<LinkMessage(n)>>, n)
      BY <2>1, <2>2 DEF Honest
    <2>4. Speaks(W, s, j, n)
      BY <1>2, <1>11, <2>3 DEF Speaks, LeadsIn
    <2> QED
      BY <1>11, <2>1, <2>4 DEF Introduced
  <1>15. Paired(W)
    <2> SUFFICES ASSUME NEW a \in Node, NEW b \in Node, NEW i \in Sock, NEW l \in Sock,
                        W.peer[a][i] = <<b, l>>
                 PROVE  a # b /\ W.peer[b][l] = <<a, i>>
      BY DEF Paired
    <2>1. CASE <<a, i>> = <<n, k>>
      BY <1>11, <2>1
    <2>2. CASE <<a, i>> = <<s, j>>
      BY <1>11, <2>2
    <2>3. CASE <<a, i>> # <<n, k>> /\ <<a, i>> # <<s, j>>
      <3>1. N.peer[a][i] = <<b, l>>
        BY <1>9, <2>3
      <3>2. a # b /\ N.peer[b][l] = <<a, i>>
        BY <1>1, <3>1 DEF Paired
      <3>3. <<a, i>> \in End
        BY DEF End
      <3>4. <<b, l>> # <<n, k>> /\ <<b, l>> # <<s, j>>
        BY <1>2, <3>2, <3>3, Names
      <3> QED
        BY <1>9, <3>2, <3>4
    <2> QED
      BY <2>1, <2>2, <2>3
  <1>16. Quiet(W)
    <2> SUFFICES ASSUME NEW x \in Node, NEW y \in Sock, W.peer[x][y] = Free PROVE W.inbox[x][y] = <<>>
      BY DEF Quiet
    <2>1. <<x, y>> # <<n, k>> /\ <<x, y>> # <<s, j>>
      BY <1>12
    <2> QED
      BY <1>9, <2>1 DEF IsNet, Quiet
  <1>17. ASSUME NEW x \in Node PROVE Waits(W, x)
    <2>0. Waits(N, x)
      BY DEF IsNet
    <2>1. ASSUME NEW y \in NotAccepted, <<x, y>> # <<s, j>>
          PROVE  /\ N.peer[x][y] = Free <=> W.peer[x][y] = Free
                 /\ Introduced(N, x, y) => Introduced(W, x, y)
      <3>1. y \in Sock /\ <<x, y>> # <<n, k>>
        BY <1>2, Names DEF Sock
      <3> QED
        BY <1>9, <2>1, <3>1 DEF Introduced, Speaks, LeadsIn
    <2>2. CASE x # s
      <3>1. W.backlog[x] = N.backlog[x]
        BY <1>3, <1>7, <2>2
      <3> QED
        BY <2>0, <2>1, <2>2, <3>1 DEF Waits
    <2>3. CASE x = s
      <3> DEFINE old == N.backlog[s]
                 new == W.backlog[s]
      <3>1. old \in Seq(NotAccepted) /\ new = Append(old, j)
        BY <1>1, <1>3, <1>7, NetTypes
      <3>2. /\ Len(old) \in Nat /\ DOMAIN old = 1..Len(old) /\ DOMAIN new = 1..(Len(old) + 1)
            /\ new[Len(old) + 1] = j /\ \A i \in 1..Len(old) : new[i] = old[i]
        BY <1>2, <3>1, AppendProperties, LenProperties
      <3>3. \A i \in 1..Len(old) : old[i] # j
        BY <1>2, <2>0, <2>3, <3>2 DEF Waits
      <3> HIDE DEF old, new
      <3>4. \A a, b \in DOMAIN new : new[a] = new[b] => a = b
        <4> SUFFICES ASSUME NEW a \in 1..(Len(old) + 1), NEW b \in 1..(Len(old) + 1), new[a] = new[b]
                     PROVE  a = b
          BY <3>2
        <4>1. \A c, d \in 1..Len(old) : old[c] = old[d] => c = d
          BY <2>0, <2>3, <3>2 DEF Waits, old
        <4> QED
          BY <3>2, <3>3, <4>1
      <3>5. ASSUME NEW y \in NotAccepted
            PROVE  W.peer[s][y] # Free <=> \E i \in DOMAIN new : new[i] = y
        <4>1. CASE y = j
          <5>1. Len(old) + 1 \in DOMAIN new
            BY <3>2
          <5> QED
            BY <1>12, <3>2, <4>1, <5>1
        <4>2. CASE y # j
          <5>1. N.peer[s][y] # Free <=> \E i \in DOMAIN old : old[i] = y
            BY <2>0, <2>3 DEF Waits, old
          <5>2. (\E i \in DOMAIN old : old[i] = y) <=> (\E i \in DOMAIN new : new[i] = y)
            BY <3>2, <4>2
          <5>3. N.peer[s][y] = Free <=> W.peer[s][y] = Free
            BY <2>1, <2>3, <4>2
          <5> QED
            BY <5>1, <5>2, <5>3
        <4> QED
          BY <4>1, <4>2
      <3>6. ASSUME NEW y \in NotAccepted, W.peer[s][y] # Free PROVE Introduced(W, s, y)
        <4>1. CASE y = j
          BY <1>14, <4>1
        <4>2. CASE y # j
          BY <2>0, <2>1, <2>3, <3>6, <4>2 DEF Waits
        <4> QED
          BY <4>1, <4>2
      <3> QED
        BY <2>3, <3>4, <3>5, <3>6 DEF Waits, new
    <2> QED
      BY <2>2, <2>3
  <1>18. IsNet(W)
    BY <1>8, <1>15, <1>16, <1>17 DEF IsNet
  <1>19. \A x \in Node, y \in Open : <<x, y>> # <<n, k>> => Kept(N, W, x, y)
    <2>1. \A y \in Open : y \in Sock /\ y # j
      BY <1>2, Names DEF Sock
    <2> QED
      BY <1>10, <2>1
  <1>20. /\ \A x \in Node \ {s} : W.backlog[x] = N.backlog[x]
         /\ \A x \in Node \ {n, s}, y \in Sock : Kept(N, W, x, y)
    BY <1>3, <1>7, <1>10
  <1> QED
    BY <1>2, <1>12, <1>13, <1>18, <1>19, <1>20 DEF W, k

(***************************************************************************)
(* The first connection of the backlog is accepted.                        *)
(***************************************************************************)
LEMMA AcceptedShape ==
  ASSUME NEW N, IsNet(N), NEW n \in Node, N.backlog[n] # <<>>, FreeAmong(N, n, Open) # {}
  PROVE  LET j == Head(N.backlog[n])
             k == Lowest(FreeAmong(N, n, Open))
             W == Accepted(N, n)
         IN  /\ j \in NotAccepted /\ j \in Sock /\ k \in Open /\ k \in Sock /\ j # k
             /\ N.peer[n][k] = Free /\ N.peer[n][j] # Free /\ Introduced(N, n, j)
             /\ W \in Nets
             /\ W.backlog[n] = Tail(N.backlog[n])
             /\ \A x \in Node \ {n} : W.backlog[x] = N.backlog[x]
             /\ \A x \in Node, y \in Sock :
                  /\ W.peer[x][y] =
                       IF <<x, y>> = <<n, k>> THEN N.peer[n][j]
                       ELSE IF <<x, y>> = <<n, j>> THEN Free
                       ELSE IF N.peer[n][j] = <<x, y>> THEN <<n, k>> ELSE N.peer[x][y]
                  /\ W.inbox[x][y] =
                       IF <<x, y>> = <<n, k>> THEN N.inbox[n][j]
                       ELSE IF <<x, y>> = <<n, j>> THEN <<>> ELSE N.inbox[x][y]
  <1> DEFINE j == Head(N.backlog[n])
             k == Lowest(FreeAmong(N, n, Open))
             W == Accepted(N, n)
             there == N.peer[n][j]
             P == [N.peer EXCEPT ![n][k] = there, ![n][j] = Free]
             B == [N.inbox EXCEPT ![n][k] = N.inbox[n][j], ![n][j] = <<>>]
             L == [N.backlog EXCEPT ![n] = Tail(@)]
  <1>1. N \in Nets /\ Paired(N) /\ Waits(N, n)
    BY DEF IsNet
  <1>2. /\ N.backlog[n] \in Seq(NotAccepted) /\ j \in NotAccepted /\ 1 \in DOMAIN N.backlog[n]
        /\ N.backlog[n][1] = j /\ Tail(N.backlog[n]) \in Seq(NotAccepted)
    <2>1. N.backlog[n] \in Seq(NotAccepted)
      BY <1>1, NetTypes
    <2> QED
      BY <2>1
  <1>3. N.peer[n][j] # Free /\ Introduced(N, n, j)
    BY <1>1, <1>2 DEF Waits
  <1>4. /\ k \in Open /\ k \in Sock /\ N.peer[n][k] = Free /\ j \in Sock /\ j # k
    <2>1. k \in Open /\ N.peer[n][k] = Free
      BY FreeSocket DEF Sock
    <2> HIDE DEF k, j
    <2> QED
      BY <1>2, <2>1, Names DEF Sock
  <1> HIDE DEF k, j
  <1>5. /\ P \in [Node -> [Sock -> End \cup {Free, Gone}]]
        /\ \A x \in Node, y \in Sock :
             P[x][y] = IF <<x, y>> = <<n, j>> THEN Free ELSE IF <<x, y>> = <<n, k>> THEN N.peer[n][j]
                       ELSE N.peer[x][y]
    BY <1>1, <1>4 DEF Nets
  <1>6. /\ B \in [Node -> [Sock -> Seq(Message)]]
        /\ \A x \in Node, y \in Sock :
             B[x][y] = IF <<x, y>> = <<n, j>> THEN <<>> ELSE IF <<x, y>> = <<n, k>> THEN N.inbox[n][j]
                       ELSE N.inbox[x][y]
    BY <1>1, <1>4, EmptySeq DEF Nets
  <1>7. /\ L \in [Node -> Seq(NotAccepted)] /\ L[n] = Tail(N.backlog[n])
        /\ \A x \in Node \ {n} : L[x] = N.backlog[x]
    BY <1>1, <1>2 DEF Nets
  <1>8. CASE there \in End
    <2>1. PICK a \in Node, b \in Sock : there = <<a, b>>
      BY <1>8 DEF End
    <2>2. a # n
      BY <1>1, <1>4, <2>1 DEF Paired
    <2> DEFINE Q == [P EXCEPT ![a][b] = <<n, k>>]
    <2>3. W = [peer |-> Q, inbox |-> B, backlog |-> L]
      BY <1>8, <2>1 DEF Accepted, k, j
    <2>4. <<n, k>> \in End
      BY <1>4 DEF End
    <2>5. Q \in [Node -> [Sock -> End \cup {Free, Gone}]]
          /\ \A x \in Node, y \in Sock : Q[x][y] = IF <<x, y>> = <<a, b>> THEN <<n, k>> ELSE P[x][y]
      BY <1>5, <2>4
    <2> HIDE DEF P, Q, B, L, W
    <2>6. W \in Nets
      BY <1>6, <1>7, <2>3, <2>5 DEF Nets
    <2>7. W.peer = Q /\ W.inbox = B /\ W.backlog = L
      BY <2>3
    <2>8. \A x \in Node, y \in Sock : N.peer[n][j] = <<x, y>> <=> <<x, y>> = <<a, b>>
      BY <2>1
    <2>9. \A x \in Node, y \in Sock : <<x, y>> = <<a, b>> => <<x, y>> # <<n, k>> /\ <<x, y>> # <<n, j>>
      BY <2>2
    <2>10. <<n, k>> # <<n, j>>
      BY <1>4
    <2>11. ASSUME NEW x \in Node, NEW y \in Sock
           PROVE  /\ W.peer[x][y] =
                       IF <<x, y>> = <<n, k>> THEN N.peer[n][j]
                       ELSE IF <<x, y>> = <<n, j>> THEN Free
                       ELSE IF N.peer[n][j] = <<x, y>> THEN <<n, k>> ELSE N.peer[x][y]
                  /\ W.inbox[x][y] =
                       IF <<x, y>> = <<n, k>> THEN N.inbox[n][j]
                       ELSE IF <<x, y>> = <<n, j>> THEN <<>> ELSE N.inbox[x][y]
      <3>1. CASE <<x, y>> = <<n, k>>
        BY <1>5, <1>6, <2>5, <2>7, <2>9, <2>10, <3>1
      <3>2. CASE <<x, y>> = <<n, j>>
        BY <1>5, <1>6, <2>5, <2>7, <2>9, <2>10, <3>2
      <3>3. CASE <<x, y>> # <<n, k>> /\ <<x, y>> # <<n, j>>
        <4>1. P[x][y] = N.peer[x][y] /\ B[x][y] = N.inbox[x][y]
          BY <1>5, <1>6, <3>3
        <4> QED
          BY <2>5, <2>7, <2>8, <3>3, <4>1
      <3> QED
        BY <3>1, <3>2, <3>3
    <2> QED
      BY <1>2, <1>3, <1>4, <1>7, <2>6, <2>7, <2>11 DEF W, k, j
  <1>9. CASE there \notin End
    <2>1. W = [peer |-> P, inbox |-> B, backlog |-> L]
      BY <1>9 DEF Accepted, k, j
    <2> HIDE DEF P, B, L, W
    <2>2. ASSUME NEW x \in Node, NEW y \in Sock PROVE N.peer[n][j] # <<x, y>>
      <3>1. <<x, y>> \in End
        BY DEF End
      <3> QED
        BY <1>9, <3>1
    <2>3. W \in Nets
      BY <1>5, <1>6, <1>7, <2>1 DEF Nets
    <2>4. W.peer = P /\ W.inbox = B /\ W.backlog = L
      BY <2>1
    <2>5. <<n, k>> # <<n, j>>
      BY <1>4
    <2>6. ASSUME NEW x \in Node, NEW y \in Sock
          PROVE  /\ W.peer[x][y] =
                      IF <<x, y>> = <<n, k>> THEN N.peer[n][j]
                      ELSE IF <<x, y>> = <<n, j>> THEN Free
                      ELSE IF N.peer[n][j] = <<x, y>> THEN <<n, k>> ELSE N.peer[x][y]
                 /\ W.inbox[x][y] =
                      IF <<x, y>> = <<n, k>> THEN N.inbox[n][j]
                      ELSE IF <<x, y>> = <<n, j>> THEN <<>> ELSE N.inbox[x][y]
      BY <1>5, <1>6, <2>2, <2>4, <2>5
    <2> QED
      BY <1>2, <1>3, <1>4, <1>7, <2>3, <2>4, <2>6 DEF W, k, j
  <1> QED
    BY <1>8, <1>9

(***************************************************************************)
(* What is left of a sequence once its first element is taken.             *)
(***************************************************************************)
LEMMA TailAt ==
  ASSUME NEW S, NEW q \in Seq(S), q # <<>>
  PROVE  /\ Len(q) \in Nat \ {0} /\ DOMAIN q = 1..Len(q) /\ q[1] = Head(q)
         /\ DOMAIN Tail(q) = 1..(Len(q) - 1)
         /\ \A i \in 1..(Len(q) - 1) : Tail(q)[i] = q[i + 1]
  OBVIOUS

(***************************************************************************)
(* Where the client of the new socket comes from.                          *)
(***************************************************************************)
LEMMA AcceptedKeeps ==
  ASSUME NEW N, IsNet(N), NEW n \in Node, N.backlog[n] # <<>>, FreeAmong(N, n, Open) # {}
  PROVE  LET k == Lowest(FreeAmong(N, n, Open))
             W == Accepted(N, n)
         IN  /\ IsNet(W)
             /\ k \in Open /\ N.peer[n][k] = Free /\ W.peer[n][k] # Free
             /\ W.inbox[n][k] # <<>>
             /\ \E s \in Node \ {n} : W.inbox[n][k][1] = LinkMessage(s) /\ Speaks(W, n, k, s)
             /\ \A x \in Node, y \in Open : <<x, y>> # <<n, k>> => Kept(N, W, x, y)
             /\ \A x \in Node \ {n} : /\ W.backlog[x] = N.backlog[x]
                                      /\ \A y \in Sock : Kept(N, W, x, y)
  <1> DEFINE j == Head(N.backlog[n])
             k == Lowest(FreeAmong(N, n, Open))
             W == Accepted(N, n)
             old == N.backlog[n]
             new == W.backlog[n]
  <1>0. N \in Nets /\ Paired(N) /\ Quiet(N) /\ Waits(N, n)
    BY DEF IsNet
  <1>1. /\ j \in NotAccepted /\ j \in Sock /\ k \in Open /\ k \in Sock /\ j # k
        /\ N.peer[n][k] = Free /\ N.peer[n][j] # Free /\ Introduced(N, n, j)
        /\ W \in Nets
        /\ new = Tail(old)
        /\ \A x \in Node \ {n} : W.backlog[x] = N.backlog[x]
        /\ \A x \in Node, y \in Sock :
             /\ W.peer[x][y] =
                  IF <<x, y>> = <<n, k>> THEN N.peer[n][j]
                  ELSE IF <<x, y>> = <<n, j>> THEN Free
                  ELSE IF N.peer[n][j] = <<x, y>> THEN <<n, k>> ELSE N.peer[x][y]
             /\ W.inbox[x][y] =
                  IF <<x, y>> = <<n, k>> THEN N.inbox[n][j]
                  ELSE IF <<x, y>> = <<n, j>> THEN <<>> ELSE N.inbox[x][y]
    BY AcceptedShape
  <1>2. /\ old \in Seq(NotAccepted) /\ old[1] = j /\ Len(old) \in Nat \ {0} /\ DOMAIN old = 1..Len(old)
        /\ DOMAIN new = 1..(Len(old) - 1) /\ \A i \in 1..(Len(old) - 1) : new[i] = old[i + 1]
    <2>1. old \in Seq(NotAccepted) /\ old # <<>> /\ Head(old) = j
      BY <1>0, NetTypes
    <2>2. new = Tail(old)
      BY <1>1
    <2> HIDE DEF old, new, j
    <2> QED
      BY <2>1, <2>2, TailAt
  <1> HIDE DEF k, j, W, old, new
  <1>3. /\ W.peer[n][k] = N.peer[n][j] /\ W.peer[n][j] = Free
        /\ W.inbox[n][k] = N.inbox[n][j] /\ W.inbox[n][j] = <<>>
    <2>1. <<n, j>> # <<n, k>>
      BY <1>1
    <2> QED
      BY <1>1, <2>1
  <1>4. ASSUME NEW x \in Node, NEW y \in Sock, <<x, y>> # <<n, k>>, <<x, y>> # <<n, j>>
        PROVE  /\ W.inbox[x][y] = N.inbox[x][y]
               /\ W.peer[x][y] = N.peer[x][y] \/ (W.peer[x][y] = <<n, k>> /\ N.peer[x][y] = <<n, j>>)
               /\ Kept(N, W, x, y)
    <2>1. W.inbox[x][y] = N.inbox[x][y]
      BY <1>1, <1>4
    <2>2. CASE N.peer[n][j] = <<x, y>>
      <3>1. W.peer[x][y] = <<n, k>>
        BY <1>1, <1>4, <2>2
      <3>2. N.peer[x][y] = <<n, j>>
        BY <1>0, <1>1, <2>2 DEF Paired
      <3>3. <<n, k>> \in End /\ <<n, j>> \in End
        BY <1>1 DEF End
      <3>4. \A s : Speaks(N, x, y, s) => Speaks(W, x, y, s)
        BY <1>1, <2>1, <3>1, <3>2, <3>3, Names DEF Speaks, LeadsIn
      <3> QED
        BY <2>1, <3>1, <3>2, <3>3, <3>4, Names DEF Kept
    <2>3. CASE N.peer[n][j] # <<x, y>>
      <3>1. W.peer[x][y] = N.peer[x][y]
        BY <1>1, <1>4, <2>3
      <3> QED
        BY <2>1, <3>1 DEF Kept, Speaks, LeadsIn
    <2> QED
      BY <2>2, <2>3
  <1>5. PICK s \in Node \ {n} : N.inbox[n][j][1] = LinkMessage(s) /\ Speaks(N, n, j, s)
    BY <1>1 DEF Introduced
  <1>6. /\ W.inbox[n][k] # <<>> /\ W.inbox[n][k][1] = LinkMessage(s) /\ Speaks(W, n, k, s)
        /\ W.peer[n][k] # Free
    BY <1>1, <1>3, <1>5 DEF Introduced, Speaks, LeadsIn
  <1>7. Paired(W)
    <2> SUFFICES ASSUME NEW a \in Node, NEW b \in Node, NEW i \in Sock, NEW l \in Sock,
                        W.peer[a][i] = <<b, l>>
                 PROVE  a # b /\ W.peer[b][l] = <<a, i>>
      BY DEF Paired
    <2>0. <<a, i>> \in End /\ <<b, l>> \in End /\ <<n, k>> \in End /\ <<n, j>> \in End
      BY <1>1 DEF End
    <2>1. CASE <<a, i>> = <<n, k>>
      <3>1. N.peer[n][j] = <<b, l>>
        BY <1>3, <2>1
      <3>2. n # b
        BY <1>0, <1>1, <3>1 DEF Paired
      <3>3. W.peer[b][l] = <<n, k>>
        BY <1>1, <3>1, <3>2
      <3> QED
        BY <2>1, <3>2, <3>3
    <2>2. <<a, i>> # <<n, j>>
      BY <1>3, <2>0, Names
    <2>3. CASE <<a, i>> # <<n, k>> /\ N.peer[n][j] = <<a, i>>
      <3>1. W.peer[a][i] = <<n, k>> /\ a # n
        BY <1>0, <1>1, <2>2, <2>3 DEF Paired
      <3>2. b = n /\ l = k
        BY <3>1
      <3> QED
        BY <1>3, <2>3, <3>1, <3>2
    <2>4. CASE <<a, i>> # <<n, k>> /\ N.peer[n][j] # <<a, i>>
      <3>1. N.peer[a][i] = <<b, l>>
        BY <1>1, <2>2, <2>4
      <3>2. a # b /\ N.peer[b][l] = <<a, i>>
        BY <1>0, <3>1, SMTT(30) DEF Paired
      <3>3. <<b, l>> # <<n, k>>
        BY <1>1, <2>0, <3>2, Names
      <3>4. <<b, l>> # <<n, j>>
        BY <2>4, <3>2
      <3>5. W.peer[b][l] = N.peer[b][l] \/ (W.peer[b][l] = <<n, k>> /\ N.peer[b][l] = <<n, j>>)
        BY <1>4, <3>3, <3>4
      <3> QED
        BY <2>2, <3>2, <3>5
    <2> QED
      BY <2>1, <2>3, <2>4
  <1>8. Quiet(W)
    <2> SUFFICES ASSUME NEW x \in Node, NEW y \in Sock, W.peer[x][y] = Free PROVE W.inbox[x][y] = <<>>
      BY DEF Quiet
    <2>1. <<x, y>> # <<n, k>>
      BY <1>6
    <2>2. CASE <<x, y>> = <<n, j>>
      BY <1>3, <2>2
    <2>3. CASE <<x, y>> # <<n, j>>
      BY <1>0, <1>4, <2>1, <2>3 DEF Quiet, Kept
    <2> QED
      BY <2>2, <2>3
  <1>9. ASSUME NEW x \in Node PROVE Waits(W, x)
    <2>0. Waits(N, x)
      BY DEF IsNet
    <2>1. ASSUME NEW y \in NotAccepted, <<x, y>> # <<n, j>>
          PROVE  /\ N.peer[x][y] = Free <=> W.peer[x][y] = Free
                 /\ Introduced(N, x, y) => Introduced(W, x, y)
      <3>1. y \in Sock /\ <<x, y>> # <<n, k>>
        BY <1>1, Names DEF Sock
      <3> QED
        BY <1>4, <2>1, <3>1 DEF Introduced, Kept
    <2>2. CASE x # n
      <3>1. W.backlog[x] = N.backlog[x]
        BY <1>1, <2>2
      <3> QED
        BY <2>0, <2>1, <2>2, <3>1 DEF Waits
    <2>3. CASE x = n
      <3>1. \A c, d \in 1..Len(old) : old[c] = old[d] => c = d
        BY <1>0, <1>2 DEF Waits, old
      <3>2. \A a, b \in DOMAIN new : new[a] = new[b] => a = b
        <4> SUFFICES ASSUME NEW a \in 1..(Len(old) - 1), NEW b \in 1..(Len(old) - 1), new[a] = new[b]
                     PROVE  a = b
          BY <1>2
        <4>1. a + 1 \in 1..Len(old) /\ b + 1 \in 1..Len(old)
          BY <1>2
        <4>2. old[a + 1] = old[b + 1]
          BY <1>2
        <4>3. a + 1 = b + 1
          BY <3>1, <4>1, <4>2
        <4> QED
          BY <4>3
      <3>3. ASSUME NEW y \in NotAccepted
            PROVE  W.peer[n][y] # Free <=> \E i \in DOMAIN new : new[i] = y
        <4>1. CASE y = j
          <5>1. ASSUME NEW i \in 1..(Len(old) - 1), new[i] = j PROVE FALSE
            <6>1. i + 1 \in 1..Len(old) /\ 1 \in 1..Len(old) /\ old[i + 1] = old[1] /\ i + 1 # 1
              BY <1>2, <5>1
            <6> QED
              BY <3>1, <6>1
          <5> QED
            BY <1>2, <1>3, <4>1, <5>1
        <4>2. CASE y # j
          <5>1. N.peer[n][y] # Free <=> \E i \in 1..Len(old) : old[i] = y
            BY <1>0, <1>2 DEF Waits, old
          <5>2. ASSUME NEW i \in 1..Len(old), old[i] = y
                PROVE  \E l \in 1..(Len(old) - 1) : new[l] = y
            <6>1. i - 1 \in 1..(Len(old) - 1) /\ (i - 1) + 1 = i
              BY <1>2, <4>2, <5>2
            <6> QED
              BY <1>2, <5>2, <6>1
          <5>3. ASSUME NEW i \in 1..(Len(old) - 1), new[i] = y
                PROVE  \E l \in 1..Len(old) : old[l] = y
            <6>1. i + 1 \in 1..Len(old) /\ old[i + 1] = y
              BY <1>2, <5>3
            <6> QED
              BY <6>1
          <5>4. N.peer[n][y] = Free <=> W.peer[n][y] = Free
            <6>1. <<n, y>> # <<n, j>>
              BY <4>2
            <6> QED
              BY <2>1, <2>3, <6>1
          <5> QED
            BY <1>2, <5>1, <5>2, <5>3, <5>4
        <4> QED
          BY <4>1, <4>2
      <3>4. ASSUME NEW y \in NotAccepted, W.peer[n][y] # Free PROVE Introduced(W, n, y)
        <4>1. <<n, y>> # <<n, j>>
          BY <1>3, <3>4
        <4>2. N.peer[n][y] # Free /\ (Introduced(N, n, y) => Introduced(W, n, y))
          BY <2>1, <2>3, <3>4, <4>1
        <4> QED
          BY <1>0, <4>2 DEF Waits
      <3> QED
        BY <2>3, <3>2, <3>3, <3>4 DEF Waits, new
    <2> QED
      BY <2>2, <2>3
  <1>10. IsNet(W)
    BY <1>1, <1>7, <1>8, <1>9 DEF IsNet
  <1>11. \A x \in Node, y \in Open : <<x, y>> # <<n, k>> => Kept(N, W, x, y)
    <2>1. \A y \in Open : y \in Sock /\ y # j
      BY <1>1, Names DEF Sock
    <2> QED
      BY <1>4, <2>1
  <1>12. \A x \in Node \ {n} : W.backlog[x] = N.backlog[x] /\ \A y \in Sock : Kept(N, W, x, y)
    BY <1>1, <1>4
  <1> QED
    BY <1>1, <1>6, <1>10, <1>11, <1>12 DEF W, k

------------------------------------------------------------------------------
(***************************************************************************)
(* The array of clients of n, on the connections N: the controller first,  *)
(* then a client for each socket in use and no two for the same, and a     *)
(* client is spoken to by the router whose id it has, but for the sockets  *)
(* B, where the id was left unset.  The slots beyond nb hold what removals *)
(* left, which a pointer may still lead to.                                *)
(***************************************************************************)
Client == [sock : Open \cup {1}, id : Name]

Arrays == [slot : Seq(Client), nb : Nat]

Houses(N, C, n, B) ==
  /\ C.nb \in 1..Len(C.slot)
  /\ C.slot[1] = [sock |-> 1, id |-> Controller]
  /\ \A i \in 2..Len(C.slot) : C.slot[i].sock \in Open /\ C.slot[i].id \in Name \ {n}
  /\ \A i, j \in 2..C.nb : C.slot[i].sock = C.slot[j].sock => i = j
  /\ \A k \in Open : N.peer[n][k] # Free <=> \E i \in 2..C.nb : C.slot[i].sock = k
  /\ \A i \in 2..C.nb : C.slot[i].sock \notin B =>
       C.slot[i].id \in Node /\ Speaks(N, n, C.slot[i].sock, C.slot[i].id)

LEMMA ArrayTypes ==
  ASSUME NEW C \in Arrays
  PROVE  /\ C = [slot |-> C.slot, nb |-> C.nb] /\ C.slot \in Seq(Client) /\ C.nb \in Nat
         /\ Len(C.slot) \in Nat /\ DOMAIN C.slot = 1..Len(C.slot)
         /\ \A i \in 1..Len(C.slot) : /\ C.slot[i] \in Client
                                      /\ C.slot[i] = [sock |-> C.slot[i].sock, id |-> C.slot[i].id]
  <1>1. C.slot \in Seq(Client) /\ C.nb \in Nat /\ C = [slot |-> C.slot, nb |-> C.nb]
    BY DEF Arrays
  <1>2. Len(C.slot) \in Nat /\ DOMAIN C.slot = 1..Len(C.slot)
    BY <1>1
  <1>3. \A i \in 1..Len(C.slot) : C.slot[i] \in Client
    BY <1>1, <1>2
  <1> QED
    BY <1>1, <1>2, <1>3 DEF Client

(***************************************************************************)
(* An array is not disturbed by a change that keeps the sockets of n.      *)
(***************************************************************************)
LEMMA HousesKept ==
  ASSUME NEW N, NEW W, NEW C, NEW n \in Node, NEW B, Houses(N, C, n, B), \A k \in Open : Kept(N, W, n, k)
  PROVE  Houses(W, C, n, B)
  <1>1. \A k \in Open : W.peer[n][k] # Free <=> \E i \in 2..C.nb : C.slot[i].sock = k
    BY DEF Houses, Kept
  <1>2. ASSUME NEW i \in 2..C.nb, C.slot[i].sock \notin B
        PROVE  C.slot[i].id \in Node /\ Speaks(W, n, C.slot[i].sock, C.slot[i].id)
    <2>1. i \in 2..Len(C.slot)
      BY DEF Houses
    <2>2. C.slot[i].sock \in Open
      BY <2>1 DEF Houses
    <2>3. C.slot[i].id \in Node /\ Speaks(N, n, C.slot[i].sock, C.slot[i].id)
      BY <1>2 DEF Houses
    <2> QED
      BY <2>2, <2>3 DEF Kept
  <1> QED
    BY <1>1, <1>2 DEF Houses

(***************************************************************************)
(* More sockets may be excused, and those that are not in use need not.    *)
(***************************************************************************)
LEMMA HousesExcused ==
  ASSUME NEW N, NEW C, NEW n \in Node, NEW B, Houses(N, C, n, B),
         NEW A, \A k \in Open : k \in B /\ N.peer[n][k] # Free => k \in A
  PROVE  Houses(N, C, n, A)
  <1>1. ASSUME NEW i \in 2..C.nb, C.slot[i].sock \notin A
        PROVE  C.slot[i].id \in Node /\ Speaks(N, n, C.slot[i].sock, C.slot[i].id)
    <2>1. i \in 2..Len(C.slot)
      BY DEF Houses
    <2>2. C.slot[i].sock \in Open
      BY <2>1 DEF Houses
    <2>3. N.peer[n][C.slot[i].sock] # Free
      BY <2>2 DEF Houses
    <2>4. C.slot[i].sock \notin B
      BY <1>1, <2>2, <2>3
    <2> QED
      BY <2>4 DEF Houses
  <1> QED
    BY <1>1 DEF Houses

(***************************************************************************)
(* add_client.                                                             *)
(***************************************************************************)
LEMMA AddShape ==
  ASSUME NEW C \in Arrays, C.nb <= Len(C.slot), NEW c \in Client
  PROVE  LET D == AddClient(C, c)
         IN  /\ D \in Arrays /\ D.nb = C.nb + 1 /\ D.nb <= Len(D.slot) /\ Len(D.slot) >= Len(C.slot)
             /\ D.slot[D.nb] = c
             /\ \A i \in 1..Len(C.slot) : i # D.nb => D.slot[i] = C.slot[i]
             /\ \A i \in 1..Len(D.slot) : i # D.nb => i \in 1..Len(C.slot)
  <1> DEFINE D == AddClient(C, c)
  <1>1. C.slot \in Seq(Client) /\ C.nb \in Nat /\ Len(C.slot) \in Nat /\ DOMAIN C.slot = 1..Len(C.slot)
    BY ArrayTypes
  <1>2. D.nb = C.nb + 1 /\ D = [slot |-> D.slot, nb |-> D.nb]
    BY DEF AddClient
  <1>3. CASE C.nb < Len(C.slot)
    <2>1. D.slot = [C.slot EXCEPT ![C.nb + 1] = c]
      BY <1>3 DEF AddClient
    <2>2. D.slot \in Seq(Client) /\ Len(D.slot) = Len(C.slot)
      <3>1. C.nb + 1 \in 1..Len(C.slot)
        BY <1>1, <1>3
      <3> QED
        BY <1>1, <2>1, <3>1, ExceptSeq
    <2>3. D.slot[D.nb] = c /\ \A i \in 1..Len(C.slot) : i # D.nb => D.slot[i] = C.slot[i]
      BY <1>1, <1>2, <1>3, <2>1
    <2> QED
      BY <1>1, <1>2, <1>3, <2>2, <2>3 DEF Arrays
  <1>4. CASE C.nb = Len(C.slot)
    <2>1. D.slot = Append(C.slot, c)
      BY <1>1, <1>4 DEF AddClient
    <2>2. D.slot \in Seq(Client) /\ Len(D.slot) = Len(C.slot) + 1
      BY <1>1, <2>1, AppendProperties
    <2>3. D.slot[D.nb] = c /\ \A i \in 1..Len(C.slot) : D.slot[i] = C.slot[i]
      BY <1>1, <1>2, <1>4, <2>1, AppendProperties
    <2> QED
      BY <1>1, <1>2, <1>4, <2>2, <2>3 DEF Arrays
  <1> QED
    BY <1>1, <1>3, <1>4

LEMMA AddKeeps ==
  ASSUME NEW N, NEW W, NEW n \in Node, NEW C \in Arrays, NEW B, Houses(N, C, n, B),
         NEW k \in Open, N.peer[n][k] = Free, W.peer[n][k] # Free,
         \A y \in Open : y # k => Kept(N, W, n, y),
         NEW id \in Name \ {n}, k \notin B => id \in Node /\ Speaks(W, n, k, id)
  PROVE  LET D == AddClient(C, [sock |-> k, id |-> id])
         IN  /\ D \in Arrays /\ Houses(W, D, n, B)
             /\ D.nb = C.nb + 1 /\ D.slot[D.nb] = [sock |-> k, id |-> id]
             /\ Len(D.slot) >= Len(C.slot)
             /\ \A i \in 2..C.nb : D.slot[i] = C.slot[i]
  <1> DEFINE c == [sock |-> k, id |-> id]
             D == AddClient(C, c)
  <1>1. /\ C.nb \in 1..Len(C.slot) /\ C.nb \in Nat /\ Len(C.slot) \in Nat
        /\ c \in Client /\ c.sock = k /\ c.id = id /\ k # 1
    BY ArrayTypes, Names DEF Houses, Client
  <1>2. /\ D \in Arrays /\ D.nb = C.nb + 1 /\ D.nb <= Len(D.slot) /\ Len(D.slot) >= Len(C.slot)
        /\ D.slot[D.nb] = c
        /\ \A i \in 1..Len(C.slot) : i # D.nb => D.slot[i] = C.slot[i]
        /\ \A i \in 1..Len(D.slot) : i # D.nb => i \in 1..Len(C.slot)
    BY <1>1, AddShape
  <1>3. Len(D.slot) \in Nat
    BY <1>2, ArrayTypes
  <1> HIDE DEF D, c
  <1>4. /\ 2..D.nb = (2..C.nb) \cup {D.nb} /\ D.nb \notin 2..C.nb
        /\ \A i \in 2..C.nb : D.slot[i] = C.slot[i] /\ i \in 2..Len(C.slot)
    <2>1. 2..D.nb = (2..C.nb) \cup {D.nb} /\ D.nb \notin 2..C.nb
      <3>1. D.nb = C.nb + 1 /\ C.nb \in Nat /\ C.nb >= 1
        BY <1>1, <1>2
      <3> QED
        BY <3>1
    <2>2. \A i \in 2..C.nb : i \in 1..Len(C.slot) /\ i \in 2..Len(C.slot) /\ i # D.nb
      BY <1>1, <1>2
    <2> QED
      BY <1>2, <2>1, <2>2
  <1>5. ASSUME NEW i \in 2..C.nb PROVE C.slot[i].sock \in Open /\ C.slot[i].sock # k
    <2>1. C.slot[i].sock \in Open
      BY <1>4 DEF Houses
    <2>2. N.peer[n][C.slot[i].sock] # Free
      BY <2>1 DEF Houses
    <2> QED
      BY <2>1, <2>2
  <1>6. D.nb \in 1..Len(D.slot) /\ D.slot[1] = [sock |-> 1, id |-> Controller]
    BY <1>1, <1>2, <1>3 DEF Houses
  <1>7. ASSUME NEW i \in 2..Len(D.slot) PROVE D.slot[i].sock \in Open /\ D.slot[i].id \in Name \ {n}
    <2>1. CASE i = D.nb
      BY <1>1, <1>2, <2>1
    <2>2. CASE i # D.nb
      <3>1. i \in 2..Len(C.slot) /\ D.slot[i] = C.slot[i]
        BY <1>1, <1>2, <1>3, <2>2
      <3> QED
        BY <3>1 DEF Houses
    <2> QED
      BY <2>1, <2>2
  <1>8. ASSUME NEW i \in 2..D.nb, NEW j \in 2..D.nb, D.slot[i].sock = D.slot[j].sock PROVE i = j
    <2>1. CASE i = D.nb /\ j # D.nb
      BY <1>1, <1>2, <1>4, <1>5, <1>8, <2>1
    <2>2. CASE i # D.nb /\ j = D.nb
      BY <1>1, <1>2, <1>4, <1>5, <1>8, <2>2
    <2>3. CASE i # D.nb /\ j # D.nb
      BY <1>4, <1>8, <2>3 DEF Houses
    <2> QED
      BY <2>1, <2>2, <2>3
  <1>9. ASSUME NEW y \in Open PROVE W.peer[n][y] # Free <=> \E i \in 2..D.nb : D.slot[i].sock = y
    <2>1. CASE y = k
      BY <1>1, <1>2, <1>4, <2>1
    <2>2. CASE y # k
      <3>1. W.peer[n][y] # Free <=> \E i \in 2..C.nb : C.slot[i].sock = y
        BY <2>2 DEF Houses, Kept
      <3> QED
        BY <1>1, <1>2, <1>4, <2>2, <3>1
    <2> QED
      BY <2>1, <2>2
  <1>10. ASSUME NEW i \in 2..D.nb, D.slot[i].sock \notin B
         PROVE  D.slot[i].id \in Node /\ Speaks(W, n, D.slot[i].sock, D.slot[i].id)
    <2>1. CASE i = D.nb
      BY <1>1, <1>2, <1>10, <2>1
    <2>2. CASE i # D.nb
      <3>1. i \in 2..C.nb /\ D.slot[i] = C.slot[i] /\ i \in 2..Len(C.slot)
        BY <1>4, <2>2
      <3>2. Speaks(N, n, C.slot[i].sock, C.slot[i].id) /\ C.slot[i].id \in Node
        BY <1>10, <3>1 DEF Houses
      <3> QED
        BY <1>5, <3>1, <3>2 DEF Kept
    <2> QED
      BY <2>1, <2>2
  <1>11. Houses(W, D, n, B)
    BY <1>6, <1>7, <1>8, <1>9, <1>10 DEF Houses
  <1> QED
    BY <1>2, <1>4, <1>11 DEF D, c

(***************************************************************************)
(* remove_client and the socket it closes. Only a client that a pointer    *)
(* leads to but that has left the array already can go without being the   *)
(* one of its socket, and then the socket that is closed is still in use.  *)
(***************************************************************************)
LEMMA RemoveShape ==
  ASSUME NEW C \in Arrays, C.nb \in 1..Len(C.slot), NEW c, Matching(C, c) # {}
  PROVE  \E l \in 1..C.nb :
           /\ C.slot[l] = c
           /\ RemoveClient(C, c) =
                [slot |-> [i \in DOMAIN C.slot |-> IF i \in l..(C.nb - 1) THEN C.slot[i + 1] ELSE C.slot[i]],
                 nb |-> C.nb - 1]
  <1> DEFINE M == Matching(C, c)
             least(i) == \A j \in M : i <= j
             l == CHOOSE i \in M : least(i)
  <1>1. C.nb \in Nat /\ M \subseteq 1..C.nb /\ M \subseteq Nat
    BY ArrayTypes DEF Matching, Used
  <1>2. Lowest(M) \in M
    BY <1>1, LowestIn
  <1>3. Lowest(M) = l
    BY DEF Lowest
  <1>4. l \in 1..C.nb /\ C.slot[l] = c
    BY <1>1, <1>2, <1>3 DEF Matching
  <1>5. RemoveClient(C, c) =
          [slot |-> [i \in DOMAIN C.slot |-> IF i \in l..(C.nb - 1) THEN C.slot[i + 1] ELSE C.slot[i]],
           nb |-> C.nb - 1]
    BY DEF RemoveClient
  <1> QED
    BY <1>4, <1>5

LEMMA RemoveKeeps ==
  ASSUME NEW N, IsNet(N), NEW n \in Node, NEW C \in Arrays,
         NEW B, Houses(N, C, n, B), NEW p \in 2..Len(C.slot)
  PROVE  LET c == C.slot[p]
             D == RemoveClient(C, c)
             W == CloseSock(N, n, c.sock)
         IN  /\ D \in Arrays /\ D.nb \in Nat /\ Len(D.slot) = Len(C.slot)
             /\ D = C \/ D.nb < C.nb
             /\ p <= C.nb => D.nb < C.nb /\ c.sock \notin UsedSocks(D)
             /\ c.sock \notin UsedSocks(D) => Houses(W, D, n, B)
             /\ IsNet(W) /\ W.backlog = N.backlog
             /\ \A x \in Node \ {n} : \A y \in Sock : Kept(N, W, x, y)
  <1> DEFINE c == C.slot[p]
             D == RemoveClient(C, c)
             W == CloseSock(N, n, c.sock)
  <1>1. /\ C.slot \in Seq(Client) /\ C.nb \in Nat /\ Len(C.slot) \in Nat /\ C.nb \in 1..Len(C.slot)
        /\ DOMAIN C.slot = 1..Len(C.slot)
        /\ \A i \in 1..Len(C.slot) : C.slot[i] \in Client
        /\ c.sock \in Open /\ 1 \notin Open /\ C.slot[1].sock = 1
    BY ArrayTypes, Names DEF Houses
  <1>2. /\ IsNet(W) /\ W.backlog = N.backlog /\ W.peer[n][c.sock] = Free
        /\ \A x \in Node, y \in Sock : <<x, y>> # <<n, c.sock>> => Kept(N, W, x, y)
    BY <1>1, CloseKeeps
  <1>3. /\ \A x \in Node \ {n} : \A y \in Sock : Kept(N, W, x, y)
        /\ \A y \in Open : y # c.sock => Kept(N, W, n, y)
    BY <1>2 DEF Sock
  <1>4. CASE Matching(C, c) = {}
    <2>1. D = C
      BY <1>4 DEF RemoveClient
    <2>2. ~(p <= C.nb)
      <3> SUFFICES ASSUME p <= C.nb PROVE FALSE
        OBVIOUS
      <3>1. p \in 1..C.nb
        BY <1>1
      <3> QED
        BY <1>4, <3>1 DEF Matching, Used
    <2>3. ASSUME c.sock \notin UsedSocks(C) PROVE Houses(W, C, n, B)
      <3>1. \A i \in 2..C.nb : C.slot[i].sock # c.sock
        BY <1>1, <2>3 DEF UsedSocks, Used
      <3>2. N.peer[n][c.sock] = Free
        BY <1>1, <3>1 DEF Houses
      <3>3. \A y \in Open : W.peer[n][y] # Free <=> N.peer[n][y] # Free
        BY <1>2, <1>3, <3>2 DEF Kept
      <3>4. ASSUME NEW i \in 2..C.nb, C.slot[i].sock \notin B
            PROVE  C.slot[i].id \in Node /\ Speaks(W, n, C.slot[i].sock, C.slot[i].id)
        <4>1. i \in 2..Len(C.slot)
          BY <1>1
        <4>2. C.slot[i].sock \in Open
          BY <4>1 DEF Houses
        <4>3. C.slot[i].id \in Node /\ Speaks(N, n, C.slot[i].sock, C.slot[i].id)
          BY <3>4 DEF Houses
        <4> QED
          BY <1>3, <3>1, <4>2, <4>3 DEF Kept
      <3> HIDE DEF c, W
      <3> QED
        BY <3>3, <3>4 DEF Houses
    <2> HIDE DEF c, D, W
    <2> QED
      BY <1>1, <1>2, <1>3, <2>1, <2>2, <2>3 DEF c, D, W
  <1>5. CASE Matching(C, c) # {}
    <2>1. PICK l \in 1..C.nb :
           /\ C.slot[l] = c
           /\ D = [slot |-> [i \in DOMAIN C.slot |-> IF i \in l..(C.nb - 1) THEN C.slot[i + 1] ELSE C.slot[i]],
                   nb |-> C.nb - 1]
      BY <1>1, <1>5, RemoveShape
    <2> HIDE DEF c, D, W
    <2>2. l \in 2..C.nb
      <3>1. l # 1
        BY <1>1, <2>1
      <3> QED
        BY <1>1, <3>1
    <2>3. /\ D.nb = C.nb - 1 /\ DOMAIN D.slot = 1..Len(C.slot)
          /\ \A i \in 1..Len(C.slot) : D.slot[i] = IF i \in l..(C.nb - 1) THEN C.slot[i + 1] ELSE C.slot[i]
          /\ D = [slot |-> D.slot, nb |-> D.nb]
          /\ D.slot = [i \in 1..Len(C.slot) |-> IF i \in l..(C.nb - 1) THEN C.slot[i + 1] ELSE C.slot[i]]
      BY <1>1, <2>1
    <2>4. \A i \in 1..Len(C.slot) : i \in l..(C.nb - 1) => i + 1 \in 2..Len(C.slot)
      BY <1>1, <2>2
    <2>5. D.slot \in Seq(Client) /\ Len(D.slot) = Len(C.slot)
      <3>1. \A i \in 1..Len(C.slot) : D.slot[i] \in Client
        BY <1>1, <2>3, <2>4
      <3>2. D.slot \in [1..Len(C.slot) -> Client]
        BY <2>3, <3>1
      <3> QED
        BY <1>1, <3>2, IsASeq
    <2>6. D \in Arrays /\ D.nb \in Nat /\ D.nb < C.nb /\ D.nb \in 1..Len(D.slot)
      <3>1. D.nb \in Nat /\ D.nb < C.nb /\ D.nb \in 1..Len(D.slot)
        BY <1>1, <2>2, <2>3, <2>5
      <3> QED
        BY <2>3, <2>5, <3>1 DEF Arrays
    <2> DEFINE old(i) == IF i < l THEN i ELSE i + 1
    <2>7. /\ \A i \in 2..D.nb : /\ old(i) \in 2..C.nb /\ old(i) # l /\ i \in 2..Len(C.slot)
                                /\ D.slot[i] = C.slot[old(i)]
          /\ \A i, j \in 2..D.nb : old(i) = old(j) => i = j
          /\ \A m \in 2..C.nb : m # l => \E i \in 2..D.nb : old(i) = m
      <3>1. D.nb = C.nb - 1 /\ l \in Nat /\ l >= 2 /\ l <= C.nb /\ C.nb \in Nat /\ C.nb <= Len(C.slot)
        BY <1>1, <2>2, <2>3
      <3>2. ASSUME NEW i \in 2..D.nb
            PROVE  old(i) \in 2..C.nb /\ old(i) # l /\ i \in 2..Len(C.slot) /\ D.slot[i] = C.slot[old(i)]
        <4>1. i \in 1..Len(C.slot) /\ i \in 2..Len(C.slot) /\ old(i) \in 2..C.nb /\ old(i) # l
          BY <1>1, <3>1
        <4>2. i < l \/ i \in l..(C.nb - 1)
          BY <3>1
        <4>3. i < l => i \notin l..(C.nb - 1)
          BY <3>1
        <4> QED
          BY <2>3, <4>1, <4>2, <4>3
      <3>3. \A i, j \in 2..D.nb : old(i) = old(j) => i = j
        BY <3>1
      <3>4. ASSUME NEW m \in 2..C.nb, m # l PROVE \E i \in 2..D.nb : old(i) = m
        <4>1. CASE m < l
          BY <3>1, <3>4, <4>1
        <4>2. CASE ~(m < l)
          <5>1. m - 1 \in 2..D.nb /\ old(m - 1) = m
            BY <3>1, <3>4, <4>2
          <5> QED
            BY <5>1
        <4> QED
          BY <4>1, <4>2
      <3> QED
        BY <3>2, <3>3, <3>4
    <2> HIDE DEF old
    <2>8. /\ \A i, j \in 2..C.nb : C.slot[i].sock = C.slot[j].sock => i = j
          /\ \A i \in 2..Len(C.slot) : C.slot[i].sock \in Open /\ C.slot[i].id \in Name \ {n}
          /\ \A k \in Open : N.peer[n][k] # Free <=> \E i \in 2..C.nb : C.slot[i].sock = k
          /\ \A i \in 2..C.nb : C.slot[i].sock \notin B =>
               C.slot[i].id \in Node /\ Speaks(N, n, C.slot[i].sock, C.slot[i].id)
          /\ C.slot[1] = [sock |-> 1, id |-> Controller]
      BY DEF Houses
    <2>9. ASSUME NEW i \in 2..D.nb PROVE D.slot[i].sock # c.sock
      <3>1. D.slot[i] = C.slot[old(i)] /\ old(i) \in 2..C.nb /\ old(i) # l
        BY <2>7
      <3>2. C.slot[old(i)].sock # C.slot[l].sock
        BY <2>2, <2>8, <3>1
      <3> QED
        BY <2>1, <3>1, <3>2
    <2>10. 1 \in 1..Len(C.slot) /\ 1 \notin l..(C.nb - 1)
      BY <1>1, <2>2
    <2>11. D.slot[1] = C.slot[1]
      BY <2>3, <2>10
    <2>12. c.sock \notin UsedSocks(D)
      <3> SUFFICES ASSUME NEW i \in 1..D.nb, D.slot[i].sock = c.sock PROVE FALSE
        BY DEF UsedSocks, Used
      <3>1. i = 1 \/ i \in 2..D.nb
        BY <2>6
      <3> QED
        BY <1>1, <2>9, <2>11, <3>1
    <2>13. ASSUME NEW i \in 2..Len(D.slot) PROVE D.slot[i].sock \in Open /\ D.slot[i].id \in Name \ {n}
      <3>1. i \in 1..Len(C.slot) /\ i \in 2..Len(C.slot)
        BY <1>1, <2>5
      <3> QED
        BY <2>3, <2>4, <2>8, <3>1
    <2>14. ASSUME NEW k \in Open PROVE W.peer[n][k] # Free <=> \E i \in 2..D.nb : D.slot[i].sock = k
      <3>1. CASE k = c.sock
        BY <1>2, <2>9, <3>1
      <3>2. CASE k # c.sock
        <4>1. W.peer[n][k] # Free <=> \E i \in 2..C.nb : C.slot[i].sock = k
          BY <1>3, <2>8, <3>2 DEF Kept
        <4>2. ASSUME NEW m \in 2..C.nb, C.slot[m].sock = k PROVE \E i \in 2..D.nb : D.slot[i].sock = k
          <5>1. m # l
            BY <2>1, <3>2, <4>2
          <5>2. PICK i \in 2..D.nb : old(i) = m
            BY <2>7, <5>1
          <5>3. D.slot[i] = C.slot[m]
            BY <2>7, <5>2
          <5> QED
            BY <4>2, <5>3
        <4>3. ASSUME NEW i \in 2..D.nb, D.slot[i].sock = k PROVE \E m \in 2..C.nb : C.slot[m].sock = k
          <5>1. D.slot[i] = C.slot[old(i)] /\ old(i) \in 2..C.nb
            BY <2>7
          <5> QED
            BY <4>3, <5>1
        <4> QED
          BY <4>1, <4>2, <4>3
      <3> QED
        BY <3>1, <3>2
    <2>15. ASSUME NEW i \in 2..D.nb, D.slot[i].sock \notin B
           PROVE  D.slot[i].id \in Node /\ Speaks(W, n, D.slot[i].sock, D.slot[i].id)
      <3>1. D.slot[i] = C.slot[old(i)] /\ old(i) \in 2..C.nb
        BY <2>7
      <3>2. i \in 2..Len(D.slot)
        BY <1>1, <2>5, <2>7
      <3>3. D.slot[i].sock \in Open /\ D.slot[i].sock # c.sock
        BY <2>9, <2>13, <3>2, <1>5, <2>15
      <3>4. D.slot[i].id \in Node /\ Speaks(N, n, D.slot[i].sock, D.slot[i].id)
        BY <2>8, <2>15, <3>1
      <3> QED
        BY <1>3, <3>3, <3>4 DEF Kept
    <2>16. ASSUME NEW i \in 2..D.nb, NEW j \in 2..D.nb, D.slot[i].sock = D.slot[j].sock PROVE i = j
      <3>1. /\ D.slot[i] = C.slot[old(i)] /\ old(i) \in 2..C.nb
            /\ D.slot[j] = C.slot[old(j)] /\ old(j) \in 2..C.nb
        BY <2>7
      <3>2. old(i) = old(j)
        BY <2>8, <2>16, <3>1
      <3> QED
        BY <2>7, <3>2
    <2>17. Houses(W, D, n, B)
      BY <2>6, <2>8, <2>11, <2>13, <2>14, <2>15, <2>16 DEF Houses
    <2> QED
      BY <1>2, <1>3, <2>5, <2>6, <2>12, <2>17 DEF c, D, W
  <1> QED
    BY <1>4, <1>5

------------------------------------------------------------------------------
(***************************************************************************)
(* The table of n. Only a router can be a neighbour, and a pointer leads   *)
(* to a slot that holds or held a client; as long as no client has left,   *)
(* to the client that was given the id of the entry.                       *)
(***************************************************************************)
Entries == [nextHop : Name \cup {NoHop}, dist : Dist, near : BOOLEAN, full : BOOLEAN,
            client : Nat \cup {NoClient}]

Tables(n) == {t \in UNION {[S -> Entries] : S \in SUBSET (Name \ {n})} :
                \A s \in DOMAIN t : t[s].near => s \in Node}

Points(t, C) ==
  \A s \in DOMAIN t : t[s].client # NoClient => s \in Node /\ t[s].client \in 2..Len(C.slot)

Fits(t, C, B) ==
  \A s \in DOMAIN t : t[s].client # NoClient =>
    /\ t[s].client \in 2..C.nb
    /\ C.slot[t[s].client].id = s /\ C.slot[t[s].client].sock \notin B

Costed(t, L) ==
  \A s \in DOMAIN t : t[s].near /\ t[s].full /\ t[s].nextHop = s => s \in DOMAIN L /\ t[s].dist = L[s]

LEMMA TableTypes ==
  ASSUME NEW n, NEW t \in Tables(n)
  PROVE  /\ DOMAIN t \subseteq Name \ {n} /\ t \in [DOMAIN t -> Entries]
         /\ \A s \in DOMAIN t : t[s] \in Entries /\ (t[s].near => s \in Node)
  BY DEF Tables

LEMMA IsTable ==
  ASSUME NEW n, NEW S, S \subseteq Name \ {n}, NEW t \in [S -> Entries],
         \A s \in S : t[s].near => s \in Node
  PROVE  t \in Tables(n)
  <1>1. t \in UNION {[R -> Entries] : R \in SUBSET (Name \ {n})}
    OBVIOUS
  <1> QED
    BY <1>1 DEF Tables

LEMMA NumbersAreEntries ==
  /\ Half \in Nat /\ Half >= 1 /\ -1 \in Dist /\ Least \in Dist /\ Weight \subseteq Dist
  /\ \A x \in Int : Wrapped(x) \in Dist
  /\ NoClient \notin Nat
  <1>1. Half \in Nat /\ Half >= 1 /\ NoClient \notin Nat /\ Weight \subseteq 1..(Half - 1)
    BY RouteTableAssumption, RouterAssumption DEF RouteTableAssumption, RouterAssumption
  <1>2. \A x \in Int : Wrapped(x) \in Dist
    <2> SUFFICES ASSUME NEW x \in Int PROVE Wrapped(x) \in Dist
      OBVIOUS
    <2> DEFINE m == 2 * Half
               y == x + Half
    <2>1. m \in Nat \ {0} /\ y \in Int
      BY <1>1
    <2>2. y % m \in 0..(m - 1)
      <3> HIDE DEF m, y
      <3> QED BY <2>1
    <2>3. Wrapped(x) = (y % m) - Half
      BY DEF Wrapped
    <2> QED
      <3> DEFINE r == y % m
      <3>1. r \in 0..(2 * Half - 1) /\ Wrapped(x) = r - Half
        BY <2>2, <2>3
      <3> HIDE DEF r
      <3> QED BY <1>1, <3>1 DEF Dist
  <1> QED
    BY <1>1, <1>2 DEF Dist, Least

(***************************************************************************)
(* The entries of u that have a client have the one they had in t.         *)
(***************************************************************************)
OldClients(u, t) ==
  \A s \in DOMAIN u : u[s].client # NoClient => s \in DOMAIN t /\ u[s].client = t[s].client

LEMMA OldClientsStay ==
  ASSUME NEW u, NEW t, NEW C, OldClients(u, t)
  PROVE  (Points(t, C) => Points(u, C)) /\ \A B : Fits(t, C, B) => Fits(u, C, B)
  BY DEF OldClients, Points, Fits

LEMMA DefaultIsEntry ==
  /\ DefaultEntry \in Entries /\ ~DefaultEntry.near /\ DefaultEntry.client = NoClient
  /\ DefaultEntry.nextHop = NoHop
  BY NumbersAreEntries DEF DefaultEntry, Entry, Entries

LEMMA WithKeeps ==
  ASSUME NEW n, NEW t \in Tables(n), NEW s \in Name \ {n}, NEW e \in Entries, e.near => s \in Node
  PROVE  /\ With(t, s, e) \in Tables(n)
         /\ DOMAIN With(t, s, e) = DOMAIN t \cup {s}
         /\ \A x \in DOMAIN t \cup {s} : With(t, s, e)[x] = IF x = s THEN e ELSE t[x]
  <1> DEFINE S == DOMAIN t \cup {s}
             u == With(t, s, e)
  <1>1. u = [x \in S |-> IF x = s THEN e ELSE t[x]]
    BY DEF With
  <1>2. S \subseteq Name \ {n} /\ \A x \in DOMAIN t : t[x] \in Entries /\ (t[x].near => x \in Node)
    BY TableTypes
  <1>3. u \in [S -> Entries] /\ \A x \in S : u[x].near => x \in Node
    BY <1>1, <1>2
  <1>4. u \in Tables(n)
    <2> HIDE DEF S, u
    <2> QED BY <1>2, <1>3, IsTable
  <1> QED
    BY <1>1, <1>4

LEMMA TouchedKeeps ==
  ASSUME NEW n, NEW t \in Tables(n), NEW s \in Name \ {n}
  PROVE  /\ Touched(t, s) \in Tables(n) /\ s \in DOMAIN Touched(t, s)
         /\ OldClients(Touched(t, s), t)
         /\ \A L : Costed(t, L) => Costed(Touched(t, s), L)
  <1>1. CASE s \in DOMAIN t
    BY <1>1 DEF Touched, OldClients
  <1>2. CASE s \notin DOMAIN t
    <2> DEFINE u == With(t, s, DefaultEntry)
    <2>1. /\ u \in Tables(n) /\ DOMAIN u = DOMAIN t \cup {s}
          /\ \A x \in DOMAIN t \cup {s} : u[x] = IF x = s THEN DefaultEntry ELSE t[x]
      BY WithKeeps, DefaultIsEntry
    <2>2. Touched(t, s) = u
      BY <1>2 DEF Touched
    <2> HIDE DEF u
    <2>3. OldClients(u, t)
      BY <2>1, DefaultIsEntry DEF OldClients
    <2>4. \A L : Costed(t, L) => Costed(u, L)
      BY <2>1, DefaultIsEntry DEF Costed
    <2> QED
      BY <2>1, <2>2, <2>3, <2>4
  <1> QED
    BY <1>1, <1>2

LEMMA WithoutKeeps ==
  ASSUME NEW n, NEW t \in Tables(n), NEW E
  PROVE  /\ Without(t, E) \in Tables(n)
         /\ DOMAIN Without(t, E) = DOMAIN t \ E
         /\ \A x \in DOMAIN t \ E : Without(t, E)[x] = t[x]
         /\ OldClients(Without(t, E), t)
         /\ \A L : Costed(t, L) => Costed(Without(t, E), L)
  <1> DEFINE S == DOMAIN t \ E
             u == Without(t, E)
  <1>1. u = [x \in S |-> t[x]]
    BY DEF Without
  <1>2. S \subseteq Name \ {n} /\ \A x \in DOMAIN t : t[x] \in Entries /\ (t[x].near => x \in Node)
    BY TableTypes
  <1>3. u \in [S -> Entries] /\ \A x \in S : u[x].near => x \in Node
    BY <1>1, <1>2
  <1>4. u \in Tables(n)
    <2> HIDE DEF S, u
    <2> QED BY <1>2, <1>3, IsTable
  <1>5. OldClients(u, t) /\ \A L : Costed(t, L) => Costed(u, L)
    BY <1>1 DEF OldClients, Costed
  <1> QED
    BY <1>1, <1>4, <1>5

(***************************************************************************)
(* A vector: distances stay in an int, no entry gets another client, and   *)
(* the cost of a neighbour that is reached directly stays what it was,     *)
(* because the vector of a router does not have the router itself; under   *)
(* the id of another router it may have it.                                *)
(***************************************************************************)
LEMMA LearnedKeeps ==
  ASSUME NEW n, NEW t \in Tables(n), NEW source \in DOMAIN t, NEW s \in Name \ {n}, NEW dist \in Dist
  PROVE  LET e == Learned(t, s, source, dist)
         IN  /\ e \in Entries
             /\ s \in DOMAIN t => e.near = t[s].near /\ e.full = t[s].full /\ e.client = t[s].client
             /\ s \notin DOMAIN t => ~e.near /\ e.client = NoClient
             /\ (s \in DOMAIN t /\ e = t[s]) \/ e.nextHop = source
  <1>1. /\ source \in Name /\ t[source].dist \in Int
        /\ \A x \in DOMAIN t : t[x] \in Entries
    BY TableTypes, NumbersAreEntries DEF Entries, Dist
  <1>2. Through(t, source, dist) \in Dist
    <2>1. dist + t[source].dist \in Int
      BY <1>1, NumbersAreEntries DEF Dist
    <2> QED
      BY <2>1, NumbersAreEntries DEF Through
  <1>3. CASE s \notin DOMAIN t
    <2>1. Learned(t, s, source, dist) = Entry(source, Through(t, source, dist))
      BY <1>3 DEF Learned
    <2> DEFINE d == Through(t, source, dist)
               e == Entry(source, d)
    <2> HIDE DEF d
    <2>2. e \in Entries /\ ~e.near /\ e.client = NoClient /\ e.nextHop = source
      BY <1>1, <1>2 DEF Entry, Entries, d
    <2>3. Learned(t, s, source, dist) = e
      BY <2>1 DEF d
    <2> HIDE DEF e
    <2> QED
      BY <1>3, <2>2, <2>3
  <1>4. CASE s \in DOMAIN t /\ Preferred(t, s, source, dist)
    <2> DEFINE d == IF t[s].near THEN dist ELSE Through(t, source, dist)
               e == Learned(t, s, source, dist)
    <2>1. e = [t[s] EXCEPT !.nextHop = source, !.dist = d]
      BY <1>4 DEF Learned
    <2>2. d \in Dist
      BY <1>2
    <2>3. t[s] \in Entries
      BY <1>1, <1>4
    <2> HIDE DEF d, e
    <2>4. e \in Entries /\ e.near = t[s].near /\ e.full = t[s].full /\ e.client = t[s].client
          /\ e.nextHop = source
      BY <1>1, <2>1, <2>2, <2>3 DEF Entries
    <2> QED
      BY <1>4, <2>4 DEF e
  <1>5. CASE s \in DOMAIN t /\ ~Preferred(t, s, source, dist)
    BY <1>1, <1>5 DEF Learned
  <1> QED
    BY <1>3, <1>4, <1>5

LEMMA MergedKeeps ==
  ASSUME NEW n \in Node, NEW t \in Tables(n), NEW source \in DOMAIN t, NEW vector \in Vectors
  PROVE  /\ Merged(t, n, source, vector) \in Tables(n)
         /\ source \in DOMAIN Merged(t, n, source, vector)
         /\ OldClients(Merged(t, n, source, vector), t)
         /\ source \notin DOMAIN vector =>
              \A L : Costed(t, L) => Costed(Merged(t, n, source, vector), L)
  <1> DEFINE S == DOMAIN t \cup (DOMAIN vector \ {n})
             u == Merged(t, n, source, vector)
  <1>1. u = [s \in S |-> IF s \in DOMAIN vector THEN Learned(t, s, source, vector[s]) ELSE t[s]]
    BY DEF Merged
  <1>2. /\ DOMAIN t \subseteq Name \ {n}
        /\ \A x \in DOMAIN t : t[x] \in Entries /\ (t[x].near => x \in Node)
    BY TableTypes
  <1>3. DOMAIN vector \subseteq Name /\ \A x \in DOMAIN vector : vector[x] \in Dist
    BY DEF Vectors
  <1>4. S \subseteq Name \ {n}
    BY <1>2, <1>3
  <1> HIDE DEF S, u
  <1>5. ASSUME NEW s \in S
        PROVE  /\ u[s] \in Entries
               /\ s \in DOMAIN t =>
                    u[s].near = t[s].near /\ u[s].full = t[s].full /\ u[s].client = t[s].client
               /\ s \notin DOMAIN t => ~u[s].near /\ u[s].client = NoClient
               /\ (s \in DOMAIN t /\ u[s] = t[s]) \/ (u[s].nextHop = source /\ s \in DOMAIN vector)
    <2>1. CASE s \in DOMAIN vector
      <3>1. u[s] = Learned(t, s, source, vector[s]) /\ s \in Name \ {n} /\ vector[s] \in Dist
        BY <1>1, <1>3, <1>4, <2>1
      <3> QED
        BY <2>1, <3>1, LearnedKeeps
    <2>2. CASE s \notin DOMAIN vector
      <3>1. u[s] = t[s] /\ s \in DOMAIN t
        BY <1>1, <2>2 DEF S
      <3> QED
        BY <1>2, <3>1
    <2> QED
      BY <2>1, <2>2
  <1>6. /\ DOMAIN u = S /\ u \in [S -> Entries] /\ source \in S
        /\ \A s \in S : u[s].near => s \in Node
    <2>1. DOMAIN u = S /\ u = [s \in S |-> u[s]]
      BY <1>1
    <2>2. u \in [S -> Entries] /\ source \in S
      BY <1>5, <2>1 DEF S
    <2> QED
      BY <1>2, <1>5, <2>1, <2>2
  <1>7. u \in Tables(n)
    BY <1>4, <1>6, IsTable
  <1>8. OldClients(u, t)
    BY <1>5, <1>6 DEF OldClients
  <1>9. ASSUME source \notin DOMAIN vector, NEW L, Costed(t, L) PROVE Costed(u, L)
    <2> SUFFICES ASSUME NEW s \in S, u[s].near, u[s].full, u[s].nextHop = s
                 PROVE  s \in DOMAIN L /\ u[s].dist = L[s]
      BY <1>6 DEF Costed
    <2>1. s \in Node /\ s \in DOMAIN t
      BY <1>5, <1>6
    <2>2. u[s] = t[s]
      BY <1>5, <1>9, <2>1
    <2> QED
      BY <1>9, <2>1, <2>2 DEF Costed
  <1> QED
    BY <1>6, <1>7, <1>8, <1>9 DEF u

(***************************************************************************)
(* What is said to another router does not have the router that says it.   *)
(***************************************************************************)
LEMMA SaidByOwner ==
  ASSUME NEW n \in Node, NEW t \in Tables(n), NEW s
  PROVE  /\ VectorMessage(Vector(t, s)) \in Message /\ Own(VectorMessage(Vector(t, s)), n)
         /\ VectorOk \in Message /\ Own(VectorOk, n)
         /\ LinkOk \in Message /\ Own(LinkOk, n)
         /\ Unreadable \in Message /\ Own(Unreadable, n)
  <1>1. /\ DOMAIN t \subseteq Name \ {n}
        /\ \A x \in DOMAIN t : t[x] \in Entries
    BY TableTypes
  <1>2. \A x \in DOMAIN t : t[x].dist \in Dist
    BY <1>1 DEF Entries
  <1> DEFINE v == Vector(t, s)
  <1>3. v = [x \in DOMAIN t \ {s} |-> t[x].dist]
    BY DEF Vector
  <1>4. v \in Vectors /\ n \notin DOMAIN v
    <2>1. v \in [DOMAIN t \ {s} -> Dist]
      BY <1>2, <1>3
    <2>2. DOMAIN t \ {s} \in SUBSET Name
      BY <1>1
    <2> QED
      BY <1>1, <1>3, <2>1, <2>2 DEF Vectors
  <1> HIDE DEF v
  <1> QED
    <2>1. VectorMessage(v) \in Message /\ Own(VectorMessage(v), n)
      BY <1>4 DEF Message, Own, VectorMessage
    <2>2. /\ VectorOk \in Message /\ Own(VectorOk, n)
          /\ LinkOk \in Message /\ Own(LinkOk, n)
      BY DEF Message, Own, VectorOk, LinkOk
    <2>3. Unreadable \in Message /\ Own(Unreadable, n)
      BY DEF Message, Own, Unreadable
    <2> QED
      BY <2>1, <2>2, <2>3 DEF v

(***************************************************************************)
(* A LINK, and the entries that a list opens or confirms.                  *)
(***************************************************************************)
Joined(u, t, s, c) ==
  DOMAIN u = DOMAIN t \cup {s} /\ u[s].client = c /\ \A x \in DOMAIN t : x # s => u[x] = t[x]

AsCostly(u, t) == \A L : Costed(t, L) => Costed(u, L)

LEMMA LinkedKeeps ==
  ASSUME NEW n \in Node, NEW t \in Tables(n), NEW s \in Node \ {n}, NEW c, c \in Nat
  PROVE  /\ Linked(t, s, c) \in Tables(n)
         /\ Joined(Linked(t, s, c), t, s, c)
         /\ AsCostly(Linked(t, s, c), t)
  <1> DEFINE b == Entry(s, Least)
             e == [b EXCEPT !.near = TRUE, !.client = c]
             u == With(t, s, e)
  <1>1. Linked(t, s, c) = u
    BY DEF Linked
  <1>2. b \in Entries /\ ~b.full /\ s \in Name \ {n} /\ s \in Node
    BY NumbersAreEntries DEF Entry, Entries, Name
  <1> HIDE DEF b
  <1>3. e \in Entries /\ e.near /\ ~e.full /\ e.client = c
    BY <1>2 DEF Entries
  <1> HIDE DEF e
  <1>4. /\ u \in Tables(n) /\ DOMAIN u = DOMAIN t \cup {s}
        /\ \A x \in DOMAIN t \cup {s} : u[x] = IF x = s THEN e ELSE t[x]
    BY <1>2, <1>3, WithKeeps
  <1> HIDE DEF u
  <1>5. \A L : Costed(t, L) => Costed(u, L)
    BY <1>3, <1>4 DEF Costed
  <1> QED
    BY <1>1, <1>3, <1>4, <1>5 DEF Joined, AsCostly

LEMMA OpenedKeeps ==
  ASSUME NEW n \in Node, NEW t \in Tables(n), NEW s \in Node \ {n}, NEW cost, cost \in Dist,
         NEW c, c \in Nat
  PROVE  /\ Opened(t, s, cost, c) \in Tables(n)
         /\ Joined(Opened(t, s, cost, c), t, s, c)
         /\ Opened(t, s, cost, c)[s].dist = cost
  <1> DEFINE b == Entry(s, cost)
             e == [b EXCEPT !.near = TRUE, !.full = TRUE, !.client = c]
             u == With(t, s, e)
  <1>1. Opened(t, s, cost, c) = u
    BY DEF Opened
  <1>2. b \in Entries /\ b.dist = cost /\ s \in Name \ {n} /\ s \in Node
    BY NumbersAreEntries DEF Entry, Entries, Name
  <1> HIDE DEF b
  <1>3. e \in Entries /\ e.near /\ e.dist = cost /\ e.client = c
    BY <1>2 DEF Entries
  <1> HIDE DEF e
  <1>4. /\ u \in Tables(n) /\ DOMAIN u = DOMAIN t \cup {s}
        /\ \A x \in DOMAIN t \cup {s} : u[x] = IF x = s THEN e ELSE t[x]
    BY <1>2, <1>3, WithKeeps
  <1> HIDE DEF u
  <1> QED
    BY <1>1, <1>3, <1>4 DEF Joined

LEMMA ConfirmsKeeps ==
  ASSUME NEW n \in Node, NEW t \in Tables(n), NEW L \in List, NEW S, S \subseteq DOMAIN L \cap DOMAIN t
  PROVE  LET u == Confirms(t, L, S)
         IN  /\ u \in Tables(n) /\ DOMAIN u = DOMAIN t
             /\ OldClients(u, t)
             /\ \A s \in S : u[s].dist = L[s]
             /\ \A s \in DOMAIN t \ S : u[s] = t[s]
  <1> DEFINE u == Confirms(t, L, S)
  <1>1. DOMAIN L \subseteq Node /\ \A s \in DOMAIN L : L[s] \in Dist
    BY NumbersAreEntries DEF List
  <1>2. DOMAIN t \subseteq Name \ {n} /\ \A x \in DOMAIN t : t[x] \in Entries /\ (t[x].near => x \in Node)
    BY TableTypes
  <1>3. u = [s \in DOMAIN t |-> IF s \in S THEN Confirmed(t, s, L[s])[s] ELSE t[s]]
    BY DEF Confirms
  <1>4. ASSUME NEW s \in S
        PROVE  LET e == Confirmed(t, s, L[s])[s] IN e \in Entries /\ e.dist = L[s] /\ e.client = t[s].client
    <2> DEFINE e == t[s]
               cost == L[s]
    <2>1. s \in DOMAIN t /\ e \in Entries /\ cost \in Dist
      BY <1>1, <1>2
    <2>2. CASE e.full
      <3>1. Confirmed(t, s, cost) = [t EXCEPT ![s] = [e EXCEPT !.dist = cost]]
        BY <2>2 DEF Confirmed
      <3>2. Confirmed(t, s, cost)[s] = [e EXCEPT !.dist = cost]
        BY <2>1, <3>1
      <3> HIDE DEF e, cost
      <3> QED
        BY <2>1, <3>2 DEF Entries, e, cost
    <2>3. CASE ~e.full
      <3>1. Confirmed(t, s, cost) = [t EXCEPT ![s] = [e EXCEPT !.dist = cost, !.near = TRUE, !.full = TRUE]]
        BY <2>1, <2>3 DEF Confirmed
      <3>2. Confirmed(t, s, cost)[s] = [e EXCEPT !.dist = cost, !.near = TRUE, !.full = TRUE]
        BY <2>1, <3>1
      <3> HIDE DEF e, cost
      <3> QED
        BY <2>1, <3>2 DEF Entries, e, cost
    <2> QED
      BY <2>2, <2>3
  <1>5. /\ DOMAIN u = DOMAIN t
        /\ \A s \in S : u[s] \in Entries /\ u[s].dist = L[s] /\ u[s].client = t[s].client
        /\ \A s \in DOMAIN t \ S : u[s] = t[s]
    BY <1>3, <1>4
  <1>6. u \in [DOMAIN t -> Entries] /\ \A s \in DOMAIN t : u[s].near => s \in Node
    <2>1. u = [s \in DOMAIN t |-> u[s]]
      BY <1>3
    <2> HIDE DEF u
    <2>2. \A s \in DOMAIN t : u[s] \in Entries /\ (u[s].near => s \in Node)
      BY <1>1, <1>2, <1>5
    <2> QED
      BY <2>1, <2>2
  <1> HIDE DEF u
  <1>7. u \in Tables(n)
    BY <1>2, <1>6, IsTable
  <1>8. OldClients(u, t)
    BY <1>5 DEF OldClients
  <1> QED
    BY <1>5, <1>7, <1>8 DEF u

------------------------------------------------------------------------------
(***************************************************************************)
(* A change of the connections that n makes spares the other routers: what *)
(* their sockets are used for and who speaks on them, and the silence of   *)
(* the ones that do not run.                                               *)
(***************************************************************************)
Spared(N, W, n) ==
  \A x \in Node \ {n} : /\ \A y \in Open : Kept(N, W, x, y)
                        /\ ~up[x] /\ Silent(N, x) => Silent(W, x)

LEMMA SparedAgain ==
  ASSUME NEW n, NEW N, NEW M, NEW W, Spared(N, M, n), Spared(M, W, n)
  PROVE  Spared(N, W, n)
  <1> SUFFICES ASSUME NEW x \in Node \ {n}
               PROVE  /\ \A y \in Open : Kept(N, W, x, y)
                      /\ ~up[x] /\ Silent(N, x) => Silent(W, x)
    BY DEF Spared
  <1>1. \A y \in Open : Kept(N, M, x, y) /\ Kept(M, W, x, y)
    BY DEF Spared
  <1>2. \A y \in Open : Kept(N, W, x, y)
    BY <1>1 DEF Kept
  <1> QED
    BY <1>2 DEF Spared

LEMMA SparedByKeeping ==
  ASSUME NEW n, NEW N, NEW W, 
         \A x \in Node \ {n} : /\ W.backlog[x] = N.backlog[x]
                               /\ \A y \in Sock : Kept(N, W, x, y)
  PROVE  Spared(N, W, n)
  BY DEF Spared, Silent, Kept, Sock

LEMMA SparedByConnecting ==
  ASSUME NEW n \in Node, NEW s \in Node, up[s], NEW N, NEW W, NEW k,
         \A x \in Node, y \in Open : <<x, y>> # <<n, k>> => Kept(N, W, x, y),
         \A x \in Node \ {s} : W.backlog[x] = N.backlog[x],
         \A x \in Node \ {n, s}, y \in Sock : Kept(N, W, x, y)
  PROVE  Spared(N, W, n)
  <1> SUFFICES ASSUME NEW x \in Node \ {n}
               PROVE  /\ \A y \in Open : Kept(N, W, x, y)
                      /\ ~up[x] /\ Silent(N, x) => Silent(W, x)
    BY DEF Spared
  <1>1. ASSUME NEW y \in Open PROVE Kept(N, W, x, y)
    <2>1. <<x, y>> # <<n, k>>
      OBVIOUS
    <2> QED
      BY <2>1
  <1>2. ASSUME ~up[x], Silent(N, x) PROVE Silent(W, x)
    <2>1. x \in Node \ {n, s} /\ W.backlog[x] = N.backlog[x]
      BY <1>2
    <2> QED
      BY <1>2, <2>1 DEF Silent, Kept
  <1> QED
    BY <1>1, <1>2

(***************************************************************************)
(* The loop over names passes all of them.                                 *)
(***************************************************************************)
LEMMA FiniteMaximum ==
  ASSUME NEW S, S \subseteq Nat, IsFiniteSet(S), S # {}
  PROVE  \E m \in S : \A x \in S : x <= m
  <1> DEFINE HasMax(T) == \E m \in T : \A x \in T : x <= m
             Bad == {T \in SUBSET S : T # {} /\ ~HasMax(T)}
  <1> SUFFICES ASSUME Bad # {} PROVE FALSE
    OBVIOUS
  <1>1. IsWellFoundedOn(StrictSubsetOrdering(S), FiniteSubsetsOf(S))
    BY FS_StrictSubsetOrderingWellFounded
  <1>2. Bad \subseteq FiniteSubsetsOf(S)
    BY FS_Subset DEF FiniteSubsetsOf
  <1>3. PICK T \in Bad : \A U \in Bad : <<U, T>> \notin StrictSubsetOrdering(S)
    <2> HIDE DEF Bad
    <2> QED BY <1>1, <1>2, WFMin
  <1>4. PICK x \in T : TRUE
    BY <1>3
  <1> DEFINE U == T \ {x}
  <1>5. U \notin Bad
    BY <1>3, <1>4 DEF StrictSubsetOrdering
  <1>6. CASE U = {}
    BY <1>3, <1>4, <1>6
  <1>7. CASE U # {}
    <2>1. PICK m \in U : \A y \in U : y <= m
      BY <1>5, <1>7
    <2>2. m \in T /\ m \in Nat /\ x \in Nat /\ T \subseteq Nat
      BY <1>3, <1>4, <2>1
    <2>3. HasMax(T)
      <3>1. CASE x <= m
        BY <2>1, <2>2, <3>1
      <3>2. CASE ~(x <= m)
        BY <1>4, <2>1, <2>2, <3>2
      <3> QED
        BY <3>1, <3>2
    <2> QED
      BY <1>3, <2>3
  <1> QED
    BY <1>6, <1>7

LEMMA HighestIsNode == Highest \in Node /\ Highest \in Nat
  <1>1. Node \subseteq Nat /\ IsFiniteSet(Node) /\ Node # {}
    BY RouterAssumption DEF RouterAssumption
  <1> QED
    BY <1>1, FiniteMaximum DEF Highest

(***************************************************************************)
(* What the loop that opens connections to the routers of a list goes      *)
(* through, and what the loop that closes connections does.                *)
(***************************************************************************)
InUse(N, n, B) == B \subseteq Open /\ \A k \in B : N.peer[n][k] # Free

Openings(n, L) ==
  {h \in [ok : BOOLEAN, clients : Arrays, net : Nets, table : Tables(n)] :
     /\ IsNet(h.net) /\ Spared(net, h.net, n)
     /\ Houses(h.net, h.clients, n, borrowed[n]) /\ InUse(h.net, n, borrowed[n])
     /\ Points(h.table, h.clients)
     /\ Fits(table[n], clients[n], borrowed[n]) => Fits(h.table, h.clients, borrowed[n])
     /\ DOMAIN table[n] \subseteq DOMAIN h.table
     /\ \A s \in DOMAIN table[n] : h.table[s] = table[n][s]
     /\ \A s \in DOMAIN h.table \ DOMAIN table[n] : s \in DOMAIN L /\ h.table[s].dist = L[s]}

Closings(n, h) ==
  {g \in [ok : BOOLEAN, clients : Arrays, net : Nets, table : {h.table}] :
     /\ IsNet(g.net) /\ Spared(net, g.net, n)
     /\ g.ok => Houses(g.net, g.clients, n, borrowed[n])
     /\ Len(g.clients.slot) = Len(h.clients.slot)
     /\ g.clients = h.clients \/ g.clients.nb < h.clients.nb}

LEMMA OpensOneKeeps ==
  ASSUME NEW n \in Node, NEW L \in List, n \notin DOMAIN L,
         NEW h \in Openings(n, L), NEW s \in DOMAIN L, s \notin DOMAIN table[n]
  PROVE  OpensOne(n, L, h, s) \in Openings(n, L)
  <1>1. CASE ~h.ok \/ ~up[s] \/ FreeAmong(h.net, n, Open) = {} \/ FreeAmong(h.net, s, NotAccepted) = {}
    <2>1. OpensOne(n, L, h, s) = [h EXCEPT !.ok = FALSE]
      BY <1>1 DEF OpensOne
    <2> QED
      BY <2>1 DEF Openings
  <1>2. CASE ~(~h.ok \/ ~up[s] \/ FreeAmong(h.net, n, Open) = {} \/ FreeAmong(h.net, s, NotAccepted) = {})
    <2> DEFINE N == h.net
               C == h.clients
               k == Lowest(FreeAmong(N, n, Open))
               W == Connected(N, n, s)
               D == AddClient(C, [sock |-> k, id |-> s])
               t == h.table
               B == borrowed[n]
               u == Opened(t, s, L[s], D.nb)
               g == [ok |-> TRUE, clients |-> D, net |-> W, table |-> u]
    <2>1. OpensOne(n, L, h, s) = g
      BY <1>2 DEF OpensOne
    <2>2. /\ s \in Node \ {n} /\ L[s] \in Dist /\ up[s] /\ s \in Name \ {n}
          /\ FreeAmong(N, n, Open) # {} /\ FreeAmong(N, s, NotAccepted) # {}
      BY <1>2, NumbersAreEntries DEF List, Name
    <2>3. /\ IsNet(N) /\ Spared(net, N, n) /\ Houses(N, C, n, B) /\ C \in Arrays
          /\ InUse(N, n, B)
          /\ t \in Tables(n) /\ Points(t, C)
          /\ Fits(table[n], clients[n], B) => Fits(t, C, B)
          /\ DOMAIN table[n] \subseteq DOMAIN t
          /\ \A x \in DOMAIN table[n] : t[x] = table[n][x]
          /\ \A x \in DOMAIN t \ DOMAIN table[n] : x \in DOMAIN L /\ t[x].dist = L[x]
      BY DEF Openings
    <2> HIDE DEF N, C, t, B
    <2>4. /\ IsNet(W) /\ W \in Nets
          /\ k \in Open /\ N.peer[n][k] = Free /\ W.peer[n][k] # Free /\ Speaks(W, n, k, s)
          /\ \A x \in Node, y \in Open : <<x, y>> # <<n, k>> => Kept(N, W, x, y)
          /\ \A x \in Node \ {s} : W.backlog[x] = N.backlog[x]
          /\ \A x \in Node \ {n, s}, y \in Sock : Kept(N, W, x, y)
      BY <2>2, <2>3, ConnectedKeeps DEF IsNet
    <2> HIDE DEF k, W
    <2> HIDE DEF D, u, g
    <2>5. Spared(net, W, n)
      <3>1. Spared(N, W, n)
        BY <2>2, <2>4, SparedByConnecting
      <3> QED
        BY <2>3, <3>1, SparedAgain
    <2>6. \A y \in Open : y # k => Kept(N, W, n, y)
      <3>1. \A y : y # k => <<n, y>> # <<n, k>>
        OBVIOUS
      <3> QED
        BY <2>4, <3>1
    <2>7. /\ D \in Arrays /\ Houses(W, D, n, B)
          /\ D.nb = C.nb + 1 /\ D.slot[D.nb] = [sock |-> k, id |-> s]
          /\ Len(D.slot) >= Len(C.slot)
          /\ \A i \in 2..C.nb : D.slot[i] = C.slot[i]
      <3>1. k \notin B => s \in Node /\ Speaks(W, n, k, s)
        BY <2>2, <2>4
      <3>2. /\ C \in Arrays /\ Houses(N, C, n, B) /\ k \in Open /\ s \in Name \ {n}
            /\ N.peer[n][k] = Free /\ W.peer[n][k] # Free
        BY <2>2, <2>3, <2>4
      <3> QED
        BY <2>6, <3>1, <3>2, AddKeeps, SMTT(30) DEF D
    <2>8. /\ C.nb \in Nat /\ Len(C.slot) \in Nat /\ Len(D.slot) \in Nat /\ C.nb \in 1..Len(C.slot)
          /\ D.nb \in Nat /\ D.nb \in 1..Len(D.slot)
      BY <2>3, <2>7, ArrayTypes DEF Houses
    <2>9. /\ u \in Tables(n) /\ DOMAIN u = DOMAIN t \cup {s}
          /\ u[s].client = D.nb /\ u[s].dist = L[s] /\ \A x \in DOMAIN t : x # s => u[x] = t[x]
      <3> DEFINE cost == L[s]
                 c == D.nb
                 v == Opened(t, s, cost, c)
      <3>1. t \in Tables(n) /\ s \in Node \ {n} /\ cost \in Dist /\ c \in Nat
        BY <2>2, <2>3, <2>8
      <3> HIDE DEF cost, c
      <3>2. /\ v \in Tables(n) /\ DOMAIN v = DOMAIN t \cup {s}
            /\ v[s].client = c /\ v[s].dist = cost /\ \A x \in DOMAIN t : x # s => v[x] = t[x]
        <4>1. v \in Tables(n) /\ Joined(v, t, s, c) /\ v[s].dist = cost
          BY <3>1, OpenedKeeps
        <4> HIDE DEF v
        <4> QED
          BY <4>1 DEF Joined
      <3> HIDE DEF v
      <3>3. u = v
        BY DEF u, v, cost, c
      <3> QED
        BY <3>2, <3>3 DEF cost, c
    <2>10. Points(u, D)
      <3> SUFFICES ASSUME NEW x \in DOMAIN u, u[x].client # NoClient
                   PROVE  x \in Node /\ u[x].client \in 2..Len(D.slot)
        BY DEF Points
      <3>1. CASE x = s
        BY <2>2, <2>7, <2>8, <2>9, <3>1
      <3>2. CASE x # s
        <4>1. x \in DOMAIN t /\ u[x] = t[x] /\ Points(t, C)
          BY <2>3, <2>9, <3>2
        <4>2. x \in Node /\ u[x].client \in 2..Len(C.slot)
          BY <4>1 DEF Points
        <4> QED
          BY <2>7, <2>8, <4>2
      <3> QED
        BY <3>1, <3>2
    <2>11. ASSUME Fits(t, C, B) PROVE Fits(u, D, B)
      <3> SUFFICES ASSUME NEW x \in DOMAIN u, u[x].client # NoClient
                   PROVE  /\ u[x].client \in 2..D.nb
                          /\ D.slot[u[x].client].id = x /\ D.slot[u[x].client].sock \notin B
        BY DEF Fits
      <3>1. CASE x = s
        <4>1. k \notin B
          BY <2>3, <2>4 DEF InUse
        <4> QED
          BY <2>2, <2>7, <2>8, <2>9, <3>1, <4>1
      <3>2. CASE x # s
        <4>1. x \in DOMAIN t /\ u[x] = t[x]
          BY <2>9, <3>2
        <4>2. /\ u[x].client \in 2..C.nb
              /\ C.slot[u[x].client].id = x /\ C.slot[u[x].client].sock \notin B
          BY <2>11, <4>1 DEF Fits
        <4> QED
          BY <2>7, <2>8, <4>2
      <3> QED
        BY <3>1, <3>2
    <2>12. /\ DOMAIN table[n] \subseteq DOMAIN u
           /\ \A x \in DOMAIN table[n] : u[x] = table[n][x]
           /\ \A x \in DOMAIN u \ DOMAIN table[n] : x \in DOMAIN L /\ u[x].dist = L[x]
      BY <2>3, <2>9
    <2>13. g \in [ok : BOOLEAN, clients : Arrays, net : Nets, table : Tables(n)]
      BY <2>4, <2>7, <2>9 DEF g
    <2>14. g.clients = D /\ g.net = W /\ g.table = u
      BY DEF g
    <2>15. Fits(table[n], clients[n], B) => Fits(u, D, B)
      BY <2>3, <2>11
    <2>16. InUse(W, n, B)
      BY <2>3, <2>4, <2>6 DEF InUse, Kept
    <2>17. g \in Openings(n, L)
      BY <2>4, <2>5, <2>7, <2>10, <2>12, <2>13, <2>14, <2>15, <2>16 DEF Openings, B
    <2> QED
      BY <2>1, <2>17 DEF g, u, D, W, k, t, C, N
  <1> QED
    BY <1>1, <1>2

(***************************************************************************)
(* A loop over the names of S, whose body stays in V, has a run.           *)
(***************************************************************************)
RunOf(f, H, base, S, one) ==
  /\ f[0] = base
  /\ \A s \in 1..H : f[s] = IF s \in S THEN one[s][f[s - 1]] ELSE f[s - 1]

LEMMA LoopRuns ==
  ASSUME NEW H \in Nat, NEW V, NEW base \in V, NEW S, NEW one \in [S -> [V -> V]]
  PROVE  \E f \in [0..H -> V] : RunOf(f, H, base, S, one)
  <1> DEFINE step == [s \in 1..H |-> [h \in V |-> IF s \in S THEN one[s][h] ELSE h]]
  <1>1. step \in [1..H -> [V -> V]]
    OBVIOUS
  <1>2. \A s \in 1..H, h \in V : step[s][h] = IF s \in S THEN one[s][h] ELSE h
    OBVIOUS
  <1> HIDE DEF step
  <1>3. PICK f \in [0..H -> V] : Iterates(f, H, base, step)
    BY <1>1, RecursiveFunction
  <1>4. ASSUME NEW s \in 1..H PROVE f[s] = IF s \in S THEN one[s][f[s - 1]] ELSE f[s - 1]
    <2>1. s - 1 \in 0..H
      OBVIOUS
    <2> QED
      BY <1>2, <1>3, <2>1 DEF Iterates
  <1> QED
    BY <1>3, <1>4 DEF Iterates, RunOf

LEMMA OpensKeeps ==
  ASSUME NEW n \in Node, NEW L \in List, n \notin DOMAIN L,
         [ok |-> TRUE, clients |-> clients[n], net |-> net, table |-> table[n]] \in Openings(n, L)
  PROVE  Opens(n, L) \in Openings(n, L)
  <1> DEFINE H == Highest
             V == Openings(n, L)
             S == DOMAIN L \ DOMAIN table[n]
             base == [ok |-> TRUE, clients |-> clients[n], net |-> net, table |-> table[n]]
             one == [s \in S |-> [h \in V |-> OpensOne(n, L, h, s)]]
             G(f) == [s \in 0..H |-> IF s = 0 THEN base ELSE IF s \in S THEN OpensOne(n, L, f[s - 1], s)
                                     ELSE f[s - 1]]
             run == Opening(n, L)
  <1>1. H \in Nat /\ H \in 0..H /\ base \in V
    BY HighestIsNode
  <1>2. \A s \in S, h \in V : OpensOne(n, L, h, s) \in V
    BY OpensOneKeeps
  <1> HIDE DEF H, V, base
  <1>3. one \in [S -> [V -> V]] /\ \A s \in S, h \in V : one[s][h] = OpensOne(n, L, h, s)
    BY <1>2
  <1> HIDE DEF one, S
  <1>4. PICK f \in [0..H -> V] : RunOf(f, H, base, S, one)
    BY <1>1, <1>3, LoopRuns
  <1>5. ASSUME NEW s \in 0..H
        PROVE  f[s] = IF s = 0 THEN base ELSE IF s \in S THEN OpensOne(n, L, f[s - 1], s) ELSE f[s - 1]
    <2>1. CASE s = 0
      BY <1>4, <2>1 DEF RunOf
    <2>2. CASE s # 0
      <3>1. s \in 1..H /\ s - 1 \in 0..H
        BY <1>1, <2>2
      <3> QED
        BY <1>3, <1>4, <2>2, <3>1 DEF RunOf
    <2> QED
      BY <2>1, <2>2
  <1>6. f = G(f)
    BY <1>4, <1>5
  <1>7. run = G(run)
    BY <1>6, Zenon DEF Opening, H, S, base
  <1> HIDE DEF run
  <1>8. run[0] = base /\ \A s \in 1..H : run[s] = IF s \in S THEN OpensOne(n, L, run[s - 1], s) ELSE run[s - 1]
    <2>1. ASSUME NEW g, g = G(g)
          PROVE  g[0] = base /\ \A s \in 1..H : g[s] = IF s \in S THEN OpensOne(n, L, g[s - 1], s) ELSE g[s - 1]
      BY <1>1, <2>1
    <2> QED
      BY <1>7, <2>1
  <1> DEFINE R == {s \in 0..H : run[s] \in V}
  <1>9. 0 \in R
    BY <1>1, <1>8
  <1>10. ASSUME NEW s \in 0..(H - 1), s \in R PROVE s + 1 \in R
    <2>1. s + 1 \in 1..H /\ s + 1 \in 0..H /\ (s + 1) - 1 = s /\ run[s] \in V
      BY <1>1, <1>10
    <2> QED
      BY <1>2, <1>8, <2>1
  <1>11. H \in R
    <2> HIDE DEF R
    <2>1. 0..H \subseteq R
      BY <1>1, <1>9, <1>10, BoundedInduction
    <2> QED
      BY <1>1, <2>1
  <1> QED
    BY <1>11 DEF Opens, run, H, V

LEMMA ClosesOneKeeps ==
  ASSUME NEW n \in Node, NEW h, h.clients \in Arrays, Points(h.table, h.clients),
         NEW g \in Closings(n, h), NEW s \in DOMAIN h.table
  PROVE  ClosesOne(n, g, s) \in Closings(n, h)
  <1>1. /\ IsNet(g.net) /\ Spared(net, g.net, n) /\ g.table = h.table
        /\ g.ok => Houses(g.net, g.clients, n, borrowed[n])
        /\ Len(g.clients.slot) = Len(h.clients.slot)
        /\ g.clients = h.clients \/ g.clients.nb < h.clients.nb
        /\ g.clients \in Arrays /\ g.clients.nb \in Nat /\ h.clients.nb \in Nat
    BY ArrayTypes DEF Closings
  <1>2. CASE ~g.ok \/ g.table[s].client = NoClient
    <2>1. ClosesOne(n, g, s) = [g EXCEPT !.ok = FALSE]
      BY <1>2 DEF ClosesOne
    <2> QED
      BY <2>1 DEF Closings
  <1>3. CASE ~(~g.ok \/ g.table[s].client = NoClient)
    <2> DEFINE N == g.net
               C == g.clients
               p == g.table[s].client
               B == borrowed[n]
               c == C.slot[p]
               D == RemoveClient(C, c)
               W == CloseSock(N, n, c.sock)
               r == [ok |-> c.sock \notin UsedSocks(D), clients |-> D, net |-> W, table |-> g.table]
    <2>1. ClosesOne(n, g, s) = r
      BY <1>3 DEF ClosesOne
    <2>2. p \in 2..Len(C.slot)
      BY <1>1, <1>3 DEF Points
    <2>3. IsNet(N) /\ C \in Arrays /\ Houses(N, C, n, B)
      BY <1>1, <1>3
    <2> HIDE DEF N, C, p, B
    <2>4. /\ D \in Arrays /\ D.nb \in Nat /\ Len(D.slot) = Len(C.slot)
          /\ D = C \/ D.nb < C.nb
          /\ c.sock \notin UsedSocks(D) => Houses(W, D, n, B)
          /\ IsNet(W) /\ W.backlog = N.backlog
          /\ \A x \in Node \ {n} : \A y \in Sock : Kept(N, W, x, y)
      BY <2>2, <2>3, RemoveKeeps
    <2> HIDE DEF c, D, W, r
    <2>5. Spared(N, W, n)
      BY <2>4, SparedByKeeping
    <2>6. Spared(net, W, n)
      BY <1>1, <2>5, SparedAgain DEF N
    <2>7. /\ r.ok \in BOOLEAN /\ r.clients = D /\ r.net = W /\ r.table = h.table
          /\ r.ok = (c.sock \notin UsedSocks(D))
          /\ r \in [ok : BOOLEAN, clients : Arrays, net : Nets, table : {h.table}]
      <3>1. W \in Nets
        BY <2>4 DEF IsNet
      <3> QED
        BY <1>1, <2>4, <3>1 DEF r
    <2>8. D = h.clients \/ D.nb < h.clients.nb
      BY <1>1, <2>4 DEF C
    <2>9. Len(D.slot) = Len(h.clients.slot)
      BY <1>1, <2>4 DEF C
    <2>10. r \in Closings(n, h)
      BY <2>4, <2>6, <2>7, <2>8, <2>9 DEF Closings, B
    <2> QED
      BY <2>1, <2>10 DEF r, W, D, c, p, C, N
  <1> QED
    BY <1>2, <1>3

LEMMA ClosesKeeps ==
  ASSUME NEW n \in Node, NEW h, h.clients \in Arrays, Points(h.table, h.clients),
         h \in Closings(n, h), NEW S, S \subseteq DOMAIN h.table
  PROVE  Closes(n, h, S) \in Closings(n, h)
  <1> DEFINE H == Highest
             V == Closings(n, h)
             one == [s \in S |-> [g \in V |-> ClosesOne(n, g, s)]]
             G(f) == [s \in 0..H |-> IF s = 0 THEN h ELSE IF s \in S THEN ClosesOne(n, f[s - 1], s)
                                     ELSE f[s - 1]]
             run == Closing(n, h, S)
  <1>1. H \in Nat /\ H \in 0..H /\ h \in V
    BY HighestIsNode
  <1>2. \A s \in S, g \in V : ClosesOne(n, g, s) \in V
    BY ClosesOneKeeps
  <1> HIDE DEF H, V
  <1>3. one \in [S -> [V -> V]] /\ \A s \in S, g \in V : one[s][g] = ClosesOne(n, g, s)
    BY <1>2
  <1> HIDE DEF one
  <1>4. PICK f \in [0..H -> V] : RunOf(f, H, h, S, one)
    BY <1>1, <1>3, LoopRuns
  <1>5. ASSUME NEW s \in 0..H
        PROVE  f[s] = IF s = 0 THEN h ELSE IF s \in S THEN ClosesOne(n, f[s - 1], s) ELSE f[s - 1]
    <2>1. CASE s = 0
      BY <1>4, <2>1 DEF RunOf
    <2>2. CASE s # 0
      <3>1. s \in 1..H /\ s - 1 \in 0..H
        BY <1>1, <2>2
      <3> QED
        BY <1>3, <1>4, <2>2, <3>1 DEF RunOf
    <2> QED
      BY <2>1, <2>2
  <1>6. f = G(f)
    BY <1>4, <1>5
  <1>7. run = G(run)
    BY <1>6, Zenon DEF Closing, H
  <1> HIDE DEF run
  <1>8. run[0] = h /\ \A s \in 1..H : run[s] = IF s \in S THEN ClosesOne(n, run[s - 1], s) ELSE run[s - 1]
    <2>1. ASSUME NEW g, g = G(g)
          PROVE  g[0] = h /\ \A s \in 1..H : g[s] = IF s \in S THEN ClosesOne(n, g[s - 1], s) ELSE g[s - 1]
      BY <1>1, <2>1
    <2> QED
      BY <1>7, <2>1
  <1> DEFINE R == {s \in 0..H : run[s] \in V}
  <1>9. 0 \in R
    BY <1>1, <1>8
  <1>10. ASSUME NEW s \in 0..(H - 1), s \in R PROVE s + 1 \in R
    <2>1. s + 1 \in 1..H /\ s + 1 \in 0..H /\ (s + 1) - 1 = s /\ run[s] \in V
      BY <1>1, <1>10
    <2> QED
      BY <1>2, <1>8, <2>1
  <1>11. H \in R
    <2> HIDE DEF R
    <2>1. 0..H \subseteq R
      BY <1>1, <1>9, <1>10, BoundedInduction
    <2> QED
      BY <1>1, <2>1
  <1> QED
    BY <1>11 DEF Closes, run, H, V

------------------------------------------------------------------------------
(***************************************************************************)
(* The inductive invariant.                                                *)
(***************************************************************************)
Lists(n) == {L \in List : n \notin DOMAIN L}

Fields ==
  /\ up \in [Node -> BOOLEAN] /\ known \in [Node -> BOOLEAN]
  /\ stale \in [Node -> BOOLEAN] /\ moved \in [Node -> BOOLEAN]
  /\ DOMAIN table = Node /\ DOMAIN clients = Node /\ DOMAIN list = Node /\ DOMAIN told = Node
  /\ DOMAIN borrowed = Node
  /\ weight \in [Edge -> Weight \cup {NoEdge}] /\ \A n \in Node : weight[{n}] = NoEdge

Station(n) ==
  /\ clients[n] \in Arrays /\ table[n] \in Tables(n) /\ list[n] \in Seq(Lists(n))
  /\ up[n] => known[n] /\ Houses(net, clients[n], n, borrowed[n])
  /\ ~up[n] => /\ Silent(net, n) /\ clients[n] = NoClients /\ table[n] = NoTable
               /\ list[n] = <<>> /\ borrowed[n] = {}
  /\ InUse(net, n, borrowed[n])
  /\ Points(table[n], clients[n])
  /\ ~moved[n] => Fits(table[n], clients[n], borrowed[n])

Inv == Fields /\ IsNet(net) /\ \A n \in Node : Station(n)

LEMMA NothingThere ==
  ASSUME NEW n
  PROVE  /\ NoClients \in Arrays /\ NoTable \in Tables(n)
         /\ \A C : Points(NoTable, C) /\ \A B : Fits(NoTable, C, B)
         /\ \A L : Costed(NoTable, L)
  <1>1. NoClients \in Arrays
    BY EmptySeq DEF NoClients, Arrays
  <1>2. DOMAIN NoTable = {} /\ NoTable \in [{} -> Entries]
    BY DEF NoTable
  <1>3. NoTable \in Tables(n)
    BY <1>2, IsTable
  <1> QED
    BY <1>1, <1>2, <1>3 DEF Points, Fits, Costed

(***************************************************************************)
(* A step that n takes alone.                                              *)
(***************************************************************************)
Local(n) ==
  \A x \in Node \ {n} :
    /\ up'[x] = up[x] /\ known'[x] = known[x] /\ table'[x] = table[x]
    /\ clients'[x] = clients[x] /\ list'[x] = list[x] /\ moved'[x] = moved[x]
    /\ borrowed'[x] = borrowed[x]

LEMMA LocalStep ==
  ASSUME Inv, NEW n \in Node, Fields', IsNet(net'), Spared(net, net', n), Local(n), Station(n)'
  PROVE  Inv'
  <1>1. ASSUME NEW x \in Node \ {n} PROVE Station(x)'
    <2>1. /\ up'[x] = up[x] /\ known'[x] = known[x] /\ table'[x] = table[x]
          /\ clients'[x] = clients[x] /\ list'[x] = list[x] /\ moved'[x] = moved[x]
          /\ borrowed'[x] = borrowed[x]
      BY DEF Local
    <2>2. Station(x)
      BY DEF Inv
    <2>3. \A y \in Open : Kept(net, net', x, y)
      BY DEF Spared
    <2>4. up[x] => Houses(net', clients[x], x, borrowed[x])
      BY <2>2, <2>3, HousesKept DEF Station
    <2>5. ~up[x] => Silent(net', x)
      BY <2>2 DEF Station, Spared
    <2>6. InUse(net', x, borrowed[x])
      BY <2>2, <2>3 DEF Station, InUse, Kept
    <2> QED
      BY <2>1, <2>2, <2>4, <2>5, <2>6 DEF Station
  <1> QED
    BY <1>1 DEF Inv

(***************************************************************************)
(* The end of the process of n, after what it did to its connections.      *)
(***************************************************************************)
LEMMA EndsKeeps ==
  ASSUME Inv, NEW n \in Node, NEW N, IsNet(N), Spared(net, N, n), Ends(n, N), UNCHANGED controller
  PROVE  Inv'
  <1>1. /\ up' = [up EXCEPT ![n] = FALSE]
        /\ table' = [table EXCEPT ![n] = NoTable]
        /\ clients' = [clients EXCEPT ![n] = NoClients]
        /\ net' = CloseAll(N, n)
        /\ list' = [list EXCEPT ![n] = <<>>]
        /\ told' = [told EXCEPT ![n] = NoList]
        /\ moved' = [moved EXCEPT ![n] = FALSE]
        /\ borrowed' = [borrowed EXCEPT ![n] = {}]
        /\ known' = known /\ stale' = stale /\ weight' = weight
    BY DEF Ends, controller
  <1>2. Fields
    BY DEF Inv
  <1>3. /\ IsNet(net') /\ Silent(net', n)
        /\ \A x \in Node \ {n} : /\ net'.backlog[x] = N.backlog[x]
                                 /\ \A y \in Sock : Kept(N, net', x, y)
    BY <1>1, CloseAllKeeps
  <1>4. Spared(net, net', n)
    BY <1>3, SparedByKeeping, SparedAgain
  <1>5. Fields'
    BY <1>1, <1>2 DEF Fields
  <1>6. Local(n)
    BY <1>1, <1>2 DEF Fields, Local
  <1>7. Station(n)'
    <2>1. /\ up'[n] = FALSE /\ table'[n] = NoTable /\ clients'[n] = NoClients /\ list'[n] = <<>>
          /\ borrowed'[n] = {}
      BY <1>1, <1>2 DEF Fields
    <2>2. <<>> \in Seq(Lists(n)) /\ InUse(net', n, {})
      BY EmptySeq DEF InUse
    <2> QED
      BY <1>3, <2>1, <2>2, NothingThere DEF Station
  <1> QED
    BY <1>3, <1>4, <1>5, <1>6, <1>7, LocalStep

(***************************************************************************)
(* A step of n that changes neither its array nor which of its sockets are *)
(* in use.                                                                 *)
(***************************************************************************)
LEMMA TalkKeeps ==
  ASSUME Inv, NEW n \in Node, up[n], IsNet(net'), net'.backlog = net.backlog,
         \A x \in Node, y \in Sock : Kept(net, net', x, y),
         NEW t \in Tables(n), OldClients(t, table[n]),
         DOMAIN table' = Node, table'[n] = t, \A x \in Node \ {n} : table'[x] = table[x],
         UNCHANGED <<up, clients, list, told, moved, borrowed>>, UNCHANGED controller
  PROVE  Inv'
  <1>1. /\ up' = up /\ clients' = clients /\ list' = list /\ moved' = moved /\ told' = told
        /\ borrowed' = borrowed /\ known' = known /\ stale' = stale /\ weight' = weight
    BY DEF controller
  <1>2. Fields /\ Station(n)
    BY DEF Inv
  <1>3. table'[n] = t /\ \A x \in Node \ {n} : table'[x] = table[x]
    OBVIOUS
  <1>4. Fields'
    BY <1>1, <1>2 DEF Fields
  <1>5. Local(n)
    BY <1>1, <1>3 DEF Local
  <1>6. Spared(net, net', n)
    BY SparedByKeeping
  <1>7. Station(n)'
    <2>1. Houses(net', clients[n], n, borrowed[n])
      <3>1. \A y \in Open : Kept(net, net', n, y)
        BY DEF Sock
      <3> QED
        BY <1>2, <3>1, HousesKept DEF Station
    <2>2. Points(t, clients[n]) /\ (~moved[n] => Fits(t, clients[n], borrowed[n]))
      BY <1>2, OldClientsStay DEF Station
    <2>3. InUse(net', n, borrowed[n])
      BY <1>2 DEF Station, InUse, Kept, Sock
    <2> QED
      BY <1>1, <1>2, <1>3, <2>1, <2>2, <2>3 DEF Station
  <1> QED
    BY <1>4, <1>5, <1>6, <1>7, LocalStep

LEMMA SendsKeeps ==
  ASSUME Inv, NEW n \in Node, up[n], NEW N, IsNet(N), N.backlog = net.backlog,
         \A x \in Node, y \in Sock : Kept(net, N, x, y),
         NEW t \in Tables(n), OldClients(t, table[n]), NEW c, NEW m \in Message, Own(m, n),
         Sends(n, t, c, m, N), UNCHANGED controller
  PROVE  Inv'
  <1>1. CASE Ends(n, N)
    <2>1. Spared(net, N, n)
      BY SparedByKeeping
    <2> QED
      BY <1>1, <2>1, EndsKeeps
  <1>2. CASE /\ table' = [table EXCEPT ![n] = t]
             /\ net' = Write(N, n, clients[n].slot[c].sock, m)
             /\ UNCHANGED <<up, clients, list, told, moved, borrowed>>
    <2> DEFINE k == clients[n].slot[c].sock
    <2> HIDE DEF k
    <2>1. net' = Write(N, n, k, m)
      BY <1>2 DEF k
    <2>2. IsNet(net') /\ \A x \in Node, y \in Sock : Kept(N, net', x, y)
      BY <2>1, WriteKeeps
    <2>3. net'.backlog = net.backlog
      <3>1. N \in Nets
        BY DEF IsNet
      <3> QED
        BY <2>1, <3>1, WriteShape
    <2>4. \A x \in Node, y \in Sock : Kept(net, net', x, y)
      BY <2>2 DEF Kept
    <2>5. /\ DOMAIN table' = Node /\ table'[n] = t
          /\ \A x \in Node \ {n} : table'[x] = table[x]
      BY <1>2 DEF Inv, Fields
    <2> QED
      BY <1>2, <2>2, <2>3, <2>4, <2>5, TalkKeeps
  <1> QED
    BY <1>1, <1>2 DEF Sends

------------------------------------------------------------------------------
(***************************************************************************)
(* The steps of the controller.                                            *)
(***************************************************************************)
LEMMA SparedBySame ==
  ASSUME NEW n, NEW N
  PROVE  Spared(N, N, n)
  BY DEF Spared, Kept

LEMMA OnlyControllerHoused ==
  ASSUME NEW N, NEW n \in Node, Silent(N, n)
  PROVE  OnlyController \in Arrays /\ Houses(N, OnlyController, n, {})
  <1> DEFINE c == [sock |-> 1, id |-> Controller]
             C == OnlyController
  <1>1. C = [slot |-> <<c>>, nb |-> 1]
    BY DEF OnlyController, AddClient, NoClients
  <1>2. c \in Client
    BY DEF Client, Name
  <1> HIDE DEF c
  <1>3. <<c>> \in Seq(Client) /\ Len(<<c>>) = 1 /\ <<c>>[1] = c
    BY <1>2
  <1>4. C \in Arrays /\ C.slot = <<c>> /\ C.nb = 1
    BY <1>1, <1>3 DEF Arrays
  <1>5. 2..1 = {} /\ 1 \in 1..1
    OBVIOUS
  <1>6. \A k \in Open : N.peer[n][k] = Free
    BY DEF Silent, Sock
  <1> HIDE DEF C
  <1> QED
    BY <1>3, <1>4, <1>5, <1>6 DEF Houses, C, c

LEMMA LoginKeeps ==
  ASSUME Inv, NEW n \in Node, Login(n)
  PROVE  Inv'
  <1>1. Fields /\ Station(n)
    BY DEF Inv
  <1>2. /\ ~up[n]
        /\ up' = [up EXCEPT ![n] = TRUE]
        /\ clients' = [clients EXCEPT ![n] = OnlyController]
        /\ known' = [known EXCEPT ![n] = TRUE]
        /\ stale' = MarkedStale({n} \cup {m \in Node : Adjacent(m, n)})
        /\ table' = table /\ net' = net /\ list' = list /\ weight' = weight
        /\ told' = told /\ moved' = moved /\ borrowed' = borrowed
    BY DEF Login
  <1>3. stale' \in [Node -> BOOLEAN]
    BY <1>2 DEF MarkedStale
  <1>4. Fields'
    BY <1>1, <1>2, <1>3 DEF Fields
  <1>5. Local(n) /\ up'[n] = TRUE /\ known'[n] = TRUE /\ clients'[n] = OnlyController
    BY <1>1, <1>2 DEF Fields, Local
  <1>6. Spared(net, net', n) /\ IsNet(net')
    BY <1>2, SparedBySame DEF Inv
  <1>7. Station(n)'
    <2>1. Silent(net, n) /\ table[n] = NoTable /\ list[n] = <<>> /\ borrowed[n] = {}
      BY <1>1, <1>2 DEF Station
    <2>2. OnlyController \in Arrays /\ Houses(net, OnlyController, n, {})
      BY <2>1, OnlyControllerHoused
    <2>3. <<>> \in Seq(Lists(n)) /\ InUse(net, n, {})
      BY EmptySeq DEF InUse
    <2> QED
      BY <1>2, <1>5, <2>1, <2>2, <2>3, NothingThere DEF Station
  <1> QED
    BY <1>4, <1>5, <1>6, <1>7, LocalStep

(***************************************************************************)
(* What the controller lists of n is a list without n.                     *)
(***************************************************************************)
LEMMA NeighborhoodIsList ==
  ASSUME Fields, NEW n \in Node
  PROVE  /\ Neighborhood(n) \in Lists(n)
         /\ DOMAIN Neighborhood(n) = {m \in Node : Adjacent(m, n) /\ known[m]}
         /\ \A m \in DOMAIN Neighborhood(n) : Neighborhood(n)[m] = weight[{m, n}]
  <1> DEFINE near == {m \in Node : Adjacent(m, n) /\ known[m]}
             L == Neighborhood(n)
  <1>1. L = [m \in near |-> weight[{m, n}]]
    BY DEF Neighborhood
  <1>2. ASSUME NEW m \in near PROVE weight[{m, n}] \in Weight /\ m \in Node /\ m # n
    <2>1. m \in Node /\ weight[{m, n}] # NoEdge /\ {m, n} \in Edge
      BY DEF Adjacent, Edge
    <2>2. weight[{m, n}] \in Weight
      BY <2>1 DEF Fields
    <2>3. {n, n} = {n} /\ weight[{n}] = NoEdge
      BY DEF Fields
    <2> QED
      BY <2>1, <2>2, <2>3
  <1>3. L \in [near -> Weight] /\ near \subseteq Node /\ n \notin DOMAIN L
    BY <1>1, <1>2
  <1>4. L \in List
    <2> HIDE DEF near, L
    <2> QED BY <1>3 DEF List
  <1> QED
    BY <1>1, <1>3, <1>4 DEF Lists

LEMMA PollKeeps ==
  ASSUME Inv, NEW n \in Node, Poll(n)
  PROVE  Inv'
  <1> DEFINE queue == Append(list[n], Neighborhood(n))
  <1>1. Fields /\ Station(n)
    BY DEF Inv
  <1>2. /\ up[n] /\ list' = [list EXCEPT ![n] = queue] /\ stale' = [stale EXCEPT ![n] = FALSE]
        /\ up' = up /\ table' = table /\ clients' = clients /\ net' = net /\ known' = known
        /\ weight' = weight /\ told' = told /\ moved' = moved /\ borrowed' = borrowed
    BY DEF Poll
  <1>3. queue \in Seq(Lists(n))
    <2>1. Neighborhood(n) \in Lists(n) /\ list[n] \in Seq(Lists(n))
      BY <1>1, NeighborhoodIsList DEF Station
    <2> QED
      BY <2>1, AppendProperties
  <1> HIDE DEF queue
  <1>4. Fields'
    BY <1>1, <1>2 DEF Fields
  <1>5. Local(n) /\ list'[n] = queue
    BY <1>1, <1>2 DEF Fields, Local
  <1>6. Spared(net, net', n) /\ IsNet(net')
    BY <1>2, SparedBySame DEF Inv
  <1>7. Station(n)'
    BY <1>1, <1>2, <1>3, <1>5 DEF Station
  <1> QED
    BY <1>4, <1>5, <1>6, <1>7, LocalStep

LEMMA SeesClosedKeeps ==
  ASSUME Inv, NEW n \in Node, SeesClosed(n)
  PROVE  Inv'
  <1>1. Fields /\ Station(n)
    BY DEF Inv
  <1>2. /\ ~up[n] /\ known' = [known EXCEPT ![n] = FALSE]
        /\ stale' = MarkedStale({m \in Node : Adjacent(m, n)})
        /\ up' = up /\ table' = table /\ clients' = clients /\ net' = net /\ list' = list
        /\ weight' = weight /\ told' = told /\ moved' = moved /\ borrowed' = borrowed
    BY DEF SeesClosed, Routed
  <1>3. stale' \in [Node -> BOOLEAN]
    BY <1>2 DEF MarkedStale
  <1>4. Fields'
    BY <1>1, <1>2, <1>3 DEF Fields
  <1>5. Local(n)
    BY <1>1, <1>2 DEF Fields, Local
  <1>6. Spared(net, net', n) /\ IsNet(net')
    BY <1>2, SparedBySame DEF Inv
  <1>7. Station(n)'
    BY <1>1, <1>2 DEF Station
  <1> QED
    BY <1>4, <1>5, <1>6, <1>7, LocalStep

LEMMA EditKeeps ==
  ASSUME Inv, NEW c \in Command, Edit(c[1], c[2], c[3])
  PROVE  Inv'
  <1> DEFINE m == c[1]
             n == c[2]
             w == c[3]
  <1>0. m \in Node /\ n \in Node /\ w \in Weight \cup {NoEdge}
    BY RouterAssumption DEF RouterAssumption
  <1> HIDE DEF m, n, w
  <1>1. /\ m # n /\ weight' = [weight EXCEPT ![{m, n}] = w] /\ stale' = MarkedStale({m, n})
        /\ up' = up /\ table' = table /\ clients' = clients /\ net' = net /\ list' = list
        /\ known' = known /\ told' = told /\ moved' = moved /\ borrowed' = borrowed
    BY DEF Edit, Routed, m, n, w
  <1>2. Fields
    BY DEF Inv
  <1>3. stale' \in [Node -> BOOLEAN]
    BY <1>1 DEF MarkedStale
  <1>4. weight' \in [Edge -> Weight \cup {NoEdge}] /\ \A x \in Node : weight'[{x}] = NoEdge
    <2>1. \A x \in Node : {x} # {m, n} /\ {x} \in Edge
      BY <1>1 DEF Edge
    <2> QED
      BY <1>0, <1>1, <1>2, <2>1 DEF Fields
  <1>5. Fields'
    BY <1>1, <1>2, <1>3, <1>4 DEF Fields
  <1> QED
    BY <1>1, <1>5 DEF Inv, Station

------------------------------------------------------------------------------
(***************************************************************************)
(* The steps of the routers on their connections.                          *)
(***************************************************************************)
LEMMA QuitKeeps ==
  ASSUME Inv, NEW n \in Node, Quit(n)
  PROVE  Inv'
  BY SparedBySame, EndsKeeps DEF Quit, Inv

(***************************************************************************)
(* What is sent to a neighbour: the vector, or what is left of it.         *)
(***************************************************************************)
LEMMA SendsVector ==
  ASSUME NEW n \in Node, NEW s \in Node, SendVector(n, s), table[n] \in Tables(n)
  PROVE  /\ up[n] /\ s \in DOMAIN table[n] /\ UNCHANGED controller
         /\ \E m \in Message :
              /\ m = VectorMessage(Vector(table[n], s)) \/ m = Unreadable
              /\ Own(m, n) /\ Sends(n, table[n], table[n][s].client, m, net)
  <1>1. /\ VectorMessage(Vector(table[n], s)) \in Message /\ Own(VectorMessage(Vector(table[n], s)), n)
        /\ Unreadable \in Message /\ Own(Unreadable, n)
    BY SaidByOwner
  <1>2. /\ up[n] /\ s \in DOMAIN table[n] /\ UNCHANGED controller
        /\ \/ Sends(n, table[n], table[n][s].client, VectorMessage(Vector(table[n], s)), net)
           \/ Sends(n, table[n], table[n][s].client, Unreadable, net)
    BY DEF SendVector
  <1> QED
    BY <1>1, <1>2

LEMMA SendVectorKeeps ==
  ASSUME Inv, NEW n \in Node, NEW s \in Node, SendVector(n, s)
  PROVE  Inv'
  <1>1. table[n] \in Tables(n) /\ OldClients(table[n], table[n])
    BY DEF Inv, Station, OldClients
  <1>2. up[n] /\ UNCHANGED controller
    BY <1>1, SendsVector
  <1>3. PICK m \in Message : Own(m, n) /\ Sends(n, table[n], table[n][s].client, m, net)
    BY <1>1, SendsVector
  <1>4. IsNet(net) /\ \A x \in Node, y \in Sock : Kept(net, net, x, y)
    BY DEF Inv, Kept
  <1> QED
    BY <1>1, <1>2, <1>3, <1>4, SendsKeeps

(***************************************************************************)
(* Lists that were read together go, or end the process.                   *)
(***************************************************************************)
LEMMA ListsLostKeeps ==
  ASSUME Inv, NEW n \in Node, ListsLost(n)
  PROVE  Inv'
  <1>1. Fields /\ Station(n)
    BY DEF Inv
  <1>2. /\ up[n] /\ UNCHANGED controller
        /\ \/ \E j \in 1..Len(list[n]) :
                 /\ list' = [list EXCEPT ![n] = SubSeq(@, j + 1, Len(@))]
                 /\ UNCHANGED <<up, table, clients, net, told, moved, borrowed>>
           \/ Ends(n, net)
    BY DEF ListsLost
  <1>3. CASE Ends(n, net)
    BY <1>2, <1>3, SparedBySame, EndsKeeps DEF Inv
  <1>4. ASSUME NEW j \in 1..Len(list[n]), list' = [list EXCEPT ![n] = SubSeq(@, j + 1, Len(@))],
               UNCHANGED <<up, table, clients, net, told, moved, borrowed>>
        PROVE  Inv'
    <2> DEFINE rest == SubSeq(list[n], j + 1, Len(list[n]))
    <2>1. /\ up' = up /\ table' = table /\ clients' = clients /\ net' = net /\ told' = told
          /\ moved' = moved /\ borrowed' = borrowed
          /\ known' = known /\ stale' = stale /\ weight' = weight
      BY <1>2, <1>4 DEF controller
    <2>2. list' = [list EXCEPT ![n] = rest]
      BY <1>4
    <2>3. rest \in Seq(Lists(n))
      <3>1. list[n] \in Seq(Lists(n))
        BY <1>1 DEF Station
      <3> QED
        BY <3>1
    <2> HIDE DEF rest
    <2>4. Fields'
      BY <1>1, <2>1, <2>2 DEF Fields
    <2>5. Local(n) /\ list'[n] = rest
      BY <1>1, <2>1, <2>2 DEF Fields, Local
    <2>6. Spared(net, net', n) /\ IsNet(net')
      BY <2>1, SparedBySame DEF Inv
    <2>7. Station(n)'
      BY <1>1, <1>2, <2>1, <2>3, <2>5 DEF Station
    <2> QED
      BY <2>4, <2>5, <2>6, <2>7, LocalStep
  <1> QED
    BY <1>2, <1>3, <1>4

(***************************************************************************)
(* What a client of the array is, and what can be read from its socket.    *)
(***************************************************************************)
LEMMA ClientOf ==
  ASSUME Inv, NEW n \in Node, up[n], NEW i \in 2..clients[n].nb
  PROVE  LET c == clients[n].slot[i]
         IN  /\ i \in 2..Len(clients[n].slot)
             /\ c.sock \in Open /\ c.sock \in Sock /\ c.id \in Name \ {n}
             /\ net.inbox[n][c.sock] \in Seq(Message)
             /\ c.sock \notin borrowed[n] => c.id \in Node /\ Speaks(net, n, c.sock, c.id)
  <1> DEFINE C == clients[n]
             c == C.slot[i]
  <1>1. C \in Arrays /\ Houses(net, C, n, borrowed[n]) /\ net \in Nets
    BY DEF Inv, Station, IsNet
  <1>2. Len(C.slot) \in Nat /\ C.nb \in Nat
    BY <1>1, ArrayTypes
  <1> HIDE DEF C
  <1>3. i \in 2..Len(C.slot) /\ i \in 2..C.nb
    BY <1>1, <1>2 DEF Houses, C
  <1>4. /\ c.sock \in Open /\ c.id \in Name \ {n}
        /\ c.sock \notin borrowed[n] => c.id \in Node /\ Speaks(net, n, c.sock, c.id)
    BY <1>1, <1>3 DEF Houses
  <1>5. c.sock \in Sock
    BY <1>4 DEF Sock
  <1> HIDE DEF c
  <1>6. net.inbox[n][c.sock] \in Seq(Message)
    BY <1>1, <1>5, NetTypes
  <1> QED
    BY <1>3, <1>4, <1>5, <1>6 DEF C, c

LEMMA TailRemains ==
  ASSUME NEW box \in Seq(Message), box # <<>>
  PROVE  Remains(Tail(box), box) /\ Head(box) \in Message /\ Head(box) = box[1] /\ 1 \in DOMAIN box
  <1>1. /\ Tail(box) \in Seq(Message) /\ Len(box) \in Nat /\ Len(box) >= 1
        /\ Len(Tail(box)) = Len(box) - 1
        /\ \A i \in 1..(Len(box) - 1) : Tail(box)[i] = box[i + 1]
    OBVIOUS
  <1>2. ASSUME NEW i \in DOMAIN Tail(box) PROVE \E j \in DOMAIN box : Tail(box)[i] = box[j]
    <2>1. i \in 1..(Len(box) - 1) /\ i + 1 \in DOMAIN box
      BY <1>1
    <2> QED
      BY <1>1, <2>1
  <1> QED
    BY <1>1, <1>2 DEF Remains

LEMMA SubSeqRemains ==
  ASSUME NEW box \in Seq(Message), NEW j \in 1..Len(box)
  PROVE  Remains(SubSeq(box, j + 1, Len(box)), box)
  <1> DEFINE rest == SubSeq(box, j + 1, Len(box))
  <1>1. /\ Len(box) \in Nat /\ rest \in Seq(Message) /\ Len(rest) = Len(box) - j
        /\ \A i \in 1..(Len(box) - j) : rest[i] = box[j + i]
    OBVIOUS
  <1> HIDE DEF rest
  <1>2. ASSUME NEW i \in DOMAIN rest PROVE \E l \in DOMAIN box : rest[i] = box[l]
    <2>1. i \in 1..(Len(box) - j) /\ j + i \in DOMAIN box
      BY <1>1
    <2> QED
      BY <1>1, <2>1
  <1> QED
    BY <1>1, <1>2 DEF Remains, rest

(***************************************************************************)
(* The table after a vector that was read under the id.                    *)
(***************************************************************************)
LEMMA VectorTable ==
  ASSUME NEW n \in Node, NEW t0 \in Tables(n), NEW id \in Name \ {n}, NEW vector \in Vectors,
         NEW E \in ErasedByLoop(Touched(t0, id), LearnedFrom(Touched(t0, id), id))
  PROVE  LET u == Merged(Without(Touched(t0, id), E), n, id, vector)
         IN  /\ u \in Tables(n) /\ OldClients(u, t0)
             /\ id \notin DOMAIN vector => \A L : Costed(t0, L) => Costed(u, L)
  <1> DEFINE t == Touched(t0, id)
             w == Without(t, E)
             u == Merged(w, n, id, vector)
  <1>1. /\ t \in Tables(n) /\ id \in DOMAIN t /\ OldClients(t, t0)
        /\ \A L : Costed(t0, L) => Costed(t, L)
    BY TouchedKeeps
  <1>2. id \notin E
    <2>1. E \subseteq LearnedFrom(t, id)
      BY DEF ErasedByLoop
    <2> QED
      BY <2>1 DEF LearnedFrom
  <1> HIDE DEF t
  <1>3. /\ w \in Tables(n) /\ DOMAIN w = DOMAIN t \ E /\ OldClients(w, t)
        /\ \A L : Costed(t, L) => Costed(w, L)
    BY <1>1, WithoutKeeps
  <1>4. id \in DOMAIN w
    BY <1>1, <1>2, <1>3
  <1> HIDE DEF w
  <1>5. /\ u \in Tables(n) /\ OldClients(u, w)
        /\ id \notin DOMAIN vector => \A L : Costed(w, L) => Costed(u, L)
    BY <1>3, <1>4, MergedKeeps
  <1> HIDE DEF u
  <1>6. OldClients(u, t0)
    BY <1>1, <1>3, <1>5 DEF OldClients
  <1> QED
    BY <1>1, <1>3, <1>5, <1>6 DEF u, w, t

LEMMA VectorsRead ==
  ASSUME NEW m \in Message, m.type = "vector"
  PROVE  m.vector \in Vectors
  <1>1. CASE \E v \in Vectors : m = VectorMessage(v)
    BY <1>1 DEF VectorMessage
  <1>2. CASE m = LinkOk \/ m = VectorOk \/ m = Unreadable \/ \E n \in Node : m = LinkMessage(n)
    <2>1. /\ LinkOk.type # "vector" /\ VectorOk.type # "vector" /\ Unreadable.type # "vector"
          /\ \A n \in Node : LinkMessage(n).type # "vector"
      BY DEF LinkOk, VectorOk, Unreadable, LinkMessage
    <2> QED
      BY <1>2, <2>1
  <1> QED
    BY <1>1, <1>2 DEF Message

(***************************************************************************)
(* What a vector that waits for n says of who wrote it, when the client's  *)
(* id was given.                                                           *)
(***************************************************************************)
LEMMA VectorFrom ==
  ASSUME Inv, NEW n \in Node, up[n], NEW i \in 2..clients[n].nb,
         net.inbox[n][clients[n].slot[i].sock] # <<>>,
         Head(net.inbox[n][clients[n].slot[i].sock]).type = "vector"
  PROVE  LET id == clients[n].slot[i].id
             m  == Head(net.inbox[n][clients[n].slot[i].sock])
         IN  /\ m.vector \in Vectors
             /\ clients[n].slot[i].sock \notin borrowed[n] => id \notin DOMAIN m.vector
  <1> DEFINE id == clients[n].slot[i].id
             box == net.inbox[n][clients[n].slot[i].sock]
             m == Head(box)
  <1>1. /\ box \in Seq(Message)
        /\ clients[n].slot[i].sock \notin borrowed[n] =>
             id \in Node /\ Speaks(net, n, clients[n].slot[i].sock, id)
    BY ClientOf
  <1>2. m \in Message /\ m = box[1] /\ 1 \in DOMAIN box
    BY <1>1, TailRemains
  <1>3. m.vector \in Vectors
    BY <1>2, VectorsRead
  <1>4. ASSUME clients[n].slot[i].sock \notin borrowed[n] PROVE id \notin DOMAIN m.vector
    <2>1. Honest(box, id)
      BY <1>1, <1>4 DEF Speaks
    <2> QED
      BY <1>2, <2>1 DEF Honest
  <1> QED
    BY <1>3, <1>4

LEMMA ReceiveKeeps ==
  ASSUME Inv, NEW n \in Node, NEW i \in Used(clients[n]), Receive(n, i)
  PROVE  Inv'
  <1> DEFINE c == clients[n].slot[i]
             k == c.sock
             id == c.id
             box == net.inbox[n][k]
             m == Head(box)
             N == WithBox(net, n, k, Tail(box))
  <1>1. up[n] /\ i \in 2..clients[n].nb /\ box # <<>> /\ UNCHANGED controller
    BY Zenon DEF Receive
  <1>2. \/ m.type = "vector" /\ VectorRead(n, id, m.vector, N)
        \/ /\ table' = table \/ table' = [table EXCEPT ![n] = Touched(@, id)]
           /\ net' = N
           /\ UNCHANGED <<up, clients, list, told, moved, borrowed>>
    BY Zenon DEF Receive
  <1>3. k \in Open /\ id \in Name \ {n} /\ box \in Seq(Message)
    BY <1>1, ClientOf
  <1>4. IsNet(net) /\ net \in Nets /\ table[n] \in Tables(n) /\ DOMAIN table = Node
    BY DEF Inv, Station, IsNet, Fields
  <1>5. Remains(Tail(box), box)
    BY <1>1, <1>3, TailRemains
  <1>6. IsNet(N) /\ \A x \in Node, y \in Sock : Kept(net, N, x, y)
    BY <1>3, <1>4, <1>5, BoxKeeps
  <1>7. N.backlog = net.backlog
    BY DEF WithBox
  <1>8. CASE m.type = "vector" /\ VectorRead(n, id, m.vector, N)
    <2>1. m.vector \in Vectors
      BY <1>1, <1>8, VectorFrom, Zenon
    <2> DEFINE t == Touched(table[n], id)
               v == m.vector
    <2> HIDE DEF N, id, m
    <2>2. CASE Ends(n, N)
      BY <1>1, <1>6, <1>7, <2>2, EndsKeeps, SparedByKeeping
    <2>3. CASE \E E \in ErasedByLoop(t, LearnedFrom(t, id)) :
                 LET u == Merged(Without(t, E), n, id, v)
                 IN  Sends(n, u, u[id].client, VectorOk, N)
      <3>1. PICK E \in ErasedByLoop(t, LearnedFrom(t, id)) :
                 LET u == Merged(Without(t, E), n, id, v)
                 IN  Sends(n, u, u[id].client, VectorOk, N)
        BY <2>3
      <3> DEFINE u == Merged(Without(t, E), n, id, v)
      <3>2. u \in Tables(n) /\ OldClients(u, table[n])
        BY <1>3, <1>4, <2>1, VectorTable
      <3>3. VectorOk \in Message /\ Own(VectorOk, n)
        BY <1>4, SaidByOwner
      <3>4. Sends(n, u, u[id].client, VectorOk, N)
        BY <3>1
      <3> HIDE DEF u
      <3> QED
        BY <1>1, <1>6, <1>7, <3>2, <3>3, <3>4, SendsKeeps
    <2> QED
      BY <1>8, <2>2, <2>3 DEF VectorRead
  <1>9. CASE /\ table' = table \/ table' = [table EXCEPT ![n] = Touched(@, id)]
             /\ net' = N
             /\ UNCHANGED <<up, clients, list, told, moved, borrowed>>
    <2>1. PICK t \in Tables(n) :
            /\ OldClients(t, table[n])
            /\ DOMAIN table' = Node /\ table'[n] = t /\ \A x \in Node \ {n} : table'[x] = table[x]
      <3> HIDE DEF N, m, id
      <3>1. CASE table' = table
        BY <1>4, <3>1 DEF OldClients
      <3>2. CASE table' = [table EXCEPT ![n] = Touched(@, id)]
        <4> DEFINE t == Touched(table[n], id)
        <4>1. t \in Tables(n) /\ OldClients(t, table[n])
          BY <1>3, <1>4, TouchedKeeps
        <4>2. table' = [table EXCEPT ![n] = t]
          BY <3>2
        <4> HIDE DEF t
        <4> QED
          BY <1>4, <4>1, <4>2
      <3> QED
        BY <1>9, <3>1, <3>2
    <2> HIDE DEF N, m, id
    <2> QED
      BY <1>1, <1>6, <1>7, <1>9, <2>1, TalkKeeps
  <1> QED
    BY <1>2, <1>8, <1>9

LEMMA CoalescedKeeps ==
  ASSUME Inv, NEW n \in Node, NEW i \in Used(clients[n]), Coalesced(n, i)
  PROVE  Inv'
  <1> DEFINE k == clients[n].slot[i].sock
             box == net.inbox[n][k]
             N(j) == WithBox(net, n, k, SubSeq(box, j + 1, Len(box)))
  <1>1. up[n] /\ i \in 2..clients[n].nb /\ UNCHANGED controller
    BY Zenon DEF Coalesced
  <1>2. PICK j \in 2..Len(box) :
          \/ net' = N(j) /\ UNCHANGED <<up, table, clients, list, told, moved, borrowed>>
          \/ Ends(n, net)
    BY Zenon DEF Coalesced
  <1>3. k \in Open /\ box \in Seq(Message)
    BY <1>1, ClientOf
  <1>4. IsNet(net) /\ net \in Nets /\ table[n] \in Tables(n) /\ DOMAIN table = Node
    BY DEF Inv, Station, IsNet, Fields
  <1>5. CASE Ends(n, net)
    BY <1>1, <1>4, <1>5, SparedBySame, EndsKeeps
  <1>6. CASE net' = N(j) /\ UNCHANGED <<up, table, clients, list, told, moved, borrowed>>
    <2> DEFINE rest == SubSeq(box, j + 1, Len(box))
    <2>1. Remains(rest, box)
      <3>1. j \in 1..Len(box)
        OBVIOUS
      <3> QED
        BY <1>3, <3>1, SubSeqRemains
    <2>2. net' = WithBox(net, n, k, rest)
      BY <1>6
    <2> HIDE DEF rest, k
    <2>3. IsNet(net') /\ \A x \in Node, y \in Sock : Kept(net, net', x, y)
      BY <1>3, <1>4, <2>1, <2>2, BoxKeeps
    <2>4. net'.backlog = net.backlog
      BY <2>2 DEF WithBox
    <2>5. OldClients(table[n], table[n])
      BY DEF OldClients
    <2> QED
      BY <1>1, <1>4, <1>6, <2>3, <2>4, <2>5, TalkKeeps
  <1> QED
    BY <1>2, <1>5, <1>6

LEMMA PeerClosedKeeps ==
  ASSUME Inv, NEW n \in Node, NEW i \in Used(clients[n]), PeerClosed(n, i)
  PROVE  Inv'
  <1> DEFINE C == clients[n]
             c == C.slot[i]
             D == RemoveClient(C, c)
             W == CloseSock(net, n, c.sock)
             B == borrowed[n]
             B2 == B \ {c.sock}
  <1>0. /\ up[n] /\ i \in 2..clients[n].nb /\ UNCHANGED controller
        /\ \/ /\ clients' = [clients EXCEPT ![n] = D] /\ net' = W /\ moved' = [moved EXCEPT ![n] = TRUE]
              /\ borrowed' = [borrowed EXCEPT ![n] = B2]
              /\ up' = up /\ table' = table /\ list' = list /\ told' = told
           \/ Ends(n, net)
    BY DEF PeerClosed
  <1>1. CASE Ends(n, net)
    BY <1>0, <1>1, SparedBySame, EndsKeeps DEF Inv
  <1>2. CASE /\ clients' = [clients EXCEPT ![n] = D] /\ net' = W /\ moved' = [moved EXCEPT ![n] = TRUE]
             /\ borrowed' = [borrowed EXCEPT ![n] = B2]
             /\ up' = up /\ table' = table /\ list' = list /\ told' = told
    <2>1. known' = known /\ stale' = stale /\ weight' = weight
      BY <1>0 DEF controller
    <2>2. Fields /\ Station(n) /\ IsNet(net)
      BY DEF Inv
    <2>3. i \in 2..Len(C.slot) /\ C \in Arrays /\ Houses(net, C, n, B) /\ c.sock \in Open
      BY <1>0, <2>2, ClientOf DEF Station
    <2>4. /\ D \in Arrays /\ Len(D.slot) = Len(C.slot)
          /\ i <= C.nb => D.nb < C.nb /\ c.sock \notin UsedSocks(D)
          /\ c.sock \notin UsedSocks(D) => Houses(W, D, n, B)
          /\ IsNet(W) /\ W.backlog = net.backlog
          /\ \A x \in Node \ {n} : \A y \in Sock : Kept(net, W, x, y)
      <3> HIDE DEF C, B
      <3> QED
        BY <2>2, <2>3, RemoveKeeps
    <2>5. i <= C.nb
      BY <1>0
    <2>6. /\ W.peer[n][c.sock] = Free
          /\ \A y \in Open : y # c.sock => Kept(net, W, n, y)
      <3> HIDE DEF c
      <3>1. /\ W.peer[n][c.sock] = Free
            /\ \A x \in Node, y \in Sock : <<x, y>> # <<n, c.sock>> => Kept(net, W, x, y)
        BY <2>2, <2>3, CloseKeeps
      <3>2. \A y : y # c.sock => <<n, y>> # <<n, c.sock>>
        OBVIOUS
      <3> QED
        BY <3>1, <3>2 DEF Sock
    <2> HIDE DEF D, W, C, c
    <2>7. Houses(W, D, n, B2)
      BY <2>4, <2>5, <2>6, HousesExcused
    <2>8. InUse(W, n, B2)
      BY <2>2, <2>6 DEF Station, InUse, Kept
    <2>9. Fields'
      BY <1>2, <2>1, <2>2 DEF Fields
    <2>10. Local(n) /\ clients'[n] = D /\ moved'[n] /\ borrowed'[n] = B2
      BY <1>2, <2>1, <2>2 DEF Fields, Local
    <2>11. Spared(net, net', n) /\ IsNet(net')
      BY <1>2, <2>4, SparedByKeeping
    <2>12. Points(table[n], D)
      BY <2>2, <2>4 DEF Station, Points, C
    <2> HIDE DEF B, B2
    <2>13. Station(n)'
      BY <1>0, <1>2, <2>1, <2>2, <2>4, <2>7, <2>8, <2>10, <2>12 DEF Station
    <2> QED
      BY <2>9, <2>10, <2>11, <2>13, LocalStep
  <1> QED
    BY <1>0, <1>1, <1>2

LEMMA PointersStay ==
  ASSUME NEW t, NEW C, NEW D, Len(C.slot) \in Nat, Len(D.slot) \in Nat, Len(D.slot) >= Len(C.slot),
         C.nb \in Nat, D.nb = C.nb + 1, \A i \in 2..C.nb : D.slot[i] = C.slot[i]
  PROVE  (Points(t, C) => Points(t, D)) /\ \A B : Fits(t, C, B) => Fits(t, D, B)
  <1>1. ASSUME NEW p \in 2..Len(C.slot) PROVE p \in 2..Len(D.slot)
    OBVIOUS
  <1>2. ASSUME NEW p \in 2..C.nb PROVE p \in 2..D.nb /\ D.slot[p] = C.slot[p]
    OBVIOUS
  <1> QED
    BY <1>1, <1>2 DEF Points, Fits

LEMMA PointersJoin ==
  ASSUME NEW n \in Node, NEW t \in Tables(n), NEW D, D.nb \in Nat, D.nb \in 2..Len(D.slot),
         NEW id \in Node \ {n}, D.slot[D.nb].id = id, NEW u, u = Linked(t, id, D.nb),
         Points(t, D), NEW B, D.slot[D.nb].sock \notin B
  PROVE  u \in Tables(n) /\ Points(u, D) /\ (Fits(t, D, B) => Fits(u, D, B))
  <1>1. /\ u \in Tables(n) /\ DOMAIN u = DOMAIN t \cup {id}
        /\ u[id].client = D.nb /\ \A x \in DOMAIN t : x # id => u[x] = t[x]
    <2>1. u \in Tables(n) /\ Joined(u, t, id, D.nb)
      BY LinkedKeeps, Zenon
    <2> QED
      BY <2>1 DEF Joined
  <1>2. Points(u, D)
    BY <1>1 DEF Points
  <1>3. ASSUME Fits(t, D, B) PROVE Fits(u, D, B)
    <2> SUFFICES ASSUME NEW x \in DOMAIN u, u[x].client # NoClient
                 PROVE  /\ u[x].client \in 2..D.nb
                        /\ D.slot[u[x].client].id = x /\ D.slot[u[x].client].sock \notin B
      BY DEF Fits
    <2>1. CASE x = id
      BY <1>1, <2>1
    <2>2. CASE x # id
      BY <1>1, <1>3, <2>2 DEF Fits
    <2> QED
      BY <2>1, <2>2
  <1> QED
    BY <1>1, <1>2, <1>3

(***************************************************************************)
(* A connection is accepted, for a client with the id or without.          *)
(***************************************************************************)
LEMMA JoinKeeps ==
  ASSUME Inv, NEW n \in Node, up[n], net.backlog[n] # <<>>, FreeAmong(net, n, Open) # {},
         NEW k, k = Lowest(FreeAmong(net, n, Open)),
         NEW M, M = Accepted(net, n), IsNet(net'), net'.backlog = M.backlog,
         \A x \in Node, y \in Sock : Kept(M, net', x, y),
         NEW B, borrowed[n] \subseteq B, B \subseteq borrowed[n] \cup {k},
         NEW id \in Name \ {n}, k \notin B => id \in Node /\ Speaks(M, n, k, id),
         NEW D, D = AddClient(clients[n], [sock |-> k, id |-> id]),
         clients' = [clients EXCEPT ![n] = D],
         \/ table' = table
         \/ k \notin B /\ table' = [table EXCEPT ![n] = Linked(table[n], id, D.nb)],
         DOMAIN borrowed' = Node, borrowed'[n] = B, \A x \in Node \ {n} : borrowed'[x] = borrowed[x],
         UNCHANGED <<up, list, controller, told, moved>>
  PROVE  Inv'
  <1> DEFINE C == clients[n]
  <1>1. /\ up' = up /\ list' = list /\ told' = told /\ moved' = moved
        /\ known' = known /\ stale' = stale /\ weight' = weight
    BY DEF controller
  <1>2. Fields /\ Station(n) /\ IsNet(net)
    BY DEF Inv
  <1>3. /\ IsNet(M)
        /\ k \in Open /\ k \in Sock /\ net.peer[n][k] = Free /\ M.peer[n][k] # Free
        /\ \A x \in Node, y \in Open : <<x, y>> # <<n, k>> => Kept(net, M, x, y)
        /\ \A x \in Node \ {n} : /\ M.backlog[x] = net.backlog[x]
                                 /\ \A y \in Sock : Kept(net, M, x, y)
    BY <1>2, AcceptedKeeps DEF Sock
  <1>4. /\ net'.peer[n][k] # Free
        /\ \A y \in Open : y # k => Kept(net, net', n, y)
        /\ k \notin B => id \in Node /\ Speaks(net', n, k, id)
    <2>1. net'.peer[n][k] # Free
      BY <1>3 DEF Kept
    <2>2. ASSUME NEW y \in Open, y # k PROVE Kept(net, net', n, y)
      <3>1. Kept(net, M, n, y) /\ y \in Sock
        <4>1. <<n, y>> # <<n, k>>
          BY <2>2
        <4> QED
          BY <1>3, <4>1 DEF Sock
      <3> QED
        BY <3>1 DEF Kept
    <2>3. k \notin B => id \in Node /\ Speaks(net', n, k, id)
      BY <1>3 DEF Kept
    <2> QED
      BY <2>1, <2>2, <2>3
  <1>5. /\ C \in Arrays /\ Houses(net, C, n, borrowed[n]) /\ InUse(net, n, borrowed[n])
        /\ Houses(net, C, n, B)
    <2>1. C \in Arrays /\ Houses(net, C, n, borrowed[n]) /\ InUse(net, n, borrowed[n])
      BY <1>2 DEF Station
    <2> HIDE DEF C
    <2> QED
      BY <2>1, HousesExcused
  <1> HIDE DEF C
  <1>6. /\ D \in Arrays /\ Houses(net', D, n, B)
        /\ D.nb = C.nb + 1 /\ D.slot[D.nb] = [sock |-> k, id |-> id]
        /\ Len(D.slot) >= Len(C.slot)
        /\ \A i \in 2..C.nb : D.slot[i] = C.slot[i]
    <2> DEFINE E == AddClient(C, [sock |-> k, id |-> id])
    <2>1. E = D
      BY DEF C
    <2> HIDE DEF E
    <2>2. /\ E \in Arrays /\ Houses(net', E, n, B)
          /\ E.nb = C.nb + 1 /\ E.slot[E.nb] = [sock |-> k, id |-> id]
          /\ Len(E.slot) >= Len(C.slot)
          /\ \A i \in 2..C.nb : E.slot[i] = C.slot[i]
      <3>1. /\ C \in Arrays /\ Houses(net, C, n, B) /\ k \in Open
            /\ net.peer[n][k] = Free /\ net'.peer[n][k] # Free
        BY <1>3, <1>4, <1>5
      <3>2. /\ \A y \in Open : y # k => Kept(net, net', n, y)
            /\ k \notin B => id \in Node /\ Speaks(net', n, k, id)
        BY <1>4
      <3> QED
        BY <3>1, <3>2, AddKeeps, SMTT(30) DEF E
    <2> QED
      BY <2>1, <2>2
  <1>7. /\ C.nb \in Nat /\ Len(C.slot) \in Nat /\ Len(D.slot) \in Nat /\ C.nb \in 1..Len(C.slot)
        /\ D.nb \in Nat /\ D.nb \in 2..Len(D.slot)
    BY <1>5, <1>6, ArrayTypes, SMTT(30) DEF Houses
  <1>8. Points(table[n], D) /\ (~moved[n] => Fits(table[n], D, B))
    <2>1. Points(table[n], C) /\ (~moved[n] => Fits(table[n], C, borrowed[n]))
      BY <1>2 DEF Station, C
    <2>2. ASSUME NEW p \in 2..C.nb, C.slot[p].sock \notin borrowed[n] PROVE C.slot[p].sock \notin B
      <3>1. p \in 2..Len(C.slot)
        BY <1>7
      <3>2. C.slot[p].sock # k
        BY <1>3, <1>5, <3>1 DEF Houses
      <3> QED
        BY <2>2, <3>2
    <2>3. ~moved[n] => Fits(table[n], C, B)
      BY <2>1, <2>2 DEF Fits
    <2> QED
      BY <1>6, <1>7, <2>1, <2>3, PointersStay
  <1>9. /\ DOMAIN table' = Node /\ \A x \in Node \ {n} : table'[x] = table[x]
        /\ table'[n] \in Tables(n) /\ Points(table'[n], D) /\ (~moved[n] => Fits(table'[n], D, B))
    <2>1. CASE table' = table
      BY <1>2, <1>8, <2>1 DEF Fields, Station
    <2>2. CASE k \notin B /\ table' = [table EXCEPT ![n] = Linked(table[n], id, D.nb)]
      <3> DEFINE t == table[n]
                 u == Linked(t, id, D.nb)
      <3>1. DOMAIN table' = Node /\ table'[n] = u /\ \A x \in Node \ {n} : table'[x] = table[x]
        BY <1>2, <2>2 DEF Fields
      <3>2. t \in Tables(n) /\ id \in Node \ {n} /\ u = Linked(t, id, D.nb)
        BY <1>2, <1>4, <2>2 DEF Station
      <3>3. D.slot[D.nb].id = id /\ D.slot[D.nb].sock \notin B
        BY <1>6, <2>2
      <3> HIDE DEF t, u
      <3>4. u \in Tables(n) /\ Points(u, D) /\ (Fits(t, D, B) => Fits(u, D, B))
        BY <1>7, <1>8, <3>2, <3>3, PointersJoin DEF t
      <3> QED
        BY <1>8, <3>1, <3>4 DEF t
    <2> QED
      BY <2>1, <2>2
  <1>10. Fields'
    BY <1>1, <1>2, <1>9 DEF Fields
  <1>11. Local(n) /\ clients'[n] = D
    BY <1>1, <1>2, <1>9 DEF Fields, Local
  <1>12. Spared(net, net', n)
    <2>1. \A x \in Node \ {n} : /\ net'.backlog[x] = net.backlog[x]
                                /\ \A y \in Sock : Kept(net, net', x, y)
      BY <1>3 DEF Kept
    <2> QED
      BY <2>1, SparedByKeeping
  <1>13. InUse(net', n, B)
    BY <1>3, <1>4, <1>5 DEF InUse, Kept
  <1>14. Station(n)'
    BY <1>1, <1>2, <1>6, <1>9, <1>11, <1>13 DEF Station
  <1> QED
    BY <1>10, <1>11, <1>12, <1>14, LocalStep

(***************************************************************************)
(* The connection that is accepted, with what is left to read on it.       *)
(***************************************************************************)
LEMMA RestKeeps ==
  ASSUME Inv, NEW n \in Node, net.backlog[n] # <<>>, FreeAmong(net, n, Open) # {},
         NEW k, k = Lowest(FreeAmong(net, n, Open)),
         NEW M, M = Accepted(net, n), NEW box, Remains(box, M.inbox[n][k])
  PROVE  LET W == WithBox(M, n, k, box)
         IN  /\ IsNet(W) /\ W.backlog = M.backlog /\ k \in Open
             /\ \A x \in Node, y \in Sock : Kept(M, W, x, y)
  <1>1. IsNet(M) /\ k \in Open
    BY AcceptedKeeps DEF Inv
  <1>2. WithBox(M, n, k, box).backlog = M.backlog
    BY DEF WithBox
  <1> QED
    BY <1>1, <1>2, BoxKeeps

(***************************************************************************)
(* The ids of clients that were served, and what an id may be that is not  *)
(* set.                                                                    *)
(***************************************************************************)
Serving ==
  served \in [Node -> Name] /\ misread \in [Node -> BOOLEAN] /\ \A n \in Node : served[n] # n

LEMMA UnsetIdTypes ==
  ASSUME Serving, NEW n \in Node
  PROVE  UnsetIds(n) \subseteq Name \ {n}
  BY Names DEF Serving, UnsetIds, Name

LEMMA AcceptKeeps ==
  ASSUME Inv, Serving, NEW n \in Node, Accept(n)
  PROVE  Inv'
  <1> DEFINE k == Lowest(FreeAmong(net, n, Open))
             M == Accepted(net, n)
             box == M.inbox[n][k]
             m == Head(box).id
             new == m \notin DOMAIN table[n]
             W == WithBox(M, n, k, Tail(box))
             D(id) == AddClient(clients[n], [sock |-> k, id |-> id])
  <1>0. PICK id \in IF new THEN {m} ELSE UnsetIds(n) :
          /\ up[n] /\ net.backlog[n] # <<>> /\ FreeAmong(net, n, Open) # {}
          /\ table' = IF new THEN [table EXCEPT ![n] = Linked(table[n], m, D(id).nb)] ELSE table
          /\ clients' = [clients EXCEPT ![n] = D(id)]
          /\ net' = Write(W, n, k, LinkOk)
          /\ borrowed' = IF new THEN borrowed ELSE [borrowed EXCEPT ![n] = @ \cup {k}]
          /\ UNCHANGED <<up, list, controller, told, moved>>
    BY DEF Accept
  <1>1. /\ up[n] /\ net.backlog[n] # <<>> /\ FreeAmong(net, n, Open) # {}
        /\ net' = Write(W, n, k, LinkOk)
    BY <1>0
  <1>2. /\ IsNet(M) /\ k \in Open /\ box # <<>>
        /\ \E s \in Node \ {n} : box[1] = LinkMessage(s) /\ Speaks(M, n, k, s)
    BY <1>1, AcceptedKeeps DEF Inv
  <1> HIDE DEF M, k
  <1>3. PICK s \in Node \ {n} : box[1] = LinkMessage(s) /\ Speaks(M, n, k, s)
    BY <1>2
  <1>4. box \in Seq(Message) /\ k \in Sock
    BY <1>2, NetTypes DEF IsNet, Sock
  <1>5. Remains(Tail(box), box) /\ Head(box) = box[1]
    <2> HIDE DEF box
    <2> QED
      BY <1>2, <1>4, TailRemains
  <1>6. m = s
    BY <1>3, <1>5 DEF LinkMessage
  <1>7. /\ IsNet(W) /\ W.backlog = M.backlog
        /\ \A x \in Node, y \in Sock : Kept(M, W, x, y)
    <2> DEFINE rest == Tail(box)
    <2>1. M = Accepted(net, n) /\ k = Lowest(FreeAmong(net, n, Open))
      BY DEF M, k
    <2>2. Remains(rest, M.inbox[n][k])
      BY <1>5
    <2>3. W = WithBox(M, n, k, rest)
      OBVIOUS
    <2>4. net.backlog[n] # <<>> /\ FreeAmong(net, n, Open) # {}
      BY <1>1
    <2> HIDE DEF rest, W, box
    <2> QED
      BY <2>1, <2>2, <2>3, <2>4, RestKeeps
  <1> HIDE DEF W, m, box
  <1>8. /\ IsNet(net') /\ net'.backlog = M.backlog
        /\ \A x \in Node, y \in Sock : Kept(M, net', x, y)
    <2>1. LinkOk \in Message /\ Own(LinkOk, n)
      BY DEF Message, Own, LinkOk
    <2>2. IsNet(Write(W, n, k, LinkOk)) /\ \A x \in Node, y \in Sock : Kept(W, Write(W, n, k, LinkOk), x, y)
      BY <1>7, <2>1, WriteKeeps
    <2>3. Write(W, n, k, LinkOk).backlog = W.backlog
      BY DEF Write, WithBox
    <2> QED
      BY <1>1, <1>7, <2>2, <2>3 DEF Kept
  <1> HIDE DEF D
  <1>9. CASE new
    <2>1. id = s /\ k \notin borrowed[n]
      <3>1. InUse(net, n, borrowed[n]) /\ net.peer[n][k] = Free
        BY <1>1, AcceptedKeeps DEF Inv, Station, k
      <3> QED
        BY <1>0, <1>6, <1>9, <3>1 DEF InUse
    <2>2. /\ clients' = [clients EXCEPT ![n] = D(s)]
          /\ table' = [table EXCEPT ![n] = Linked(table[n], s, D(s).nb)]
          /\ borrowed' = borrowed /\ UNCHANGED <<up, list, controller, told, moved>>
      BY <1>0, <1>6, <1>9, <2>1
    <2>3. DOMAIN borrowed = Node /\ s \in Name \ {n}
      BY DEF Inv, Fields, Name
    <2> HIDE DEF new
    <2> QED
      BY <1>1, <1>3, <1>8, <2>1, <2>2, <2>3, JoinKeeps DEF D, k, M
  <1>10. CASE ~new
    <2>1. id \in Name \ {n}
      BY <1>0, <1>10, UnsetIdTypes
    <2> DEFINE A == borrowed[n] \cup {k}
    <2>2. /\ clients' = [clients EXCEPT ![n] = D(id)] /\ table' = table
          /\ borrowed' = [borrowed EXCEPT ![n] = A] /\ UNCHANGED <<up, list, controller, told, moved>>
      BY <1>0, <1>10
    <2>3. borrowed[n] \subseteq A /\ k \in A /\ A \subseteq borrowed[n] \cup {k}
      OBVIOUS
    <2>4. DOMAIN borrowed' = Node /\ borrowed'[n] = A /\ \A x \in Node \ {n} : borrowed'[x] = borrowed[x]
      <3> HIDE DEF A
      <3> QED
        BY <2>2 DEF Inv, Fields
    <2> DEFINE E == D(id)
    <2>5. E = AddClient(clients[n], [sock |-> k, id |-> id]) /\ clients' = [clients EXCEPT ![n] = E]
      BY <2>2 DEF D
    <2>6. table' = table /\ UNCHANGED <<up, list, controller, told, moved>>
      BY <2>2
    <2> HIDE DEF new, A, E
    <2> QED
      BY <1>1, <1>8, <2>1, <2>3, <2>4, <2>5, <2>6, JoinKeeps DEF k, M
  <1> QED
    BY <1>9, <1>10

LEMMA AcceptLostKeeps ==
  ASSUME Inv, Serving, NEW n \in Node, AcceptLost(n)
  PROVE  Inv'
  <1> DEFINE k == Lowest(FreeAmong(net, n, Open))
             M == Accepted(net, n)
             W == WithBox(M, n, k, <<>>)
             B == borrowed[n] \cup {k}
             D(id) == AddClient(clients[n], [sock |-> k, id |-> id])
  <1>1. /\ up[n] /\ net.backlog[n] # <<>> /\ FreeAmong(net, n, Open) # {}
        /\ \E id \in UnsetIds(n) : clients' = [clients EXCEPT ![n] = D(id)]
        /\ net' = W /\ table' = table
        /\ borrowed' = [borrowed EXCEPT ![n] = B]
        /\ UNCHANGED <<up, list, controller, told, moved>>
    BY DEF AcceptLost
  <1>2. Remains(<<>>, M.inbox[n][k])
    BY EmptySeq DEF Remains
  <1>3. /\ IsNet(W) /\ W.backlog = M.backlog
        /\ \A x \in Node, y \in Sock : Kept(M, W, x, y)
    BY <1>1, <1>2, RestKeeps
  <1>4. PICK id \in Name \ {n} : clients' = [clients EXCEPT ![n] = D(id)]
    BY <1>1, UnsetIdTypes
  <1>5. borrowed[n] \subseteq B /\ k \in B /\ B \subseteq borrowed[n] \cup {k}
    OBVIOUS
  <1> HIDE DEF W, D, B
  <1>6. DOMAIN borrowed' = Node /\ borrowed'[n] = B /\ \A x \in Node \ {n} : borrowed'[x] = borrowed[x]
    BY <1>1 DEF Inv, Fields
  <1> DEFINE E == D(id)
  <1>7. E = AddClient(clients[n], [sock |-> k, id |-> id]) /\ clients' = [clients EXCEPT ![n] = E]
    BY <1>4 DEF D
  <1>8. /\ table' = table /\ UNCHANGED <<up, list, controller, told, moved>>
        /\ up[n] /\ net.backlog[n] # <<>> /\ FreeAmong(net, n, Open) # {}
    BY <1>1
  <1>9. IsNet(net') /\ net'.backlog = M.backlog /\ \A x \in Node, y \in Sock : Kept(M, net', x, y)
    BY <1>1, <1>3
  <1> HIDE DEF E, M, k
  <1> QED
    <2>1. M = Accepted(net, n) /\ k = Lowest(FreeAmong(net, n, Open))
      BY DEF M, k
    <2>2. id \in Name \ {n}
      BY <1>4
    <2> QED
      BY <1>5, <1>6, <1>7, <1>8, <1>9, <2>1, <2>2, JoinKeeps

(***************************************************************************)
(* A list that is read: what its loops leave.                              *)
(***************************************************************************)
LEMMA HeadOfLists ==
  ASSUME NEW n, NEW q \in Seq(Lists(n)), q # <<>>
  PROVE  Head(q) \in Lists(n) /\ Tail(q) \in Seq(Lists(n))
  OBVIOUS

LEMMA EmptyListReadKeeps ==
  ASSUME Inv, NEW n \in Node, EmptyListRead(n), up[n], list[n] # <<>>, UNCHANGED controller
  PROVE  Inv'
  <1>1. CASE Ends(n, net)
    BY <1>1, SparedBySame, EndsKeeps DEF Inv
  <1>2. CASE /\ table' = [table EXCEPT ![n] = NoTable]
             /\ list' = [list EXCEPT ![n] = Tail(list[n])]
             /\ told' = [told EXCEPT ![n] = Head(list[n])]
             /\ UNCHANGED <<up, clients, net, moved, borrowed>>
    <2>1. /\ up' = up /\ clients' = clients /\ net' = net /\ moved' = moved /\ borrowed' = borrowed
          /\ known' = known /\ stale' = stale /\ weight' = weight
      BY <1>2 DEF controller
    <2>2. Fields /\ Station(n) /\ IsNet(net)
      BY DEF Inv
    <2>3. Fields' /\ table'[n] = NoTable /\ list'[n] = Tail(list[n])
      BY <1>2, <2>1, <2>2 DEF Fields
    <2>4. Local(n)
      BY <1>2, <2>1, <2>2 DEF Fields, Local
    <2>5. Station(n)'
      BY <2>1, <2>2, <2>3, NothingThere, HeadOfLists DEF Station
    <2>6. IsNet(net') /\ Spared(net, net', n)
      BY <2>1, <2>2, SparedBySame
    <2> QED
      BY <2>3, <2>4, <2>5, <2>6, LocalStep
  <1> QED
    BY <1>1, <1>2 DEF EmptyListRead

(***************************************************************************)
(* A list gives the entries of S in u their costs, and leaves those of t.  *)
(***************************************************************************)
ListGives(u, t, L, S) ==
  /\ DOMAIN u = DOMAIN t
  /\ \A s \in S : u[s].dist = L[s]
  /\ \A s \in DOMAIN t \ S : u[s] = t[s]

(***************************************************************************)
(* The table and the clients after the loop that opens connections, with   *)
(* the costs of the list confirmed.                                        *)
(***************************************************************************)
LEMMA ConfirmedOpening ==
  ASSUME Inv, NEW n \in Node, up[n], list[n] # <<>>, NEW L, L = Head(list[n]),
         NEW h, h = Opens(n, L), NEW u, u = Confirms(h.table, L, DOMAIN L \cap DOMAIN table[n])
  PROVE  /\ L \in Lists(n) /\ h \in Openings(n, L)
         /\ u \in Tables(n) /\ Points(u, h.clients) /\ (~moved[n] => Fits(u, h.clients, borrowed[n]))
         /\ [h EXCEPT !.table = u] \in Closings(n, [h EXCEPT !.table = u])
         /\ ListGives(u, h.table, L, DOMAIN L \cap DOMAIN table[n])
  <1>1. Station(n) /\ IsNet(net)
    BY DEF Inv
  <1>2. L \in List /\ n \notin DOMAIN L /\ L \in Lists(n)
    BY <1>1, HeadOfLists DEF Station, Lists
  <1> DEFINE base == [ok |-> TRUE, clients |-> clients[n], net |-> net, table |-> table[n]]
             S == DOMAIN L \cap DOMAIN table[n]
             t == h.table
             a == [h EXCEPT !.table = u]
  <1>3. base \in Openings(n, L)
    BY <1>1, SparedBySame DEF Openings, Station, IsNet
  <1>4. h \in Openings(n, L)
    BY <1>2, <1>3, OpensKeeps
  <1>5. /\ h = [ok |-> h.ok, clients |-> h.clients, net |-> h.net, table |-> h.table]
        /\ h.ok \in BOOLEAN /\ h.clients \in Arrays /\ h.net \in Nets /\ t \in Tables(n)
        /\ IsNet(h.net) /\ Spared(net, h.net, n) /\ Houses(h.net, h.clients, n, borrowed[n])
        /\ Points(t, h.clients)
        /\ Fits(table[n], clients[n], borrowed[n]) => Fits(t, h.clients, borrowed[n])
        /\ DOMAIN table[n] \subseteq DOMAIN t
    BY <1>4 DEF Openings
  <1>6. S \subseteq DOMAIN L \cap DOMAIN t
    BY <1>5
  <1> HIDE DEF S, t
  <1>7. /\ u \in Tables(n) /\ DOMAIN u = DOMAIN t /\ OldClients(u, t)
        /\ \A s \in S : u[s].dist = L[s]
        /\ \A s \in DOMAIN t \ S : u[s] = t[s]
    BY <1>2, <1>5, <1>6, ConfirmsKeeps DEF S, t
  <1>8. Points(u, h.clients) /\ (~moved[n] => Fits(u, h.clients, borrowed[n]))
    BY <1>1, <1>5, <1>7, OldClientsStay DEF Station
  <1>9. a = [ok |-> h.ok, clients |-> h.clients, net |-> h.net, table |-> u]
    BY <1>5
  <1>10. a \in Closings(n, a)
    <2> HIDE DEF a
    <2>1. a.ok = h.ok /\ a.clients = h.clients /\ a.net = h.net /\ a.table = u
      BY <1>9
    <2>2. a \in [ok : BOOLEAN, clients : Arrays, net : Nets, table : {a.table}]
      BY <1>5, <1>9
    <2> QED
      BY <1>5, <2>1, <2>2 DEF Closings
  <1> QED
    BY <1>2, <1>4, <1>7, <1>8, <1>10 DEF S, t, ListGives

LEMMA ListReadKeeps ==
  ASSUME Inv, NEW n \in Node, up[n], list[n] # <<>>, NEW L, L = Head(list[n]), ListRead(n, L),
         UNCHANGED controller
  PROVE  Inv'
  <1> DEFINE h == Opens(n, L)
             u == Confirms(h.table, L, DOMAIN L \cap DOMAIN table[n])
             a == [h EXCEPT !.table = u]
             gone == Unlisted(a.table, L) \cup Unreached(a.table, L)
             g(E) == Closes(n, a, Unlisted(a.table, L) \cap E)
  <1>1. PICK E \in ErasedByLoop(a.table, gone) :
          \/ /\ g(E).ok
             /\ table' = [table EXCEPT ![n] = Without(a.table, E)]
             /\ clients' = [clients EXCEPT ![n] = g(E).clients]
             /\ net' = g(E).net
             /\ told' = [told EXCEPT ![n] = L]
             /\ list' = [list EXCEPT ![n] = Tail(list[n])]
             /\ borrowed' = [borrowed EXCEPT ![n] = {k \in borrowed[n] : g(E).net.peer[n][k] # Free}]
             /\ moved' = [moved EXCEPT ![n] = moved[n] \/ g(E).clients.nb < h.clients.nb]
             /\ UNCHANGED up
          \/ Ends(n, g(E).net)
    BY Zenon DEF ListRead
  <1> DEFINE G == g(E)
  <1>2. /\ h \in Openings(n, L)
        /\ u \in Tables(n) /\ Points(u, h.clients) /\ (~moved[n] => Fits(u, h.clients, borrowed[n]))
        /\ a \in Closings(n, a)
    BY ConfirmedOpening
  <1>3. a.table = u /\ a.clients = h.clients /\ h.clients \in Arrays
    <2> HIDE DEF h, u
    <2> QED
      BY <1>2 DEF Openings
  <1>4. Unlisted(a.table, L) \cap E \subseteq DOMAIN a.table
    BY DEF Unlisted
  <1> HIDE DEF h, u, a
  <1>5. G \in Closings(n, a)
    BY <1>2, <1>3, <1>4, ClosesKeeps
  <1> HIDE DEF g, gone
  <1>6. /\ IsNet(G.net) /\ Spared(net, G.net, n) /\ G.clients \in Arrays
        /\ G.ok => Houses(G.net, G.clients, n, borrowed[n])
        /\ Len(G.clients.slot) = Len(h.clients.slot)
        /\ G.clients = h.clients \/ G.clients.nb < h.clients.nb
    BY <1>3, <1>5 DEF Closings
  <1>7. CASE Ends(n, G.net)
    BY <1>6, <1>7, EndsKeeps
  <1>8. CASE /\ G.ok
             /\ table' = [table EXCEPT ![n] = Without(a.table, E)]
             /\ clients' = [clients EXCEPT ![n] = G.clients]
             /\ net' = G.net
             /\ told' = [told EXCEPT ![n] = L]
             /\ list' = [list EXCEPT ![n] = Tail(list[n])]
             /\ borrowed' = [borrowed EXCEPT ![n] = {k \in borrowed[n] : G.net.peer[n][k] # Free}]
             /\ moved' = [moved EXCEPT ![n] = moved[n] \/ G.clients.nb < h.clients.nb]
             /\ UNCHANGED up
    <2> DEFINE v == Without(u, E)
               B == {k \in borrowed[n] : G.net.peer[n][k] # Free}
    <2>1. /\ up' = up /\ known' = known /\ stale' = stale /\ weight' = weight
      BY <1>8 DEF controller
    <2>2. Fields /\ Station(n)
      BY DEF Inv
    <2>3. v \in Tables(n) /\ OldClients(v, u)
      BY <1>2, WithoutKeeps
    <2>4. Points(v, h.clients) /\ (~moved[n] => Fits(v, h.clients, borrowed[n]))
      BY <1>2, <2>3, OldClientsStay
    <2> HIDE DEF v, G
    <2>0. B \subseteq borrowed[n] /\ Houses(G.net, G.clients, n, B) /\ InUse(G.net, n, B)
      <3>1. borrowed[n] \subseteq Open
        BY <2>2 DEF Station, InUse
      <3> QED
        BY <1>6, <1>8, <3>1, HousesExcused DEF InUse
    <2> HIDE DEF B
    <2>5. Points(v, G.clients)
      BY <1>6, <2>4 DEF Points
    <2>6. /\ table'[n] = v /\ clients'[n] = G.clients /\ list'[n] = Tail(list[n]) /\ borrowed'[n] = B
          /\ moved'[n] = (moved[n] \/ G.clients.nb < h.clients.nb)
      BY <1>3, <1>8, <2>2 DEF Fields, v, B
    <2>7. ASSUME ~moved'[n] PROVE Fits(v, G.clients, B)
      <3>1. G.clients = h.clients /\ Fits(v, h.clients, borrowed[n])
        BY <1>6, <2>4, <2>6, <2>7
      <3>2. B \subseteq borrowed[n]
        BY <2>0
      <3> QED
        BY <3>1, <3>2 DEF Fits
    <2>8. moved' \in [Node -> BOOLEAN]
      <3> DEFINE b == moved[n] \/ G.clients.nb < h.clients.nb
      <3>1. b \in BOOLEAN /\ moved' = [moved EXCEPT ![n] = b]
        BY <1>8
      <3> HIDE DEF b
      <3> QED
        BY <2>2, <3>1 DEF Fields
    <2>9. Fields'
      BY <1>8, <2>1, <2>2, <2>8 DEF Fields
    <2>10. Local(n)
      BY <1>8, <2>1, <2>2 DEF Fields, Local
    <2>11. Station(n)'
      BY <1>6, <1>8, <2>0, <2>1, <2>2, <2>3, <2>5, <2>6, <2>7, HeadOfLists DEF Station
    <2> QED
      BY <1>6, <1>8, <2>9, <2>10, <2>11, LocalStep
  <1> QED
    BY <1>1, <1>7, <1>8

LEMMA ReadListKeeps ==
  ASSUME Inv, NEW n \in Node, ReadList(n)
  PROVE  Inv'
  <1>1. up[n] /\ list[n] # <<>> /\ UNCHANGED controller
    BY DEF ReadList
  <1>2. CASE EmptyListRead(n)
    BY <1>1, <1>2, EmptyListReadKeeps
  <1>3. CASE ListRead(n, Head(list[n]))
    BY <1>1, <1>3, ListReadKeeps
  <1> QED
    BY <1>2, <1>3 DEF ReadList

(***************************************************************************)
(* At the start, the neighbours of a router have the numbers after the     *)
(* controller's, in their order.                                           *)
(***************************************************************************)
Ranks(R) == [m \in R |-> 1 + Cardinality({q \in R : q <= m})]

Numbers(f, R) ==
  /\ Cardinality(R) \in Nat
  /\ \A m \in R : f[m] \in 2..(1 + Cardinality(R))
  /\ \A m, p \in R : f[m] = f[p] => m = p
  /\ \A i \in 2..(1 + Cardinality(R)) : \E m \in R : f[m] = i

LEMMA RanksAreNumbers ==
  ASSUME NEW R, R \subseteq Nat, IsFiniteSet(R)
  PROVE  Numbers(Ranks(R), R)
  <1> DEFINE f == Ranks(R)
  <1>0. f = [m \in R |-> 1 + Cardinality({q \in R : q <= m})]
    BY DEF Ranks
  <1> HIDE DEF f
  <1> DEFINE below(m) == {q \in R : q <= m}
             c == Cardinality(R)
  <1>1. c \in Nat
    BY FS_CardinalityType
  <1>2. ASSUME NEW m \in R PROVE /\ IsFiniteSet(below(m)) /\ Cardinality(below(m)) \in 1..c
                                 /\ f[m] = 1 + Cardinality(below(m))
    <2>1. below(m) \in SUBSET R /\ m \in below(m)
      OBVIOUS
    <2> HIDE DEF below
    <2>2. IsFiniteSet(below(m)) /\ Cardinality(below(m)) <= c
      BY <2>1, FS_Subset
    <2>3. Cardinality(below(m)) \in Nat /\ Cardinality(below(m)) # 0
      BY <2>1, <2>2, FS_CardinalityType, FS_EmptySet
    <2> QED
      BY <1>0, <1>1, <2>2, <2>3 DEF below
  <1>3. ASSUME NEW m \in R, NEW p \in R, m < p PROVE f[m] # f[p]
    <2>1. below(m) \in SUBSET below(p) /\ p \in below(p) /\ p \notin below(m)
      <3>1. m \in Nat /\ p \in Nat
        OBVIOUS
      <3>2. \A q \in R : q <= m => q <= p
        BY <1>3, <3>1
      <3>3. below(m) \subseteq below(p)
        BY <3>2
      <3>4. p \in below(p) /\ ~(p <= m)
        BY <1>3, <3>1
      <3> QED
        BY <3>3, <3>4
    <2> HIDE DEF below
    <2>2. Cardinality(below(m)) # Cardinality(below(p))
      BY <1>2, <2>1, FS_Subset
    <2> QED
      BY <1>2, <2>2
  <1>4. \A m, p \in R : f[m] = f[p] => m = p
    BY <1>3
  <1> DEFINE T == 2..(1 + c)
  <1>5. ASSUME NEW m \in R PROVE f[m] \in T
    <2>1. Cardinality(below(m)) \in 1..c /\ f[m] = 1 + Cardinality(below(m))
      BY <1>2
    <2> HIDE DEF below, c
    <2> QED
      BY <1>1, <2>1
  <1>6. IsFiniteSet(T) /\ Cardinality(T) = c
    <2>1. 2 \in Int /\ 1 + c \in Int
      BY <1>1
    <2> QED
      BY <1>1, <2>1, FS_Interval
  <1> HIDE DEF T, c, below
  <1>7. f \in Injection(R, T)
    <2>1. f \in [R -> T]
      BY <1>0, <1>5
    <2> QED
      BY <1>0, <1>4, <2>1 DEF Injection, IsInjective
  <1>8. f \in Surjection(R, T)
    BY <1>6, <1>7, FS_Injection DEF c
  <1>9. \A i \in T : \E m \in R : f[m] = i
    BY <1>8 DEF Surjection
  <1> QED
    BY <1>1, <1>4, <1>5, <1>9 DEF T, c, f, Numbers

Weighed == weight \in [Edge -> Weight \cup {NoEdge}] /\ \A n \in Node : weight[{n}] = NoEdge

LEMMA NearNodes ==
  ASSUME Weighed, NEW S, S \subseteq Node, NEW n \in Node
  PROVE  /\ Near(n, S) \subseteq Node \ {n} /\ Near(n, S) \subseteq Nat /\ IsFiniteSet(Near(n, S))
         /\ n \notin S => Near(n, S) = {}
         /\ \A m \in Near(n, S) : n \in Near(m, S) /\ weight[{m, n}] \in Weight
  <1>1. Near(n, S) \subseteq Node
    BY DEF Near
  <1>2. n \notin Near(n, S)
    <2>1. {n, n} = {n}
      OBVIOUS
    <2> QED
      BY <2>1 DEF Near, Adjacent, Weighed
  <1>3. IsFiniteSet(Near(n, S))
    <2>1. IsFiniteSet(Node)
      BY RouterAssumption DEF RouterAssumption
    <2> QED
      BY <1>1, <2>1, FS_Subset
  <1>4. ASSUME NEW m \in Near(n, S) PROVE n \in Near(m, S) /\ weight[{m, n}] \in Weight
    <2>1. n \in S /\ m \in S /\ weight[{m, n}] # NoEdge
      BY DEF Near, Adjacent
    <2>2. {m, n} = {n, m} /\ {m, n} \in Edge
      BY <1>1 DEF Edge
    <2> QED
      BY <2>1, <2>2 DEF Near, Adjacent, Weighed
  <1>5. Node \subseteq Nat
    BY RouterAssumption DEF RouterAssumption
  <1>6. n \notin S => Near(n, S) = {}
    BY DEF Near
  <1> QED
    BY <1>1, <1>2, <1>3, <1>4, <1>5, <1>6

LEMMA SlotsOfNear ==
  ASSUME Weighed, NEW S, S \subseteq Node, NEW n \in Node, NEW c, c = Cardinality(Near(n, S))
  PROVE  /\ c \in Nat /\ 2..(1 + c) \subseteq Open
         /\ \A m \in Near(n, S) : SlotFor(n, m, S) \in 2..(1 + c)
         /\ \A m, p \in Near(n, S) : SlotFor(n, m, S) = SlotFor(n, p, S) => m = p
         /\ \A i \in 2..(1 + c) : \E m \in Near(n, S) : SlotFor(n, m, S) = i
  <1> DEFINE R == Near(n, S)
             f == Ranks(R)
  <1>1. /\ R \subseteq Node \ {n} /\ R \subseteq Nat /\ IsFiniteSet(R)
    BY NearNodes
  <1>2. \A m \in R : f[m] = SlotFor(n, m, S)
    BY DEF SlotFor, Ranks
  <1> HIDE DEF R
  <1>3. /\ Cardinality(R) \in Nat
        /\ \A m \in R : f[m] \in 2..(1 + Cardinality(R))
        /\ \A m, p \in R : f[m] = f[p] => m = p
        /\ \A i \in 2..(1 + Cardinality(R)) : \E m \in R : f[m] = i
    BY <1>1, RanksAreNumbers DEF Numbers
  <1>4. 2..(1 + c) \subseteq Open
    <2>1. IsFiniteSet(Node) /\ 2..Cardinality(Node) \subseteq Open
      BY RouterAssumption DEF RouterAssumption
    <2>2. Cardinality(R \cup {n}) = Cardinality(R) + 1
      BY <1>1, FS_AddElement
    <2>3. R \cup {n} \in SUBSET Node
      BY <1>1
    <2>4. Cardinality(R \cup {n}) <= Cardinality(Node) /\ Cardinality(Node) \in Nat
      BY <2>1, <2>3, FS_Subset, FS_CardinalityType
    <2>5. 1 + c <= Cardinality(Node) /\ c \in Nat
      BY <1>3, <2>2, <2>4 DEF R
    <2>6. 2..(1 + c) \subseteq 2..Cardinality(Node)
      BY <2>4, <2>5
    <2> QED
      BY <2>1, <2>6
  <1> HIDE DEF f
  <1> QED
    BY <1>2, <1>3, <1>4 DEF R

LEMMA PeersAtFirst ==
  ASSUME Weighed, NEW S, S \subseteq Node, NEW n \in Node, NEW c, c = Cardinality(Near(n, S))
  PROVE  /\ \A m \in Near(n, S) : LinkedPeer(n, SlotFor(n, m, S), S) = <<m, SlotFor(m, n, S)>>
         /\ \A k \in Sock : k \notin 2..(1 + c) => LinkedPeer(n, k, S) = Free
         /\ \A k : k \in 2..(1 + c) => LinkedPeer(n, k, S) \in End
         /\ \A k : LinkedPeer(n, k, S) # Free =>
              \E m \in Near(n, S) : k = SlotFor(n, m, S) /\ LinkedPeer(n, k, S) = <<m, SlotFor(m, n, S)>>
  <1>1. /\ c \in Nat /\ 2..(1 + c) \subseteq Open
        /\ \A m \in Near(n, S) : SlotFor(n, m, S) \in 2..(1 + c)
        /\ \A m, p \in Near(n, S) : SlotFor(n, m, S) = SlotFor(n, p, S) => m = p
        /\ \A i \in 2..(1 + c) : \E m \in Near(n, S) : SlotFor(n, m, S) = i
    BY SlotsOfNear
  <1>2. ASSUME NEW m \in Near(n, S) PROVE LinkedPeer(n, SlotFor(n, m, S), S) = <<m, SlotFor(m, n, S)>>
    <2> DEFINE k == SlotFor(n, m, S)
               p == CHOOSE q \in Near(n, S) : k = SlotFor(n, q, S)
    <2>1. p \in Near(n, S) /\ k = SlotFor(n, p, S)
      <3> HIDE DEF k
      <3>1. \E q \in Near(n, S) : k = SlotFor(n, q, S)
        BY DEF k
      <3> QED
        BY <3>1
    <2>2. p = m
      BY <1>1, <2>1
    <2>3. LinkedPeer(n, k, S) = <<p, SlotFor(p, n, S)>>
      BY DEF LinkedPeer
    <2> HIDE DEF p
    <2> QED
      BY <2>2, <2>3
  <1>3. ASSUME NEW k, LinkedPeer(n, k, S) # Free
        PROVE  \E m \in Near(n, S) : k = SlotFor(n, m, S) /\ LinkedPeer(n, k, S) = <<m, SlotFor(m, n, S)>>
    <2>1. PICK m \in Near(n, S) : k = SlotFor(n, m, S)
      BY <1>3 DEF LinkedPeer
    <2> QED
      BY <1>2, <2>1
  <1>4. ASSUME NEW k, k \in 2..(1 + c) PROVE LinkedPeer(n, k, S) \in End
    <2>1. PICK m \in Near(n, S) : k = SlotFor(n, m, S)
      BY <1>1, <1>4
    <2>2. m \in Node /\ n \in Near(m, S)
      BY NearNodes
    <2>3. SlotFor(m, n, S) \in Open
      BY <2>2, SlotsOfNear
    <2> QED
      BY <1>2, <2>1, <2>2, <2>3 DEF End, Sock
  <1>5. ASSUME NEW k, k \notin 2..(1 + c) PROVE LinkedPeer(n, k, S) = Free
    BY <1>1, <1>5 DEF LinkedPeer
  <1> QED
    BY <1>2, <1>3, <1>4, <1>5

FirstNet(S) == [NoNet EXCEPT !.peer = [n \in Node |-> [k \in Sock |-> LinkedPeer(n, k, S)]]]

LEMMA FirstNetShape ==
  ASSUME NEW S
  PROVE  /\ FirstNet(S) = [peer |-> FirstNet(S).peer, inbox |-> FirstNet(S).inbox, backlog |-> FirstNet(S).backlog]
         /\ FirstNet(S).peer = [n \in Node |-> [k \in Sock |-> LinkedPeer(n, k, S)]]
         /\ FirstNet(S).inbox = [n \in Node |-> [k \in Sock |-> <<>>]]
         /\ FirstNet(S).backlog = [n \in Node |-> <<>>]
  <1> DEFINE P == [n \in Node |-> [k \in Sock |-> LinkedPeer(n, k, S)]]
             B == [n \in Node |-> [k \in Sock |-> <<>>]]
             Q == [n \in Node |-> <<>>]
             R == [n \in Node |-> [k \in Sock |-> Free]]
  <1>1. FirstNet(S) = [[peer |-> R, inbox |-> B, backlog |-> Q] EXCEPT !.peer = P]
    BY DEF FirstNet, NoNet
  <1> HIDE DEF P, B, Q, R
  <1>2. FirstNet(S) = [peer |-> P, inbox |-> B, backlog |-> Q]
    BY <1>1
  <1>3. /\ FirstNet(S).peer = P /\ FirstNet(S).inbox = B /\ FirstNet(S).backlog = Q
    BY <1>2
  <1> QED
    BY <1>2, <1>3 DEF P, B, Q

LEMMA FirstIsNet ==
  ASSUME Weighed, NEW S, S \subseteq Node
  PROVE  IsNet(FirstNet(S))
  <1> DEFINE N == FirstNet(S)
  <1>1. /\ N = [peer |-> N.peer, inbox |-> N.inbox, backlog |-> N.backlog]
        /\ N.peer = [n \in Node |-> [k \in Sock |-> LinkedPeer(n, k, S)]]
        /\ N.inbox = [n \in Node |-> [k \in Sock |-> <<>>]]
        /\ N.backlog = [n \in Node |-> <<>>]
    BY FirstNetShape
  <1> HIDE DEF N
  <1>2. \A n \in Node, k \in Sock : N.peer[n][k] = LinkedPeer(n, k, S) /\ N.inbox[n][k] = <<>>
    BY <1>1
  <1>3. ASSUME NEW n \in Node, NEW k \in Sock PROVE LinkedPeer(n, k, S) \in End \cup {Free}
    <2>1. CASE k \in 2..(1 + Cardinality(Near(n, S)))
      BY <2>1, PeersAtFirst
    <2>2. CASE k \notin 2..(1 + Cardinality(Near(n, S)))
      BY <2>2, PeersAtFirst
    <2> QED
      BY <2>1, <2>2
  <1>4. N \in Nets
    <2>1. N.peer \in [Node -> [Sock -> End \cup {Free, Gone}]]
      BY <1>1, <1>3
    <2>2. N.inbox \in [Node -> [Sock -> Seq(Message)]] /\ N.backlog \in [Node -> Seq(NotAccepted)]
      BY <1>1, EmptySeq
    <2> QED
      BY <1>1, <2>1, <2>2 DEF Nets
  <1>5. Paired(N)
    <2> SUFFICES ASSUME NEW a \in Node, NEW b \in Node, NEW i \in Sock, NEW j \in Sock,
                        N.peer[a][i] = <<b, j>>
                 PROVE  a # b /\ N.peer[b][j] = <<a, i>>
      BY DEF Paired
    <2>1. LinkedPeer(a, i, S) = <<b, j>>
      BY <1>2
    <2>2. LinkedPeer(a, i, S) # Free
      BY <2>1, Names DEF End
    <2>3. PICK m \in Near(a, S) : /\ i = SlotFor(a, m, S)
                                  /\ LinkedPeer(a, i, S) = <<m, SlotFor(m, a, S)>>
      BY <2>2, PeersAtFirst
    <2>4. m = b /\ j = SlotFor(b, a, S)
      BY <2>1, <2>3
    <2>5. a \in Near(b, S) /\ a # b
      BY <2>3, <2>4, NearNodes
    <2>6. LinkedPeer(b, j, S) = <<a, SlotFor(a, b, S)>>
      BY <2>4, <2>5, PeersAtFirst
    <2> QED
      BY <1>2, <2>3, <2>4, <2>5, <2>6
  <1>6. Quiet(N)
    BY <1>2 DEF Quiet
  <1>7. ASSUME NEW n \in Node PROVE Waits(N, n)
    <2>1. N.backlog[n] = <<>> /\ DOMAIN N.backlog[n] = {}
      BY <1>1, EmptySeq
    <2>2. ASSUME NEW j \in NotAccepted PROVE N.peer[n][j] = Free
      <3>1. j \notin 2..(1 + Cardinality(Near(n, S))) /\ j \in Sock
        BY Names, SlotsOfNear DEF Sock
      <3> QED
        BY <1>2, <3>1, PeersAtFirst
    <2> QED
      BY <2>1, <2>2 DEF Waits
  <1> QED
    BY <1>4, <1>5, <1>6, <1>7 DEF IsNet, N

(***************************************************************************)
(* The clients and the table of a router that runs at the start.           *)
(***************************************************************************)
LEMMA FirstHouses ==
  ASSUME Weighed, NEW S, S \subseteq Node, NEW n \in S
  PROVE  LET C == LinkedClients(n, S)
         IN  /\ C \in Arrays /\ Houses(FirstNet(S), C, n, {}) /\ Len(C.slot) = C.nb
             /\ C.nb = 1 + Cardinality(Near(n, S))
             /\ \A m \in Near(n, S) : C.slot[SlotFor(n, m, S)].id = m
  <1> DEFINE c == Cardinality(Near(n, S))
             nb == 1 + c
             neighbor(i) == CHOOSE m \in Near(n, S) : SlotFor(n, m, S) = i
             slot == [i \in 1..nb |-> IF i = 1 THEN [sock |-> 1, id |-> Controller]
                                               ELSE [sock |-> i, id |-> neighbor(i)]]
             C == LinkedClients(n, S)
             N == FirstNet(S)
             near == [i \in 2..nb |-> neighbor(i)]
  <1>0. n \in Node
    OBVIOUS
  <1>1. C = [slot |-> slot, nb |-> nb]
    BY DEF LinkedClients
  <1>2. /\ c \in Nat /\ nb \in Nat /\ 2..nb \subseteq Open
        /\ \A m \in Near(n, S) : SlotFor(n, m, S) \in 2..nb
        /\ \A m, p \in Near(n, S) : SlotFor(n, m, S) = SlotFor(n, p, S) => m = p
        /\ \A i \in 2..nb : \E m \in Near(n, S) : SlotFor(n, m, S) = i
    <2>1. c = Cardinality(Near(n, S))
      OBVIOUS
    <2> HIDE DEF c
    <2>2. /\ c \in Nat /\ 2..(1 + c) \subseteq Open
          /\ \A m \in Near(n, S) : SlotFor(n, m, S) \in 2..(1 + c)
          /\ \A m, p \in Near(n, S) : SlotFor(n, m, S) = SlotFor(n, p, S) => m = p
          /\ \A i \in 2..(1 + c) : \E m \in Near(n, S) : SlotFor(n, m, S) = i
      BY <1>0, <2>1, SlotsOfNear
    <2> QED
      BY <2>2
  <1>3. \A i \in 2..nb : near[i] \in Near(n, S) /\ SlotFor(n, near[i], S) = i
    BY <1>2
  <1>4. \A m \in Near(n, S) : near[SlotFor(n, m, S)] = m
    <2> HIDE DEF near, nb
    <2> QED
      BY <1>2, <1>3
  <1>5. Near(n, S) \subseteq Name \ {n}
    BY <1>0, NearNodes DEF Name
  <1> HIDE DEF c
  <1>6. /\ DOMAIN slot = 1..nb /\ slot[1] = [sock |-> 1, id |-> Controller]
        /\ \A i \in 2..nb : slot[i] = [sock |-> i, id |-> near[i]]
    BY <1>2
  <1> HIDE DEF near
  <1>7. slot \in Seq(Client) /\ Len(slot) = nb
    <2>0. Controller \in Name
      BY DEF Name
    <2>1. \A i \in 1..nb : slot[i] \in Client
      BY <1>2, <1>3, <1>5, <1>6, <2>0 DEF Client
    <2>2. slot \in [1..nb -> Client]
      BY <2>1
    <2> HIDE DEF slot
    <2> QED
      BY <1>2, <2>2, IsASeq, LenProperties
  <1> HIDE DEF slot, nb
  <1>8. C.slot = slot /\ C.nb = nb /\ C \in Arrays
    BY <1>1, <1>2, <1>7 DEF Arrays
  <1> HIDE DEF C
  <1>9. \A k \in Sock : N.peer[n][k] = LinkedPeer(n, k, S) /\ N.inbox[n][k] = <<>>
    <2>1. /\ N.peer = [x \in Node |-> [k \in Sock |-> LinkedPeer(x, k, S)]]
          /\ N.inbox = [x \in Node |-> [k \in Sock |-> <<>>]]
      BY FirstNetShape
    <2> HIDE DEF N
    <2> QED
      BY <1>0, <2>1
  <1> HIDE DEF N
  <1>10. ASSUME NEW k \in Open PROVE N.peer[n][k] # Free <=> k \in 2..nb
    <2>1. k \in Sock /\ nb = 1 + c /\ c = Cardinality(Near(n, S))
      BY DEF Sock, nb, c
    <2>2. CASE k \in 2..nb
      <3>1. LinkedPeer(n, k, S) \in End
        BY <1>0, <2>1, <2>2, PeersAtFirst
      <3> QED
        BY <1>9, <2>1, <2>2, <3>1, Names
    <2>3. CASE k \notin 2..nb
      <3>1. LinkedPeer(n, k, S) = Free
        BY <1>0, <2>1, <2>3, PeersAtFirst
      <3> QED
        BY <1>9, <2>1, <2>3, <3>1
    <2> QED
      BY <2>2, <2>3
  <1>11. ASSUME NEW i \in 2..nb PROVE Speaks(N, n, i, near[i])
    <2> DEFINE m == near[i]
    <2>1. m \in Near(n, S) /\ SlotFor(n, m, S) = i /\ i \in Sock
      BY <1>2, <1>3 DEF Sock
    <2>2. m \in Node /\ n \in Near(m, S)
      BY <1>0, <2>1, NearNodes
    <2>3. SlotFor(m, n, S) \in Sock
      BY <2>2, SlotsOfNear DEF Sock
    <2>4. LinkedPeer(n, i, S) = <<m, SlotFor(m, n, S)>>
      BY <1>0, <2>1, PeersAtFirst
    <2> HIDE DEF m
    <2>5. Speaks(N, n, i, m)
      BY <1>9, <2>1, <2>3, <2>4 DEF Speaks, LeadsIn, Honest
    <2> QED
      BY <2>5 DEF m
  <1>12. Houses(N, C, n, {})
    <2>2. ASSUME NEW i \in 2..nb PROVE slot[i].sock = i /\ slot[i].id = near[i]
      <3>1. slot[i] = [sock |-> i, id |-> near[i]]
        BY <1>6
      <3> HIDE DEF slot
      <3> QED
        BY <3>1
    <2>1. \A i, j \in 2..nb : slot[i].sock = slot[j].sock => i = j
      BY <2>2
    <2>3. nb \in 1..nb
      BY <1>2 DEF nb
    <2>4. \A i \in 2..nb : near[i] \in Node
      BY <1>0, <1>3, NearNodes
    <2> QED
      BY <1>2, <1>3, <1>5, <1>6, <1>7, <1>8, <1>10, <1>11, <2>1, <2>2, <2>3, <2>4 DEF Houses
  <1>13. ASSUME NEW m \in Near(n, S) PROVE C.slot[SlotFor(n, m, S)].id = m
    <2> DEFINE i == SlotFor(n, m, S)
    <2>1. i \in 2..nb /\ near[i] = m
      BY <1>2, <1>4
    <2> HIDE DEF i
    <2>2. slot[i] = [sock |-> i, id |-> near[i]]
      BY <1>6, <2>1
    <2> QED
      BY <1>8, <2>1, <2>2 DEF i
  <1> QED
    BY <1>7, <1>8, <1>12, <1>13 DEF C, N, nb, c

LEMMA FirstTable ==
  ASSUME Weighed, NEW S, S \subseteq Node, NEW n \in Node
  PROVE  LET t == LinkedTable(n, S)
         IN  /\ t \in Tables(n) /\ DOMAIN t = Near(n, S)
             /\ \A m \in Near(n, S) : t[m].client = SlotFor(n, m, S) /\ t[m].dist = weight[{m, n}]
  <1> DEFINE t == LinkedTable(n, S)
  <1>1. DOMAIN t = Near(n, S)
    BY DEF LinkedTable
  <1>2. ASSUME NEW m \in Near(n, S)
        PROVE  /\ t[m] \in Entries /\ m \in Node \ {n}
               /\ t[m].client = SlotFor(n, m, S) /\ t[m].dist = weight[{m, n}]
    <2> DEFINE cost == weight[{m, n}]
               c == SlotFor(n, m, S)
               u == Opened(NoTable, m, cost, c)
    <2>1. t[m] = u[m]
      BY DEF LinkedTable
    <2>2. m \in Node \ {n} /\ cost \in Dist /\ c \in Nat /\ NoTable \in Tables(n)
      <3>1. c \in 2..(1 + Cardinality(Near(n, S))) /\ Cardinality(Near(n, S)) \in Nat
        BY SlotsOfNear
      <3>2. cost \in Weight
        BY NearNodes
      <3> HIDE DEF c, cost
      <3>3. m \in Node \ {n}
        BY NearNodes
      <3>4. cost \in Dist
        BY <3>2, NumbersAreEntries
      <3>5. c \in Nat
        BY <3>1
      <3>6. NoTable \in Tables(n)
        BY NothingThere
      <3> QED
        BY <3>3, <3>4, <3>5, <3>6
    <2> HIDE DEF cost, c
    <2>3. /\ u \in Tables(n) /\ DOMAIN u = DOMAIN NoTable \cup {m}
          /\ u[m].client = c /\ u[m].dist = cost
      <3>1. u \in Tables(n) /\ Joined(u, NoTable, m, c) /\ u[m].dist = cost
        BY <2>2, OpenedKeeps
      <3> HIDE DEF u
      <3> QED
        BY <3>1 DEF Joined
    <2> HIDE DEF u, t
    <2>4. u[m] \in Entries
      BY <2>3, TableTypes
    <2> QED
      BY <2>1, <2>2, <2>3, <2>4 DEF c, cost
  <1>3. t = [m \in Near(n, S) |-> t[m]]
    BY DEF LinkedTable
  <1> HIDE DEF t
  <1>4. t \in [Near(n, S) -> Entries]
    BY <1>2, <1>3
  <1>5. Near(n, S) \subseteq Name \ {n} /\ \A m \in Near(n, S) : m \in Node
    BY <1>2 DEF Name
  <1>6. t \in Tables(n)
    BY <1>4, <1>5, IsTable
  <1> QED
    BY <1>1, <1>2, <1>6 DEF t

LEMMA InitHolds ==
  ASSUME Init
  PROVE  Inv
  <1>1. PICK S \in Started :
          /\ up = [n \in Node |-> n \in S] /\ known = up
          /\ table = [n \in Node |-> LinkedTable(n, S)]
          /\ clients = [n \in Node |-> IF n \in S THEN LinkedClients(n, S) ELSE NoClients]
          /\ net = FirstNet(S)
          /\ told = [n \in Node |-> IF n \in S THEN [m \in Near(n, S) |-> weight[{m, n}]] ELSE NoList]
    BY DEF Init, FirstNet
  <1>2. /\ list = [n \in Node |-> <<>>] /\ stale = [n \in Node |-> FALSE]
        /\ moved = [n \in Node |-> FALSE] /\ borrowed = [n \in Node |-> {}] /\ weight \in Topology
    BY DEF Init
  <1>3. S \subseteq Node /\ Weighed
    BY <1>2, RouterAssumption DEF RouterAssumption, Weighed
  <1>4. IsNet(net)
    BY <1>1, <1>3, FirstIsNet
  <1>5. Fields
    <2>1. up \in [Node -> BOOLEAN] /\ known \in [Node -> BOOLEAN]
      BY <1>1
    <2> QED
      BY <1>1, <1>2, <1>3, <2>1 DEF Fields, Weighed
  <1>6. ASSUME NEW n \in Node PROVE Station(n)
    <2> DEFINE t == LinkedTable(n, S)
               C == LinkedClients(n, S)
    <2>1. /\ up[n] = (n \in S) /\ known[n] = up[n] /\ table[n] = t
          /\ clients[n] = IF n \in S THEN C ELSE NoClients
          /\ list[n] = <<>> /\ moved[n] = FALSE /\ borrowed[n] = {} /\ net = FirstNet(S)
      BY <1>1, <1>2
    <2>0. <<>> \in Seq(Lists(n)) /\ InUse(net, n, {})
      BY EmptySeq DEF InUse
    <2>2. /\ t \in Tables(n) /\ DOMAIN t = Near(n, S)
          /\ \A m \in Near(n, S) : t[m].client = SlotFor(n, m, S)
      BY <1>3, FirstTable
    <2>3. Near(n, S) \subseteq Node
      BY <1>3, NearNodes
    <2>4. CASE n \in S
      <3>1. /\ C \in Arrays /\ Houses(net, C, n, {}) /\ Len(C.slot) = C.nb
            /\ C.nb = 1 + Cardinality(Near(n, S))
            /\ \A m \in Near(n, S) : C.slot[SlotFor(n, m, S)].id = m
        BY <1>3, <2>1, <2>4, FirstHouses
      <3>2. \A m \in Near(n, S) : SlotFor(n, m, S) \in 2..(1 + Cardinality(Near(n, S)))
        BY <1>3, SlotsOfNear
      <3> HIDE DEF C, t
      <3>3. Points(t, C) /\ Fits(t, C, {})
        BY <2>2, <2>3, <3>1, <3>2 DEF Points, Fits
      <3> QED
        BY <2>0, <2>1, <2>2, <2>4, <3>1, <3>3 DEF Station
    <2>5. CASE n \notin S
      <3>1. Near(n, S) = {}
        BY <1>3, <2>5, NearNodes
      <3>2. t = NoTable
        <4>1. t = [m \in {} |-> t[m]]
          BY <3>1 DEF LinkedTable
        <4> HIDE DEF t
        <4> QED
          BY <4>1 DEF NoTable
      <3>3. Silent(net, n)
        <4>1. \A k \in Sock : LinkedPeer(n, k, S) = Free
          BY <3>1 DEF LinkedPeer
        <4>2. /\ net.peer = [x \in Node |-> [k \in Sock |-> LinkedPeer(x, k, S)]]
              /\ net.backlog = [x \in Node |-> <<>>]
          BY <2>1, FirstNetShape
        <4> QED
          BY <4>1, <4>2 DEF Silent
      <3> HIDE DEF t, C
      <3> QED
        BY <2>0, <2>1, <2>5, <3>2, <3>3, NothingThere DEF Station
    <2> QED
      BY <2>4, <2>5
  <1> QED
    BY <1>4, <1>5, <1>6 DEF Inv

LEMMA InitServes ==
  ASSUME Init
  PROVE  Serving
  BY Names DEF Init, Serving, Name

LEMMA StepHolds ==
  ASSUME Inv, Serving, [Next]_vars
  PROVE  Inv'
  <1>1. CASE \E n \in Node : Login(n) \/ Poll(n) \/ SeesClosed(n)
    BY <1>1, LoginKeeps, PollKeeps, SeesClosedKeeps
  <1>2. CASE \E c \in Command : Edit(c[1], c[2], c[3])
    BY <1>2, EditKeeps
  <1>3. CASE \E n \in Node : ReadList(n) \/ ListsLost(n) \/ Accept(n) \/ AcceptLost(n)
    BY <1>3, ReadListKeeps, ListsLostKeeps, AcceptKeeps, AcceptLostKeeps
  <1>4. CASE \E n \in Node : \E i \in Used(clients[n]) : Receive(n, i) \/ Coalesced(n, i) \/ PeerClosed(n, i)
    BY <1>4, ReceiveKeeps, CoalescedKeeps, PeerClosedKeeps
  <1>5. CASE \E n \in Node : Quit(n)
    BY <1>5, QuitKeeps
  <1>6. CASE \E n, s \in Node : SendVector(n, s)
    BY <1>6, SendVectorKeeps
  <1>7. CASE UNCHANGED vars
    <2>1. /\ up' = up /\ table' = table /\ clients' = clients /\ net' = net /\ list' = list
          /\ known' = known /\ stale' = stale /\ weight' = weight /\ told' = told /\ moved' = moved
          /\ borrowed' = borrowed
      BY <1>7 DEF vars, controller
    <2>2. Fields'
      BY <2>1 DEF Inv, Fields
    <2>3. ASSUME NEW n \in Node PROVE Station(n)'
      BY <2>1 DEF Inv, Station
    <2> QED
      BY <2>1, <2>2, <2>3 DEF Inv
  <1> QED
    BY <1>1, <1>2, <1>3, <1>4, <1>5, <1>6, <1>7 DEF Next, ControllerStep, Serve

(***************************************************************************)
(* A step serves one client, and a router has no client with its own id.   *)
(***************************************************************************)
LEMMA ServedStays ==
  ASSUME Inv, Serving, NEW n \in Node, NEW i \in Used(clients[n]),
         Receive(n, i) \/ Coalesced(n, i) \/ PeerClosed(n, i)
  PROVE  Serving'
  <1> DEFINE id == clients[n].slot[i].id
  <1>1. /\ up[n] /\ i \in 2..clients[n].nb /\ served' = [served EXCEPT ![n] = id]
        /\ misread' = misread \/ \E b \in BOOLEAN : misread' = [misread EXCEPT ![n] = misread[n] \/ b]
    <2>1. CASE Receive(n, i)
      <3> DEFINE k == clients[n].slot[i].sock
                 b == Head(net.inbox[n][k]).type = "vector" /\ k \in borrowed[n]
      <3>1. /\ up[n] /\ i \in 2..clients[n].nb /\ served' = [served EXCEPT ![n] = id]
            /\ misread' = [misread EXCEPT ![n] = misread[n] \/ b]
        BY <2>1, Zenon DEF Receive
      <3>2. b \in BOOLEAN
        OBVIOUS
      <3> QED
        BY <3>1, <3>2, Zenon
    <2>2. CASE Coalesced(n, i) \/ PeerClosed(n, i)
      BY <2>2, Zenon DEF Coalesced, PeerClosed
    <2> QED
      BY <2>1, <2>2
  <1>2. id \in Name \ {n}
    BY <1>1, ClientOf
  <1> HIDE DEF id
  <1>3. served' \in [Node -> Name] /\ \A x \in Node : served'[x] # x
    BY <1>1, <1>2 DEF Serving
  <1>4. misread' \in [Node -> BOOLEAN]
    <2>1. CASE misread' = misread
      BY <2>1 DEF Serving
    <2>2. ASSUME NEW b \in BOOLEAN, misread' = [misread EXCEPT ![n] = misread[n] \/ b]
          PROVE  misread' \in [Node -> BOOLEAN]
      <3> DEFINE d == misread[n] \/ b
      <3>1. d \in BOOLEAN /\ misread' = [misread EXCEPT ![n] = d]
        BY <2>2
      <3> HIDE DEF d
      <3> QED
        BY <3>1 DEF Serving
    <2> QED
      BY <1>1, <2>1, <2>2
  <1> QED
    BY <1>3, <1>4 DEF Serving

LEMMA ServingHolds ==
  ASSUME Inv, Serving, [Next]_vars
  PROVE  Serving'
  <1>1. CASE \E n \in Node : Login(n)
    <2>1. PICK n \in Node : /\ served' = [served EXCEPT ![n] = Unnamed]
                            /\ misread' = [misread EXCEPT ![n] = FALSE]
      BY <1>1 DEF Login
    <2>2. Unnamed \in Name \ {n}
      BY Names DEF Name
    <2> QED
      BY <2>1, <2>2 DEF Serving
  <1>2. CASE \E n \in Node : \E i \in Used(clients[n]) : Receive(n, i) \/ Coalesced(n, i) \/ PeerClosed(n, i)
    BY <1>2, ServedStays
  <1>3. CASE UNCHANGED serving
    BY <1>3 DEF Serving, serving
  <1>4. CASE \E n \in Node : Poll(n) \/ SeesClosed(n)
    BY <1>3, <1>4 DEF Poll, SeesClosed, Routed
  <1>5. CASE \E c \in Command : Edit(c[1], c[2], c[3])
    BY <1>3, <1>5 DEF Edit, Routed
  <1>6. CASE \E n \in Node : ReadList(n) \/ ListsLost(n) \/ Accept(n) \/ AcceptLost(n)
    BY <1>3, <1>6, Zenon DEF ReadList, ListsLost, Accept, AcceptLost
  <1>7. CASE \E n \in Node : Quit(n)
    BY <1>3, <1>7 DEF Quit
  <1>8. CASE \E n, s \in Node : SendVector(n, s)
    BY <1>3, <1>8, Zenon DEF SendVector
  <1>9. CASE UNCHANGED vars
    BY <1>3, <1>9 DEF vars
  <1> QED
    BY <1>1, <1>2, <1>4, <1>5, <1>6, <1>7, <1>8, <1>9 DEF Next, ControllerStep, Serve

THEOREM Invariance == Spec => [](Inv /\ Serving)
  BY InitHolds, InitServes, StepHolds, ServingHolds, PTL DEF Spec

(***************************************************************************)
(* Entries are about other routers or about ids that are no router's, with *)
(* a distance that fits an int and a pointer into the array; lists wait    *)
(* only for a router that runs, and no router served itself.               *)
(***************************************************************************)
THEOREM RoutersAreTyped == Spec => []RouterTypeOK
  <1>1. Inv /\ Serving => RouterTypeOK
    <2> SUFFICES ASSUME Inv, Serving PROVE RouterTypeOK
      OBVIOUS
    <2>1. ASSUME NEW n \in Node, NEW s \in DOMAIN table[n]
          PROVE  /\ s \in Name \ {n}
                 /\ table[n][s].nextHop \in Name \cup {NoHop}
                 /\ table[n][s].dist \in -Half..(Half - 1)
                 /\ table[n][s].client \in 1..Len(clients[n].slot) \cup {NoClient}
      <3>1. table[n] \in Tables(n) /\ Points(table[n], clients[n]) /\ clients[n] \in Arrays
        BY DEF Inv, Station
      <3>2. s \in Name \ {n} /\ table[n][s] \in Entries
        BY <3>1, TableTypes
      <3>3. Len(clients[n].slot) \in Nat
        BY <3>1, ArrayTypes
      <3>4. table[n][s].client # NoClient => table[n][s].client \in 2..Len(clients[n].slot)
        BY <3>1 DEF Points
      <3>5. \A i \in 2..Len(clients[n].slot) : i \in 1..Len(clients[n].slot)
        BY <3>3
      <3>6. table[n][s].nextHop \in Name \cup {NoHop} /\ table[n][s].dist \in -Half..(Half - 1)
        BY <3>2 DEF Entries, Dist
      <3> QED
        BY <3>2, <3>4, <3>5, <3>6
    <2>2. ASSUME NEW n \in Node, NEW k \in Sock PROVE net.peer[n][k] \in End \cup {Free, Gone}
      BY NetTypes DEF Inv, IsNet
    <2>3. ASSUME NEW n \in Node
          PROVE  list[n] \in Seq(List) /\ (list[n] # <<>> => up[n])
      <3>1. list[n] \in Seq(Lists(n)) /\ (~up[n] => list[n] = <<>>)
        BY DEF Inv, Station
      <3>2. Lists(n) \subseteq List
        BY DEF Lists
      <3>3. \A i \in 1..Len(list[n]) : list[n][i] \in List
        BY <3>1, <3>2
      <3>4. list[n] \in Seq(List)
        BY <3>1, <3>3, SeqDef
      <3> QED
        BY <3>1, <3>4
    <2>4. ASSUME NEW n \in Node PROVE (up[n] => known[n]) /\ stale[n] \in BOOLEAN
      BY DEF Inv, Station, Fields
    <2>5. ASSUME NEW n \in Node
          PROVE  served[n] \in Name \ {n} /\ borrowed[n] \subseteq Sock /\ misread[n] \in BOOLEAN
      <3>1. borrowed[n] \subseteq Open
        BY DEF Inv, Station, InUse
      <3> QED
        BY <3>1 DEF Serving, Sock
    <2> QED
      BY <2>1, <2>2, <2>3, <2>4, <2>5 DEF RouterTypeOK
  <1> QED
    BY <1>1, Invariance, PTL

(***************************************************************************)
(* A client whose id was not left unset has that of a router, and is       *)
(* connected with that router, or with nobody any more.                    *)
(***************************************************************************)
THEOREM NamesAreRight == Spec => []RightNames
  <1>1. Inv => RightNames
    <2> SUFFICES ASSUME Inv, NEW n \in Node, NEW i \in 2..clients[n].nb,
                        clients[n].slot[i].sock \notin borrowed[n]
                 PROVE  /\ clients[n].slot[i].id \in Node
                        /\ Leads(n, clients[n].slot[i].sock, clients[n].slot[i].id)
      BY DEF RightNames
    <2>1. up[n] /\ Houses(net, clients[n], n, borrowed[n])
      BY DEF Inv, Station, NoClients, Fields
    <2> QED
      BY <2>1 DEF Houses, Speaks, LeadsIn, Leads
  <1> QED
    BY <1>1, Invariance, PTL

(***************************************************************************)
(* As long as no client has left the array of a router, the pointer of a   *)
(* neighbour's entry is a connection with that neighbour, or is null.      *)
(***************************************************************************)
THEOREM PointersAreRight == Spec => []PointersLead
  <1>1. Inv => PointersLead
    <2> SUFFICES ASSUME Inv, NEW n \in Node, ~moved[n], NEW s \in DOMAIN table[n],
                        table[n][s].client # NoClient
                 PROVE  /\ table[n][s].client \in 2..clients[n].nb
                        /\ clients[n].slot[table[n][s].client].id = s
                        /\ Leads(n, clients[n].slot[table[n][s].client].sock, s)
      BY DEF PointersLead
    <2> DEFINE i == table[n][s].client
    <2>1. Fits(table[n], clients[n], borrowed[n])
      BY DEF Inv, Station
    <2>2. /\ i \in 2..clients[n].nb
          /\ clients[n].slot[i].id = s /\ clients[n].slot[i].sock \notin borrowed[n]
      BY <2>1 DEF Fits
    <2> HIDE DEF i
    <2>3. up[n] /\ Houses(net, clients[n], n, borrowed[n])
      BY <2>2 DEF Inv, Station, NoClients, Fields
    <2>4. Leads(n, clients[n].slot[i].sock, s)
      BY <2>2, <2>3 DEF Houses, Speaks, LeadsIn, Leads
    <2> QED
      BY <2>2, <2>4 DEF i
  <1> QED
    BY <1>1, Invariance, PTL

(***************************************************************************)
(* Costs.  An entry that a loop passes over keeps a cost that no list      *)
(* gives any more; with three routers at most no entry is passed over,     *)
(* although the ids that are no router's may have entries too.             *)
(***************************************************************************)
Costs == \A n \in Node : ~misread[n] => Costed(table[n], told[n])

LEMMA CostsStay ==
  ASSUME Costs, NEW n \in Node, ~misread'[n] => Costed(table'[n], told'[n]),
         \A x \in Node \ {n} : table'[x] = table[x] /\ told'[x] = told[x] /\ misread'[x] = misread[x]
  PROVE  Costs'
  BY DEF Costs

LEMMA CostsEnd ==
  ASSUME Inv, Costs, NEW n \in Node, NEW N, Ends(n, N), \A x \in Node \ {n} : misread'[x] = misread[x]
  PROVE  Costs'
  <1>1. /\ table' = [table EXCEPT ![n] = NoTable] /\ told' = [told EXCEPT ![n] = NoList]
        /\ DOMAIN table = Node /\ DOMAIN told = Node
    BY DEF Ends, Inv, Fields
  <1>2. /\ table'[n] = NoTable /\ told'[n] = NoList
        /\ \A x \in Node \ {n} : table'[x] = table[x] /\ told'[x] = told[x]
    BY <1>1
  <1>3. Costed(table'[n], told'[n])
    BY <1>2, NothingThere
  <1> QED
    BY <1>2, <1>3, CostsStay

LEMMA CostsSent ==
  ASSUME Inv, Costs, NEW n \in Node, NEW t, ~misread'[n] => Costed(t, told[n]),
         NEW c, NEW m, NEW N, Sends(n, t, c, m, N), \A x \in Node \ {n} : misread'[x] = misread[x]
  PROVE  Costs'
  <1>1. CASE Ends(n, N)
    BY <1>1, CostsEnd
  <1>2. CASE table' = [table EXCEPT ![n] = t] /\ told' = told
    <2>1. table'[n] = t /\ told'[n] = told[n]
          /\ \A x \in Node \ {n} : table'[x] = table[x] /\ told'[x] = told[x]
      BY <1>2 DEF Inv, Fields
    <2> QED
      BY <2>1, CostsStay
  <1> QED
    BY <1>1, <1>2 DEF Sends

LEMMA CostsSame ==
  ASSUME Costs, table' = table, told' = told, misread' = misread
  PROVE  Costs'
  BY DEF Costs

(***************************************************************************)
(* A small table is left without any of the entries to erase.              *)
(***************************************************************************)
LEMMA AllErased ==
  ASSUME Cardinality(Node) <= 3, NEW n \in Node, NEW t \in Tables(n), NEW S, NEW E \in ErasedByLoop(t, S)
  PROVE  E = S
  <1> DEFINE R == Node \ {n}
             Q == R \cup {Unnamed}
             P == Q \cup {Controller}
  <1>1. IsFiniteSet(Node) /\ Cardinality(Node) \in Nat
    BY RouterAssumption, FS_CardinalityType DEF RouterAssumption
  <1>2. IsFiniteSet(R) /\ Cardinality(R) = Cardinality(Node) - 1
    BY <1>1, FS_RemoveElement
  <1>3. DOMAIN t \subseteq P /\ Unnamed \notin R /\ Controller \notin Q
    BY TableTypes, Names DEF Name
  <1> HIDE DEF R
  <1>4. IsFiniteSet(Q) /\ Cardinality(Q) = Cardinality(R) + 1
    BY <1>2, <1>3, FS_AddElement
  <1> HIDE DEF Q
  <1>5. IsFiniteSet(P) /\ Cardinality(P) = Cardinality(Q) + 1
    BY <1>3, <1>4, FS_AddElement
  <1> HIDE DEF P
  <1>6. Cardinality(DOMAIN t) <= Cardinality(P) /\ Cardinality(DOMAIN t) \in Nat
    BY <1>3, <1>5, FS_Subset, FS_CardinalityType
  <1>7. Cardinality(DOMAIN t) <= 4
    BY <1>1, <1>2, <1>4, <1>5, <1>6
  <1> QED
    BY <1>7 DEF ErasedByLoop

LEMMA CostsRead ==
  ASSUME Inv, Costs, Cardinality(Node) <= 3, NEW n \in Node, ReadList(n)
  PROVE  Costs'
  <1>0. DOMAIN table = Node /\ DOMAIN told = Node /\ up[n] /\ list[n] # <<>> /\ misread' = misread
    BY DEF Inv, Fields, ReadList, serving
  <1>1. CASE EmptyListRead(n)
    <2>1. CASE Ends(n, net)
      BY <1>0, <2>1, CostsEnd
    <2>2. CASE table' = [table EXCEPT ![n] = NoTable] /\ told' = [told EXCEPT ![n] = Head(list[n])]
      <3>1. /\ table'[n] = NoTable
            /\ \A x \in Node \ {n} : table'[x] = table[x] /\ told'[x] = told[x]
        BY <1>0, <2>2
      <3>2. Costed(table'[n], told'[n])
        BY <3>1, NothingThere
      <3> QED
        BY <1>0, <3>1, <3>2, CostsStay
    <2> QED
      BY <1>1, <2>1, <2>2 DEF EmptyListRead
  <1>2. CASE ListRead(n, Head(list[n]))
    <2> DEFINE L == Head(list[n])
               h == Opens(n, L)
               S == DOMAIN L \cap DOMAIN table[n]
               u == Confirms(h.table, L, S)
               a == [h EXCEPT !.table = u]
               gone == Unlisted(a.table, L) \cup Unreached(a.table, L)
               g(E) == Closes(n, a, Unlisted(a.table, L) \cap E)
    <2>1. PICK E \in ErasedByLoop(a.table, gone) :
            \/ table' = [table EXCEPT ![n] = Without(a.table, E)] /\ told' = [told EXCEPT ![n] = L]
            \/ Ends(n, g(E).net)
      BY <1>2, Zenon DEF ListRead
    <2>2. /\ h \in Openings(n, L) /\ u \in Tables(n) /\ DOMAIN u = DOMAIN h.table
          /\ \A s \in S : u[s].dist = L[s]
          /\ \A s \in DOMAIN h.table \ S : u[s] = h.table[s]
      <3>1. h = Opens(n, L) /\ u = Confirms(h.table, L, DOMAIN L \cap DOMAIN table[n]) /\ L = Head(list[n])
        OBVIOUS
      <3>2. S = DOMAIN L \cap DOMAIN table[n]
        OBVIOUS
      <3> HIDE DEF h, u, a, g, gone, S, L
      <3>3. /\ h \in Openings(n, L) /\ u \in Tables(n)
            /\ ListGives(u, h.table, L, DOMAIN L \cap DOMAIN table[n])
        BY <1>0, <3>1, ConfirmedOpening
      <3> QED
        BY <3>2, <3>3 DEF ListGives
    <2>3. a.table = u
      <3> HIDE DEF h, u
      <3> QED
        BY <2>2 DEF Openings
    <2>4. E = gone
      BY <2>1, <2>2, <2>3, AllErased
    <2>5. CASE Ends(n, g(E).net)
      <3> HIDE DEF g
      <3> QED
        BY <1>0, <2>5, CostsEnd
    <2>6. CASE table' = [table EXCEPT ![n] = Without(a.table, E)] /\ told' = [told EXCEPT ![n] = L]
      <3> HIDE DEF g, h
      <3>1. ASSUME NEW s \in DOMAIN u, s \in DOMAIN L PROVE u[s].dist = L[s]
        <4>1. CASE s \in S
          BY <2>2, <4>1
        <4>2. CASE s \notin S
          <5>1. s \in DOMAIN h.table \ DOMAIN table[n] /\ u[s] = h.table[s]
            BY <2>2, <3>1, <4>2
          <5> HIDE DEF u
          <5>2. h.table[s].dist = L[s]
            BY <2>2, <5>1 DEF Openings
          <5> QED
            BY <5>1, <5>2
        <4> QED
          BY <4>1, <4>2
      <3> HIDE DEF u, S, a
      <3> DEFINE v == Without(u, E)
      <3>2. DOMAIN v = DOMAIN u \ E /\ \A s \in DOMAIN u \ E : v[s] = u[s]
        BY DEF Without
      <3>3. \A s \in DOMAIN u \ E : u[s].near => s \in DOMAIN L
        BY <2>3, <2>4 DEF Unlisted
      <3>4. table'[n] = v /\ told'[n] = L
            /\ \A x \in Node \ {n} : table'[x] = table[x] /\ told'[x] = told[x]
        BY <1>0, <2>3, <2>6
      <3> HIDE DEF v, L, gone
      <3>5. Costed(v, L)
        BY <3>1, <3>2, <3>3 DEF Costed
      <3> QED
        BY <1>0, <3>4, <3>5, CostsStay
    <2> QED
      BY <2>1, <2>5, <2>6
  <1> QED
    BY <1>1, <1>2 DEF ReadList

LEMMA CostsJoin ==
  ASSUME Inv, Costs, NEW n \in Node, Accept(n)
  PROVE  Costs'
  <1> DEFINE k == Lowest(FreeAmong(net, n, Open))
             M == Accepted(net, n)
             box == M.inbox[n][k]
             m == Head(box).id
             c == AddClient(clients[n], [sock |-> k, id |-> m]).nb
             t == table[n]
             u == Linked(t, m, c)
  <1>1. /\ net.backlog[n] # <<>> /\ FreeAmong(net, n, Open) # {}
        /\ table' = IF m \notin DOMAIN t THEN [table EXCEPT ![n] = u] ELSE table
        /\ told' = told /\ misread' = misread
    <2>1. PICK id \in IF m \notin DOMAIN t THEN {m} ELSE UnsetIds(n) :
            LET C == AddClient(clients[n], [sock |-> k, id |-> id])
            IN  /\ table' = IF m \notin DOMAIN t THEN [table EXCEPT ![n] = Linked(t, m, C.nb)] ELSE table
                /\ net.backlog[n] # <<>> /\ FreeAmong(net, n, Open) # {}
                /\ told' = told /\ misread' = misread
      BY DEF Accept, serving
    <2> QED
      BY <2>1
  <1>2. /\ IsNet(M) /\ k \in Open /\ box # <<>>
        /\ \E s \in Node \ {n} : box[1] = LinkMessage(s) /\ Speaks(M, n, k, s)
    BY <1>1, AcceptedKeeps DEF Inv
  <1> HIDE DEF M, k
  <1>3. PICK s \in Node \ {n} : box[1] = LinkMessage(s)
    BY <1>2
  <1>4. box \in Seq(Message)
    BY <1>2, NetTypes DEF IsNet, Sock
  <1>5. Head(box) = box[1]
    BY <1>2, <1>4
  <1>6. m = s
    BY <1>3, <1>5 DEF LinkMessage
  <1>7. /\ t \in Tables(n) /\ clients[n].nb \in Nat /\ DOMAIN table = Node
        /\ ~misread[n] => Costed(t, told[n])
    BY ArrayTypes DEF Inv, Station, Costs, Fields
  <1>8. c \in Nat
    BY <1>7 DEF AddClient
  <1> HIDE DEF m, c, t
  <1>9. ~misread[n] => Costed(u, told[n])
    <2>1. AsCostly(u, t)
      BY <1>3, <1>6, <1>7, <1>8, LinkedKeeps
    <2> QED
      BY <1>7, <2>1 DEF AsCostly
  <1> HIDE DEF u
  <1>10. CASE table' = [table EXCEPT ![n] = u]
    <2>1. table'[n] = u /\ told'[n] = told[n]
          /\ \A x \in Node \ {n} : table'[x] = table[x] /\ told'[x] = told[x]
      BY <1>1, <1>7, <1>10
    <2> QED
      BY <1>1, <1>9, <2>1, CostsStay
  <1> QED
    BY <1>1, <1>10, CostsSame

LEMMA CostsReceive ==
  ASSUME Inv, Serving, Costs, NEW n \in Node, NEW i \in Used(clients[n]), Receive(n, i)
  PROVE  Costs'
  <1> DEFINE c == clients[n].slot[i]
             k == c.sock
             id == c.id
             box == net.inbox[n][k]
             m == Head(box)
             N == WithBox(net, n, k, Tail(box))
  <1>1. /\ up[n] /\ i \in 2..clients[n].nb /\ box # <<>>
        /\ \/ m.type = "vector" /\ VectorRead(n, id, m.vector, N)
           \/ /\ table' = IF m.type = "vector ok" THEN [table EXCEPT ![n] = Touched(@, id)]
                          ELSE table
              /\ told' = told
        /\ misread' = [misread EXCEPT ![n] = @ \/ (m.type = "vector" /\ k \in borrowed[n])]
    BY Zenon DEF Receive
  <1>2. id \in Name \ {n}
    <2>1. up[n] /\ i \in 2..clients[n].nb
      BY <1>1, Zenon
    <2> QED
      BY <2>1, ClientOf
  <1>3. /\ table[n] \in Tables(n) /\ DOMAIN table = Node
        /\ ~misread[n] => Costed(table[n], told[n])
    BY DEF Inv, Station, Fields, Costs
  <1>4. /\ ~misread'[n] => ~misread[n] /\ ~(m.type = "vector" /\ k \in borrowed[n])
        /\ \A x \in Node \ {n} : misread'[x] = misread[x]
    <2> DEFINE b == m.type = "vector" /\ k \in borrowed[n]
               d == misread[n] \/ b
    <2>1. misread' = [misread EXCEPT ![n] = d] /\ DOMAIN misread = Node
      BY <1>1, Zenon DEF Serving
    <2> HIDE DEF d
    <2>2. misread'[n] = d /\ \A x \in Node \ {n} : misread'[x] = misread[x]
      BY <2>1
    <2> QED
      BY <2>2, Zenon DEF d
  <1>5. CASE m.type = "vector" /\ VectorRead(n, id, m.vector, N)
    <2>1. m.vector \in Vectors /\ (k \notin borrowed[n] => id \notin DOMAIN m.vector)
      BY <1>1, <1>5, VectorFrom, Zenon
    <2>2. ~misread'[n] => Costed(table[n], told[n]) /\ id \notin DOMAIN m.vector
      BY <1>3, <1>4, <1>5, <2>1, Zenon
    <2> DEFINE t == Touched(table[n], id)
               v == m.vector
    <2> HIDE DEF N, id, m, k
    <2>3. CASE Ends(n, N)
      BY <1>4, <2>3, CostsEnd
    <2>4. CASE \E E \in ErasedByLoop(t, LearnedFrom(t, id)) :
                 LET u == Merged(Without(t, E), n, id, v)
                 IN  Sends(n, u, u[id].client, VectorOk, N)
      <3>1. PICK E \in ErasedByLoop(t, LearnedFrom(t, id)) :
                 LET u == Merged(Without(t, E), n, id, v)
                 IN  Sends(n, u, u[id].client, VectorOk, N)
        BY <2>4
      <3> DEFINE u == Merged(Without(t, E), n, id, v)
      <3>2. ~misread'[n] => Costed(u, told[n])
        BY <1>2, <1>3, <2>1, <2>2, VectorTable
      <3>3. Sends(n, u, u[id].client, VectorOk, N)
        BY <3>1
      <3> HIDE DEF u
      <3> QED
        BY <1>4, <3>2, <3>3, CostsSent
    <2> QED
      BY <1>5, <2>3, <2>4 DEF VectorRead
  <1>6. CASE table' = [table EXCEPT ![n] = Touched(table[n], id)] /\ told' = told
    <2> DEFINE t == Touched(table[n], id)
    <2> HIDE DEF id, m, k
    <2>1. ~misread'[n] => Costed(t, told[n])
      BY <1>2, <1>3, <1>4, TouchedKeeps
    <2>2. table'[n] = t /\ told'[n] = told[n]
          /\ \A x \in Node \ {n} : table'[x] = table[x] /\ told'[x] = told[x]
      BY <1>3, <1>6
    <2> HIDE DEF t
    <2> QED
      BY <1>4, <2>1, <2>2, CostsStay
  <1>7. CASE table' = table /\ told' = told
    <2> HIDE DEF id, m, k
    <2> QED
      BY <1>3, <1>4, <1>7, CostsStay
  <1> QED
    BY <1>1, <1>5, <1>6, <1>7, Zenon

LEMMA CostsStep ==
  ASSUME Inv, Serving, Costs, Cardinality(Node) <= 3, [Next]_vars
  PROVE  Costs'
  <1>1. CASE \E n \in Node : Login(n)
    <2>1. PICK n \in Node : /\ ~up[n] /\ table' = table /\ told' = told
                            /\ misread' = [misread EXCEPT ![n] = FALSE]
      BY <1>1 DEF Login
    <2>2. Costed(table[n], told[n])
      BY <2>1, NothingThere DEF Inv, Station
    <2>3. \A x \in Node \ {n} : misread'[x] = misread[x]
      BY <2>1 DEF Serving
    <2> QED
      BY <2>1, <2>2, <2>3, CostsStay
  <1>2. CASE \E n \in Node : Poll(n) \/ SeesClosed(n)
    BY <1>2, CostsSame DEF Poll, SeesClosed, Routed, serving
  <1>3. CASE \E c \in Command : Edit(c[1], c[2], c[3])
    BY <1>3, CostsSame DEF Edit, Routed, serving
  <1>4. CASE \E n \in Node : ReadList(n) \/ Accept(n)
    BY <1>4, CostsRead, CostsJoin
  <1>5. CASE \E n \in Node : AcceptLost(n)
    BY <1>5, CostsSame DEF AcceptLost, serving
  <1>6. CASE \E n \in Node : ListsLost(n)
    <2>1. PICK n \in Node : ListsLost(n)
      BY <1>6
    <2>2. misread' = misread /\ (Ends(n, net) \/ (table' = table /\ told' = told))
      BY <2>1, Zenon DEF ListsLost, serving
    <2> QED
      BY <2>2, CostsEnd, CostsSame
  <1>7. CASE \E n \in Node : \E i \in Used(clients[n]) : Receive(n, i)
    BY <1>7, CostsReceive
  <1>8. CASE \E n \in Node : \E i \in Used(clients[n]) : Coalesced(n, i) \/ PeerClosed(n, i)
    <2>1. PICK n \in Node : \E i \in Used(clients[n]) : Coalesced(n, i) \/ PeerClosed(n, i)
      BY <1>8
    <2>2. misread' = misread /\ (Ends(n, net) \/ (table' = table /\ told' = told))
      BY <2>1, Zenon DEF Coalesced, PeerClosed
    <2> QED
      BY <2>2, CostsEnd, CostsSame
  <1>9. CASE \E n \in Node : Quit(n)
    BY <1>9, CostsEnd DEF Quit, serving
  <1>10. CASE \E n, s \in Node : SendVector(n, s)
    <2>1. PICK n \in Node, s \in Node : SendVector(n, s)
      BY <1>10
    <2>2. misread' = misread
      BY <2>1, Zenon DEF SendVector, serving
    <2>3. ~misread'[n] => Costed(table[n], told[n])
      BY <2>2 DEF Costs
    <2>4. PICK m : Sends(n, table[n], table[n][s].client, m, net)
      BY <2>1, SendsVector DEF Inv, Station
    <2> QED
      BY <2>2, <2>3, <2>4, CostsSent
  <1>11. CASE UNCHANGED vars
    BY <1>11, CostsSame DEF vars, serving
  <1> QED
    BY <1>1, <1>2, <1>3, <1>4, <1>5, <1>6, <1>7, <1>8, <1>9, <1>10, <1>11 DEF Next, ControllerStep, Serve

LEMMA CostsInit ==
  ASSUME Init
  PROVE  Costs
  <1>1. PICK S \in Started :
          /\ table = [n \in Node |-> LinkedTable(n, S)]
          /\ told = [n \in Node |-> IF n \in S THEN [m \in Near(n, S) |-> weight[{m, n}]] ELSE NoList]
    BY DEF Init
  <1>2. S \subseteq Node /\ Weighed
    BY RouterAssumption DEF RouterAssumption, Weighed, Init
  <1> SUFFICES ASSUME NEW n \in Node PROVE Costed(table[n], told[n])
    BY DEF Costs
  <1> DEFINE t == LinkedTable(n, S)
  <1>3. DOMAIN t = Near(n, S) /\ \A m \in Near(n, S) : t[m].dist = weight[{m, n}]
    BY <1>2, FirstTable, ZenonT(30)
  <1>4. n \notin S => Near(n, S) = {}
    BY <1>2, NearNodes
  <1>5. table[n] = t /\ told[n] = IF n \in S THEN [m \in Near(n, S) |-> weight[{m, n}]] ELSE NoList
    BY <1>1
  <1> HIDE DEF t
  <1> QED
    BY <1>3, <1>4, <1>5 DEF Costed

(***************************************************************************)
(* With three routers at most, the distance of a neighbour that is reached *)
(* directly is the cost in the last list, whatever vectors were read since *)
(* from clients whose id was set.                                          *)
(***************************************************************************)
THEOREM CostsAreListed ==
  ASSUME Cardinality(Node) <= 3
  PROVE  Spec => []NeighborCost
  <1>1. Init => Inv /\ Serving /\ Costs
    BY InitHolds, InitServes, CostsInit
  <1>2. (Inv /\ Serving /\ Costs) /\ [Next]_vars => (Inv /\ Serving /\ Costs)'
    BY StepHolds, ServingHolds, CostsStep
  <1>3. Costs => NeighborCost
    BY DEF Costs, Costed, NeighborCost
  <1> QED
    BY <1>1, <1>2, <1>3, PTL DEF Spec

------------------------------------------------------------------------------
(***************************************************************************)
(* Networks at peace: the routers that run stay, and links only get        *)
(* cheaper.                                                                *)
(***************************************************************************)
OnlyCheaper ==
  /\ up' = up
  /\ \A e \in Edge : /\ weight'[e] = NoEdge <=> weight[e] = NoEdge
                     /\ weight[e] # NoEdge => weight'[e] <= weight[e]

(***************************************************************************)
(* An estimate of distances that no cost a router was told contradicts.    *)
(***************************************************************************)
Sound(p) ==
  p \in [Node -> Nat] /\ \A m \in Node : up[m] => \A x \in DOMAIN told[m] : p[m] - p[x] <= told[m][x]

(***************************************************************************)
(* A link costs no more than the way from another neighbour of its router. *)
(***************************************************************************)
NoShortcut ==
  \A n \in Node : up[n] => \A s, q \in DOMAIN told[n] :
    s # q => \E p : Sound(p) /\ p[q] - p[s] >= told[n][s]

CostsFit(M) == M \in Nat /\ Weight \subseteq 0..M /\ M * Cardinality(Node) < Half

Mates(n) == {m \in Node : Adjacent(m, n) /\ up[m]}

(***************************************************************************)
(* The table of a router whose neighbours are M, at the costs c: nothing   *)
(* took the place of a neighbour.                                          *)
(***************************************************************************)
Direct(t, M, c) ==
  /\ M \subseteq DOMAIN t /\ DOMAIN t \subseteq Node
  /\ \A d \in M : t[d].near /\ t[d].full /\ t[d].nextHop = d /\ t[d].dist = c[d]
  /\ \A d \in DOMAIN t \ M : ~t[d].near /\ t[d].nextHop \in M

(***************************************************************************)
(* What the vector v of the neighbour m, at the given cost, makes of t: an *)
(* entry is left, or is the way through m and no longer than before.       *)
(***************************************************************************)
Improved(u, t, m, v, cost) ==
  /\ DOMAIN u = DOMAIN t \cup DOMAIN v
  /\ \A d \in DOMAIN u :
       \/ /\ d \in DOMAIN t /\ u[d] = t[d]
          /\ d # m /\ t[d].nextHop = m => t[d].dist = v[d] + cost
       \/ /\ d \in DOMAIN v /\ u[d].nextHop = m /\ u[d].dist = v[d] + cost /\ ~u[d].near
          /\ d \in DOMAIN t => ~t[d].near /\ u[d].dist <= t[d].dist

(***************************************************************************)
(* What t has by m is in v, and no shorter there.                          *)
(***************************************************************************)
Covers(v, t, m, cost) ==
  \A d \in DOMAIN t : d # m /\ t[d].nextHop = m => d \in DOMAIN v /\ v[d] + cost <= t[d].dist

LEMMA WrapsNothing ==
  ASSUME NEW x \in Nat, x < Half
  PROVE  Wrapped(x) = x
  <1>1. Half \in Nat /\ Half >= 1
    BY NumbersAreEntries
  <1> DEFINE m == 2 * Half
             y == x + Half
  <1>2. m \in Nat /\ m > 0 /\ y \in 0..(m - 1)
    BY <1>1
  <1>3. y % m = y
    <2> HIDE DEF m, y
    <2> QED
      BY <1>2
  <1>4. Wrapped(x) = (y % m) - Half
    BY DEF Wrapped
  <1> DEFINE r == y % m
  <1>5. r = x + Half /\ Wrapped(x) = r - Half
    BY <1>3, <1>4
  <1> HIDE DEF r
  <1> QED
    BY <1>1, <1>5

LEMMA LearnsBetter ==
  ASSUME NEW t, NEW m, NEW d, NEW dist \in Nat, NEW cost \in Nat, m \in DOMAIN t, t[m].dist = cost,
         dist + cost < Half,
         d \in DOMAIN t => /\ t[d].dist \in Nat /\ t[d].near \in BOOLEAN
                           /\ t[d] = [nextHop |-> t[d].nextHop, dist |-> t[d].dist, near |-> t[d].near,
                                      full |-> t[d].full, client |-> t[d].client]
                           /\ t[d].near => t[d].dist <= dist
                           /\ ~t[d].near /\ t[d].nextHop = m => dist + cost <= t[d].dist
  PROVE  LET e == Learned(t, d, m, dist)
         IN  \/ /\ d \in DOMAIN t /\ e = t[d]
                /\ ~t[d].near /\ t[d].nextHop = m => t[d].dist = dist + cost
             \/ /\ e.nextHop = m /\ e.dist = dist + cost /\ ~e.near
                /\ d \in DOMAIN t => ~t[d].near /\ e.dist <= t[d].dist
  <1> DEFINE e == Learned(t, d, m, dist)
  <1>1. Through(t, m, dist) = dist + cost
    BY WrapsNothing DEF Through
  <1>2. CASE d \notin DOMAIN t
    <2>1. e = Entry(m, dist + cost)
      BY <1>1, <1>2 DEF Learned
    <2> QED
      BY <1>2, <2>1 DEF Entry
  <1>3. CASE d \in DOMAIN t /\ t[d].near
    <2>1. ~Preferred(t, d, m, dist)
      BY <1>3 DEF Preferred
    <2> QED
      BY <1>3, <2>1 DEF Learned
  <1>4. CASE d \in DOMAIN t /\ ~t[d].near /\ Preferred(t, d, m, dist)
    <2>1. e = [t[d] EXCEPT !.nextHop = m, !.dist = dist + cost]
      BY <1>1, <1>4 DEF Learned
    <2>2. e.nextHop = m /\ e.dist = dist + cost /\ ~e.near
      BY <1>4, <2>1
    <2>3. dist + cost <= t[d].dist
      BY <1>1, <1>4 DEF Preferred
    <2> QED
      BY <1>4, <2>2, <2>3
  <1>5. CASE d \in DOMAIN t /\ ~t[d].near /\ ~Preferred(t, d, m, dist)
    <2>1. e = t[d]
      BY <1>5 DEF Learned
    <2>2. t[d].nextHop = m => t[d].dist = dist + cost
      BY <1>1, <1>5 DEF Preferred
    <2> QED
      BY <1>5, <2>1, <2>2
  <1> QED
    BY <1>2, <1>3, <1>4, <1>5

LEMMA MergedImproves ==
  ASSUME NEW n \in Node, NEW t \in Tables(n), NEW M, NEW c, Direct(t, M, c),
         NEW m \in M, c[m] \in Nat, NEW v, m \notin DOMAIN v, n \notin DOMAIN v,
         \A d \in DOMAIN v : v[d] \in Nat /\ v[d] + c[m] < Half,
         \A d \in M : d \in DOMAIN v => c[d] <= v[d],
         \A d \in DOMAIN t : t[d].dist \in Nat,
         Covers(v, t, m, c[m]), NEW E, E \subseteq LearnedFrom(t, m)
  PROVE  Improved(Merged(Without(t, E), n, m, v), t, m, v, c[m])
  <1> DEFINE w == Without(t, E)
             u == Merged(w, n, m, v)
             cost == c[m]
  <1>1. /\ DOMAIN w = DOMAIN t \ E /\ \A d \in DOMAIN t \ E : w[d] = t[d]
        /\ E \subseteq DOMAIN t
    <2>1. DOMAIN w = DOMAIN t \ E /\ \A d \in DOMAIN t \ E : w[d] = t[d]
      BY WithoutKeeps
    <2>2. E \subseteq DOMAIN t
      BY DEF LearnedFrom
    <2> QED
      BY <2>1, <2>2
  <1>2. /\ m \in DOMAIN t /\ t[m].dist = cost /\ t[m].nextHop = m /\ cost \in Nat
        /\ \A d \in E : d # m /\ t[d].nextHop = m
    BY DEF Direct, LearnedFrom
  <1>3. m \in DOMAIN w /\ w[m].dist = cost
    BY <1>1, <1>2
  <1>4. ASSUME NEW d \in DOMAIN t
        PROVE  /\ t[d].near \in BOOLEAN /\ d # n
               /\ t[d] = [nextHop |-> t[d].nextHop, dist |-> t[d].dist, near |-> t[d].near,
                          full |-> t[d].full, client |-> t[d].client]
               /\ d \in M <=> t[d].near
               /\ d \in M => t[d].nextHop = d /\ t[d].dist = c[d]
    <2>1. t[d] \in Entries /\ d # n
      BY TableTypes
    <2>2. /\ d \in M <=> t[d].near
          /\ d \in M => t[d].nextHop = d /\ t[d].dist = c[d]
      BY DEF Direct
    <2> QED
      BY <2>1, <2>2 DEF Entries
  <1>5. /\ DOMAIN u = DOMAIN w \cup DOMAIN v
        /\ \A d \in DOMAIN u : u[d] = IF d \in DOMAIN v THEN Learned(w, d, m, v[d]) ELSE w[d]
    BY DEF Merged
  <1> HIDE DEF w, u, cost
  <1>6. E \subseteq DOMAIN v
    BY <1>1, <1>2 DEF Covers
  <1>7. DOMAIN u = DOMAIN t \cup DOMAIN v
    BY <1>1, <1>5, <1>6
  <1>8. ASSUME NEW d \in DOMAIN v
        PROVE  \/ /\ d \in DOMAIN t /\ u[d] = t[d]
                  /\ d # m /\ t[d].nextHop = m => t[d].dist = v[d] + cost
               \/ /\ d \in DOMAIN v /\ u[d].nextHop = m /\ u[d].dist = v[d] + cost /\ ~u[d].near
                  /\ d \in DOMAIN t => ~t[d].near /\ u[d].dist <= t[d].dist
    <2> DEFINE dist == v[d]
    <2>1. u[d] = Learned(w, d, m, dist) /\ dist \in Nat /\ dist + cost < Half /\ d # m
      BY <1>5 DEF cost
    <2>2. d \in DOMAIN t => /\ t[d].dist \in Nat /\ (t[d].near => t[d].dist <= dist)
                            /\ ~t[d].near /\ t[d].nextHop = m => dist + cost <= t[d].dist
                            /\ t[d].nextHop = m => ~t[d].near
      BY <1>4 DEF Covers, cost
    <2> HIDE DEF dist
    <2>3. d \in DOMAIN w => /\ w[d].dist \in Nat /\ w[d].near \in BOOLEAN
                            /\ w[d] = [nextHop |-> w[d].nextHop, dist |-> w[d].dist, near |-> w[d].near,
                                       full |-> w[d].full, client |-> w[d].client]
                            /\ w[d].near => w[d].dist <= dist
                            /\ ~w[d].near /\ w[d].nextHop = m => dist + cost <= w[d].dist
      <3> SUFFICES ASSUME d \in DOMAIN w
                   PROVE  /\ w[d].dist \in Nat /\ w[d].near \in BOOLEAN
                          /\ w[d] = [nextHop |-> w[d].nextHop, dist |-> w[d].dist, near |-> w[d].near,
                                     full |-> w[d].full, client |-> w[d].client]
                          /\ w[d].near => w[d].dist <= dist
                          /\ ~w[d].near /\ w[d].nextHop = m => dist + cost <= w[d].dist
        OBVIOUS
      <3>1. w[d] = t[d] /\ d \in DOMAIN t
        BY <1>1
      <3> QED
        BY <1>4, <2>2, <3>1
    <2> DEFINE e == Learned(w, d, m, dist)
    <2>4. \/ /\ d \in DOMAIN w /\ e = w[d]
             /\ ~w[d].near /\ w[d].nextHop = m => w[d].dist = dist + cost
          \/ /\ e.nextHop = m /\ e.dist = dist + cost /\ ~e.near
             /\ d \in DOMAIN w => ~w[d].near /\ e.dist <= w[d].dist
      BY <1>2, <1>3, <2>1, <2>3, LearnsBetter
    <2>5. u[d] = e /\ dist = v[d]
      BY <2>1 DEF dist
    <2> HIDE DEF e
    <2>6. CASE d \in DOMAIN w
      <3>1. w[d] = t[d] /\ d \in DOMAIN t
        BY <1>1, <2>6
      <3> QED
        BY <2>2, <2>4, <2>5, <2>6, <3>1
    <2>7. CASE d \notin DOMAIN w
      <3>1. d \in DOMAIN t => d \in E
        BY <1>1, <2>7
      <3>2. d \in DOMAIN t => ~t[d].near /\ dist + cost <= t[d].dist
        BY <1>2, <2>2, <3>1
      <3> QED
        BY <2>4, <2>5, <2>7, <3>2
    <2> QED
      BY <2>6, <2>7
  <1>9. ASSUME NEW d \in DOMAIN t, d \notin DOMAIN v
        PROVE  u[d] = t[d] /\ ~(d # m /\ t[d].nextHop = m)
    <2>1. d \in DOMAIN w /\ d \in DOMAIN u
      BY <1>1, <1>6, <1>7, <1>9
    <2>2. u[d] = t[d]
      BY <1>1, <1>5, <1>9, <2>1
    <2> QED
      BY <1>9, <2>2 DEF Covers
  <1> QED
    BY <1>7, <1>8, <1>9 DEF Improved, cost, u, w

------------------------------------------------------------------------------
(***************************************************************************)
(* What a router can read from a neighbour: vectors that get no worse, in  *)
(* the order they were sent, that the neighbour's table u is not above,    *)
(* and each of which has what the reader's table t goes to by it.          *)
(***************************************************************************)
Said(box) == {i \in DOMAIN box : box[i].type = "vector"}

Better(w, v) == DOMAIN v \subseteq DOMAIN w /\ \A d \in DOMAIN v : w[d] <= v[d]

Dists(t) == [d \in DOMAIN t |-> t[d].dist]

Sent(v, n, u) == n \notin DOMAIN v /\ Better(Dists(u), v)

Mail(box, n, t, m, u, cost) ==
  /\ \A i \in Said(box) : Sent(box[i].vector, n, u) /\ Covers(box[i].vector, t, m, cost)
  /\ \A i, j \in Said(box) : i < j => Better(box[j].vector, box[i].vector)

Whole(f) == \A d \in DOMAIN f : f[d] \in Int

LEMMA DistsOf ==
  ASSUME NEW t
  PROVE  DOMAIN Dists(t) = DOMAIN t /\ \A d \in DOMAIN t : Dists(t)[d] = t[d].dist
  BY DEF Dists

LEMMA BetterAgain ==
  ASSUME NEW u, NEW v, NEW w, Whole(u), Whole(v), Whole(w), Better(u, v), Better(v, w)
  PROVE  Better(u, w)
  BY DEF Better, Whole

Shifted(box, old) ==
  \E h \in Nat : \A i \in Said(box) : i + h \in Said(old) /\ old[i + h] = box[i]

LEMMA MailShifted ==
  ASSUME NEW box, NEW old, DOMAIN box \subseteq Nat, Shifted(box, old),
         NEW n, NEW t, NEW m, NEW u, NEW cost, Mail(old, n, t, m, u, cost)
  PROVE  Mail(box, n, t, m, u, cost)
  <1>1. PICK h \in Nat : \A i \in Said(box) : i + h \in Said(old) /\ old[i + h] = box[i]
    BY DEF Shifted
  <1>2. ASSUME NEW i \in Said(box), NEW j \in Said(box), i < j
        PROVE  Better(box[j].vector, box[i].vector)
    <2>1. i \in Nat /\ j \in Nat
      BY DEF Said
    <2>2. i + h < j + h /\ i + h \in Said(old) /\ j + h \in Said(old)
      BY <1>1, <1>2, <2>1
    <2>3. Better(old[j + h].vector, old[i + h].vector)
      BY <2>2 DEF Mail
    <2> QED
      BY <1>1, <2>3
  <1>3. \A i \in Said(box) : Sent(box[i].vector, n, u) /\ Covers(box[i].vector, t, m, cost)
    BY <1>1 DEF Mail
  <1> QED
    BY <1>2, <1>3 DEF Mail

(***************************************************************************)
(* The sender's table gets better, the reader's goes to no new router by   *)
(* the sender, and the cost does not rise.                                 *)
(***************************************************************************)
LEMMA MailEased ==
  ASSUME NEW box, NEW n, NEW t, NEW m, NEW u, NEW cost \in Int, Mail(box, n, t, m, u, cost),
         NEW t2, NEW u2, NEW cost2 \in Int, cost2 <= cost, Better(Dists(u2), Dists(u)),
         Whole(Dists(t)), Whole(Dists(u)), Whole(Dists(t2)), Whole(Dists(u2)),
         \A i \in Said(box) : Whole(box[i].vector),
         \A d \in DOMAIN t2 : d # m /\ t2[d].nextHop = m =>
           d \in DOMAIN t /\ t[d].nextHop = m /\ t[d].dist <= t2[d].dist
  PROVE  Mail(box, n, t2, m, u2, cost2)
  <1> SUFFICES ASSUME NEW i \in Said(box)
               PROVE  Sent(box[i].vector, n, u2) /\ Covers(box[i].vector, t2, m, cost2)
    BY DEF Mail
  <1> DEFINE v == box[i].vector
  <1>1. Sent(v, n, u) /\ Covers(v, t, m, cost) /\ Whole(v)
    BY DEF Mail
  <1> HIDE DEF v
  <1>2. Sent(v, n, u2)
    BY <1>1, BetterAgain DEF Sent
  <1>3. Covers(v, t2, m, cost2)
    <2> SUFFICES ASSUME NEW d \in DOMAIN t2, d # m, t2[d].nextHop = m
                 PROVE  d \in DOMAIN v /\ v[d] + cost2 <= t2[d].dist
      BY DEF Covers
    <2>1. d \in DOMAIN t /\ t[d].nextHop = m /\ t[d].dist <= t2[d].dist
      OBVIOUS
    <2>2. d \in DOMAIN v /\ v[d] + cost <= t[d].dist
      BY <1>1, <2>1 DEF Covers
    <2>3. v[d] \in Int /\ t[d].dist \in Int /\ t2[d].dist \in Int
      BY <1>1, <2>1, <2>2, DistsOf DEF Whole
    <2> QED
      BY <2>1, <2>2, <2>3
  <1> QED
    BY <1>2, <1>3 DEF v

(***************************************************************************)
(* The first vector was read.                                              *)
(***************************************************************************)
LEMMA MailRead ==
  ASSUME NEW box \in Seq(Message), box # <<>>, 1 \in Said(box),
         NEW n, NEW t, NEW m, NEW u, NEW cost \in Int, Mail(box, n, t, m, u, cost),
         NEW t2, Improved(t2, t, m, box[1].vector, cost),
         \A i \in Said(box) : Whole(box[i].vector)
  PROVE  Mail(Tail(box), n, t2, m, u, cost)
  <1> DEFINE rest == Tail(box)
             v == box[1].vector
  <1>1. /\ rest \in Seq(Message) /\ Len(box) \in Nat /\ Len(rest) = Len(box) - 1
        /\ \A i \in 1..(Len(box) - 1) : rest[i] = box[i + 1]
    OBVIOUS
  <1>2. DOMAIN rest = 1..(Len(box) - 1) /\ DOMAIN box = 1..Len(box)
    BY <1>1
  <1> HIDE DEF rest
  <1>3. ASSUME NEW i \in Said(rest) PROVE i \in Nat /\ i > 0 /\ i + 1 \in Said(box) /\ rest[i] = box[i + 1]
    <2>1. i \in 1..(Len(box) - 1) /\ rest[i].type = "vector"
      BY <1>2 DEF Said
    <2> QED
      BY <1>1, <1>2, <2>1 DEF Said
  <1>4. ASSUME NEW i \in Said(rest)
        PROVE  Sent(rest[i].vector, n, u) /\ Covers(rest[i].vector, t2, m, cost)
    <2> DEFINE w == rest[i].vector
    <2>1. Better(w, v)
      <3>1. 1 < i + 1
        BY <1>3
      <3> QED
        BY <1>3, <3>1 DEF Mail
    <2>2. Sent(w, n, u) /\ Covers(w, t, m, cost) /\ Whole(w) /\ Whole(v)
      BY <1>3 DEF Mail
    <2> HIDE DEF w, v
    <2>3. Covers(w, t2, m, cost)
      <3> SUFFICES ASSUME NEW d \in DOMAIN t2, d # m, t2[d].nextHop = m
                   PROVE  d \in DOMAIN w /\ w[d] + cost <= t2[d].dist
        BY DEF Covers
      <3>1. CASE d \in DOMAIN t /\ t2[d] = t[d]
        BY <2>2, <3>1 DEF Covers
      <3>2. CASE d \in DOMAIN v /\ t2[d].dist = v[d] + cost
        <4>1. d \in DOMAIN w /\ w[d] <= v[d] /\ w[d] \in Int /\ v[d] \in Int
          BY <2>1, <2>2, <3>2 DEF Better, Whole
        <4> QED
          BY <3>2, <4>1
      <3> QED
        BY <3>1, <3>2 DEF Improved, v
    <2> QED
      BY <2>2, <2>3 DEF w
  <1>5. ASSUME NEW i \in Said(rest), NEW j \in Said(rest), i < j
        PROVE  Better(rest[j].vector, rest[i].vector)
    <2>1. i + 1 < j + 1
      BY <1>3, <1>5
    <2> QED
      BY <1>3, <2>1 DEF Mail
  <1> QED
    BY <1>4, <1>5 DEF Mail, rest

(***************************************************************************)
(* A vector was sent.                                                      *)
(***************************************************************************)
LEMMA MailSent ==
  ASSUME NEW box \in Seq(Message), NEW n, NEW t, NEW m, NEW u, NEW cost,
         Mail(box, n, t, m, u, cost), NEW v, VectorMessage(v) \in Message,
         Sent(v, n, u), Covers(v, t, m, cost),
         \A i \in Said(box) : Better(v, box[i].vector)
  PROVE  Mail(Append(box, VectorMessage(v)), n, t, m, u, cost)
  <1> DEFINE x == VectorMessage(v)
             all == Append(box, x)
             l == Len(box)
  <1>1. x.vector = v /\ x \in Message
    BY DEF VectorMessage
  <1> HIDE DEF x
  <1>2. /\ l \in Nat /\ DOMAIN all = 1..(l + 1) /\ DOMAIN box = 1..l
        /\ all[l + 1] = x /\ \A i \in 1..l : all[i] = box[i]
    BY <1>1
  <1> HIDE DEF all, l
  <1>3. ASSUME NEW i \in Said(all)
        PROVE  \/ i \in Said(box) /\ all[i] = box[i] /\ i \in 1..l
               \/ i = l + 1 /\ all[i] = x
    <2>1. i \in 1..(l + 1) /\ all[i].type = "vector"
      BY <1>2 DEF Said
    <2>2. CASE i \in 1..l
      BY <1>2, <2>1, <2>2 DEF Said
    <2>3. CASE i = l + 1
      BY <1>2, <2>3
    <2> QED
      BY <1>2, <2>1, <2>2, <2>3
  <1>4. ASSUME NEW i \in Said(all)
        PROVE  Sent(all[i].vector, n, u) /\ Covers(all[i].vector, t, m, cost)
    BY <1>1, <1>3 DEF Mail
  <1>5. ASSUME NEW i \in Said(all), NEW j \in Said(all), i < j
        PROVE  Better(all[j].vector, all[i].vector)
    <2>1. i \in Said(box) /\ all[i] = box[i] /\ i \in 1..l
      <3>1. j \in Nat /\ j <= l + 1
        BY <1>2, <1>3
      <3> QED
        BY <1>2, <1>3, <1>5, <3>1
    <2>2. CASE j \in Said(box) /\ all[j] = box[j]
      BY <1>5, <2>1, <2>2 DEF Mail
    <2>3. CASE all[j] = x
      BY <1>1, <2>1, <2>3
    <2> QED
      BY <1>3, <2>2, <2>3
  <1> QED
    BY <1>4, <1>5 DEF Mail, all, x

------------------------------------------------------------------------------
(***************************************************************************)
(* The invariant of networks at peace.                                     *)
(***************************************************************************)
Wired(n, k, m) == net.peer[n][k] \in {m} \X Sock

Peaceful ==
  /\ known = up
  /\ \A n \in Node :
       /\ ~moved[n] /\ borrowed[n] = {} /\ net.backlog[n] = <<>>
       /\ \A k \in Sock : net.peer[n][k] # Gone
       /\ \A m \in Node : \A j, k \in Sock : Wired(n, j, m) /\ Wired(n, k, m) => j = k

Named(n) == \A i \in 2..clients[n].nb : clients[n].slot[i].id \in Mates(n)

(***************************************************************************)
(* The lists that wait for n are no dearer than the one it read, and each  *)
(* no dearer than those before it.                                         *)
(***************************************************************************)
Informed(n) ==
  /\ DOMAIN told[n] = Mates(n)
  /\ \A m \in Mates(n) : told[n][m] \in Weight /\ weight[{m, n}] <= told[n][m]
  /\ \A i \in DOMAIN list[n] :
       /\ DOMAIN list[n][i] = Mates(n)
       /\ \A m \in Mates(n) : weight[{m, n}] <= list[n][i][m] /\ list[n][i][m] <= told[n][m]
  /\ \A i, j \in DOMAIN list[n] : i < j => \A m \in Mates(n) : list[n][j][m] <= list[n][i][m]

(***************************************************************************)
(* The next hop has an entry, and is closer by the cost of the way to it.  *)
(***************************************************************************)
Down(n) ==
  \A d \in DOMAIN table[n] \ Mates(n) :
    LET h == table[n][d].nextHop
    IN  d \in DOMAIN table[h] /\ table[h][d].dist + told[n][h] <= table[n][d].dist

(***************************************************************************)
(* Distances of m that are below no estimate, and no more than what the    *)
(* routers that have heard of the destination can add up to.               *)
(***************************************************************************)
Knowing(T, d) == {d} \cup {n \in Node : d \in DOMAIN T[n]}

Sane(M, f, m) ==
  \A d \in DOMAIN f :
    /\ d \in Node /\ f[d] \in Nat /\ f[d] <= M * (Cardinality(Knowing(table, d)) - 1)
    /\ \A p : Sound(p) => p[m] - p[d] <= f[d]

Routes(M, n) ==
  Direct(table[n], Mates(n), told[n]) /\ Down(n) /\ Sane(M, Dists(table[n]), n)

Mails(M, n, k, m) ==
  /\ Mail(net.inbox[n][k], n, table[n], m, table[m], told[n][m])
  /\ \A i \in Said(net.inbox[n][k]) : Sane(M, net.inbox[n][k][i].vector, m)

Calm(M) ==
  /\ Peaceful
  /\ \A n \in Node : up[n] => Named(n) /\ Informed(n) /\ Routes(M, n)
  /\ \A n, m \in Node, k \in Sock : Wired(n, k, m) => Mails(M, n, k, m)

(***************************************************************************)
(* Who is connected.                                                       *)
(***************************************************************************)
LEMMA CostTypes ==
  ASSUME NEW M, CostsFit(M)
  PROVE  /\ M \in Nat /\ \A w \in Weight : w \in Nat /\ w >= 1 /\ w <= M
         /\ Cardinality(Node) \in Nat /\ M * Cardinality(Node) < Half
         /\ Half \in Nat /\ IsFiniteSet(Node) /\ Node \subseteq Nat
  <1>1. /\ Weight \subseteq 1..(Half - 1) /\ Half \in Nat /\ IsFiniteSet(Node) /\ Node \subseteq Nat
    BY RouterAssumption, NumbersAreEntries DEF RouterAssumption
  <1>2. Cardinality(Node) \in Nat
    BY <1>1, FS_CardinalityType
  <1>3. M \in Nat /\ Weight \subseteq 0..M /\ M * Cardinality(Node) < Half
    BY DEF CostsFit
  <1> QED
    BY <1>1, <1>2, <1>3

LEMMA WeightTypes == \A w \in Weight : w \in Nat /\ w >= 1
  BY RouterAssumption, NumbersAreEntries DEF RouterAssumption

LEMMA MatesAre ==
  ASSUME Inv, NEW n \in Node, NEW m \in Mates(n)
  PROVE  m \in Node \ {n} /\ up[m] /\ Adjacent(m, n) /\ weight[{m, n}] \in Weight
  <1>1. m \in Node /\ up[m] /\ weight[{m, n}] # NoEdge /\ {m, n} \in Edge
    BY DEF Mates, Adjacent, Edge
  <1>2. weight[{m, n}] \in Weight /\ weight[{n}] = NoEdge
    BY <1>1 DEF Inv, Fields
  <1> QED
    BY <1>1, <1>2 DEF Adjacent

LEMMA WiredTo ==
  ASSUME Inv, NEW M, Calm(M), NEW n \in Node, NEW m \in Node, NEW k \in Sock, Wired(n, k, m)
  PROVE  /\ up[n] /\ up[m] /\ m \in Mates(n)
         /\ \E j \in Sock : net.peer[n][k] = <<m, j>> /\ net.peer[m][j] = <<n, k>>
  <1>1. PICK j \in Sock : net.peer[n][k] = <<m, j>>
    BY DEF Wired
  <1>2. IsNet(net) /\ Station(n)
    BY DEF Inv
  <1>3. <<m, j>> \in End /\ net.peer[n][k] # Free
    BY <1>1, Names DEF End
  <1>4. net.peer[m][j] = <<n, k>>
    BY <1>1, <1>2 DEF IsNet, Paired
  <1>5. up[n]
    <2>1. ~Silent(net, n)
      BY <1>3 DEF Silent
    <2> QED
      BY <1>2, <2>1 DEF Station
  <1>6. k \in Open
    <2>1. ASSUME k \in NotAccepted PROVE FALSE
      <3>1. net.backlog[n] = <<>>
        BY DEF Calm, Peaceful
      <3>2. \E i \in DOMAIN net.backlog[n] : net.backlog[n][i] = k
        BY <1>2, <1>3, <2>1 DEF IsNet, Waits
      <3> QED
        BY <3>1, <3>2
    <2> QED
      BY <2>1 DEF Sock
  <1>7. PICK i \in 2..clients[n].nb : clients[n].slot[i].sock = k
    BY <1>2, <1>3, <1>5, <1>6 DEF Station, Houses
  <1> DEFINE id == clients[n].slot[i].id
  <1>8. id \in Mates(n)
    BY <1>5, <1>7 DEF Calm, Named
  <1>9. Speaks(net, n, k, id)
    <2>1. clients[n].slot[i].sock \notin borrowed[n]
      BY DEF Calm, Peaceful
    <2> QED
      BY <1>5, <1>7, <2>1, ClientOf
  <1>10. id = m
    <2>1. net.peer[n][k] # Gone
      BY DEF Calm, Peaceful
    <2>2. net.peer[n][k] \in {id} \X Sock
      BY <1>9, <2>1 DEF Speaks, LeadsIn
    <2> QED
      BY <1>1, <2>2
  <1>11. up[m]
    BY <1>8, <1>10, MatesAre
  <1> QED
    BY <1>1, <1>4, <1>5, <1>8, <1>10, <1>11

LEMMA ClientWired ==
  ASSUME Inv, NEW M, Calm(M), NEW n \in Node, up[n], NEW i \in 2..clients[n].nb
  PROVE  LET c == clients[n].slot[i] IN c.id \in Mates(n) /\ c.sock \in Sock /\ Wired(n, c.sock, c.id)
  <1> DEFINE c == clients[n].slot[i]
  <1>1. c.id \in Mates(n)
    BY DEF Calm, Named
  <1>2. c.sock \in Sock /\ (c.sock \notin borrowed[n] => Speaks(net, n, c.sock, c.id))
    BY ClientOf
  <1>3. c.sock \notin borrowed[n]
    BY DEF Calm, Peaceful
  <1>4. net.peer[n][c.sock] # Gone
    BY <1>2 DEF Calm, Peaceful
  <1>5. Speaks(net, n, c.sock, c.id) /\ c.sock \in Sock
    BY <1>2, <1>3
  <1> HIDE DEF c
  <1>6. Wired(n, c.sock, c.id)
    BY <1>4, <1>5 DEF Speaks, LeadsIn, Wired
  <1> QED
    BY <1>1, <1>5, <1>6 DEF c

(***************************************************************************)
(* The client a step sends to: none ends the process, and the other side   *)
(* of the others has not closed.                                           *)
(***************************************************************************)
LEMMA SendsCalmly ==
  ASSUME Inv, NEW M, Calm(M), NEW n \in Node, up[n], up' = up,
         NEW t \in Tables(n), OldClients(t, table[n]), NEW s \in DOMAIN t, NEW x \in Message,
         NEW N \in Nets, N.peer = net.peer, Sends(n, t, t[s].client, x, N)
  PROVE  \E k \in Sock : /\ Wired(n, k, s) /\ s \in Node /\ net' = Write(N, n, k, x)
                         /\ table' = [table EXCEPT ![n] = t]
                         /\ UNCHANGED <<clients, list, told, moved, borrowed>>
  <1> DEFINE c == t[s].client
  <1>1. ~Ends(n, N)
    BY DEF Ends, Inv, Fields
  <1>2. /\ c # NoClient /\ net' = Write(N, n, clients[n].slot[c].sock, x)
        /\ table' = [table EXCEPT ![n] = t] /\ UNCHANGED <<clients, list, told, moved, borrowed>>
    BY <1>1 DEF Sends
  <1>3. c \in 2..clients[n].nb /\ clients[n].slot[c].id = s
    <2>1. Fits(t, clients[n], borrowed[n])
      BY OldClientsStay DEF Calm, Peaceful, Inv, Station
    <2> QED
      BY <1>2, <2>1 DEF Fits
  <1>4. /\ s \in Mates(n) /\ clients[n].slot[c].sock \in Sock /\ Wired(n, clients[n].slot[c].sock, s)
    BY <1>3, ClientWired
  <1> QED
    BY <1>2, <1>4, MatesAre

------------------------------------------------------------------------------
(***************************************************************************)
(* What a step that keeps the peace leaves as it was.                      *)
(***************************************************************************)
Resting ==
  /\ UNCHANGED <<up, known>>
  /\ \A n \in Node : moved'[n] = moved[n] /\ clients'[n] = clients[n] /\ borrowed'[n] = borrowed[n]
  /\ net'.peer = net.peer /\ net'.backlog = net.backlog

Eased ==
  \A n \in Node :
    /\ Better(Dists(table'[n]), Dists(table[n]))
    /\ up[n] => /\ DOMAIN told'[n] = DOMAIN told[n]
                /\ \A m \in DOMAIN told[n] : told'[n][m] \in Nat /\ told'[n][m] <= told[n][m]

LEMMA EntriesWhole ==
  ASSUME NEW n, NEW t \in Tables(n)
  PROVE  /\ Whole(Dists(t)) /\ n \notin DOMAIN t
         /\ \A d \in DOMAIN t : t[d].dist \in Int
  <1>1. \A d \in DOMAIN t : t[d] \in Entries /\ d # n
    BY TableTypes
  <1>2. \A d \in DOMAIN t : t[d].dist \in Int
    BY <1>1, NumbersAreEntries DEF Entries, Dist
  <1> QED
    BY <1>1, <1>2, DistsOf DEF Whole

LEMMA EasedAt ==
  ASSUME Eased, NEW n \in Node, NEW d \in DOMAIN table[n]
  PROVE  d \in DOMAIN table'[n] /\ table'[n][d].dist <= table[n][d].dist
  <1>1. Better(Dists(table'[n]), Dists(table[n]))
    BY DEF Eased
  <1> QED
    BY <1>1 DEF Better, Dists

LEMMA TablesWhole ==
  ASSUME Inv, NEW n \in Node
  PROVE  /\ Whole(Dists(table[n])) /\ table[n] \in Tables(n) /\ n \notin DOMAIN table[n]
         /\ \A d \in DOMAIN table[n] : table[n][d].dist \in Int
  BY EntriesWhole DEF Inv, Station

LEMMA TablesWholeAfter ==
  ASSUME Inv', NEW n \in Node
  PROVE  /\ Whole(Dists(table'[n])) /\ table'[n] \in Tables(n) /\ n \notin DOMAIN table'[n]
         /\ \A d \in DOMAIN table'[n] : table'[n][d].dist \in Int
  BY EntriesWhole DEF Inv, Station

LEMMA BoxesWhole ==
  ASSUME Inv, NEW n \in Node, NEW k \in Sock
  PROVE  /\ net.inbox[n][k] \in Seq(Message) /\ DOMAIN net.inbox[n][k] \subseteq Nat
         /\ \A i \in Said(net.inbox[n][k]) : Whole(net.inbox[n][k][i].vector)
  <1> DEFINE box == net.inbox[n][k]
  <1>1. box \in Seq(Message)
    BY NetTypes DEF Inv, IsNet
  <1> HIDE DEF box
  <1>2. DOMAIN box \subseteq Nat /\ \A i \in DOMAIN box : box[i] \in Message
    BY <1>1
  <1>3. ASSUME NEW i \in Said(box) PROVE Whole(box[i].vector)
    <2>1. box[i].vector \in Vectors
      BY <1>2, VectorsRead DEF Said
    <2> QED
      BY <2>1, NumbersAreEntries DEF Vectors, Dist, Whole
  <1> QED
    BY <1>1, <1>2, <1>3 DEF box

LEMMA MatesStay ==
  ASSUME Inv, OnlyCheaper, NEW n \in Node
  PROVE  Mates(n)' = Mates(n) /\ \A m \in Mates(n) : weight'[{m, n}] <= weight[{m, n}]
  <1>1. \A m \in Node : {m, n} \in Edge
    BY DEF Edge
  <1>2. \A m \in Node : Adjacent(m, n)' <=> Adjacent(m, n)
    BY <1>1 DEF OnlyCheaper, Adjacent
  <1>3. Mates(n)' = Mates(n)
    BY <1>2 DEF OnlyCheaper, Mates
  <1> QED
    BY <1>1, <1>3 DEF OnlyCheaper, Mates, Adjacent

LEMMA KnowingGrows ==
  ASSUME NEW T, NEW U, NEW d \in Node, \A n \in Node : DOMAIN T[n] \subseteq DOMAIN U[n]
  PROVE  /\ Cardinality(Knowing(T, d)) \in Nat /\ Cardinality(Knowing(U, d)) \in Nat
         /\ Cardinality(Knowing(T, d)) >= 1
         /\ Cardinality(Knowing(T, d)) <= Cardinality(Knowing(U, d))
         /\ Cardinality(Knowing(U, d)) <= Cardinality(Node)
         /\ \A n \in Node : n \in Knowing(U, d) /\ n \notin Knowing(T, d) =>
              Cardinality(Knowing(T, d)) + 1 <= Cardinality(Knowing(U, d))
  <1> DEFINE A == Knowing(T, d)
             B == Knowing(U, d)
  <1>1. A \subseteq B /\ B \subseteq Node /\ d \in A
    BY DEF Knowing
  <1>2. IsFiniteSet(Node)
    BY RouterAssumption DEF RouterAssumption
  <1> HIDE DEF A, B
  <1>3. IsFiniteSet(A) /\ IsFiniteSet(B)
    BY <1>1, <1>2, FS_Subset
  <1>4. /\ Cardinality(A) \in Nat /\ Cardinality(B) \in Nat
        /\ Cardinality(A) <= Cardinality(B) /\ Cardinality(B) <= Cardinality(Node)
    BY <1>1, <1>2, <1>3, FS_Subset, FS_CardinalityType
  <1>5. Cardinality(A) >= 1
    BY <1>1, <1>3, <1>4, FS_EmptySet
  <1>6. ASSUME NEW n \in Node, n \in B, n \notin A
        PROVE  Cardinality(A) + 1 <= Cardinality(B)
    <2>1. A \cup {n} \subseteq B
      BY <1>1, <1>6
    <2>2. Cardinality(A \cup {n}) = Cardinality(A) + 1
      BY <1>3, <1>6, FS_AddElement
    <2>3. Cardinality(A \cup {n}) <= Cardinality(B)
      BY <1>3, <2>1, FS_Subset
    <2> QED
      BY <2>2, <2>3
  <1> QED
    BY <1>4, <1>5, <1>6 DEF A, B

LEMMA Times ==
  ASSUME NEW M \in Nat, NEW a \in Nat, NEW b \in Nat
  PROVE  (a <= b => M * a <= M * b) /\ M * (a + 1) = M * a + M
  OBVIOUS

LEMMA SaneStays ==
  ASSUME Inv, NEW M, CostsFit(M), Calm(M), up' = up, Eased, NEW f, NEW m \in Node, Sane(M, f, m)
  PROVE  Sane(M, f, m)'
  <1>1. ASSUME NEW p, Sound(p)' PROVE Sound(p)
    <2>1. p \in [Node -> Nat]
      BY <1>1 DEF Sound
    <2> SUFFICES ASSUME NEW n \in Node, up[n], NEW x \in DOMAIN told[n]
                 PROVE  p[n] - p[x] <= told[n][x]
      BY <2>1 DEF Sound
    <2>2. x \in Node /\ told[n][x] \in Nat
      <3>1. Informed(n)
        BY DEF Calm
      <3> QED
        BY <3>1, CostTypes DEF Informed, Mates
    <2>3. x \in DOMAIN told'[n] /\ told'[n][x] \in Nat /\ told'[n][x] <= told[n][x]
      BY DEF Eased
    <2>4. p[n] - p[x] <= told'[n][x]
      BY <1>1, <2>3 DEF Sound
    <2> QED
      BY <2>1, <2>2, <2>3, <2>4
  <1>2. ASSUME NEW d \in DOMAIN f PROVE f[d] <= M * (Cardinality(Knowing(table', d)) - 1)
    <2> DEFINE a == Cardinality(Knowing(table, d)) - 1
               b == Cardinality(Knowing(table', d)) - 1
    <2>1. f[d] \in Nat /\ f[d] <= M * a /\ d \in Node
      BY DEF Sane
    <2>2. a \in Nat /\ b \in Nat /\ a <= b
      <3>1. \A n \in Node : DOMAIN table[n] \subseteq DOMAIN table'[n]
        BY DistsOf DEF Eased, Better
      <3> QED
        BY <2>1, <3>1, KnowingGrows
    <2> HIDE DEF a, b
    <2>3. M \in Nat
      BY CostTypes
    <2>4. M * a <= M * b /\ M * a \in Nat /\ M * b \in Nat
      BY <2>2, <2>3, Times
    <2>5. f[d] <= M * b
      BY <2>1, <2>4
    <2> QED
      BY <2>5 DEF b
  <1> QED
    BY <1>1, <1>2 DEF Sane

LEMMA RestingStays ==
  ASSUME Inv, NEW M, Calm(M), OnlyCheaper, Resting
  PROVE  /\ Peaceful' /\ \A n \in Node : up[n] => Named(n)'
         /\ \A n, m \in Node, k \in Sock : Wired(n, k, m)' <=> Wired(n, k, m)
  <1>1. \A n, m \in Node, k \in Sock : Wired(n, k, m)' <=> Wired(n, k, m)
    BY DEF Resting, Wired
  <1>2. Peaceful'
    BY <1>1 DEF Calm, Peaceful, Resting
  <1>3. \A n \in Node : up[n] => Named(n)'
    BY MatesStay DEF Calm, Named, Resting
  <1> QED
    BY <1>1, <1>2, <1>3

LEMMA CalmAgain ==
  ASSUME Inv, NEW M, Calm(M), OnlyCheaper, Resting,
         \A n \in Node : up[n] => Informed(n)' /\ Routes(M, n)',
         \A n, m \in Node, k \in Sock : Wired(n, k, m) => Mails(M, n, k, m)'
  PROVE  Calm(M)'
  <1>1. /\ Peaceful' /\ \A n \in Node : up[n] => Named(n)'
        /\ \A n, m \in Node, k \in Sock : Wired(n, k, m)' <=> Wired(n, k, m)
    BY RestingStays
  <1>2. up' = up
    BY DEF Resting
  <1> QED
    BY <1>1, <1>2 DEF Calm

LEMMA DownEased ==
  ASSUME Inv, Inv', NEW M, Calm(M), CostsFit(M), OnlyCheaper, Eased, NEW n \in Node, up[n],
         NEW d \in DOMAIN table[n] \ Mates(n), d \in DOMAIN table'[n],
         table'[n][d].nextHop = table[n][d].nextHop, table'[n][d].dist = table[n][d].dist
  PROVE  LET h == table'[n][d].nextHop
         IN  d \in DOMAIN table'[h] /\ table'[h][d].dist + told'[n][h] <= table'[n][d].dist
  <1> DEFINE h == table[n][d].nextHop
  <1>1. Direct(table[n], Mates(n), told[n]) /\ Down(n) /\ Informed(n)
    BY DEF Calm, Routes
  <1>2. h \in Mates(n) /\ h \in Node
    BY <1>1, MatesAre DEF Direct
  <1>3. d \in DOMAIN table[h] /\ table[h][d].dist + told[n][h] <= table[n][d].dist
    BY <1>1 DEF Down
  <1> HIDE DEF h
  <1>4. d \in DOMAIN table'[h] /\ table'[h][d].dist <= table[h][d].dist
    BY <1>2, <1>3, EasedAt
  <1>5. told'[n][h] <= told[n][h] /\ told'[n][h] \in Nat /\ told[n][h] \in Nat
    BY <1>1, <1>2, CostTypes DEF Eased, Informed
  <1>6. table'[h][d].dist \in Int
    BY <1>2, <1>4, TablesWholeAfter
  <1>7. table[h][d].dist \in Int /\ table[n][d].dist \in Int
    BY <1>2, <1>3, TablesWhole
  <1>8. table'[h][d].dist + told'[n][h] <= table[n][d].dist
    BY <1>3, <1>4, <1>5, <1>6, <1>7
  <1> QED
    BY <1>4, <1>8 DEF h

LEMMA RoutesStay ==
  ASSUME Inv, Inv', NEW M, Calm(M), CostsFit(M), OnlyCheaper, Eased, NEW n \in Node, up[n],
         table'[n] = table[n], told'[n] = told[n]
  PROVE  Routes(M, n)'
  <1>1. Direct(table[n], Mates(n), told[n]) /\ Sane(M, Dists(table[n]), n)
    BY DEF Calm, Routes
  <1>2. Direct(table'[n], Mates(n)', told'[n])
    BY <1>1, MatesStay
  <1>3. Down(n)'
    BY DownEased, MatesStay DEF Down
  <1>4. Sane(M, Dists(table[n]), n)'
    <2>1. PICK f : f = Dists(table[n])
      OBVIOUS
    <2>2. Sane(M, f, n)
      BY <1>1, <2>1
    <2>3. Sane(M, f, n)'
      BY <2>2, SaneStays DEF OnlyCheaper
    <2> QED
      BY <2>1, <2>3
  <1> QED
    BY <1>2, <1>3, <1>4 DEF Routes

LEMMA MailsStay ==
  ASSUME Inv, Inv', NEW M, Calm(M), CostsFit(M), OnlyCheaper, Eased,
         NEW n \in Node, NEW m \in Node, NEW k \in Sock, Wired(n, k, m),
         Shifted(net'.inbox[n][k], net.inbox[n][k]),
         \A d \in DOMAIN table'[n] : d # m /\ table'[n][d].nextHop = m =>
           d \in DOMAIN table[n] /\ table[n][d].nextHop = m /\ table[n][d].dist <= table'[n][d].dist
  PROVE  Mails(M, n, k, m)'
  <1> DEFINE old == net.inbox[n][k]
             box == net'.inbox[n][k]
  <1>1. Mail(old, n, table[n], m, table[m], told[n][m]) /\ \A i \in Said(old) : Sane(M, old[i].vector, m)
    BY DEF Calm, Mails
  <1>2. DOMAIN box \subseteq Nat /\ \A i \in Said(old) : Whole(old[i].vector)
    <2>1. box \in Seq(Message)
      BY NetTypes DEF Inv, IsNet
    <2> HIDE DEF box
    <2>2. DOMAIN box \subseteq Nat
      BY <2>1
    <2> QED
      BY <2>2, BoxesWhole
  <1>3. told[n][m] \in Int /\ told'[n][m] \in Int /\ told'[n][m] <= told[n][m]
    <2>1. up[n] /\ m \in Mates(n)
      BY WiredTo
    <2>2. m \in DOMAIN told[n] /\ told[n][m] \in Weight
      BY <2>1 DEF Calm, Informed
    <2>3. told[n][m] \in Nat
      BY <2>2, WeightTypes
    <2>4. told'[n][m] \in Nat /\ told'[n][m] <= told[n][m]
      BY <2>1, <2>2 DEF Eased
    <2> QED
      BY <2>3, <2>4
  <1>4. Better(Dists(table'[m]), Dists(table[m]))
    BY DEF Eased
  <1> HIDE DEF old, box
  <1>5. Mail(old, n, table'[n], m, table'[m], told'[n][m])
    BY <1>1, <1>2, <1>3, <1>4, MailEased, TablesWhole, TablesWholeAfter
  <1>6. Mail(box, n, table'[n], m, table'[m], told'[n][m])
    BY <1>2, <1>5, MailShifted DEF box, old
  <1>7. ASSUME NEW i \in Said(net'.inbox[n][k])
        PROVE  Sane(M, net.inbox[n][k][i].vector, m)'
    <2>1. PICK h \in Nat : \A j \in Said(box) : j + h \in Said(old) /\ old[j + h] = box[j]
      BY DEF Shifted, box, old
    <2>2. PICK v : v = net'.inbox[n][k][i].vector
      OBVIOUS
    <2>3. Sane(M, v, m)
      BY <1>1, <2>1, <2>2 DEF box
    <2>4. Sane(M, v, m)'
      BY <2>3, SaneStays DEF OnlyCheaper
    <2> QED
      BY <2>2, <2>4
  <1> QED
    BY <1>6, <1>7 DEF Mails, box

(***************************************************************************)
(* Steps that change no table: messages may be lost, and answers written.  *)
(***************************************************************************)
LEMMA PassingKeepsCalm ==
  ASSUME Inv, Inv', NEW M, Calm(M), CostsFit(M), OnlyCheaper, Resting,
         \A n \in Node : table'[n] = table[n], told' = told, \A n \in Node : up[n] => Informed(n)',
         \A n \in Node, k \in Sock : Shifted(net'.inbox[n][k], net.inbox[n][k])
  PROVE  Calm(M)'
  <1>1. Eased
    <2>1. \A n \in Node : Better(Dists(table'[n]), Dists(table[n]))
      BY TablesWhole DEF Better, Whole
    <2>2. ASSUME NEW n \in Node, up[n], NEW m \in DOMAIN told[n] PROVE told[n][m] \in Nat
      BY <2>2, CostTypes DEF Calm, Informed
    <2> QED
      BY <2>1, <2>2 DEF Eased
  <1>2. \A n \in Node : up[n] => Routes(M, n)'
    BY <1>1, RoutesStay
  <1>3. ASSUME NEW n \in Node, NEW m \in Node, NEW k \in Sock, Wired(n, k, m)
        PROVE  Mails(M, n, k, m)'
    <2>1. \A d \in DOMAIN table[n] : table[n][d].dist <= table[n][d].dist
      BY TablesWhole
    <2> QED
      BY <1>1, <1>3, <2>1, MailsStay
  <1> QED
    BY <1>2, <1>3, CalmAgain

Remainder(r, q) ==
  DOMAIN r \subseteq Nat /\ \E h \in Nat : \A i \in DOMAIN r : i + h \in DOMAIN q /\ r[i] = q[i + h]

LEMMA WholeRemainder ==
  ASSUME Inv, NEW n \in Node
  PROVE  Remainder(list[n], list[n])
  <1> DEFINE q == list[n]
  <1>1. q \in Seq(Lists(n))
    BY DEF Inv, Station
  <1> HIDE DEF q
  <1>2. DOMAIN q \subseteq Nat /\ \A i \in DOMAIN q : i + 0 = i
    BY <1>1
  <1> QED
    BY <1>2 DEF Remainder, q

LEMMA LaterRemainder ==
  ASSUME NEW X, NEW q \in Seq(X), NEW j \in 1..Len(q)
  PROVE  Remainder(SubSeq(q, j + 1, Len(q)), q)
  <1> DEFINE r == SubSeq(q, j + 1, Len(q))
  <1>1. /\ Len(q) \in Nat /\ r \in Seq(X) /\ Len(r) = Len(q) - j
        /\ \A i \in 1..(Len(q) - j) : r[i] = q[j + i]
    OBVIOUS
  <1> HIDE DEF r
  <1>2. DOMAIN r = 1..(Len(q) - j) /\ DOMAIN q = 1..Len(q)
    BY <1>1
  <1>3. ASSUME NEW i \in DOMAIN r PROVE i \in Nat /\ i + j \in DOMAIN q /\ r[i] = q[i + j]
    <2>1. j + i = i + j
      BY <1>2
    <2> QED
      BY <1>1, <1>2, <2>1
  <1>4. j \in Nat
    OBVIOUS
  <1>5. Remainder(r, q)
    BY <1>3, <1>4 DEF Remainder
  <1> QED
    BY <1>5 DEF r

LEMMA ListOf ==
  ASSUME Inv, NEW n \in Node, NEW i \in DOMAIN list[n]
  PROVE  list[n][i] \in List
  <1> DEFINE q == list[n]
  <1>1. q \in Seq(Lists(n))
    BY DEF Inv, Station
  <1> HIDE DEF q
  <1>2. \A e \in DOMAIN q : q[e] \in Lists(n)
    BY <1>1
  <1> QED
    BY <1>2 DEF Lists, q

LEMMA InformedStays ==
  ASSUME Inv, Inv', NEW M, Calm(M), CostsFit(M), OnlyCheaper, NEW n \in Node, up[n],
         told'[n] = told[n], Remainder(list'[n], list[n])
  PROVE  Informed(n)'
  <1>1. Informed(n) /\ Mates(n)' = Mates(n)
    BY MatesStay DEF Calm
  <1>2. \A m \in Mates(n) : weight'[{m, n}] <= weight[{m, n}]
    BY MatesStay
  <1>3. ASSUME NEW m \in Mates(n)
        PROVE  weight[{m, n}] \in Nat /\ weight'[{m, n}] \in Nat
    <2>1. weight[{m, n}] \in Weight /\ {m, n} \in Edge /\ weight[{m, n}] # NoEdge
      BY MatesAre DEF Adjacent, Edge
    <2>2. weight'[{m, n}] \in Weight
      BY <2>1 DEF OnlyCheaper, Inv, Fields
    <2> QED
      BY <2>1, <2>2, CostTypes
  <1>4. ASSUME NEW m \in Mates(n)
        PROVE  told[n][m] \in Weight /\ told[n][m] \in Nat /\ weight'[{m, n}] <= told[n][m]
    <2>1. told[n][m] \in Weight /\ weight[{m, n}] <= told[n][m]
      BY <1>1 DEF Informed
    <2> QED
      <3> DEFINE a == weight[{m, n}]
                 b == weight'[{m, n}]
                 c == told[n][m]
      <3>1. a \in Nat /\ b \in Nat /\ c \in Nat /\ b <= a /\ a <= c
        BY <1>2, <1>3, <2>1, WeightTypes
      <3> HIDE DEF a, b, c
      <3>2. b <= c
        BY <3>1
      <3> QED
        BY <2>1, <3>1, <3>2 DEF b, c
  <1>5. PICK h \in Nat : \A i \in DOMAIN list'[n] : i + h \in DOMAIN list[n] /\ list'[n][i] = list[n][i + h]
    BY DEF Remainder
  <1>6. ASSUME NEW i \in DOMAIN list'[n], NEW m \in Mates(n)
        PROVE  /\ DOMAIN list'[n][i] = Mates(n)
               /\ weight'[{m, n}] <= list'[n][i][m] /\ list'[n][i][m] <= told[n][m]
    <2>1. PICK L : L = list'[n][i]
      OBVIOUS
    <2>2. i + h \in DOMAIN list[n] /\ L = list[n][i + h]
      BY <1>5, <2>1
    <2>3. weight[{m, n}] <= L[m] /\ L[m] <= told[n][m] /\ DOMAIN L = Mates(n)
      BY <1>1, <2>2 DEF Informed
    <2>4. L \in List
      BY <2>2, ListOf
    <2>5. L[m] \in Weight
      BY <2>3, <2>4 DEF List
    <2> QED
      <3> DEFINE a == weight[{m, n}]
                 b == weight'[{m, n}]
                 c == L[m]
      <3>1. a \in Nat /\ b \in Nat /\ c \in Nat /\ b <= a /\ a <= c
        BY <1>2, <1>3, <2>3, <2>5, WeightTypes
      <3> HIDE DEF a, b, c
      <3>2. b <= c
        BY <3>1
      <3> QED
        BY <2>1, <2>3, <3>2 DEF b, c
  <1>7. ASSUME NEW i \in DOMAIN list'[n], NEW j \in DOMAIN list'[n], i < j, NEW m \in Mates(n)
        PROVE  list'[n][j][m] <= list'[n][i][m]
    <2>1. i \in Nat /\ j \in Nat
      BY DEF Remainder
    <2>2. i + h < j + h
      BY <1>7, <2>1
    <2>3. list[n][j + h][m] <= list[n][i + h][m]
      BY <1>1, <1>5, <2>2 DEF Informed
    <2> QED
      BY <1>5, <2>3
  <1>8. ASSUME NEW i \in DOMAIN list'[n] PROVE DOMAIN list'[n][i] = Mates(n)
    BY <1>1, <1>5 DEF Informed
  <1> QED
    BY <1>1, <1>4, <1>6, <1>7, <1>8 DEF Informed

------------------------------------------------------------------------------
(***************************************************************************)
(* The steps, one by one.                                                  *)
(***************************************************************************)
LEMMA ShiftedSame ==
  ASSUME NEW box \in Seq(Message)
  PROVE  Shifted(box, box)
  <1>1. \A i \in Said(box) : i + 0 = i
    BY DEF Said
  <1> QED
    BY <1>1 DEF Shifted

LEMMA ShiftedRest ==
  ASSUME NEW box \in Seq(Message), NEW j \in 1..Len(box)
  PROVE  Shifted(SubSeq(box, j + 1, Len(box)), box)
  <1> DEFINE rest == SubSeq(box, j + 1, Len(box))
  <1>1. /\ Len(box) \in Nat /\ rest \in Seq(Message) /\ Len(rest) = Len(box) - j
        /\ \A i \in 1..(Len(box) - j) : rest[i] = box[j + i]
    OBVIOUS
  <1> HIDE DEF rest
  <1>2. ASSUME NEW i \in Said(rest) PROVE i + j \in Said(box) /\ box[i + j] = rest[i]
    <2>1. i \in 1..(Len(box) - j) /\ rest[i].type = "vector"
      BY <1>1 DEF Said
    <2>2. i + j \in DOMAIN box /\ j + i = i + j
      BY <1>1, <2>1
    <2> QED
      BY <1>1, <2>1, <2>2 DEF Said
  <1>3. Shifted(rest, box)
    BY <1>1, <1>2 DEF Shifted
  <1> QED
    BY <1>3 DEF rest

LEMMA ShiftedTail ==
  ASSUME NEW box \in Seq(Message), box # <<>>
  PROVE  Shifted(Tail(box), box)
  <1>1. Len(box) \in Nat /\ 1 \in 1..Len(box) /\ Tail(box) = SubSeq(box, 1 + 1, Len(box))
    OBVIOUS
  <1> QED
    BY <1>1, ShiftedRest

LEMMA ShiftedAnswered ==
  ASSUME NEW box \in Seq(Message), NEW x \in Message, x.type # "vector"
  PROVE  Shifted(Append(box, x), box)
  <1> DEFINE all == Append(box, x)
             l == Len(box)
  <1>1. /\ l \in Nat /\ DOMAIN all = 1..(l + 1) /\ DOMAIN box = 1..l
        /\ all[l + 1] = x /\ \A i \in 1..l : all[i] = box[i]
    OBVIOUS
  <1> HIDE DEF all, l
  <1>2. ASSUME NEW i \in Said(all) PROVE i + 0 \in Said(box) /\ box[i + 0] = all[i]
    <2>1. i \in 1..(l + 1) /\ all[i].type = "vector"
      BY <1>1 DEF Said
    <2>2. i \in 1..l /\ i + 0 = i
      BY <1>1, <2>1
    <2> QED
      BY <1>1, <2>1, <2>2 DEF Said
  <1> QED
    BY <1>2 DEF Shifted, all

LEMMA BoxesRest ==
  ASSUME Inv, net' = net
  PROVE  \A n \in Node, k \in Sock : Shifted(net'.inbox[n][k], net.inbox[n][k])
  BY BoxesWhole, ShiftedSame

LEMMA ListAdded ==
  ASSUME NEW X, NEW q \in Seq(X), NEW L, NEW all, all = Append(q, L), NEW i \in DOMAIN all
  PROVE  /\ i \in Nat /\ DOMAIN q = 1..Len(q) /\ Len(q) \in Nat
         /\ \/ i \in DOMAIN q /\ all[i] = q[i]
            \/ i = Len(q) + 1 /\ all[i] = L
  <1>1. /\ Len(q) \in Nat /\ DOMAIN all = 1..(Len(q) + 1) /\ DOMAIN q = 1..Len(q)
        /\ all[Len(q) + 1] = L /\ \A e \in 1..Len(q) : all[e] = q[e]
    OBVIOUS
  <1>2. i \in 1..Len(q) \/ i = Len(q) + 1
    BY <1>1
  <1> QED
    BY <1>1, <1>2

LEMMA PollStaysCalm ==
  ASSUME Inv, Inv', NEW M, Calm(M), CostsFit(M), OnlyCheaper, NEW n \in Node, Poll(n)
  PROVE  Calm(M)'
  <1>1. /\ up[n] /\ list' = [list EXCEPT ![n] = Append(@, Neighborhood(n))]
        /\ up' = up /\ known' = known /\ moved' = moved /\ clients' = clients /\ net' = net
        /\ table' = table /\ told' = told /\ weight' = weight /\ borrowed' = borrowed
    BY DEF Poll
  <1>2. PICK L : L = Neighborhood(n)
    OBVIOUS
  <1>3. DOMAIN L = Mates(n) /\ \A m \in Mates(n) : L[m] = weight[{m, n}]
    <2>1. known = up
      BY DEF Calm, Peaceful
    <2>2. Mates(n) = {m \in Node : Adjacent(m, n) /\ known[m]}
      BY <2>1 DEF Mates
    <2> QED
      BY <1>2, <2>2, NeighborhoodIsList DEF Inv
  <1>4. PICK q : q = list[n]
    OBVIOUS
  <1>5. q \in Seq(Lists(n)) /\ DOMAIN list = Node
    BY <1>4 DEF Inv, Station, Fields
  <1>6. PICK all : all = list'[n]
    OBVIOUS
  <1>7. all = Append(q, L) /\ \A x \in Node \ {n} : list'[x] = list[x]
    BY <1>1, <1>2, <1>4, <1>5, <1>6
  <1>8. Informed(n) /\ Mates(n)' = Mates(n)
    BY <1>1, MatesStay DEF Calm
  <1>9. ASSUME NEW i \in DOMAIN all
        PROVE  /\ DOMAIN all[i] = Mates(n)
               /\ \A m \in Mates(n) : weight[{m, n}] <= all[i][m] /\ all[i][m] <= told[n][m]
    <2>1. CASE i \in DOMAIN q /\ all[i] = q[i]
      BY <1>4, <1>8, <2>1 DEF Informed
    <2>2. CASE all[i] = L
      <3>1. ASSUME NEW m \in Mates(n)
            PROVE  weight[{m, n}] <= L[m] /\ L[m] <= told[n][m]
        <4>1. weight[{m, n}] \in Nat
          BY MatesAre, WeightTypes
        <4>2. weight[{m, n}] <= told[n][m]
          BY <1>8 DEF Informed
        <4>3. L[m] = weight[{m, n}]
          BY <1>3
        <4> DEFINE w == weight[{m, n}]
        <4>4. w <= w
          BY <4>1
        <4> QED
          BY <4>2, <4>3, <4>4
      <3> QED
        BY <1>3, <2>2, <3>1
    <2>3. (i \in DOMAIN q /\ all[i] = q[i]) \/ all[i] = L
      BY <1>5, <1>7, ListAdded
    <2> QED
      BY <2>1, <2>2, <2>3
  <1>10. ASSUME NEW i \in DOMAIN all, NEW j \in DOMAIN all, i < j, NEW m \in Mates(n)
         PROVE  all[j][m] <= all[i][m]
    <2>1. i \in DOMAIN q /\ all[i] = q[i]
      <3>1. j \in Nat /\ j <= Len(q) + 1 /\ Len(q) \in Nat
        BY <1>5, <1>7, ListAdded
      <3>2. i # Len(q) + 1
        BY <1>10, <3>1
      <3> QED
        BY <1>5, <1>7, <3>2, ListAdded
    <2>2. CASE j \in DOMAIN q /\ all[j] = q[j]
      BY <1>4, <1>8, <1>10, <2>1, <2>2 DEF Informed
    <2>3. CASE all[j] = L
      BY <1>3, <1>4, <1>8, <2>1, <2>3 DEF Informed
    <2> QED
      BY <1>5, <1>7, <2>2, <2>3, ListAdded
  <1>11. Informed(n)'
    <2>1. Mates(n)' = Mates(n) /\ told' = told /\ weight' = weight /\ list'[n] = all
      BY <1>1, <1>6, <1>8
    <2>2. /\ DOMAIN told[n] = Mates(n)
          /\ \A m \in Mates(n) : told[n][m] \in Weight /\ weight[{m, n}] <= told[n][m]
      BY <1>8 DEF Informed
    <2> QED
      BY <1>9, <1>10, <2>1, <2>2 DEF Informed
  <1>12. ASSUME NEW x \in Node, up[x] PROVE Informed(x)'
    <2>1. CASE x = n
      BY <1>11, <2>1
    <2>2. CASE x # n
      <3>1. list'[x] = list[x]
        BY <1>7, <2>2
      <3> QED
        BY <1>1, <1>12, <3>1, InformedStays, WholeRemainder
    <2> QED
      BY <2>1, <2>2
  <1>13. Resting
    BY <1>1 DEF Resting
  <1> QED
    BY <1>1, <1>12, <1>13, BoxesRest, PassingKeepsCalm

LEMMA ListsLostStaysCalm ==
  ASSUME Inv, Inv', NEW M, Calm(M), CostsFit(M), OnlyCheaper, NEW n \in Node, ListsLost(n)
  PROVE  Calm(M)'
  <1>1. up[n] /\ up' = up /\ known' = known
    BY DEF ListsLost, OnlyCheaper, controller
  <1>2. ~Ends(n, net)
    BY <1>1 DEF Ends, Inv, Fields
  <1>3. PICK j \in 1..Len(list[n]) :
          /\ list' = [list EXCEPT ![n] = SubSeq(@, j + 1, Len(@))]
          /\ UNCHANGED <<up, table, clients, net, told, moved, borrowed>>
    BY <1>2 DEF ListsLost
  <1>4. list[n] \in Seq(Lists(n)) /\ DOMAIN list = Node
    BY DEF Inv, Station, Fields
  <1>5. list'[n] = SubSeq(list[n], j + 1, Len(list[n])) /\ \A x \in Node \ {n} : list'[x] = list[x]
    BY <1>3, <1>4
  <1>6. ASSUME NEW x \in Node PROVE Remainder(list'[x], list[x])
    <2>1. CASE x = n
      <3>1. Remainder(SubSeq(list[n], j + 1, Len(list[n])), list[n])
        BY <1>4, LaterRemainder
      <3> QED
        BY <1>5, <2>1, <3>1
    <2>2. CASE x # n
      <3>1. list'[x] = list[x]
        BY <1>5, <2>2
      <3> QED
        BY <3>1, WholeRemainder
    <2> QED
      BY <2>1, <2>2
  <1>7. \A x \in Node : up[x] => Informed(x)'
    BY <1>3, <1>6, InformedStays
  <1>8. Resting
    BY <1>1, <1>3 DEF Resting
  <1> QED
    BY <1>3, <1>7, <1>8, BoxesRest, PassingKeepsCalm

LEMMA EditStaysCalm ==
  ASSUME Inv, Inv', NEW M, Calm(M), CostsFit(M), OnlyCheaper, UNCHANGED <<Routed, known>>
  PROVE  Calm(M)'
  <1>1. /\ up' = up /\ known' = known /\ moved' = moved /\ clients' = clients /\ net' = net
        /\ table' = table /\ told' = told /\ list' = list /\ borrowed' = borrowed
    BY DEF Routed
  <1>2. Resting
    BY <1>1 DEF Resting
  <1>3. \A x \in Node : up[x] => Informed(x)'
    BY <1>1, InformedStays, WholeRemainder
  <1> QED
    BY <1>1, <1>2, <1>3, BoxesRest, PassingKeepsCalm

(***************************************************************************)
(* A message that is no vector is read, or several are lost.               *)
(***************************************************************************)
LEMMA LosingStaysCalm ==
  ASSUME Inv, Inv', NEW M, Calm(M), CostsFit(M), OnlyCheaper,
         NEW n \in Node, NEW k \in Sock, NEW box \in Seq(Message), Shifted(box, net.inbox[n][k]),
         net' = WithBox(net, n, k, box), \A x \in Node : table'[x] = table[x],
         UNCHANGED <<up, clients, list, told, moved, borrowed, known>>
  PROVE  Calm(M)'
  <1>1. net \in Nets
    BY DEF Inv, IsNet
  <1>2. /\ net'.peer = net.peer /\ net'.backlog = net.backlog
        /\ \A x \in Node, y \in Sock :
             net'.inbox[x][y] = IF <<x, y>> = <<n, k>> THEN box ELSE net.inbox[x][y]
    BY <1>1, BoxShape
  <1>3. Resting
    BY <1>2 DEF Resting
  <1>4. \A x \in Node : up[x] => Informed(x)'
    BY InformedStays, WholeRemainder
  <1>5. ASSUME NEW x \in Node, NEW y \in Sock PROVE Shifted(net'.inbox[x][y], net.inbox[x][y])
    <2>1. CASE <<x, y>> = <<n, k>>
      BY <1>2, <2>1
    <2>2. CASE <<x, y>> # <<n, k>>
      BY <1>2, <2>2, BoxesWhole, ShiftedSame
    <2> QED
      BY <2>1, <2>2
  <1> QED
    BY <1>3, <1>4, <1>5, PassingKeepsCalm

(***************************************************************************)
(* The vectors of a box to which the vector v was added.                   *)
(***************************************************************************)
Appended(all, q, v) == VectorMessage(v) \in Message /\ all = Append(q, VectorMessage(v))

LEMMA SaidAppended ==
  ASSUME NEW q \in Seq(Message), NEW v, NEW all, Appended(all, q, v), NEW i \in Said(all)
  PROVE  (i \in Said(q) /\ all[i].vector = q[i].vector) \/ all[i].vector = v
  <1>1. PICK l, x : l = Len(q) /\ x = VectorMessage(v)
    OBVIOUS
  <1>2. /\ l \in Nat /\ DOMAIN all = 1..(l + 1) /\ DOMAIN q = 1..l
        /\ all[l + 1] = x /\ \A e \in 1..l : all[e] = q[e]
    <2>1. x \in Message /\ all = Append(q, x)
      BY <1>1 DEF Appended
    <2> QED
      BY <1>1, <2>1
  <1>3. x.vector = v
    BY <1>1 DEF VectorMessage
  <1>4. i \in 1..(l + 1) /\ all[i].type = "vector"
    BY <1>2 DEF Said
  <1>5. CASE i \in 1..l
    BY <1>2, <1>4, <1>5 DEF Said
  <1>6. CASE i = l + 1
    BY <1>2, <1>3, <1>6
  <1> QED
    BY <1>2, <1>4, <1>5, <1>6

(***************************************************************************)
(* A vector is sent.                                                       *)
(***************************************************************************)
LEMMA VectorStaysCalm ==
  ASSUME Inv, Inv', NEW M, Calm(M), CostsFit(M), OnlyCheaper, NEW n \in Node, NEW s \in Node,
         up[n], s \in DOMAIN table[n], UNCHANGED <<up, known>>,
         Sends(n, table[n], table[n][s].client, VectorMessage(Vector(table[n], s)), net)
  PROVE  Calm(M)'
  <1> DEFINE v0 == Vector(table[n], s)
  <1>1. /\ up[n] /\ s \in DOMAIN table[n]
        /\ Sends(n, table[n], table[n][s].client, VectorMessage(v0), net)
        /\ up' = up /\ known' = known
    OBVIOUS
  <1>2. net \in Nets /\ table[n] \in Tables(n) /\ OldClients(table[n], table[n])
    BY TablesWhole DEF Inv, IsNet, OldClients
  <1>3. VectorMessage(v0) \in Message /\ Own(VectorMessage(v0), n)
    BY <1>2, SaidByOwner
  <1>4. PICK k \in Sock : /\ Wired(n, k, s) /\ net' = Write(net, n, k, VectorMessage(v0))
                          /\ table' = [table EXCEPT ![n] = table[n]]
                          /\ UNCHANGED <<clients, list, told, moved, borrowed>>
    <2> HIDE DEF v0
    <2>1. PICK t, x : t = table[n] /\ x = VectorMessage(v0)
      OBVIOUS
    <2>2. /\ Calm(M) /\ up[n] /\ up' = up /\ net \in Nets
          /\ t \in Tables(n) /\ OldClients(t, table[n]) /\ s \in DOMAIN t /\ x \in Message
          /\ Sends(n, t, t[s].client, x, net)
      BY <1>1, <1>2, <1>3, <2>1
    <2>3. \E k \in Sock : /\ Wired(n, k, s) /\ s \in Node /\ net' = Write(net, n, k, x)
                         /\ table' = [table EXCEPT ![n] = t]
                         /\ UNCHANGED <<clients, list, told, moved, borrowed>>
      BY <2>2, SendsCalmly, SMTT(30)
    <2> QED
      BY <2>1, <2>3
  <1>5. \A y \in Node : table'[y] = table[y]
    BY <1>4 DEF Inv, Fields
  <1>6. PICK j \in Sock : net.peer[n][k] = <<s, j>> /\ net.peer[s][j] = <<n, k>>
    BY <1>4, WiredTo, SMTT(30)
  <1>7. s \in Mates(n) /\ up[s] /\ n \in Mates(s) /\ Wired(s, j, n)
    <2>1. Wired(s, j, n)
      BY <1>6 DEF Wired
    <2> QED
      BY <1>4, <2>1, WiredTo
  <1> DEFINE x == VectorMessage(v0)
             old == net.inbox[s][j]
             box == Append(old, x)
  <1>8. /\ net'.peer = net.peer /\ net'.backlog = net.backlog
        /\ net'.inbox[s][j] = box
        /\ \A y \in Node, z \in Sock : <<y, z>> # <<s, j>> => net'.inbox[y][z] = net.inbox[y][z]
    <2>1. net' = Write(net, n, k, x) /\ x \in Message
      BY <1>3, <1>4
    <2> HIDE DEF x
    <2>2. /\ net'.peer = net.peer /\ net'.backlog = net.backlog
          /\ \A y \in Node, z \in Sock :
               net'.inbox[y][z] =
                 IF k \in Sock /\ net.peer[n][k] = <<y, z>> THEN Append(net.inbox[y][z], x)
                 ELSE net.inbox[y][z]
      BY <1>2, <2>1, WriteShape
    <2> QED
      BY <1>6, <2>2
  <1>9. Resting
    BY <1>1, <1>4, <1>8 DEF Resting
  <1>10. \A y \in Node : up[y] => Informed(y)'
    BY <1>4, InformedStays, WholeRemainder
  <1>11. Eased
    <2>1. \A y \in Node : Better(Dists(table'[y]), Dists(table[y]))
      BY <1>5, TablesWhole DEF Better, Whole
    <2>2. ASSUME NEW y \in Node, up[y], NEW m \in DOMAIN told[y] PROVE told[y][m] \in Nat
      BY <2>2, WeightTypes DEF Calm, Informed
    <2> QED
      BY <1>4, <2>1, <2>2 DEF Eased
  <1>12. \A y \in Node : up[y] => Routes(M, y)'
    BY <1>4, <1>5, <1>11, RoutesStay
  <1>13. ASSUME NEW y \in Node, NEW m \in Node, NEW z \in Sock, Wired(y, z, m), <<y, z>> # <<s, j>>
         PROVE  Mails(M, y, z, m)'
    <2>1. \A d \in DOMAIN table[y] : table[y][d].dist <= table[y][d].dist
      BY TablesWhole
    <2>2. Shifted(net'.inbox[y][z], net.inbox[y][z])
      BY <1>8, <1>13, BoxesWhole, ShiftedSame
    <2> QED
      BY <1>5, <1>11, <1>13, <2>1, <2>2, MailsStay
  <1>14. PICK v : v = v0
    OBVIOUS
  <1>15. /\ v = [d \in DOMAIN table[n] \ {s} |-> table[n][d].dist]
         /\ VectorMessage(v) \in Message /\ net'.inbox[s][j] = Append(old, VectorMessage(v))
    BY <1>3, <1>8, <1>14 DEF Vector
  <1> HIDE DEF v0, x, box
  <1>16. Mails(M, s, j, n)
    BY <1>7 DEF Calm
  <1>17. Sent(v, s, table[n])
    <2>1. \A d \in DOMAIN v : /\ d \in DOMAIN Dists(table[n]) /\ d # s
                              /\ Dists(table[n])[d] = v[d] /\ v[d] \in Int
      BY <1>15, DistsOf, TablesWhole
    <2> QED
      BY <2>1 DEF Sent, Better
  <1>18. Covers(v, table[s], n, told[s][n])
    <2> SUFFICES ASSUME NEW d \in DOMAIN table[s], d # n, table[s][d].nextHop = n
                 PROVE  d \in DOMAIN v /\ v[d] + told[s][n] <= table[s][d].dist
      BY DEF Covers
    <2>1. Direct(table[s], Mates(s), told[s]) /\ Down(s)
      BY <1>7 DEF Calm, Routes
    <2>2. d \notin Mates(s)
      BY <2>1 DEF Direct
    <2>3. d \in DOMAIN table[n] /\ table[n][d].dist + told[s][n] <= table[s][d].dist
      BY <2>1, <2>2 DEF Down
    <2>4. d # s
      BY TablesWhole
    <2> QED
      BY <1>15, <2>3, <2>4
  <1>19. \A i \in Said(old) : Better(v, old[i].vector)
    <2> SUFFICES ASSUME NEW i \in Said(old) PROVE Better(v, old[i].vector)
      OBVIOUS
    <2>1. Sent(old[i].vector, s, table[n])
      BY <1>16 DEF Mails, Mail
    <2> QED
      BY <1>15, <2>1 DEF Sent, Better, Dists
  <1>20. Mail(net'.inbox[s][j], s, table[s], n, table[n], told[s][n])
    <2>1. old \in Seq(Message)
      BY BoxesWhole
    <2>2. Mail(old, s, table[s], n, table[n], told[s][n])
      BY <1>16 DEF Mails
    <2> HIDE DEF old
    <2> QED
      BY <1>15, <1>17, <1>18, <1>19, <2>1, <2>2, MailSent
  <1>21. Sane(M, v, n)'
    <2>1. Sane(M, Dists(table[n]), n)
      BY <1>1 DEF Calm, Routes
    <2>2. Sane(M, v, n)
      BY <1>15, <2>1 DEF Sane, Dists
    <2> QED
      BY <1>1, <1>11, <2>2, SaneStays
  <1>22. ASSUME NEW i \in Said(net'.inbox[s][j]) PROVE Sane(M, net.inbox[s][j][i].vector, n)'
    <2>1. old \in Seq(Message)
      BY BoxesWhole
    <2>2. PICK w : w = net'.inbox[s][j][i].vector
      OBVIOUS
    <2>3. (i \in Said(old) /\ w = old[i].vector) \/ w = v
      <3>1. PICK all : all = net'.inbox[s][j]
        OBVIOUS
      <3>2. Appended(all, old, v)
        BY <1>15, <3>1 DEF Appended
      <3>3. i \in Said(all) /\ w = all[i].vector
        BY <2>2, <3>1
      <3> HIDE DEF old
      <3>4. (i \in Said(old) /\ all[i].vector = old[i].vector) \/ all[i].vector = v
        BY <2>1, <3>2, <3>3, SaidAppended
      <3> QED
        BY <3>3, <3>4
    <2>4. Sane(M, w, n)'
      <3>1. CASE w = v
        BY <1>21, <3>1
      <3>2. CASE i \in Said(old) /\ w = old[i].vector
        <4>1. Sane(M, w, n)
          BY <1>16, <3>2 DEF Mails
        <4> QED
          BY <1>1, <1>11, <4>1, SaneStays
      <3> QED
        BY <2>3, <3>1, <3>2
    <2> QED
      BY <2>2, <2>4
  <1>23. Mails(M, s, j, n)'
    BY <1>4, <1>5, <1>20, <1>22 DEF Mails
  <1>24. ASSUME NEW y \in Node, NEW m \in Node, NEW z \in Sock, Wired(y, z, m)
         PROVE  Mails(M, y, z, m)'
    <2>1. CASE <<y, z>> = <<s, j>>
      <3>1. y = s /\ z = j /\ m = n
        BY <1>6, <1>24, <2>1 DEF Wired
      <3> QED
        BY <1>23, <3>1
    <2>2. CASE <<y, z>> # <<s, j>>
      BY <1>13, <1>24, <2>2
    <2> QED
      BY <2>1, <2>2
  <1> QED
    BY <1>9, <1>10, <1>12, <1>24, CalmAgain

(***************************************************************************)
(* What writing does, when the other end is known.                         *)
(***************************************************************************)
Writes(W, N, m, j, x) ==
  /\ W.peer = N.peer /\ W.backlog = N.backlog
  /\ \A a \in Node, b \in Sock :
       W.inbox[a][b] = IF <<m, j>> = <<a, b>> THEN Append(N.inbox[a][b], x) ELSE N.inbox[a][b]

LEMMA WrittenAt ==
  ASSUME NEW N \in Nets, NEW n \in Node, NEW l \in Sock, NEW x \in Message,
         NEW m, NEW j, N.peer[n][l] = <<m, j>>
  PROVE  Writes(Write(N, n, l, x), N, m, j, x)
  <1> DEFINE W == Write(N, n, l, x)
  <1>1. /\ W.peer = N.peer /\ W.backlog = N.backlog
        /\ \A a \in Node, b \in Sock :
             W.inbox[a][b] =
               IF l \in Sock /\ N.peer[n][l] = <<a, b>> THEN Append(N.inbox[a][b], x) ELSE N.inbox[a][b]
    BY WriteShape
  <1> HIDE DEF W
  <1>2. Writes(W, N, m, j, x)
    BY <1>1 DEF Writes
  <1> QED
    BY <1>2 DEF W

(***************************************************************************)
(* The string of the vector was freed, and no router recognises what is    *)
(* sent.                                                                   *)
(***************************************************************************)
LEMMA UnreadableStaysCalm ==
  ASSUME Inv, Inv', NEW M, Calm(M), CostsFit(M), OnlyCheaper, NEW n \in Node, NEW s \in Node,
         up[n], s \in DOMAIN table[n], UNCHANGED <<up, known>>,
         Sends(n, table[n], table[n][s].client, Unreadable, net)
  PROVE  Calm(M)'
  <1>1. net \in Nets /\ table[n] \in Tables(n) /\ OldClients(table[n], table[n])
    BY TablesWhole DEF Inv, IsNet, OldClients
  <1>2. PICK x : x = Unreadable
    OBVIOUS
  <1>3. x \in Message /\ x.type # "vector"
    BY <1>1, <1>2, SaidByOwner DEF Unreadable
  <1>4. PICK k \in Sock : /\ Wired(n, k, s) /\ net' = Write(net, n, k, x)
                          /\ table' = [table EXCEPT ![n] = table[n]]
                          /\ UNCHANGED <<clients, list, told, moved, borrowed>>
    BY <1>1, <1>2, <1>3, SendsCalmly
  <1>5. \A y \in Node : table'[y] = table[y]
    BY <1>4 DEF Inv, Fields
  <1>6. PICK j \in Sock : net.peer[n][k] = <<s, j>>
    BY <1>4 DEF Wired
  <1>7. PICK old : old = net.inbox[s][j]
    OBVIOUS
  <1>8. old \in Seq(Message)
    BY <1>7, BoxesWhole
  <1>9. Append(old, x) \in Seq(Message) /\ Shifted(Append(old, x), old)
    BY <1>3, <1>8, ShiftedAnswered
  <1>10. net' = WithBox(net, s, j, Append(old, x))
    <2>1. net.peer[n][k] \in End
      BY <1>6 DEF End
    <2>2. net.peer[n][k][1] = s /\ net.peer[n][k][2] = j
      BY <1>6
    <2> QED
      BY <1>4, <1>7, <2>1, <2>2 DEF Write
  <1> QED
    BY <1>4, <1>5, <1>7, <1>9, <1>10, LosingStaysCalm

LEMMA SendingStaysCalm ==
  ASSUME Inv, Inv', NEW M, Calm(M), CostsFit(M), OnlyCheaper, NEW n \in Node, NEW s \in Node,
         SendVector(n, s)
  PROVE  Calm(M)'
  <1>1. table[n] \in Tables(n)
    BY TablesWhole
  <1>2. up[n] /\ s \in DOMAIN table[n] /\ UNCHANGED controller
    BY <1>1, SendsVector
  <1>3. PICK x : /\ x = VectorMessage(Vector(table[n], s)) \/ x = Unreadable
                 /\ Sends(n, table[n], table[n][s].client, x, net)
    BY <1>1, SendsVector
  <1>4. UNCHANGED <<up, known>>
    BY <1>2 DEF OnlyCheaper, controller
  <1> QED
    BY <1>2, <1>3, <1>4, VectorStaysCalm, UnreadableStaysCalm

(***************************************************************************)
(* A vector is read: it takes no neighbour's place, because its sender is  *)
(* no closer to a neighbour of the reader than the link to it is long.     *)
(***************************************************************************)
LEMMA ReadImproves ==
  ASSUME Inv, NoShortcut, NEW M, Calm(M), CostsFit(M), NEW n \in Node, NEW m \in Node, NEW k \in Sock,
         Wired(n, k, m), 1 \in Said(net.inbox[n][k]),
         NEW v, v = net.inbox[n][k][1].vector, m \notin DOMAIN v,
         NEW E, E \subseteq LearnedFrom(table[n], m)
  PROVE  /\ Improved(Merged(Without(table[n], E), n, m, v), table[n], m, v, told[n][m])
         /\ Sent(v, n, table[m]) /\ Sane(M, v, m)
         /\ \A d \in DOMAIN v : v[d] + told[n][m] <= M * Cardinality(Knowing(table, d))
  <1> DEFINE t == table[n]
             c == told[n]
             R == Mates(n)
  <1>1. m \in R /\ up[n] /\ up[m]
    BY WiredTo
  <1>2. Direct(t, R, c) /\ Informed(n) /\ Sane(M, Dists(t), n) /\ Mails(M, n, k, m)
    BY <1>1 DEF Calm, Routes
  <1>3. DOMAIN c = R /\ \A d \in R : d \in Node /\ c[d] \in Nat /\ c[d] <= M
    <2>1. DOMAIN c = R /\ \A d \in R : c[d] \in Weight
      BY <1>2 DEF Informed
    <2> HIDE DEF c
    <2> QED
      BY <2>1, CostTypes DEF Mates
  <1>4. Sent(v, n, table[m]) /\ Covers(v, t, m, c[m]) /\ Sane(M, v, m)
    BY <1>2 DEF Mails, Mail
  <1>5. \A d \in DOMAIN t : t[d].dist \in Nat
    BY <1>2, DistsOf DEF Sane
  <1>6. ASSUME NEW d \in DOMAIN v
        PROVE  /\ v[d] \in Nat /\ v[d] + c[m] < Half
               /\ v[d] + c[m] <= M * Cardinality(Knowing(table, d))
    <2> DEFINE a == Cardinality(Knowing(table, d)) - 1
               b == Cardinality(Node)
               x == v[d]
               y == c[m]
    <2>1. x \in Nat /\ x <= M * a /\ d \in Node
      BY <1>4 DEF Sane
    <2>2. /\ a \in Nat /\ a + 1 <= b /\ b \in Nat
          /\ Cardinality(Knowing(table, d)) = a + 1
      BY <2>1, KnowingGrows, CostTypes
    <2>3. M \in Nat /\ M * b < Half /\ y \in Nat /\ y <= M /\ Half \in Nat
      BY <1>1, <1>3, CostTypes
    <2> HIDE DEF a, b, x, y
    <2>4. M * (a + 1) = M * a + M /\ M * (a + 1) <= M * b /\ M * a \in Nat /\ M * b \in Nat /\ M * (a + 1) \in Nat
      <3>1. M * (a + 1) = M * a + M
        BY <2>2, <2>3, Times
      <3>2. M * (a + 1) <= M * b
        <4>1. a + 1 \in Nat
          BY <2>2
        <4> QED
          BY <2>2, <2>3, <4>1, Times
      <3>3. M * a \in Nat /\ M * b \in Nat
        BY <2>2, <2>3
      <3> QED
        BY <2>3, <3>1, <3>2, <3>3
    <2> DEFINE e == M * a
               f == M * b
               g == M * (a + 1)
    <2>5. g = e + M /\ g <= f /\ e \in Nat /\ f \in Nat /\ g \in Nat /\ x <= e /\ f < Half
      BY <2>1, <2>3, <2>4
    <2> HIDE DEF e, f, g
    <2>6. x + y <= g /\ x + y < Half
      BY <2>1, <2>3, <2>5
    <2> QED
      BY <2>1, <2>2, <2>6 DEF g, x, y
  <1>7. ASSUME NEW d \in R, d \in DOMAIN v PROVE c[d] <= v[d]
    <2>1. d # m /\ d \in DOMAIN c /\ m \in DOMAIN c
      BY <1>1, <1>3, <1>7
    <2>2. PICK p : Sound(p) /\ p[m] - p[d] >= c[d]
      BY <1>1, <2>1 DEF NoShortcut
    <2>3. p[m] - p[d] <= v[d]
      BY <1>4, <1>7, <2>2 DEF Sane
    <2>4. p[m] \in Nat /\ p[d] \in Nat /\ c[d] \in Nat /\ v[d] \in Nat
      BY <1>3, <1>6, <1>7, <2>2 DEF Sound
    <2> QED
      BY <2>2, <2>3, <2>4
  <1>8. n \notin DOMAIN v /\ t \in Tables(n)
    BY <1>4, TablesWhole DEF Sent
  <1>9. c[m] \in Nat
    BY <1>1, <1>3
  <1> HIDE DEF t, c, R
  <1>10. Improved(Merged(Without(t, E), n, m, v), t, m, v, c[m])
    <2>1. E \subseteq LearnedFrom(t, m)
      BY DEF t
    <2> QED
      BY <1>1, <1>2, <1>4, <1>5, <1>6, <1>7, <1>8, <1>9, <2>1, MergedImproves
  <1> QED
    BY <1>4, <1>6, <1>10 DEF t, c

LEMMA ImprovedIsBetter ==
  ASSUME NEW n \in Node, NEW t \in Tables(n), NEW u \in Tables(n), NEW m, NEW v, NEW cost,
         Improved(u, t, m, v, cost)
  PROVE  Better(Dists(u), Dists(t))
  <1> SUFFICES ASSUME NEW d \in DOMAIN t
               PROVE  d \in DOMAIN u /\ u[d].dist <= t[d].dist
    BY DEF Better, Dists
  <1>1. d \in DOMAIN u /\ t[d].dist \in Int
    BY EntriesWhole DEF Improved
  <1> QED
    BY <1>1 DEF Improved

LEMMA ImprovedRoutes ==
  ASSUME Inv, Inv', NEW M, Calm(M), CostsFit(M), OnlyCheaper, Eased,
         NEW n \in Node, up[n], NEW m \in Mates(n), NEW v,
         told'[n] = told[n], table'[m] = table[m],
         Improved(table'[n], table[n], m, v, told[n][m]),
         Sent(v, n, table[m]), Sane(M, v, m),
         \A d \in DOMAIN v : v[d] + told[n][m] <= M * Cardinality(Knowing(table, d))
  PROVE  Routes(M, n)'
  <1> DEFINE t == table[n]
             u == table'[n]
             cost == told[n][m]
  <1>1. /\ Direct(t, Mates(n), told[n]) /\ Sane(M, Dists(t), n) /\ Informed(n)
        /\ m \in Node /\ m # n /\ Mates(n)' = Mates(n)
    BY MatesAre, MatesStay DEF Calm, Routes
  <1>2. cost \in Nat /\ m \in DOMAIN told[n]
    BY <1>1, WeightTypes DEF Informed
  <1>3. \A d \in DOMAIN v : d \in Node /\ v[d] \in Nat /\ d # n
    BY DEF Sane, Sent
  <1>4. Improved(u, t, m, v, cost)
    OBVIOUS
  <1>5. Direct(u, Mates(n), told[n])
    <2> HIDE DEF t, u, cost
    <2> QED
      BY <1>1, <1>3, <1>4 DEF Direct, Improved
  <1>6. ASSUME NEW d \in DOMAIN u \ Mates(n)
        PROVE  LET h == u[d].nextHop
               IN  d \in DOMAIN table'[h] /\ table'[h][d].dist + told'[n][h] <= u[d].dist
    <2>1. CASE d \in DOMAIN t /\ u[d] = t[d]
      BY <1>6, <2>1, DownEased
    <2>2. CASE d \in DOMAIN v /\ u[d].nextHop = m /\ u[d].dist = v[d] + cost
      <3>1. d \in DOMAIN table[m] /\ table[m][d].dist <= v[d] /\ table[m][d].dist \in Int
        BY <1>1, <2>2, TablesWhole DEF Sent, Better, Dists
      <3>2. v[d] \in Nat
        BY <1>3, <2>2
      <3> QED
        BY <1>2, <2>2, <3>1, <3>2
    <2> QED
      BY <1>4, <1>6, <2>1, <2>2 DEF Improved
  <1>7. Down(n)'
    BY <1>1, <1>6 DEF Down
  <1>8. ASSUME NEW d \in DOMAIN u
        PROVE  /\ d \in Node /\ u[d].dist \in Nat
               /\ u[d].dist <= M * (Cardinality(Knowing(table', d)) - 1)
               /\ \A p : Sound(p)' => p[n] - p[d] <= u[d].dist
    <2>1. CASE d \in DOMAIN t /\ u[d].dist = t[d].dist
      <3>1. PICK f : f = Dists(table[n])
        OBVIOUS
      <3>2. Sane(M, f, n)'
        BY <1>1, <3>1, SaneStays DEF OnlyCheaper
      <3>3. d \in DOMAIN f /\ f[d] = u[d].dist
        BY <2>1, <3>1, DistsOf
      <3> HIDE DEF u, t
      <3> QED
        BY <3>2, <3>3 DEF Sane
    <2>2. CASE /\ d \in DOMAIN v /\ u[d].dist = v[d] + cost
               /\ d \in DOMAIN t => u[d].dist <= t[d].dist
      <3> DEFINE a == Cardinality(Knowing(table, d))
                 b == Cardinality(Knowing(table', d))
      <3>1. d \in Node /\ v[d] \in Nat /\ d # n /\ u[d].dist \in Nat
        BY <1>2, <1>3, <2>2
      <3>2. /\ a \in Nat /\ a >= 1 /\ b \in Nat /\ a <= b /\ M \in Nat
            /\ n \in Knowing(table', d) /\ n \notin Knowing(table, d) => a + 1 <= b
        <4>1. \A x \in Node : DOMAIN table[x] \subseteq DOMAIN table'[x]
          BY EasedAt
        <4> QED
          BY <3>1, <4>1, KnowingGrows, CostTypes
      <3>3. u[d].dist <= M * (b - 1)
        <4>1. CASE d \in DOMAIN t
          <5>1. t[d].dist <= M * (a - 1) /\ t[d].dist \in Nat
            BY <1>1, <4>1, DistsOf DEF Sane
          <5> HIDE DEF a, b, t, u
          <5>2. M * (a - 1) <= M * (b - 1) /\ M * (a - 1) \in Nat /\ M * (b - 1) \in Nat
            <6>1. a - 1 \in Nat /\ b - 1 \in Nat /\ a - 1 <= b - 1
              BY <3>2
            <6> QED
              BY <3>2, <6>1, Times
          <5> QED
            BY <2>2, <3>1, <4>1, <5>1, <5>2
        <4>2. CASE d \notin DOMAIN t
          <5>1. n \in Knowing(table', d) /\ n \notin Knowing(table, d)
            BY <3>1, <4>2 DEF Knowing
          <5>2. u[d].dist <= M * a
            BY <2>2
          <5> HIDE DEF a, b, t, u
          <5>3. M * a <= M * (b - 1) /\ M * a \in Nat /\ M * (b - 1) \in Nat
            <6>1. b - 1 \in Nat /\ a <= b - 1
              BY <3>2, <5>1
            <6> QED
              BY <3>2, <6>1, Times
          <5> QED
            BY <3>1, <5>2, <5>3
        <4> QED
          BY <4>1, <4>2
      <3>4. ASSUME NEW p, Sound(p)' PROVE p[n] - p[d] <= u[d].dist
        <4>1. p[m] - p[d] <= v[d]
          <5>1. Sane(M, v, m)'
            BY <1>1, SaneStays DEF OnlyCheaper
          <5> QED
            BY <2>2, <3>4, <5>1 DEF Sane
        <4>2. p[n] - p[m] <= cost
          BY <1>2, <3>4 DEF Sound, OnlyCheaper
        <4>3. p[n] \in Nat /\ p[m] \in Nat /\ p[d] \in Nat
          BY <1>1, <3>1, <3>4 DEF Sound
        <4> QED
          BY <1>2, <2>2, <3>1, <4>1, <4>2, <4>3
      <3> QED
        BY <3>1, <3>3, <3>4
    <2> QED
      BY <1>4, <2>1, <2>2 DEF Improved
  <1>9. Sane(M, Dists(table[n]), n)'
    BY <1>8, DistsOf DEF Sane
  <1> QED
    BY <1>1, <1>5, <1>7, <1>9 DEF Routes

(***************************************************************************)
(* The first message in the box k of n has the vector v, and rest is what  *)
(* follows it.                                                             *)
(***************************************************************************)
Begins(n, k, v) ==
  net.inbox[n][k] # <<>> /\ 1 \in Said(net.inbox[n][k]) /\ v = net.inbox[n][k][1].vector

Follows(n, k, rest) == rest = Tail(net.inbox[n][k])

(***************************************************************************)
(* The vectors that follow the one just read still respect the table it    *)
(* improved.                                                               *)
(***************************************************************************)
LEMMA RestOfMail ==
  ASSUME Inv, NEW M, NEW n \in Node, NEW k \in Sock, NEW m, NEW v, Begins(n, k, v),
         NEW rest, Follows(n, k, rest), Mails(M, n, k, m), told[n][m] \in Int,
         NEW u, Improved(u, table[n], m, v, told[n][m])
  PROVE  Mail(rest, n, u, m, table[m], told[n][m])
  <1>1. PICK old : old = net.inbox[n][k]
    OBVIOUS
  <1>2. old \in Seq(Message) /\ \A e \in Said(old) : Whole(old[e].vector)
    BY <1>1, BoxesWhole
  <1>3. Mail(old, n, table[n], m, table[m], told[n][m])
    BY <1>1 DEF Mails
  <1>4. old # <<>> /\ 1 \in Said(old) /\ v = old[1].vector /\ rest = Tail(old)
    BY <1>1 DEF Begins, Follows
  <1>5. PICK t, c, a : t = table[n] /\ c = told[n][m] /\ a = table[m]
    OBVIOUS
  <1>6. c \in Int /\ Mail(old, n, t, m, a, c) /\ Improved(u, t, m, old[1].vector, c)
    BY <1>3, <1>4, <1>5
  <1>7. Mail(Tail(old), n, u, m, a, c)
    BY <1>2, <1>4, <1>6, MailRead
  <1> QED
    BY <1>4, <1>5, <1>7

(***************************************************************************)
(* Each of them was already in the box.                                    *)
(***************************************************************************)
LEMMA RestIsSane ==
  ASSUME NEW M, NEW n \in Node, NEW k \in Sock, NEW m, Mails(M, n, k, m),
         Shifted(net'.inbox[n][k], net.inbox[n][k]),
         NEW e \in Said(net'.inbox[n][k]), NEW w, w = net'.inbox[n][k][e].vector
  PROVE  Sane(M, w, m)
  <1>1. PICK old, new : old = net.inbox[n][k] /\ new = net'.inbox[n][k]
    OBVIOUS
  <1>2. Shifted(new, old) /\ e \in Said(new) /\ w = new[e].vector
    BY <1>1
  <1>3. PICK h \in Nat : \A z \in Said(new) : z + h \in Said(old) /\ old[z + h] = new[z]
    BY <1>2 DEF Shifted
  <1>4. e + h \in Said(old) /\ old[e + h].vector = w
    BY <1>2, <1>3
  <1>5. \A z \in Said(old) : Sane(M, old[z].vector, m)
    BY <1>1 DEF Mails
  <1> QED
    BY <1>4, <1>5

LEMMA ImprovingStaysCalm ==
  ASSUME Inv, Inv', NEW M, Calm(M), CostsFit(M), OnlyCheaper, Resting,
         NEW n \in Node, NEW m \in Node \ {n}, NEW k \in Sock, Wired(n, k, m),
         NEW v, Begins(n, k, v), NEW rest, Follows(n, k, rest),
         NEW u \in Tables(n), Improved(u, table[n], m, v, told[n][m]),
         Sent(v, n, table[m]), Sane(M, v, m),
         \A d \in DOMAIN v : v[d] + told[n][m] <= M * Cardinality(Knowing(table, d)),
         table'[n] = u, \A x \in Node \ {n} : table'[x] = table[x], UNCHANGED <<list, told>>,
         net'.inbox[n][k] = rest,
         \A x \in Node, y \in Sock : Shifted(net'.inbox[x][y], net.inbox[x][y])
  PROVE  Calm(M)'
  <1>1. up[n] /\ m \in Mates(n) /\ up' = up
    BY WiredTo DEF OnlyCheaper
  <1>2. \A x \in Node : up[x] => Informed(x)'
    BY InformedStays, WholeRemainder
  <1>3. Eased
    <2>1. Better(Dists(u), Dists(table[n]))
      <3>1. table[n] \in Tables(n)
        BY TablesWhole
      <3>2. PICK t, c : t = table[n] /\ c = told[n][m]
        OBVIOUS
      <3>3. t \in Tables(n) /\ Improved(u, t, m, v, c)
        BY <3>1, <3>2
      <3>4. Better(Dists(u), Dists(t))
        BY <3>3, ImprovedIsBetter
      <3> QED
        BY <3>2, <3>4
    <2>2. ASSUME NEW x \in Node PROVE Better(Dists(table'[x]), Dists(table[x]))
      <3>1. CASE x = n
        BY <2>1, <3>1
      <3>2. CASE x # n
        <4>1. table'[x] = table[x] /\ Whole(Dists(table[x]))
          BY <3>2, TablesWhole
        <4> QED
          BY <4>1 DEF Better, Whole
      <3> QED
        BY <3>1, <3>2
    <2>3. ASSUME NEW x \in Node, up[x], NEW y \in DOMAIN told[x] PROVE told[x][y] \in Nat
      BY <2>3, WeightTypes DEF Calm, Informed
    <2>4. ASSUME NEW x \in Node, up[x]
          PROVE  /\ DOMAIN told'[x] = DOMAIN told[x]
                 /\ \A y \in DOMAIN told[x] : told'[x][y] \in Nat /\ told'[x][y] <= told[x][y]
      BY <2>3, <2>4
    <2> QED
      BY <2>2, <2>4 DEF Eased
  <1>4. ASSUME NEW x \in Node, up[x] PROVE Routes(M, x)'
    <2>1. CASE x = n
      <3>1. Improved(table'[n], table[n], m, v, told[n][m]) /\ told'[n] = told[n] /\ table'[m] = table[m]
        OBVIOUS
      <3>2. Routes(M, n)'
        BY <1>1, <1>3, <3>1, ImprovedRoutes
      <3> QED
        BY <2>1, <3>2
    <2>2. CASE x # n
      BY <1>3, <1>4, <2>2, RoutesStay
    <2> QED
      BY <2>1, <2>2
  <1>5. ASSUME NEW x \in Node, NEW q \in Node, NEW y \in Sock, Wired(x, y, q), <<x, y>> # <<n, k>>
        PROVE  Mails(M, x, y, q)'
    <2>1. ASSUME NEW d \in DOMAIN table'[x], d # q, table'[x][d].nextHop = q
          PROVE  d \in DOMAIN table[x] /\ table[x][d].nextHop = q /\ table[x][d].dist <= table'[x][d].dist
      <3>1. CASE x = n
        <4>1. q # m
          BY <1>5, <3>1 DEF Calm, Peaceful
        <4>2. d \in DOMAIN table[n] /\ u[d] = table[n][d]
          BY <2>1, <3>1, <4>1 DEF Improved
        <4>3. table[n][d].dist \in Int
          BY <4>2, TablesWhole
        <4> QED
          BY <2>1, <3>1, <4>2, <4>3
      <3>2. CASE x # n
        <4>1. table'[x] = table[x]
          BY <3>2
        <4>2. table[x][d].dist \in Int
          BY <2>1, <4>1, TablesWhole
        <4> QED
          BY <2>1, <4>1, <4>2
      <3> QED
        BY <3>1, <3>2
    <2> QED
      BY <1>3, <1>5, <2>1, MailsStay
  <1>6. Mails(M, n, k, m)
    BY DEF Calm
  <1>7. Mail(net'.inbox[n][k], n, table'[n], m, table'[m], told'[n][m])
    <2>1. told[n][m] \in Int
      <3>1. told[n][m] \in Weight
        BY <1>1 DEF Calm, Informed
      <3> QED
        BY <3>1, WeightTypes
    <2>2. Mail(rest, n, u, m, table[m], told[n][m])
      BY <1>6, <2>1, RestOfMail
    <2>3. table'[m] = table[m] /\ told' = told
      OBVIOUS
    <2> QED
      BY <2>2, <2>3
  <1>8. ASSUME NEW e \in Said(net'.inbox[n][k]) PROVE Sane(M, net.inbox[n][k][e].vector, m)'
    <2>1. PICK w : w = net'.inbox[n][k][e].vector
      OBVIOUS
    <2>2. Shifted(net'.inbox[n][k], net.inbox[n][k])
      OBVIOUS
    <2>3. Sane(M, w, m)
      BY <1>6, <2>1, <2>2, RestIsSane
    <2>4. Sane(M, w, m)'
      BY <1>1, <1>3, <2>3, SaneStays
    <2> QED
      BY <2>1, <2>4
  <1>9. Mails(M, n, k, m)'
    BY <1>7, <1>8 DEF Mails
  <1>10. ASSUME NEW x \in Node, NEW q \in Node, NEW y \in Sock, Wired(x, y, q)
         PROVE  Mails(M, x, y, q)'
    <2>1. CASE <<x, y>> = <<n, k>>
      <3>1. x = n /\ y = k /\ q = m
        BY <1>10, <2>1 DEF Wired
      <3> QED
        BY <1>9, <3>1
    <2>2. CASE <<x, y>> # <<n, k>>
      BY <1>5, <1>10, <2>2
    <2> QED
      BY <2>1, <2>2
  <1> QED
    BY <1>2, <1>4, <1>10, CalmAgain

(***************************************************************************)
(* N is net, but rest is what is left in the box k of n.                   *)
(***************************************************************************)
Taken(N, n, k, rest) ==
  /\ N \in Nets /\ N.peer = net.peer /\ N.backlog = net.backlog
  /\ \A x \in Node, y \in Sock :
       N.inbox[x][y] = IF <<x, y>> = <<n, k>> THEN rest ELSE net.inbox[x][y]

LEMMA BoxTaken ==
  ASSUME net \in Nets, NEW n \in Node, NEW k \in Sock, NEW rest \in Seq(Message),
         NEW N, N = WithBox(net, n, k, rest)
  PROVE  Taken(N, n, k, rest)
  BY BoxShape DEF Taken

LEMMA TakenAt ==
  ASSUME NEW N, NEW n \in Node, NEW k \in Sock, NEW rest, Taken(N, n, k, rest)
  PROVE  /\ N \in Nets /\ N.peer = net.peer /\ N.backlog = net.backlog /\ N.inbox[n][k] = rest
         /\ \A x \in Node, y \in Sock : <<x, y>> # <<n, k>> => N.inbox[x][y] = net.inbox[x][y]
  BY DEF Taken

LEMMA AnswerIsNoVector == VectorOk.type # "vector"
  BY DEF VectorOk

(***************************************************************************)
(* A vector of m was read from the box k of n, and is answered.            *)
(***************************************************************************)
LEMMA AnsweredCalmly ==
  ASSUME Inv, NEW M, Calm(M), up' = up, known' = known, NEW n \in Node, up[n],
         NEW m \in Node \ {n}, NEW k \in Sock,
         NEW rest \in Seq(Message), Shifted(rest, net.inbox[n][k]),
         NEW u \in Tables(n), OldClients(u, table[n]), m \in DOMAIN u,
         NEW N, Taken(N, n, k, rest), Sends(n, u, u[m].client, VectorOk, N)
  PROVE  /\ Resting /\ net'.inbox[n][k] = rest /\ UNCHANGED <<list, told>>
         /\ table'[n] = u /\ \A x \in Node \ {n} : table'[x] = table[x]
         /\ \A x \in Node, y \in Sock : Shifted(net'.inbox[x][y], net.inbox[x][y])
  <1>1. /\ N \in Nets /\ N.peer = net.peer /\ N.backlog = net.backlog /\ N.inbox[n][k] = rest
        /\ \A x \in Node, y \in Sock : <<x, y>> # <<n, k>> => N.inbox[x][y] = net.inbox[x][y]
    BY TakenAt
  <1>2. VectorOk \in Message /\ VectorOk.type # "vector"
    <2>1. VectorOk \in Message
      BY SaidByOwner
    <2> QED
      BY <2>1, AnswerIsNoVector
  <1>3. PICK l \in Sock : /\ Wired(n, l, m) /\ net' = Write(N, n, l, VectorOk)
                          /\ table' = [table EXCEPT ![n] = u]
                          /\ UNCHANGED <<clients, list, told, moved, borrowed>>
    <2>1. N \in Nets /\ N.peer = net.peer
      BY <1>1
    <2>2. VectorOk \in Message
      BY <1>2
    <2> QED
      BY <2>1, <2>2, SendsCalmly
  <1>4. table'[n] = u /\ \A x \in Node \ {n} : table'[x] = table[x]
    BY <1>3 DEF Inv, Fields
  <1>5. PICK j \in Sock : net.peer[n][l] = <<m, j>>
    BY <1>3 DEF Wired
  <1>6. Writes(net', N, m, j, VectorOk)
    <2>1. N.peer[n][l] = <<m, j>> /\ N \in Nets
      BY <1>1, <1>5
    <2>2. VectorOk \in Message /\ net' = Write(N, n, l, VectorOk)
      BY <1>2, <1>3
    <2> QED
      BY <2>1, <2>2, WrittenAt
  <1>7. /\ net'.peer = net.peer /\ net'.backlog = net.backlog
        /\ \A x \in Node, y \in Sock :
             net'.inbox[x][y] = IF <<m, j>> = <<x, y>> THEN Append(N.inbox[x][y], VectorOk)
                                ELSE N.inbox[x][y]
    <2>1. N.peer = net.peer /\ N.backlog = net.backlog
      BY <1>1
    <2> QED
      BY <1>6, <2>1 DEF Writes
  <1>8. ASSUME NEW x \in Node, NEW y \in Sock PROVE Shifted(net'.inbox[x][y], net.inbox[x][y])
    <2>1. CASE <<x, y>> = <<n, k>>
      <3>1. <<m, j>> # <<x, y>> /\ x = n /\ y = k
        BY <2>1
      <3>2. net'.inbox[x][y] = rest
        BY <1>1, <1>7, <2>1, <3>1
      <3> QED
        BY <3>1, <3>2
    <2>2. CASE <<x, y>> = <<m, j>>
      <3>1. N.inbox[x][y] = net.inbox[x][y]
        <4>1. <<n, k>> # <<x, y>>
          BY <2>2
        <4> QED
          BY <1>1, <4>1
      <3>2. net'.inbox[x][y] = Append(N.inbox[x][y], VectorOk)
        BY <1>7, <2>2
      <3>3. net'.inbox[x][y] = Append(net.inbox[x][y], VectorOk)
        BY <3>1, <3>2
      <3>4. net.inbox[x][y] \in Seq(Message)
        BY BoxesWhole
      <3> QED
        BY <1>2, <3>3, <3>4, ShiftedAnswered
    <2>3. CASE <<x, y>> # <<n, k>> /\ <<x, y>> # <<m, j>>
      <3>1. N.inbox[x][y] = net.inbox[x][y]
        BY <1>1, <2>3
      <3>2. net'.inbox[x][y] = N.inbox[x][y]
        BY <1>7, <2>3
      <3>3. net'.inbox[x][y] = net.inbox[x][y]
        BY <3>1, <3>2
      <3> QED
        BY <3>3, BoxesWhole, ShiftedSame
    <2> QED
      BY <2>1, <2>2, <2>3
  <1>9. net'.inbox[n][k] = rest
    <2>1. <<m, j>> # <<n, k>>
      OBVIOUS
    <2> QED
      BY <1>1, <1>7, <2>1
  <1>10. Resting
    BY <1>3, <1>7 DEF Resting
  <1>11. UNCHANGED <<list, told>>
    BY <1>3
  <1> QED
    BY <1>4, <1>8, <1>9, <1>10, <1>11

LEMMA MergingStaysCalm ==
  ASSUME Inv, Inv', NoShortcut, NEW M, Calm(M), CostsFit(M), OnlyCheaper, known' = known,
         NEW n \in Node, NEW m \in Node \ {n}, NEW k \in Sock, Wired(n, k, m),
         NEW v \in Vectors, Begins(n, k, v), m \notin DOMAIN v,
         NEW rest \in Seq(Message), Follows(n, k, rest), Shifted(rest, net.inbox[n][k]),
         NEW t \in Tables(n), t = table[n], NEW E \in ErasedByLoop(t, LearnedFrom(t, m)),
         NEW u, u = Merged(Without(t, E), n, m, v),
         NEW N, Taken(N, n, k, rest), Sends(n, u, u[m].client, VectorOk, N)
  PROVE  Calm(M)'
  <1>1. up[n] /\ m \in Mates(n) /\ up' = up
    BY WiredTo DEF OnlyCheaper
  <1>2. /\ Improved(u, t, m, v, told[n][m]) /\ Sent(v, n, table[m]) /\ Sane(M, v, m)
        /\ \A d \in DOMAIN v : v[d] + told[n][m] <= M * Cardinality(Knowing(table, d))
    <2>1. E \subseteq LearnedFrom(t, m)
      BY DEF ErasedByLoop
    <2>2. 1 \in Said(net.inbox[n][k]) /\ v = net.inbox[n][k][1].vector
      BY DEF Begins
    <2> QED
      BY <2>1, <2>2, ReadImproves
  <1>3. m \in DOMAIN t /\ m \in DOMAIN u
    <2>1. m \in DOMAIN t
      BY <1>1 DEF Calm, Routes, Direct
    <2> QED
      BY <1>2, <2>1 DEF Improved
  <1>4. u \in Tables(n) /\ OldClients(u, t)
    <2>1. m \in Name \ {n} /\ Touched(t, m) = t
      BY <1>3 DEF Name, Touched
    <2> QED
      BY <2>1, VectorTable
  <1>5. /\ Resting /\ net'.inbox[n][k] = rest /\ UNCHANGED <<list, told>>
        /\ table'[n] = u /\ \A x \in Node \ {n} : table'[x] = table[x]
        /\ \A x \in Node, y \in Sock : Shifted(net'.inbox[x][y], net.inbox[x][y])
    <2>1. up[n] /\ up' = up
      BY <1>1
    <2>2. OldClients(u, table[n]) /\ u \in Tables(n) /\ m \in DOMAIN u
      BY <1>3, <1>4
    <2> QED
      BY <2>1, <2>2, AnsweredCalmly
  <1>6. Improved(u, table[n], m, v, told[n][m])
    BY <1>2
  <1> QED
    BY <1>2, <1>4, <1>5, <1>6, ImprovingStaysCalm

(***************************************************************************)
(* Something that is no vector is read from m.                             *)
(***************************************************************************)
Ignored(n, m, N) ==
  /\ table' = table \/ table' = [table EXCEPT ![n] = Touched(table[n], m)]
  /\ net' = N /\ UNCHANGED <<up, clients, list, told, moved, borrowed>>

LEMMA ReceiveStaysCalm ==
  ASSUME Inv, Inv', NoShortcut, NEW M, Calm(M), CostsFit(M), OnlyCheaper, NEW n \in Node, NEW i,
         Receive(n, i)
  PROVE  Calm(M)'
  <1>1. up[n] /\ i \in 2..clients[n].nb /\ up' = up /\ known' = known
    BY Zenon DEF Receive, OnlyCheaper, controller
  <1>2. PICK m, k : m = clients[n].slot[i].id /\ k = clients[n].slot[i].sock
    OBVIOUS
  <1>3. m \in Mates(n) /\ m \in Node \ {n} /\ m \in Name \ {n} /\ k \in Sock /\ Wired(n, k, m)
    BY <1>1, <1>2, ClientWired, MatesAre DEF Name
  <1>4. PICK old : old = net.inbox[n][k]
    OBVIOUS
  <1>5. old \in Seq(Message)
    BY <1>3, <1>4, BoxesWhole
  <1>6. PICK x : x = Head(old)
    OBVIOUS
  <1>7. PICK N : N = WithBox(net, n, k, Tail(old))
    OBVIOUS
  <1>8. PICK t : t = table[n]
    OBVIOUS
  <1>9. /\ old # <<>>
        /\ \/ x.type = "vector" /\ VectorRead(n, m, x.vector, N)
           \/ Ignored(n, m, N)
    BY <1>2, <1>4, <1>6, <1>7, Zenon DEF Receive, Ignored
  <1>10. Tail(old) \in Seq(Message) /\ Shifted(Tail(old), old) /\ x = old[1] /\ 1 \in DOMAIN old
    <2>1. Remains(Tail(old), old) /\ Head(old) = old[1] /\ 1 \in DOMAIN old
      BY <1>5, <1>9, TailRemains
    <2>2. Shifted(Tail(old), old)
      BY <1>5, <1>9, ShiftedTail
    <2>3. Tail(old) \in Seq(Message)
      BY <2>1 DEF Remains
    <2> QED
      BY <1>6, <2>1, <2>2, <2>3
  <1>11. t \in Tables(n) /\ m \in DOMAIN t /\ Touched(t, m) = t
    <2>1. m \in DOMAIN t
      BY <1>1, <1>3, <1>8 DEF Calm, Routes, Direct
    <2> QED
      BY <1>8, <2>1, TablesWhole DEF Touched
  <1>12. CASE x.type = "vector" /\ VectorRead(n, m, x.vector, N)
    <2>1. PICK v : v = x.vector
      OBVIOUS
    <2>2. 1 \in Said(old) /\ v = old[1].vector
      BY <1>10, <1>12, <2>1 DEF Said
    <2>3. v \in Vectors /\ m \notin DOMAIN v
      <3>1. clients[n].slot[i].sock = k /\ clients[n].slot[i].id = m /\ m \in Node
        BY <1>2, <1>3
      <3>2. net.inbox[n][k] # <<>> /\ Head(net.inbox[n][k]).type = "vector" /\ Head(net.inbox[n][k]).vector = v
        BY <1>4, <1>6, <1>9, <1>12, <2>1
      <3>3. clients[n].slot[i].sock \notin borrowed[n]
        BY DEF Calm, Peaceful
      <3> QED
        BY <1>1, <3>1, <3>2, <3>3, VectorFrom
    <2>4. ~Ends(n, N)
      BY <1>1 DEF Ends, Inv, Fields
    <2>5. PICK E \in ErasedByLoop(t, LearnedFrom(t, m)) :
            LET u == Merged(Without(t, E), n, m, v) IN Sends(n, u, u[m].client, VectorOk, N)
      BY <1>8, <1>11, <1>12, <2>1, <2>4 DEF VectorRead
    <2>6. PICK u : u = Merged(Without(t, E), n, m, v)
      OBVIOUS
    <2>7. Sends(n, u, u[m].client, VectorOk, N)
      BY <2>5, <2>6
    <2>8. PICK rest : rest = Tail(old)
      OBVIOUS
    <2>9. rest \in Seq(Message) /\ Shifted(rest, net.inbox[n][k]) /\ Follows(n, k, rest)
      BY <1>4, <1>10, <2>8 DEF Follows
    <2>10. Begins(n, k, v)
      BY <1>4, <1>9, <2>2 DEF Begins
    <2>11. Taken(N, n, k, rest)
      <3>1. net \in Nets /\ N = WithBox(net, n, k, rest)
        BY <1>7, <2>8 DEF Inv, IsNet
      <3> QED
        BY <1>3, <2>9, <3>1, BoxTaken
    <2> QED
      BY <1>1, <1>3, <1>8, <1>11, <2>3, <2>6, <2>7, <2>9, <2>10, <2>11, MergingStaysCalm
  <1>13. CASE Ignored(n, m, N)
    <2>1. \A y \in Node : table'[y] = table[y]
      <3>1. CASE table' = [table EXCEPT ![n] = Touched(table[n], m)]
        BY <1>8, <1>11, <3>1 DEF Inv, Fields
      <3>2. CASE table' = table
        BY <3>2
      <3> QED
        BY <1>13, <3>1, <3>2 DEF Ignored
    <2>2. PICK box : box = Tail(old)
      OBVIOUS
    <2>3. box \in Seq(Message) /\ Shifted(box, net.inbox[n][k]) /\ net' = WithBox(net, n, k, box)
      BY <1>4, <1>7, <1>10, <1>13, <2>2 DEF Ignored
    <2> QED
      BY <1>1, <1>3, <1>13, <2>1, <2>3, LosingStaysCalm DEF Ignored
  <1> QED
    BY <1>9, <1>12, <1>13

LEMMA CoalescedStaysCalm ==
  ASSUME Inv, Inv', NEW M, Calm(M), CostsFit(M), OnlyCheaper, NEW n \in Node, NEW i, Coalesced(n, i)
  PROVE  Calm(M)'
  <1>1. up[n] /\ i \in 2..clients[n].nb /\ up' = up /\ known' = known
    BY Zenon DEF Coalesced, OnlyCheaper, controller
  <1>2. PICK k : k = clients[n].slot[i].sock
    OBVIOUS
  <1>3. k \in Sock
    BY <1>1, <1>2, ClientWired
  <1>4. PICK old : old = net.inbox[n][k]
    OBVIOUS
  <1>5. old \in Seq(Message)
    BY <1>3, <1>4, BoxesWhole
  <1>6. ~Ends(n, net)
    BY <1>1 DEF Ends, Inv, Fields
  <1>7. PICK j \in 2..Len(old) : /\ net' = WithBox(net, n, k, SubSeq(old, j + 1, Len(old)))
                                 /\ UNCHANGED <<up, table, clients, list, told, moved, borrowed>>
    <2>1. \E j \in 2..Len(old) :
            \/ /\ net' = WithBox(net, n, k, SubSeq(old, j + 1, Len(old)))
               /\ UNCHANGED <<up, table, clients, list, told, moved, borrowed>>
            \/ Ends(n, net)
      BY <1>2, <1>4, Zenon DEF Coalesced
    <2> QED
      BY <1>6, <2>1
  <1>8. PICK box : box = SubSeq(old, j + 1, Len(old))
    OBVIOUS
  <1>9. j \in 1..Len(old)
    BY <1>5
  <1>10. box \in Seq(Message) /\ Shifted(box, net.inbox[n][k])
    BY <1>4, <1>5, <1>8, <1>9, ShiftedRest
  <1> QED
    BY <1>1, <1>3, <1>7, <1>8, <1>10, LosingStaysCalm

(***************************************************************************)
(* A list: it opens and closes nothing, and changes the cost of neighbours *)
(* alone.                                                                  *)
(***************************************************************************)
LEMMA OpensNothing ==
  ASSUME NEW n \in Node, NEW L, DOMAIN L \subseteq DOMAIN table[n]
  PROVE  Opens(n, L) = [ok |-> TRUE, clients |-> clients[n], net |-> net, table |-> table[n]]
  <1> DEFINE H == Highest
             base == [ok |-> TRUE, clients |-> clients[n], net |-> net, table |-> table[n]]
             G(f) == [s \in 0..H |-> IF s = 0 THEN base
                                     ELSE IF s \in DOMAIN L \ DOMAIN table[n] THEN OpensOne(n, L, f[s - 1], s)
                                     ELSE f[s - 1]]
             still == [s \in 0..H |-> base]
             run == Opening(n, L)
  <1>1. H \in Nat /\ H \in 0..H
    BY HighestIsNode
  <1>2. \A s : ~(s \in DOMAIN L \ DOMAIN table[n])
    OBVIOUS
  <1> HIDE DEF H, base
  <1>3. still = G(still)
    <2>1. ASSUME NEW s \in 0..H, s # 0 PROVE s - 1 \in 0..H
      BY <1>1, <2>1
    <2> QED
      BY <1>2, <2>1
  <1> HIDE DEF still
  <1>4. run = G(run)
    BY <1>3, Zenon DEF Opening, H, base
  <1> HIDE DEF run
  <1>5. run[0] = base /\ \A s \in 1..H : run[s] = run[s - 1]
    <2>1. ASSUME NEW g, g = G(g) PROVE g[0] = base /\ \A s \in 1..H : g[s] = g[s - 1]
      BY <1>1, <1>2, <2>1
    <2> QED
      BY <1>4, <2>1
  <1> DEFINE R == {s \in 0..H : run[s] = base}
  <1>6. 0 \in R
    BY <1>1, <1>5
  <1>7. ASSUME NEW s \in 0..(H - 1), s \in R PROVE s + 1 \in R
    <2>1. s + 1 \in 1..H /\ s + 1 \in 0..H /\ (s + 1) - 1 = s /\ run[s] = base
      BY <1>1, <1>7
    <2> QED
      BY <1>5, <2>1
  <1>8. H \in R
    <2> HIDE DEF R
    <2>1. 0..H \subseteq R
      BY <1>1, <1>6, <1>7, BoundedInduction
    <2> QED
      BY <1>1, <2>1
  <1> QED
    BY <1>8 DEF Opens, run, H, base

LEMMA ClosesNothing ==
  ASSUME NEW n \in Node, NEW h
  PROVE  Closes(n, h, {}) = h
  <1> DEFINE H == Highest
             G(f) == [s \in 0..H |-> IF s = 0 THEN h ELSE IF s \in {} THEN ClosesOne(n, f[s - 1], s)
                                     ELSE f[s - 1]]
             still == [s \in 0..H |-> h]
             run == Closing(n, h, {})
  <1>1. H \in Nat /\ H \in 0..H
    BY HighestIsNode
  <1> HIDE DEF H
  <1>2. still = G(still)
    <2>1. ASSUME NEW s \in 0..H, s # 0 PROVE s - 1 \in 0..H
      BY <1>1, <2>1
    <2> QED
      BY <2>1
  <1> HIDE DEF still
  <1>3. run = G(run)
    BY <1>2, Zenon DEF Closing, H
  <1> HIDE DEF run
  <1>4. run[0] = h /\ \A s \in 1..H : run[s] = run[s - 1]
    <2>1. ASSUME NEW g, g = G(g) PROVE g[0] = h /\ \A s \in 1..H : g[s] = g[s - 1]
      BY <1>1, <2>1
    <2> QED
      BY <1>3, <2>1
  <1> DEFINE R == {s \in 0..H : run[s] = h}
  <1>5. 0 \in R
    BY <1>1, <1>4
  <1>6. ASSUME NEW s \in 0..(H - 1), s \in R PROVE s + 1 \in R
    <2>1. s + 1 \in 1..H /\ s + 1 \in 0..H /\ (s + 1) - 1 = s /\ run[s] = h
      BY <1>1, <1>6
    <2> QED
      BY <1>4, <2>1
  <1>7. H \in R
    <2> HIDE DEF R
    <2>1. 0..H \subseteq R
      BY <1>1, <1>5, <1>6, BoundedInduction
    <2> QED
      BY <1>1, <2>1
  <1> QED
    BY <1>7 DEF Closes, run, H

(***************************************************************************)
(* The table t as the list L leaves it.                                    *)
(***************************************************************************)
Relisted(u, t, L) ==
  /\ DOMAIN u = DOMAIN t
  /\ \A d \in DOMAIN t : /\ u[d].near = t[d].near /\ u[d].full = t[d].full
                         /\ u[d].nextHop = t[d].nextHop
                         /\ u[d].dist = IF d \in DOMAIN L THEN L[d] ELSE t[d].dist

LEMMA ConfirmsRelists ==
  ASSUME NEW n \in Node, NEW t \in Tables(n), NEW L \in List, DOMAIN L \subseteq DOMAIN t,
         \A d \in DOMAIN L : t[d].full
  PROVE  /\ Confirms(t, L, DOMAIN L) \in Tables(n) /\ Relisted(Confirms(t, L, DOMAIN L), t, L)
  <1> DEFINE u == Confirms(t, L, DOMAIN L)
  <1>1. /\ u \in Tables(n) /\ DOMAIN u = DOMAIN t /\ \A s \in DOMAIN L : u[s].dist = L[s]
        /\ \A s \in DOMAIN t \ DOMAIN L : u[s] = t[s]
    BY ConfirmsKeeps
  <1>2. ASSUME NEW s \in DOMAIN L
        PROVE  u[s].near = t[s].near /\ u[s].full = t[s].full /\ u[s].nextHop = t[s].nextHop
    <2> DEFINE e == t[s]
               cost == L[s]
    <2>1. s \in DOMAIN t /\ e \in Entries /\ e.full
      BY TableTypes
    <2>2. u[s] = Confirmed(t, s, cost)[s]
      BY <2>1 DEF Confirms
    <2>3. Confirmed(t, s, cost) = [t EXCEPT ![s] = [e EXCEPT !.dist = cost]]
      BY <2>1 DEF Confirmed
    <2>4. u[s] = [e EXCEPT !.dist = cost]
      BY <2>1, <2>2, <2>3
    <2> HIDE DEF e, cost, u
    <2> QED
      BY <2>1, <2>4 DEF Entries, e
  <1> HIDE DEF u
  <1> QED
    BY <1>1, <1>2 DEF Relisted, u

(***************************************************************************)
(* L is the list that n reads next.                                        *)
(***************************************************************************)
Comes(n, L) == list[n] # <<>> /\ L = Head(list[n])

LEMMA FirstListed ==
  ASSUME Inv, NEW M, Calm(M), NEW n \in Node, up[n], NEW L, Comes(n, L)
  PROVE  /\ L \in List /\ DOMAIN L = Mates(n)
         /\ \A m \in Mates(n) : weight[{m, n}] <= L[m] /\ L[m] <= told[n][m]
         /\ \A i \in DOMAIN Tail(list[n]) :
              /\ i \in Nat /\ i + 1 \in DOMAIN list[n] /\ Tail(list[n])[i] = list[n][i + 1]
              /\ \A m \in Mates(n) : Tail(list[n])[i][m] <= L[m]
  <1>1. PICK q : q = list[n]
    OBVIOUS
  <1>2. q \in Seq(Lists(n)) /\ q # <<>> /\ L = Head(q)
    BY <1>1 DEF Inv, Station, Comes
  <1>3. /\ 1 \in DOMAIN q /\ L = q[1] /\ L \in Lists(n)
        /\ \A i \in DOMAIN Tail(q) : i \in Nat /\ i >= 1 /\ i + 1 \in DOMAIN q /\ Tail(q)[i] = q[i + 1]
    <2>1. /\ Len(q) \in Nat /\ Len(q) >= 1 /\ DOMAIN q = 1..Len(q) /\ Tail(q) \in Seq(Lists(n))
          /\ Len(Tail(q)) = Len(q) - 1 /\ \A i \in 1..(Len(q) - 1) : Tail(q)[i] = q[i + 1]
      BY <1>2
    <2>2. DOMAIN Tail(q) = 1..(Len(q) - 1)
      BY <2>1
    <2>3. L = q[1] /\ L \in Lists(n)
      BY <1>2
    <2> QED
      BY <2>1, <2>2, <2>3
  <1>4. Informed(n)
    BY DEF Calm
  <1>5. /\ DOMAIN L = Mates(n)
        /\ \A m \in Mates(n) : weight[{m, n}] <= L[m] /\ L[m] <= told[n][m]
    BY <1>1, <1>3, <1>4 DEF Informed
  <1>6. ASSUME NEW i \in DOMAIN Tail(q), NEW m \in Mates(n) PROVE Tail(q)[i][m] <= L[m]
    <2>1. 1 < i + 1 /\ i + 1 \in DOMAIN q
      BY <1>3
    <2>2. q[i + 1][m] <= q[1][m]
      BY <1>1, <1>3, <1>4, <2>1 DEF Informed
    <2> QED
      BY <1>3, <2>2
  <1> QED
    BY <1>1, <1>3, <1>5, <1>6 DEF Lists

LEMMA RelistedRoutes ==
  ASSUME Inv, Inv', NEW M, Calm(M), CostsFit(M), OnlyCheaper, Eased,
         NEW n \in Node, up[n], NEW L, Comes(n, L),
         Relisted(table'[n], table[n], L), told'[n] = L
  PROVE  Routes(M, n)'
  <1> DEFINE t == table[n]
             u == table'[n]
             c == told[n]
             R == Mates(n)
  <1>1. /\ Direct(t, R, c) /\ Sane(M, Dists(t), n) /\ Informed(n) /\ Mates(n)' = R
        /\ Relisted(u, t, L)
    BY MatesStay DEF Calm, Routes
  <1>2. /\ DOMAIN L = R /\ DOMAIN c = R /\ \A d \in R : d \in Node /\ L[d] \in Nat /\ L[d] <= c[d] /\ c[d] \in Nat
    <2>1. DOMAIN L = R /\ DOMAIN c = R /\ \A d \in R : L[d] <= c[d] /\ c[d] \in Weight
      BY <1>1, FirstListed DEF Informed
    <2>2. \A d \in R : d \in Node
      BY DEF Mates
    <2>3. L \in List
      BY FirstListed
    <2> HIDE DEF R, c
    <2>4. \A d \in R : L[d] \in Weight
      BY <2>1, <2>3 DEF List
    <2> QED
      BY <2>1, <2>2, <2>4, WeightTypes
  <1> HIDE DEF R
  <1>3. Direct(u, R, L)
    <2> HIDE DEF t, u, c
    <2> QED
      BY <1>1, <1>2 DEF Direct, Relisted
  <1>4. ASSUME NEW d \in DOMAIN u \ R
        PROVE  LET h == u[d].nextHop
               IN  d \in DOMAIN table'[h] /\ table'[h][d].dist + told'[n][h] <= u[d].dist
    <2>1. d \in DOMAIN t /\ u[d].nextHop = t[d].nextHop /\ u[d].dist = t[d].dist
      BY <1>1, <1>2, <1>4 DEF Relisted
    <2> QED
      BY <1>4, <2>1, DownEased DEF R
  <1>5. Down(n)'
    BY <1>1, <1>4 DEF Down
  <1>6. ASSUME NEW d \in DOMAIN u
        PROVE  /\ d \in Node /\ u[d].dist \in Nat
               /\ u[d].dist <= M * (Cardinality(Knowing(table', d)) - 1)
               /\ \A p : Sound(p)' => p[n] - p[d] <= u[d].dist
    <2>1. PICK f : f = Dists(table[n])
      OBVIOUS
    <2>2. Sane(M, f, n)'
      BY <1>1, <2>1, SaneStays DEF OnlyCheaper
    <2>3. d \in DOMAIN f /\ f[d] = t[d].dist
      BY <1>1, <2>1, DistsOf DEF Relisted
    <2> DEFINE top == M * (Cardinality(Knowing(table', d)) - 1)
    <2>4. d \in Node /\ f[d] \in Nat /\ f[d] <= top /\ \A p : Sound(p)' => p[n] - p[d] <= f[d]
      BY <2>2, <2>3 DEF Sane
    <2>5. CASE d \in R
      <3>1. u[d].dist = L[d] /\ f[d] = c[d]
        BY <1>1, <1>2, <2>3, <2>5 DEF Relisted, Direct
      <3>2. L[d] \in Nat /\ c[d] \in Nat /\ L[d] <= c[d]
        BY <1>2, <2>5
      <3>3. u[d].dist <= top
        <4>1. top \in Int
          <5>1. Cardinality(Knowing(table', d)) \in Nat /\ M \in Nat
            BY <2>4, KnowingGrows, CostTypes
          <5> QED
            BY <5>1
        <4> HIDE DEF top
        <4> QED
          BY <2>4, <3>1, <3>2, <4>1
      <3>4. ASSUME NEW p, Sound(p)' PROVE p[n] - p[d] <= u[d].dist
        <4>1. d \in DOMAIN told'[n] /\ up'[n] /\ told'[n][d] = L[d]
          BY <1>2, <2>5 DEF OnlyCheaper
        <4> QED
          BY <3>1, <3>4, <4>1 DEF Sound
      <3> QED
        BY <2>4, <3>1, <3>2, <3>3, <3>4
    <2>6. CASE d \notin R
      <3>1. u[d].dist = f[d]
        BY <1>1, <1>2, <2>3, <2>6 DEF Relisted
      <3> QED
        BY <2>4, <3>1
    <2> QED
      BY <2>5, <2>6
  <1>7. Sane(M, Dists(table[n]), n)'
    BY <1>6, DistsOf DEF Sane
  <1> QED
    BY <1>1, <1>3, <1>5, <1>7 DEF Routes

LEMMA ListingStaysCalm ==
  ASSUME Inv, Inv', NEW M, Calm(M), CostsFit(M), OnlyCheaper, Resting,
         NEW n \in Node, up[n], NEW L, Comes(n, L),
         Relisted(table'[n], table[n], L), told'[n] = L, list'[n] = Tail(list[n]),
         \A x \in Node \ {n} : table'[x] = table[x] /\ told'[x] = told[x] /\ list'[x] = list[x],
         UNCHANGED <<net, weight>>
  PROVE  Calm(M)'
  <1>1. Informed(n) /\ Mates(n)' = Mates(n) /\ Direct(table[n], Mates(n), told[n])
    BY MatesStay DEF Calm, Routes
  <1>2. /\ DOMAIN L = Mates(n) /\ DOMAIN told[n] = Mates(n)
        /\ \A m \in Mates(n) : /\ weight[{m, n}] <= L[m] /\ L[m] <= told[n][m]
                               /\ L[m] \in Weight /\ told[n][m] \in Weight
    <2>1. /\ L \in List /\ DOMAIN L = Mates(n)
          /\ \A m \in Mates(n) : weight[{m, n}] <= L[m] /\ L[m] <= told[n][m]
      BY FirstListed
    <2> QED
      BY <1>1, <2>1 DEF Informed, List
  <1>3. Informed(n)'
    <2>1. PICK q, r : q = list[n] /\ r = Tail(q)
      OBVIOUS
    <2>2. \A i \in DOMAIN r : /\ i \in Nat /\ i + 1 \in DOMAIN q /\ r[i] = q[i + 1]
                              /\ \A m \in Mates(n) : r[i][m] <= L[m]
      BY <2>1, FirstListed
    <2>3. ASSUME NEW i \in DOMAIN r
          PROVE  /\ DOMAIN r[i] = Mates(n)
                 /\ \A m \in Mates(n) : weight[{m, n}] <= r[i][m] /\ r[i][m] <= L[m]
      <3>1. i + 1 \in DOMAIN q /\ r[i] = q[i + 1] /\ \A m \in Mates(n) : r[i][m] <= L[m]
        BY <2>2
      <3>2. /\ DOMAIN q[i + 1] = Mates(n)
            /\ \A m \in Mates(n) : weight[{m, n}] <= q[i + 1][m]
        BY <1>1, <2>1, <3>1 DEF Informed
      <3> QED
        BY <3>1, <3>2
    <2>4. ASSUME NEW i \in DOMAIN r, NEW j \in DOMAIN r, i < j, NEW m \in Mates(n)
          PROVE  r[j][m] <= r[i][m]
      <3>1. i + 1 < j + 1 /\ i + 1 \in DOMAIN q /\ j + 1 \in DOMAIN q
        BY <2>2, <2>4
      <3>2. q[j + 1][m] <= q[i + 1][m]
        BY <1>1, <2>1, <3>1 DEF Informed
      <3> QED
        BY <2>2, <3>2
    <2>5. told'[n] = L /\ list'[n] = r /\ weight' = weight /\ Mates(n)' = Mates(n)
      BY <1>1, <2>1
    <2> QED
      BY <1>2, <2>3, <2>4, <2>5 DEF Informed
  <1>4. Eased
    <2>1. ASSUME NEW d \in DOMAIN table[n]
          PROVE  d \in DOMAIN table'[n] /\ table'[n][d].dist <= table[n][d].dist
      <3>1. CASE d \in DOMAIN L
        <4>1. d \in DOMAIN table'[n] /\ table'[n][d].dist = L[d]
          BY <3>1 DEF Relisted
        <4>2. d \in Mates(n) /\ table[n][d].dist = told[n][d] /\ L[d] <= told[n][d]
          BY <1>1, <1>2, <3>1 DEF Direct
        <4> QED
          BY <4>1, <4>2
      <3>2. CASE d \notin DOMAIN L
        <4>1. d \in DOMAIN table'[n] /\ table'[n][d].dist = table[n][d].dist
          BY <3>2 DEF Relisted
        <4>2. table[n][d].dist \in Int
          BY TablesWhole
        <4> QED
          BY <4>1, <4>2
      <3> QED
        BY <3>1, <3>2
    <2>2. ASSUME NEW x \in Node PROVE Better(Dists(table'[x]), Dists(table[x]))
      <3>1. CASE x = n
        BY <2>1, <3>1 DEF Better, Dists
      <3>2. CASE x # n
        <4>1. table'[x] = table[x] /\ Whole(Dists(table[x]))
          BY <3>2, TablesWhole
        <4> QED
          BY <4>1 DEF Better, Whole
      <3> QED
        BY <3>1, <3>2
    <2>3. ASSUME NEW x \in Node, up[x]
          PROVE  /\ DOMAIN told'[x] = DOMAIN told[x]
                 /\ \A y \in DOMAIN told[x] : told'[x][y] \in Nat /\ told'[x][y] <= told[x][y]
      <3>1. CASE x = n
        BY <1>2, <3>1, WeightTypes
      <3>2. CASE x # n
        <4>1. \A y \in DOMAIN told[x] : told[x][y] \in Weight
          BY <2>3 DEF Calm, Informed
        <4> QED
          BY <3>2, <4>1, WeightTypes
      <3> QED
        BY <3>1, <3>2
    <2> QED
      BY <2>2, <2>3 DEF Eased
  <1>5. ASSUME NEW x \in Node, up[x] PROVE Informed(x)' /\ Routes(M, x)'
    <2>1. CASE x = n
      <3>1. Routes(M, n)'
        BY <1>4, RelistedRoutes
      <3> QED
        BY <1>3, <2>1, <3>1
    <2>2. CASE x # n
      BY <1>4, <1>5, <2>2, InformedStays, RoutesStay, WholeRemainder
    <2> QED
      BY <2>1, <2>2
  <1>6. ASSUME NEW x \in Node, NEW m \in Node, NEW k \in Sock, Wired(x, k, m)
        PROVE  Mails(M, x, k, m)'
    <2>1. ASSUME NEW d \in DOMAIN table'[x], d # m, table'[x][d].nextHop = m
          PROVE  d \in DOMAIN table[x] /\ table[x][d].nextHop = m /\ table[x][d].dist <= table'[x][d].dist
      <3>1. CASE x = n
        <4>1. d \in DOMAIN table[n] /\ table[n][d].nextHop = m
          BY <2>1, <3>1 DEF Relisted
        <4>2. d \notin DOMAIN L
          BY <1>1, <1>2, <2>1, <4>1 DEF Direct
        <4>3. table'[n][d].dist = table[n][d].dist /\ table[n][d].dist \in Int
          BY <4>1, <4>2, TablesWhole DEF Relisted
        <4> QED
          BY <3>1, <4>1, <4>3
      <3>2. CASE x # n
        <4>1. table'[x] = table[x]
          BY <3>2
        <4>2. table[x][d].dist \in Int
          BY <2>1, <4>1, TablesWhole
        <4> QED
          BY <2>1, <4>1, <4>2
      <3> QED
        BY <3>1, <3>2
    <2>2. Shifted(net'.inbox[x][k], net.inbox[x][k])
      BY BoxesWhole, ShiftedSame
    <2> QED
      BY <1>4, <1>6, <2>1, <2>2, MailsStay
  <1> QED
    BY <1>5, <1>6, CalmAgain

LEMMA ListReadCalmly ==
  ASSUME Inv, NEW M, Calm(M), CostsFit(M), up' = up, NEW n \in Node, up[n],
         NEW L, Comes(n, L), ListRead(n, L)
  PROVE  /\ table' = [table EXCEPT ![n] = table'[n]] /\ Relisted(table'[n], table[n], L)
         /\ \A x \in Node : clients'[x] = clients[x] /\ moved'[x] = moved[x] /\ borrowed'[x] = borrowed[x]
         /\ net' = net /\ told' = [told EXCEPT ![n] = L] /\ list' = [list EXCEPT ![n] = Tail(@)]
  <1> DEFINE t == table[n]
             opened == Opens(n, L)
             all == [opened EXCEPT !.table = Confirms(@, L, DOMAIN L \cap DOMAIN table[n])]
             gone == Unlisted(all.table, L) \cup Unreached(all.table, L)
             u == Confirms(t, L, DOMAIN L)
  <1>1. /\ Direct(t, Mates(n), told[n]) /\ DOMAIN L = Mates(n) /\ L \in List /\ t \in Tables(n)
        /\ Fields
    BY TablesWhole, FirstListed DEF Calm, Routes, Inv
  <1>2. DOMAIN L \subseteq DOMAIN t /\ \A d \in DOMAIN L : t[d].full
    BY <1>1 DEF Direct
  <1>3. opened = [ok |-> TRUE, clients |-> clients[n], net |-> net, table |-> t]
    BY <1>2, OpensNothing
  <1>4. DOMAIN L \cap DOMAIN table[n] = DOMAIN L
    BY <1>2
  <1> HIDE DEF opened, t
  <1>5. all = [ok |-> TRUE, clients |-> clients[n], net |-> net, table |-> u]
    <2>1. opened.table = t
      BY <1>3
    <2>2. Confirms(opened.table, L, DOMAIN L \cap DOMAIN table[n]) = u
      BY <1>4, <2>1
    <2>3. all = [opened EXCEPT !.table = u]
      BY <2>2
    <2> HIDE DEF u, all
    <2> QED
      BY <1>3, <2>3
  <1>6. u \in Tables(n) /\ Relisted(u, t, L)
    BY <1>1, <1>2, ConfirmsRelists
  <1> HIDE DEF u
  <1>7. all.ok = TRUE /\ all.clients = clients[n] /\ all.net = net /\ all.table = u
    BY <1>5
  <1> HIDE DEF all
  <1>8. gone = {}
    <2>1. Unlisted(u, L) = {} /\ Unreached(u, L) = {}
      BY <1>1, <1>6 DEF Unlisted, Unreached, Direct, Relisted
    <2> QED
      BY <1>7, <2>1
  <1>9. PICK E \in ErasedByLoop(all.table, gone) :
          LET closed == Closes(n, all, Unlisted(all.table, L) \cap E)
          IN  \/ /\ closed.ok
                 /\ table' = [table EXCEPT ![n] = Without(all.table, E)]
                 /\ clients' = [clients EXCEPT ![n] = closed.clients]
                 /\ net' = closed.net
                 /\ told' = [told EXCEPT ![n] = L]
                 /\ list' = [list EXCEPT ![n] = Tail(@)]
                 /\ borrowed' = [borrowed EXCEPT ![n] = {k \in @ : closed.net.peer[n][k] # Free}]
                 /\ moved' = [moved EXCEPT ![n] = @ \/ closed.clients.nb < opened.clients.nb]
                 /\ UNCHANGED up
              \/ /\ ~closed.ok \/ (EraseMayEnd /\ E # {})
                 /\ Ends(n, closed.net)
    BY Zenon DEF ListRead, all, opened, gone
  <1>10. E = {}
    BY <1>8 DEF ErasedByLoop
  <1>11. Closes(n, all, Unlisted(all.table, L) \cap E) = all
    <2>1. Unlisted(all.table, L) \cap E = {}
      BY <1>10
    <2> QED
      BY <2>1, ClosesNothing
  <1>12. /\ table' = [table EXCEPT ![n] = Without(u, {})]
         /\ clients' = [clients EXCEPT ![n] = clients[n]]
         /\ net' = net
         /\ told' = [told EXCEPT ![n] = L]
         /\ list' = [list EXCEPT ![n] = Tail(@)]
         /\ borrowed' = [borrowed EXCEPT ![n] = {k \in @ : net.peer[n][k] # Free}]
         /\ moved' = [moved EXCEPT ![n] = @ \/ clients[n].nb < opened.clients.nb]
    BY <1>7, <1>9, <1>10, <1>11
  <1>13. opened.clients.nb = clients[n].nb /\ clients[n].nb \in Int /\ ~moved[n]
    BY <1>3, ArrayTypes DEF Inv, Station, Calm, Peaceful
  <1>14. \A x \in Node : clients'[x] = clients[x] /\ moved'[x] = moved[x] /\ borrowed'[x] = borrowed[x]
    <2>1. \A x \in Node : clients'[x] = clients[x] /\ moved'[x] = moved[x]
      BY <1>1, <1>12, <1>13 DEF Fields
    <2>2. \A x \in Node : borrowed[x] = {}
      BY DEF Calm, Peaceful
    <2>3. \A x \in Node : borrowed'[x] = {}
      BY <1>1, <1>12, <2>2 DEF Fields
    <2> QED
      BY <2>1, <2>2, <2>3
  <1>15. table'[n] = Without(u, {}) /\ table' = [table EXCEPT ![n] = table'[n]]
    BY <1>1, <1>12 DEF Fields
  <1>16. Relisted(Without(u, {}), t, L)
    <2>1. DOMAIN Without(u, {}) = DOMAIN u /\ \A d \in DOMAIN u : Without(u, {})[d] = u[d]
      BY DEF Without
    <2> QED
      BY <1>6, <2>1 DEF Relisted
  <1> QED
    BY <1>12, <1>14, <1>15, <1>16 DEF t

LEMMA ReadListStaysCalm ==
  ASSUME Inv, Inv', NEW M, Calm(M), CostsFit(M), OnlyCheaper, NEW n \in Node, ReadList(n)
  PROVE  Calm(M)'
  <1>1. PICK L : L = Head(list[n])
    OBVIOUS
  <1>2. /\ up[n] /\ Comes(n, L) /\ up' = up /\ known' = known /\ weight' = weight
        /\ IF DOMAIN L = {} THEN EmptyListRead(n) ELSE ListRead(n, L)
    BY <1>1, Zenon DEF ReadList, OnlyCheaper, controller, Comes
  <1>3. /\ Direct(table[n], Mates(n), told[n]) /\ DOMAIN L = Mates(n) /\ Fields
        /\ table[n] \in Tables(n)
    BY <1>2, TablesWhole, FirstListed DEF Calm, Routes, Inv
  <1>4. CASE DOMAIN L = {}
    <2>1. ~Ends(n, net)
      BY <1>2 DEF Ends, Inv, Fields
    <2>2. /\ table' = [table EXCEPT ![n] = NoTable]
          /\ told' = [told EXCEPT ![n] = L]
          /\ list' = [list EXCEPT ![n] = Tail(@)]
          /\ UNCHANGED <<up, clients, net, moved, borrowed>>
      BY <1>1, <1>2, <1>4, <2>1 DEF EmptyListRead
    <2>3. DOMAIN table[n] = {}
      BY <1>3, <1>4 DEF Direct
    <2>4. /\ table'[n] = NoTable /\ told'[n] = L /\ list'[n] = Tail(list[n])
          /\ \A x \in Node \ {n} : table'[x] = table[x] /\ told'[x] = told[x] /\ list'[x] = list[x]
      BY <1>3, <2>2 DEF Fields
    <2>5. Relisted(table'[n], table[n], L)
      BY <2>3, <2>4 DEF Relisted, NoTable
    <2>6. Resting
      BY <1>2, <2>2 DEF Resting
    <2> QED
      BY <1>2, <2>2, <2>4, <2>5, <2>6, ListingStaysCalm
  <1>5. CASE DOMAIN L # {}
    <2>1. ListRead(n, L)
      BY <1>2, <1>5
    <2>2. /\ table' = [table EXCEPT ![n] = table'[n]] /\ Relisted(table'[n], table[n], L)
          /\ \A x \in Node : clients'[x] = clients[x] /\ moved'[x] = moved[x] /\ borrowed'[x] = borrowed[x]
          /\ net' = net /\ told' = [told EXCEPT ![n] = L] /\ list' = [list EXCEPT ![n] = Tail(@)]
      BY <1>2, <2>1, ListReadCalmly
    <2>3. /\ told'[n] = L /\ list'[n] = Tail(list[n])
          /\ \A x \in Node \ {n} : table'[x] = table[x] /\ told'[x] = told[x] /\ list'[x] = list[x]
      BY <1>3, <2>2 DEF Fields
    <2>4. Resting
      BY <1>2, <2>2 DEF Resting
    <2> QED
      BY <1>2, <2>2, <2>3, <2>4, ListingStaysCalm
  <1> QED
    BY <1>4, <1>5

------------------------------------------------------------------------------
LEMMA StepStaysCalm ==
  ASSUME Inv, Inv', NoShortcut, NEW M, Calm(M), CostsFit(M), OnlyCheaper, Next
  PROVE  Calm(M)'
  <1>1. known = up /\ \A n \in Node : net.backlog[n] = <<>> /\ \A k \in Sock : net.peer[n][k] # Gone
    BY DEF Calm, Peaceful
  <1>2. up \in [Node -> BOOLEAN] /\ up' = up
    BY DEF Inv, Fields, OnlyCheaper
  <1>3. CASE ControllerStep
    <2>1. CASE \E n \in Node : Login(n)
      BY <1>2, <2>1 DEF Login
    <2>2. CASE \E n \in Node : Poll(n)
      BY <2>2, PollStaysCalm
    <2>3. CASE \E n \in Node : SeesClosed(n)
      BY <1>1, <2>3 DEF SeesClosed
    <2>4. CASE \E c \in Command : Edit(c[1], c[2], c[3])
      BY <2>4, EditStaysCalm DEF Edit
    <2> QED
      BY <1>3, <2>1, <2>2, <2>3, <2>4 DEF ControllerStep
  <1>4. ASSUME NEW n \in Node, Serve(n) PROVE Calm(M)'
    <2>1. CASE ReadList(n)
      BY <2>1, ReadListStaysCalm
    <2>2. CASE ListsLost(n)
      BY <2>2, ListsLostStaysCalm
    <2>3. CASE Accept(n) \/ AcceptLost(n)
      BY <1>1, <2>3, Zenon DEF Accept, AcceptLost
    <2>4. CASE \E i \in Used(clients[n]) : Receive(n, i)
      BY <2>4, ReceiveStaysCalm
    <2>5. CASE \E i \in Used(clients[n]) : Coalesced(n, i)
      BY <2>5, CoalescedStaysCalm
    <2>6. CASE \E i \in Used(clients[n]) : PeerClosed(n, i)
      <3>1. PICK i : PeerClosed(n, i)
        BY <2>6
      <3>2. up[n] /\ i \in 2..clients[n].nb /\ net.peer[n][clients[n].slot[i].sock] = Gone
        BY <3>1, Zenon DEF PeerClosed
      <3>3. clients[n].slot[i].sock \in Sock
        BY <3>2, ClientWired
      <3> QED
        BY <1>1, <3>2, <3>3
    <2> QED
      BY <1>4, <2>1, <2>2, <2>3, <2>4, <2>5, <2>6 DEF Serve
  <1>5. CASE \E n \in Node : Quit(n)
    BY <1>2, <1>5 DEF Quit, Ends
  <1>6. CASE \E n, s \in Node : SendVector(n, s)
    BY <1>6, SendingStaysCalm
  <1> QED
    BY <1>3, <1>4, <1>5, <1>6 DEF Next

LEMMA StutterStaysCalm ==
  ASSUME Inv, Inv', NEW M, Calm(M), CostsFit(M), UNCHANGED vars
  PROVE  Calm(M)'
  <1>1. /\ up' = up /\ known' = known /\ moved' = moved /\ clients' = clients /\ net' = net
        /\ table' = table /\ told' = told /\ list' = list /\ weight' = weight /\ borrowed' = borrowed
    BY DEF vars, controller
  <1>2. OnlyCheaper
    <2>1. \A e \in Edge : weight[e] # NoEdge => weight[e] <= weight[e]
      BY WeightTypes DEF Inv, Fields
    <2> QED
      BY <1>1, <2>1 DEF OnlyCheaper
  <1>3. Resting
    BY <1>1 DEF Resting
  <1>4. \A x \in Node : up[x] => Informed(x)'
    BY <1>1, <1>2, InformedStays, WholeRemainder
  <1> QED
    BY <1>1, <1>2, <1>3, <1>4, BoxesRest, PassingKeepsCalm

------------------------------------------------------------------------------
(***************************************************************************)
(* The routers start at peace.                                             *)
(***************************************************************************)
LEMMA FirstEntries ==
  ASSUME NEW S, NEW n, NEW m \in Near(n, S)
  PROVE  LET e == LinkedTable(n, S)[m]
         IN  e.near /\ e.full /\ e.nextHop = m /\ e.dist = weight[{m, n}]
  <1> DEFINE b == Entry(m, weight[{m, n}])
             e == [b EXCEPT !.near = TRUE, !.full = TRUE, !.client = SlotFor(n, m, S)]
  <1>1. LinkedTable(n, S)[m] = With(NoTable, m, e)[m]
    BY DEF LinkedTable, Opened
  <1>2. e.near /\ e.full /\ e.nextHop = m /\ e.dist = weight[{m, n}]
    BY DEF Entry
  <1> HIDE DEF e
  <1>3. With(NoTable, m, e)[m] = e
    BY DEF With
  <1> QED
    BY <1>1, <1>2, <1>3

LEMMA FirstNames ==
  ASSUME Weighed, NEW S, S \subseteq Node, NEW n \in S, NEW i \in 2..LinkedClients(n, S).nb
  PROVE  LinkedClients(n, S).slot[i].id \in Near(n, S)
  <1> DEFINE C == LinkedClients(n, S)
             c == Cardinality(Near(n, S))
  <1>1. C.nb = 1 + c /\ \A m \in Near(n, S) : C.slot[SlotFor(n, m, S)].id = m
    BY FirstHouses
  <1>2. n \in Node
    OBVIOUS
  <1>3. c = Cardinality(Near(n, S))
    OBVIOUS
  <1> HIDE DEF C, c
  <1>4. \A j \in 2..(1 + c) : \E m \in Near(n, S) : SlotFor(n, m, S) = j
    BY <1>2, <1>3, SlotsOfNear
  <1>5. i \in 2..(1 + c)
    BY <1>1 DEF C
  <1>6. PICK m \in Near(n, S) : SlotFor(n, m, S) = i
    BY <1>4, <1>5
  <1> QED
    BY <1>1, <1>6 DEF C

LEMMA FirstWires ==
  ASSUME Weighed, NEW S, S \subseteq Node, net = FirstNet(S), NEW n \in Node
  PROVE  /\ net.backlog[n] = <<>> /\ \A k \in Sock : net.peer[n][k] # Gone
         /\ \A m \in Node : \A j, k \in Sock : Wired(n, j, m) /\ Wired(n, k, m) => j = k
         /\ \A k \in Sock : net.inbox[n][k] = <<>>
  <1>1. /\ net.peer = [x \in Node |-> [k \in Sock |-> LinkedPeer(x, k, S)]]
        /\ net.inbox = [x \in Node |-> [k \in Sock |-> <<>>]]
        /\ net.backlog = [x \in Node |-> <<>>]
    BY FirstNetShape
  <1>2. \A k : LinkedPeer(n, k, S) # Free =>
          \E m \in Near(n, S) : k = SlotFor(n, m, S) /\ LinkedPeer(n, k, S) = <<m, SlotFor(m, n, S)>>
    BY PeersAtFirst
  <1>3. \A k \in Sock : LinkedPeer(n, k, S) # Gone
    <2>1. \A k : k \in 2..(1 + Cardinality(Near(n, S))) => LinkedPeer(n, k, S) \in End
      BY PeersAtFirst
    <2>2. \A k \in Sock : k \notin 2..(1 + Cardinality(Near(n, S))) => LinkedPeer(n, k, S) = Free
      BY PeersAtFirst
    <2>3. Free # Gone /\ Gone \notin End
      BY RouterAssumption DEF RouterAssumption
    <2> QED
      BY <2>1, <2>2, <2>3
  <1>4. ASSUME NEW m \in Node, NEW k \in Sock, Wired(n, k, m)
        PROVE  k = SlotFor(n, m, S)
    <2>1. net.peer[n][k] = LinkedPeer(n, k, S)
      BY <1>1
    <2>2. LinkedPeer(n, k, S) \in {m} \X Sock
      BY <1>4, <2>1 DEF Wired
    <2>3. LinkedPeer(n, k, S) # Free
      <3>1. {m} \X Sock \subseteq End /\ Free \notin End
        BY RouterAssumption DEF RouterAssumption, End
      <3> QED
        BY <2>2, <3>1
    <2>4. PICK q \in Near(n, S) : k = SlotFor(n, q, S) /\ LinkedPeer(n, k, S) = <<q, SlotFor(q, n, S)>>
      BY <1>2, <2>3
    <2>5. q = m
      BY <2>2, <2>4
    <2> QED
      BY <2>4, <2>5
  <1> QED
    BY <1>1, <1>3, <1>4

LEMMA FirstNeighbors ==
  ASSUME NEW S, S \subseteq Node, up = [n \in Node |-> n \in S], NEW n \in S
  PROVE  Mates(n) = Near(n, S)
  BY DEF Mates, Near

LEMMA PairIsTwo ==
  ASSUME NEW a, NEW b, a # b
  PROVE  Cardinality({a, b}) = 2
  <1>1. IsFiniteSet({a}) /\ Cardinality({a}) = 1 /\ b \notin {a}
    BY FS_Singleton
  <1>2. Cardinality({a} \cup {b}) = Cardinality({a}) + 1
    BY <1>1, FS_AddElement
  <1>3. {a} \cup {b} = {a, b}
    OBVIOUS
  <1>4. Cardinality({a, b}) = Cardinality({a}) + 1
    BY <1>2, <1>3
  <1> QED
    BY <1>1, <1>4

LEMMA FirstCosts ==
  ASSUME NEW M, CostsFit(M), Weighed, NEW S, S \subseteq Node, up = [x \in Node |-> x \in S],
         table = [x \in Node |-> LinkedTable(x, S)],
         told = [x \in Node |-> IF x \in S THEN [m \in Near(x, S) |-> weight[{m, x}]] ELSE NoList],
         NEW n \in S
  PROVE  Sane(M, Dists(table[n]), n)
  <1> SUFFICES ASSUME NEW d \in Near(n, S)
               PROVE  LET f == Dists(table[n])
                      IN  /\ d \in Node /\ f[d] \in Nat
                          /\ f[d] <= M * (Cardinality(Knowing(table, d)) - 1)
                          /\ \A p : Sound(p) => p[n] - p[d] <= f[d]
    BY DEF Sane, Dists, LinkedTable
  <1>1. /\ n \in Node /\ d \in Node \ {n} /\ n \in Near(d, S) /\ weight[{d, n}] \in Weight
    BY NearNodes
  <1>2. DOMAIN table[n] = Near(n, S) /\ table[n][d].dist = weight[{d, n}]
    BY <1>1, FirstEntries DEF LinkedTable
  <1>3. Dists(table[n])[d] = weight[{d, n}]
    BY <1>2, DistsOf
  <1> DEFINE w == weight[{d, n}]
             K == Knowing(table, d)
             c == Cardinality(K)
  <1>4. w \in Nat /\ w <= M /\ M \in Nat
    BY <1>1, CostTypes
  <1>5. c \in Nat /\ c >= 2
    <2>1. K \in SUBSET Node /\ {n, d} \in SUBSET K
      BY <1>1, <1>2 DEF Knowing
    <2>2. IsFiniteSet(K) /\ c \in Nat
      BY <2>1, CostTypes, FS_Subset, FS_CardinalityType
    <2>3. Cardinality({n, d}) <= c
      BY <2>1, <2>2, FS_Subset
    <2>4. Cardinality({n, d}) = 2
      BY <1>1, PairIsTwo
    <2> QED
      BY <2>2, <2>3, <2>4
  <1>6. ASSUME NEW p, Sound(p) PROVE p[n] - p[d] <= w
    <2>1. up[n] /\ d \in DOMAIN told[n] /\ told[n][d] = w
      BY <1>1
    <2> HIDE DEF w
    <2> QED
      BY <1>1, <1>6, <2>1 DEF Sound
  <1> HIDE DEF w, c, K
  <1>7. w <= M * (c - 1)
    <2> DEFINE b == c - 2
    <2>1. b \in Nat /\ c - 1 = b + 1
      BY <1>5
    <2> HIDE DEF b
    <2>2. M * b >= 0 /\ M * b \in Int
      BY <1>4, <2>1
    <2>3. M * (b + 1) = M * b + M
      BY <1>4, <2>1
    <2> QED
      BY <1>4, <2>1, <2>2, <2>3
  <1> QED
    BY <1>1, <1>3, <1>4, <1>6, <1>7 DEF w, c, K

LEMMA InitIsCalm ==
  ASSUME NEW M, CostsFit(M), Init
  PROVE  Calm(M)
  <1>1. PICK S \in Started :
          /\ up = [n \in Node |-> n \in S] /\ known = up
          /\ table = [n \in Node |-> LinkedTable(n, S)]
          /\ clients = [n \in Node |-> IF n \in S THEN LinkedClients(n, S) ELSE NoClients]
          /\ net = FirstNet(S)
          /\ told = [n \in Node |-> IF n \in S THEN [m \in Near(n, S) |-> weight[{m, n}]] ELSE NoList]
    BY DEF Init, FirstNet
  <1>2. /\ list = [n \in Node |-> <<>>] /\ moved = [n \in Node |-> FALSE] /\ weight \in Topology
        /\ borrowed = [n \in Node |-> {}]
    BY DEF Init
  <1>3. S \subseteq Node /\ Weighed
    BY <1>2, RouterAssumption DEF RouterAssumption, Weighed
  <1>4. ASSUME NEW n \in Node
        PROVE  /\ net.backlog[n] = <<>> /\ \A k \in Sock : net.peer[n][k] # Gone
               /\ \A m \in Node : \A j, k \in Sock : Wired(n, j, m) /\ Wired(n, k, m) => j = k
               /\ \A k \in Sock : net.inbox[n][k] = <<>>
    BY <1>1, <1>3, FirstWires
  <1>5. Peaceful
    BY <1>1, <1>2, <1>4 DEF Peaceful
  <1>6. ASSUME NEW n \in Node, up[n] PROVE Named(n) /\ Informed(n) /\ Routes(M, n)
    <2>1. n \in S /\ Mates(n) = Near(n, S)
      BY <1>1, <1>3, <1>6, FirstNeighbors
    <2>2. Named(n)
      <3>1. clients[n] = LinkedClients(n, S)
        BY <1>1, <2>1
      <3> QED
        BY <1>3, <2>1, <3>1, FirstNames DEF Named
    <2>3. \A m \in Near(n, S) : weight[{m, n}] \in Weight
      BY <1>3, NearNodes
    <2>4. told[n] = [m \in Near(n, S) |-> weight[{m, n}]] /\ list[n] = <<>>
      BY <1>1, <1>2, <2>1
    <2>5. Informed(n)
      <3>1. \A m \in Near(n, S) : weight[{m, n}] <= told[n][m] /\ told[n][m] \in Weight
        <4>1. \A m \in Near(n, S) : told[n][m] = weight[{m, n}]
          BY <2>4
        <4>2. \A w \in Weight : w <= w
          BY WeightTypes
        <4> QED
          BY <2>3, <4>1, <4>2
      <3>2. DOMAIN list[n] = {}
        BY <2>4
      <3> QED
        BY <2>1, <2>4, <3>1, <3>2 DEF Informed
    <2>6. table[n] = LinkedTable(n, S) /\ DOMAIN table[n] = Near(n, S)
      BY <1>1 DEF LinkedTable
    <2>7. Direct(table[n], Mates(n), told[n])
      <3>1. Near(n, S) \subseteq Node
        BY <1>3, NearNodes
      <3>2. \A m \in Near(n, S) : LET e == LinkedTable(n, S)[m]
                                  IN  e.near /\ e.full /\ e.nextHop = m /\ e.dist = weight[{m, n}]
        BY FirstEntries
      <3> QED
        BY <2>1, <2>4, <2>6, <3>1, <3>2 DEF Direct
    <2>8. Down(n)
      BY <2>1, <2>6 DEF Down
    <2>9. Sane(M, Dists(table[n]), n)
      BY <1>1, <1>3, <2>1, FirstCosts
    <2> QED
      BY <2>2, <2>5, <2>7, <2>8, <2>9 DEF Routes
  <1>7. ASSUME NEW n \in Node, NEW m \in Node, NEW k \in Sock PROVE Mails(M, n, k, m)
    <2>1. Said(net.inbox[n][k]) = {}
      BY <1>4 DEF Said
    <2> QED
      BY <2>1 DEF Mails, Mail
  <1> QED
    BY <1>5, <1>6, <1>7 DEF Calm

------------------------------------------------------------------------------
(***************************************************************************)
(* What a calm network keeps.                                              *)
(***************************************************************************)
LEMMA CalmIsNotTooShort ==
  ASSUME Inv, NEW M, Calm(M)
  PROVE  NeverTooShort
  <1> SUFFICES ASSUME NEW n \in Node, NEW s \in DOMAIN table[n]
               PROVE  LET dist == table[n][s].dist
                      IN  dist >= 0 /\ \A p \in Estimates(s, dist + 1) : p[n] <= dist
    BY DEF NeverTooShort
  <1> DEFINE dist == table[n][s].dist
  <1>1. up[n]
    <2>1. ~up[n] => table[n] = NoTable
      BY DEF Inv, Station
    <2> QED
      BY <2>1 DEF NoTable
  <1>2. /\ s \in Node /\ dist \in Nat
        /\ \A p : Sound(p) => p[n] - p[s] <= dist
    <2>1. Sane(M, Dists(table[n]), n)
      BY <1>1 DEF Calm, Routes
    <2> QED
      BY <2>1, DistsOf DEF Sane
  <1> HIDE DEF dist
  <1>3. ASSUME NEW p \in Estimates(s, dist + 1)
        PROVE  Sound(p) /\ p[s] = 0 /\ p[n] \in Nat
    <2>1. /\ p \in [Node -> 0..(dist + 1)] /\ p[s] = 0
          /\ \A x, y \in Node : Adjacent(x, y) => p[x] - p[y] <= weight[{x, y}]
      BY DEF Estimates
    <2>2. p \in [Node -> Nat]
      BY <1>2, <2>1
    <2>3. ASSUME NEW m \in Node, up[m], NEW x \in DOMAIN told[m]
          PROVE  p[m] - p[x] <= told[m][x]
      <3>1. x \in Mates(m) /\ told[m][x] \in Weight /\ weight[{x, m}] <= told[m][x]
        BY <2>3 DEF Calm, Informed
      <3>2. x \in Node /\ Adjacent(x, m) /\ weight[{x, m}] \in Weight
        BY <3>1, MatesAre
      <3>3. {m, x} = {x, m}
        OBVIOUS
      <3>4. Adjacent(m, x) /\ weight[{m, x}] = weight[{x, m}]
        BY <3>2, <3>3 DEF Adjacent
      <3>5. p[m] - p[x] <= weight[{x, m}]
        BY <2>1, <3>2, <3>4
      <3>6. p[m] \in Nat /\ p[x] \in Nat /\ told[m][x] \in Nat /\ weight[{x, m}] \in Nat
        BY <2>2, <3>1, <3>2, WeightTypes
      <3> QED
        BY <3>1, <3>5, <3>6
    <2> QED
      BY <2>1, <2>2, <2>3 DEF Sound
  <1>4. ASSUME NEW p \in Estimates(s, dist + 1)
        PROVE  p[n] <= dist
    <2>1. Sound(p) /\ p[s] = 0 /\ p[n] \in Nat
      BY <1>3
    <2>2. p[n] - p[s] <= dist
      BY <1>2, <2>1
    <2> QED
      BY <1>2, <2>1, <2>2
  <1>5. dist >= 0
    BY <1>2
  <1> QED
    BY <1>4, <1>5 DEF dist

LEMMA NearestIn ==
  ASSUME NEW S, S # {}, NEW f, \A n \in S : f[n] \in Nat
  PROVE  \E n \in S : \A m \in S : f[n] <= f[m]
  <1> DEFINE V == {f[n] : n \in S}
  <1>1. V \subseteq Nat /\ V # {}
    OBVIOUS
  <1>2. \E x \in V : \A y \in V : <<y, x>> \notin OpToRel(<, Nat)
    <2> HIDE DEF V
    <2> QED
      BY <1>1, NatLessThanWellFounded, WFMin
  <1>3. PICK x \in V : \A y \in V : <<y, x>> \notin OpToRel(<, Nat)
    BY <1>2
  <1>4. \A y \in V : x <= y
    <2> SUFFICES ASSUME NEW y \in V PROVE x <= y
      OBVIOUS
    <2> HIDE DEF V
    <2>1. x \in Nat /\ y \in Nat
      BY <1>1
    <2>2. ~(y < x)
      BY <1>3, <2>1 DEF OpToRel
    <2> QED
      BY <2>1, <2>2
  <1>5. PICK n \in S : x = f[n]
    BY <1>3
  <1> QED
    BY <1>4, <1>5

(***************************************************************************)
(* Of the routers of a set that have an entry, the one with the shortest   *)
(* distance goes out of it.                                                *)
(***************************************************************************)
LEMMA CalmHasNoLoops ==
  ASSUME Inv, NEW M, Calm(M)
  PROVE  NoLoops
  <1> SUFFICES ASSUME NEW d \in Node, NEW S \in SUBSET (Node \ {d}), S # {},
                      \A n \in S : d \in DOMAIN table[n] /\ table[n][d].nextHop \in S
               PROVE  FALSE
    BY DEF NoLoops
  <1>1. ASSUME NEW n \in S
        PROVE  /\ n \in Node /\ up[n] /\ table[n][d].dist \in Nat
               /\ d \in DOMAIN table[n] /\ table[n][d].nextHop \in S /\ table[n][d].nextHop # d
    <2>1. n \in Node /\ d \in DOMAIN table[n]
      OBVIOUS
    <2>2. up[n]
      <3>1. ~up[n] => table[n] = NoTable
        BY <2>1 DEF Inv, Station
      <3> QED
        BY <2>1, <3>1 DEF NoTable
    <2>3. Sane(M, Dists(table[n]), n)
      BY <2>1, <2>2 DEF Calm, Routes
    <2>4. table[n][d].dist \in Nat
      BY <2>1, <2>3, DistsOf DEF Sane
    <2> QED
      BY <2>1, <2>2, <2>4
  <1> DEFINE f == [n \in S |-> table[n][d].dist]
  <1>2. \E n \in S : \A m \in S : f[n] <= f[m]
    <2>1. \A n \in S : f[n] \in Nat
      BY <1>1
    <2> HIDE DEF f
    <2> QED
      BY <2>1, NearestIn
  <1>3. PICK n \in S : \A m \in S : table[n][d].dist <= table[m][d].dist
    BY <1>2
  <1> DEFINE h == table[n][d].nextHop
  <1>4. n \in Node /\ up[n] /\ d \in DOMAIN table[n] /\ h \in S /\ h # d
    BY <1>1
  <1>5. Direct(table[n], Mates(n), told[n]) /\ Down(n) /\ Informed(n)
    BY <1>4 DEF Calm, Routes
  <1>6. d \notin Mates(n) /\ h \in Mates(n)
    BY <1>4, <1>5 DEF Direct
  <1>7. table[h][d].dist + told[n][h] <= table[n][d].dist
    BY <1>4, <1>5, <1>6 DEF Down
  <1>8. told[n][h] \in Nat /\ told[n][h] >= 1
    BY <1>5, <1>6, WeightTypes DEF Informed
  <1>9. /\ table[h][d].dist \in Nat /\ table[n][d].dist \in Nat
        /\ table[n][d].dist <= table[h][d].dist
    BY <1>1, <1>3, <1>4
  <1> QED
    BY <1>7, <1>8, <1>9

LEMMA CalmStays ==
  ASSUME NEW M, CostsFit(M), Inv, Inv', Calm(M), [Next]_vars, [OnlyCheaper]_vars, NoShortcut
  PROVE  Calm(M)'
  <1>1. CASE UNCHANGED vars
    BY <1>1, StutterStaysCalm
  <1>2. CASE ~UNCHANGED vars
    BY <1>2, StepStaysCalm
  <1> QED
    BY <1>1, <1>2

(***************************************************************************)
(* While the routers that run stay, links only get cheaper, no link costs  *)
(* more than a way around it and no sum of costs overflows, no distance is *)
(* shorter than the shortest path, although vectors give a router its own  *)
(* routes back.                                                            *)
(***************************************************************************)
THEOREM DistancesAreNotTooShort ==
  ASSUME NEW M, CostsFit(M)
  PROVE  Spec /\ [][OnlyCheaper]_vars /\ []NoShortcut => []NeverTooShort
  <1>1. Init => Inv /\ Serving /\ Calm(M)
    BY InitHolds, InitServes, InitIsCalm
  <1>2. Inv /\ Serving /\ Calm(M) /\ [Next]_vars /\ [OnlyCheaper]_vars /\ NoShortcut =>
          (Inv /\ Serving /\ Calm(M))'
    BY StepHolds, ServingHolds, CalmStays
  <1>3. Inv /\ Calm(M) => NeverTooShort
    BY CalmIsNotTooShort
  <1> QED
    BY <1>1, <1>2, <1>3, PTL DEF Spec

(***************************************************************************)
(* Under the same conditions the next hops, followed from any router to    *)
(* any other, never go round.                                              *)
(***************************************************************************)
THEOREM NoRouteLoops ==
  ASSUME NEW M, CostsFit(M)
  PROVE  Spec /\ [][OnlyCheaper]_vars /\ []NoShortcut => []NoLoops
  <1>1. Init => Inv /\ Serving /\ Calm(M)
    BY InitHolds, InitServes, InitIsCalm
  <1>2. Inv /\ Serving /\ Calm(M) /\ [Next]_vars /\ [OnlyCheaper]_vars /\ NoShortcut =>
          (Inv /\ Serving /\ Calm(M))'
    BY StepHolds, ServingHolds, CalmStays
  <1>3. Inv /\ Calm(M) => NoLoops
    BY CalmHasNoLoops
  <1> QED
    BY <1>1, <1>2, <1>3, PTL DEF Spec

(***************************************************************************)
(* Where all links cost the same none costs more than a way around it: the *)
(* estimate that is 0 at s and one cost everywhere else shows it.          *)
(***************************************************************************)
LEMMA UniformHasNoShortcut ==
  ASSUME Inv, NEW M, Calm(M), NEW w, Weight = {w}
  PROVE  NoShortcut
  <1> SUFFICES ASSUME NEW n \in Node, up[n], NEW s \in DOMAIN told[n], NEW q \in DOMAIN told[n], s # q
               PROVE  \E p : Sound(p) /\ p[q] - p[s] >= told[n][s]
    BY DEF NoShortcut
  <1>1. w \in Nat
    BY WeightTypes
  <1>2. ASSUME NEW m \in Node, up[m], NEW x \in DOMAIN told[m]
        PROVE  x \in Node /\ x # m /\ told[m][x] = w
    <2>1. x \in Mates(m) /\ told[m][x] \in Weight
      BY <1>2 DEF Calm, Informed
    <2> QED
      BY <2>1, MatesAre
  <1> DEFINE p == [x \in Node |-> IF x = s THEN 0 ELSE w]
  <1>3. s \in Node /\ q \in Node /\ told[n][s] = w
    BY <1>2
  <1>4. p[q] - p[s] >= told[n][s]
    BY <1>1, <1>3
  <1>5. Sound(p)
    <2>1. p \in [Node -> Nat]
      BY <1>1
    <2>2. ASSUME NEW m \in Node, up[m], NEW x \in DOMAIN told[m]
          PROVE  p[m] - p[x] <= told[m][x]
      BY <1>1, <1>2, <2>2
    <2> HIDE DEF p
    <2> QED
      BY <2>1, <2>2 DEF Sound
  <1> QED
    BY <1>4, <1>5

(***************************************************************************)
(* A network where all links cost the same, whose links and routers stay,  *)
(* has neither distances that are too short nor loops at any time.         *)
(***************************************************************************)
THEOREM UniformNetsAreRight ==
  ASSUME NEW w, Weight = {w}, CostsFit(w)
  PROVE  Spec /\ [][OnlyCheaper]_vars => [](NeverTooShort /\ NoLoops)
  <1>1. Init => Inv /\ Serving /\ Calm(w)
    BY InitHolds, InitServes, InitIsCalm
  <1>2. Inv /\ Serving /\ Calm(w) /\ [Next]_vars /\ [OnlyCheaper]_vars => (Inv /\ Serving /\ Calm(w))'
    BY StepHolds, ServingHolds, CalmStays, UniformHasNoShortcut
  <1>3. Inv /\ Calm(w) => NeverTooShort /\ NoLoops
    BY CalmIsNotTooShort, CalmHasNoLoops
  <1> QED
    BY <1>1, <1>2, <1>3, PTL DEF Spec
=============================================================================
