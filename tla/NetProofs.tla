------------------------------ MODULE NetProofs ------------------------------
(***************************************************************************)
(* Proofs about Net: however clients connect, are disconnected by any      *)
(* pointer and close, the array of clients holds each open connection      *)
(* once, and a closed socket only after a pointer that led beyond the used *)
(* slots was disconnected; and Net implements Sessions: the array, its     *)
(* pointers and the reads of network__update amount to a set of sessions.  *)
(***************************************************************************)
EXTENDS Net, FiniteSetTheorems, FunctionTheorems, SequenceTheorems, WellFoundedInduction, TLAPS

------------------------------------------------------------------------------
(***************************************************************************)
(* The array of clients.                                                   *)
(***************************************************************************)

Array == {C \in [slot : Seq(Client), nb : Nat] : C.nb <= Len(C.slot)}

OnceEach(C) == \A i, j \in Used(C) : C.slot[i].sock = C.slot[j].sock => i = j

LEMMA NoClientsFacts ==
  NoClients \in Array /\ OnceEach(NoClients) /\ UsedSocks(NoClients) = {}
  <1>1. Used(NoClients) = {} /\ NoClients.nb = 0 /\ NoClients.slot = <<>>
    BY DEF NoClients, Used
  <1> QED
    BY <1>1 DEF NoClients, Array, OnceEach, UsedSocks

LEMMA AddFacts ==
  ASSUME NEW C \in Array, NEW client \in Client
  PROVE  LET D == AddClient(C, client) IN
         /\ D \in Array /\ D.nb = C.nb + 1 /\ Len(C.slot) <= Len(D.slot)
         /\ D.slot[D.nb] = client
         /\ \A i \in Used(C) : D.slot[i] = C.slot[i]
  <1>1. C.slot \in Seq(Client) /\ C.nb \in Nat /\ C.nb <= Len(C.slot)
    BY DEF Array
  <1>2. CASE C.nb < Len(C.slot)
    <2>1. C.nb + 1 \in 1..Len(C.slot)
      BY <1>1, <1>2
    <2> DEFINE s == [C.slot EXCEPT ![C.nb + 1] = client]
    <2>2. /\ s \in Seq(Client) /\ Len(s) = Len(C.slot)
          /\ \A j \in 1..Len(C.slot) : s[j] = IF j = C.nb + 1 THEN client ELSE C.slot[j]
      BY <1>1, <2>1, ExceptSeq
    <2>3. AddClient(C, client) = [slot |-> s, nb |-> C.nb + 1]
      BY <1>2 DEF AddClient
    <2> QED
      BY <1>1, <2>1, <2>2, <2>3 DEF Array, Used
  <1>3. CASE ~(C.nb < Len(C.slot))
    <2>1. AddClient(C, client) = [slot |-> Append(C.slot, client), nb |-> C.nb + 1]
      BY <1>3 DEF AddClient
    <2> QED
      BY <1>1, <1>3, <2>1 DEF Array, Used
  <1> QED
    BY <1>2, <1>3

(***************************************************************************)
(* A client whose socket is not in the array yet.                          *)
(***************************************************************************)
LEMMA AddSocks ==
  ASSUME NEW C \in Array, OnceEach(C), NEW client \in Client, client.sock \notin UsedSocks(C)
  PROVE  LET D == AddClient(C, client) IN
         OnceEach(D) /\ UsedSocks(D) = UsedSocks(C) \cup {client.sock}
  <1> DEFINE D == AddClient(C, client)
  <1>1. /\ D.nb = C.nb + 1 /\ D.slot[D.nb] = client
        /\ \A i \in Used(C) : D.slot[i] = C.slot[i]
    BY AddFacts
  <1>2. Used(D) = Used(C) \cup {D.nb} /\ D.nb \notin Used(C)
    BY <1>1 DEF Used, Array
  <1>3. UsedSocks(D) = UsedSocks(C) \cup {client.sock}
    BY <1>1, <1>2 DEF UsedSocks
  <1>4. OnceEach(D)
    BY <1>1, <1>2 DEF OnceEach, UsedSocks
  <1> QED
    BY <1>3, <1>4

(***************************************************************************)
(* A client is removed with its socket, or was not in the array.           *)
(***************************************************************************)
LEMMA RemoveFacts ==
  ASSUME NEW C \in Array, OnceEach(C), NEW client \in Client
  PROVE  LET D == RemoveClient(C, client) IN
         /\ D \in Array /\ Len(D.slot) = Len(C.slot) /\ OnceEach(D)
         /\ \/ D = C
            \/ client.sock \in UsedSocks(C) /\ UsedSocks(D) = UsedSocks(C) \ {client.sock}
         /\ Matching(C, client) # {} => D # C
         /\ \A i \in Used(C) : C.slot[i].sock # client.sock => \E j \in Used(D) : D.slot[j] = C.slot[i]
  <1> DEFINE D == RemoveClient(C, client)
             L == Len(C.slot)
  <1>1. C.slot \in Seq(Client) /\ C.nb \in Nat /\ C.nb <= L /\ L \in Nat /\ DOMAIN C.slot = 1..L
    BY DEF Array
  <1>2. CASE Matching(C, client) = {}
    BY <1>2 DEF RemoveClient
  <1>3. CASE Matching(C, client) # {}
    <2>1. PICK k \in 1..C.nb : C.slot[k] = client
      BY <1>3 DEF Matching, Used
    <2>2. Matching(C, client) = {k}
      BY <2>1 DEF Matching, OnceEach, Used
    <2>3. (CHOOSE i \in Matching(C, client) : \A j \in Matching(C, client) : i <= j) = k
      BY <2>1, <2>2, <1>1
    <2> DEFINE s == [i \in 1..L |-> IF i \in k..(C.nb - 1) THEN C.slot[i + 1] ELSE C.slot[i]]
    <2>4. D = [slot |-> s, nb |-> C.nb - 1]
      BY <1>1, <1>3, <2>3 DEF RemoveClient
    <2>5. \A i \in 1..L : s[i] \in Client
      BY <1>1, <2>1
    <2>6. s \in Seq(Client) /\ Len(s) = L
      BY <1>1, <2>5, SeqDef
    <2>7. D \in Array
      BY <1>1, <2>1, <2>4, <2>6 DEF Array
    <2> HIDE DEF D
    <2>8. D.nb = C.nb - 1 /\ D.slot = s
      BY <2>4
    <2>9. \A i \in Used(D) : D.slot[i] = C.slot[IF i < k THEN i ELSE i + 1]
      BY <1>1, <2>1, <2>8 DEF Used
    <2> DEFINE from(i) == IF i < k THEN i ELSE i + 1
    <2>10. OnceEach(D)
      <3>1. SUFFICES ASSUME NEW i \in Used(D), NEW j \in Used(D), D.slot[i].sock = D.slot[j].sock
                     PROVE  i = j
        BY DEF OnceEach
      <3>2. i \in Nat /\ j \in Nat /\ from(i) \in Used(C) /\ from(j) \in Used(C)
        BY <1>1, <2>1, <2>8 DEF Used
      <3>3. C.slot[from(i)].sock = C.slot[from(j)].sock
        BY <2>9, <3>1
      <3>4. from(i) = from(j)
        BY <3>2, <3>3 DEF OnceEach
      <3> QED
        BY <3>2, <3>4
    <2>11. ASSUME NEW i \in Used(C), C.slot[i].sock # client.sock
           PROVE  \E j \in Used(D) : D.slot[j] = C.slot[i]
      <3>1. i # k
        BY <2>1, <2>11
      <3>2. (IF i < k THEN i ELSE i - 1) \in Used(D)
        BY <1>1, <2>1, <2>8, <3>1 DEF Used
      <3>3. D.slot[IF i < k THEN i ELSE i - 1] = C.slot[i]
        BY <1>1, <2>1, <2>9, <3>1, <3>2 DEF Used
      <3> QED
        BY <3>2, <3>3
    <2>12. UsedSocks(D) = UsedSocks(C) \ {client.sock}
      <3>1. ASSUME NEW i \in Used(D) PROVE D.slot[i].sock \in UsedSocks(C) \ {client.sock}
        <4>1. from(i) \in Used(C) /\ from(i) # k
          BY <1>1, <2>1, <2>8 DEF Used
        <4>2. D.slot[i] = C.slot[from(i)]
          BY <2>9
        <4>3. k \in Used(C)
          BY <2>1 DEF Used
        <4> QED
          BY <2>1, <4>1, <4>2, <4>3 DEF UsedSocks, OnceEach
      <3> QED
        BY <2>11, <3>1 DEF UsedSocks
    <2>13. client.sock \in UsedSocks(C)
      BY <2>1 DEF UsedSocks, Used
    <2>14. Len(D.slot) = Len(C.slot) /\ D # C
      BY <1>1, <2>6, <2>8
    <2> QED
      BY <2>7, <2>10, <2>11, <2>12, <2>13, <2>14 DEF D
  <1> QED
    BY <1>2, <1>3

------------------------------------------------------------------------------
(***************************************************************************)
(* The number the system gives to a new socket is free, and there is one   *)
(* for each peer.                                                          *)
(***************************************************************************)
LEMMA NewSockFacts ==
  ASSUME TypeOK
  PROVE  /\ NewSock \in Nat \ {0} /\ NewSock \notin SockInUse
         /\ \A q \in Peer : sock[q] = 0 => NewSock \in 1..Cardinality(Peer)
  <1> DEFINE Q == {p \in Peer : sock[p] # 0}
             f == [p \in Q |-> sock[p]]
             n == Cardinality(SockInUse)
  <1>1. IsFiniteSet(Q) /\ Cardinality(Q) \in Nat
    BY FS_Subset, FS_CardinalityType, NetAssumption
  <1>2. f \in Surjection(Q, SockInUse)
    BY Fun_IsSurj DEF SockInUse
  <1> HIDE DEF Q, f
  <1>3. IsFiniteSet(SockInUse) /\ n <= Cardinality(Q)
    BY <1>1, <1>2, FS_Surjection
  <1>4. n \in Nat
    BY <1>3, FS_CardinalityType
  <1> HIDE DEF n
  <1> DEFINE T == {k \in 1..(n + 1) : k \notin SockInUse}
  <1>5. T # {}
    <2>1. SUFFICES ASSUME 1..(n + 1) \subseteq SockInUse PROVE FALSE
      OBVIOUS
    <2>2. Cardinality(1..(n + 1)) = n + 1
      BY <1>4, FS_Interval
    <2>3. Cardinality(1..(n + 1)) <= n
      BY <1>3, <2>1, FS_Subset DEF n
    <2> QED
      BY <1>4, <2>2, <2>3
  <1>6. PICK k \in T : \A j \in T : ~(<<j, k>> \in OpToRel(<, Nat))
    <2>1. T \subseteq Nat
      BY <1>4
    <2> QED
      BY <1>5, <2>1, NatLessThanWellFounded, WFMin
  <1>7. \A j \in 1..(k - 1) : j \in SockInUse
    <2>1. SUFFICES ASSUME NEW j \in 1..(k - 1), j \notin SockInUse PROVE FALSE
      OBVIOUS
    <2>2. k \in 1..(n + 1)
      BY <1>6
    <2>3. k \in Nat /\ j \in Nat /\ j < k /\ j \in 1..(n + 1)
      BY <1>4, <2>1, <2>2
    <2>4. j \in T
      BY <2>1, <2>3
    <2>5. <<j, k>> \in OpToRel(<, Nat)
      BY <2>3 DEF OpToRel
    <2> QED
      BY <1>6, <2>4, <2>5
  <1>8. /\ NewSock \in 1..(n + 1) /\ NewSock \notin SockInUse
    BY <1>6, <1>7 DEF NewSock, n
  <1>9. ASSUME NEW q \in Peer, sock[q] = 0 PROVE n + 1 <= Cardinality(Peer)
    <2>1. IsFiniteSet(Peer \ {q}) /\ Cardinality(Peer \ {q}) = Cardinality(Peer) - 1
      BY NetAssumption, FS_RemoveElement
    <2>2. Q \subseteq Peer \ {q}
      BY <1>9 DEF Q
    <2>3. Cardinality(Q) <= Cardinality(Peer) - 1
      BY <2>1, <2>2, FS_Subset
    <2>4. Cardinality(Peer) \in Nat
      BY NetAssumption, FS_CardinalityType
    <2> QED
      BY <1>1, <1>3, <1>4, <2>3, <2>4
  <1>10. Cardinality(Peer) \in Nat
    BY NetAssumption, FS_CardinalityType
  <1> QED
    BY <1>4, <1>8, <1>9, <1>10

------------------------------------------------------------------------------
(***************************************************************************)
(* The inductive invariant.  A socket belongs to one peer; a peer without  *)
(* a connection has none, and waits in no queue; one that waits to be      *)
(* accepted waits once and has no socket yet; and while the network is     *)
(* open, the array holds the sockets of all connections but the one whose  *)
(* first read is not over, and no other during a first read.               *)
(***************************************************************************)
SocketsDiffer == \A p, q \in Peer : sock[p] = sock[q] /\ sock[p] # 0 => p = q

Waiting == {backlog[i] : i \in 1..Len(backlog)}

AwayIsOut == \A p \in Peer : remote[p] = "away" => sock[p] = 0 /\ p \notin Waiting

WaitingOnce ==
  /\ \A p \in Waiting : sock[p] = 0
  /\ \A i, j \in 1..Len(backlog) : backlog[i] = backlog[j] => i = j

ReadingHasSock == reading \in Peer => sock[reading] # 0

Connections == SockInUse \ {sock[p] : p \in {reading} \cap Peer}

ArrayIsRight ==
  status = "opened" =>
    /\ OnceEach(clients) /\ Connections \subseteq UsedSocks(clients)
    /\ reading # NoPeer => UsedSocks(clients) = Connections

Inv ==
  /\ TypeOK
  /\ SocketsDiffer /\ AwayIsOut /\ WaitingOnce
  /\ ReadingHasSock /\ ArrayIsRight

(***************************************************************************)
(* What a client without an id finds on the stack is a name, or none.      *)
(***************************************************************************)
NamedEvents == event # NoEvent => event[2] \in Peer \cup {Unnamed}

LEMMA InvInit == Init => Inv
  <1> SUFFICES ASSUME Init PROVE Inv
    OBVIOUS
  <1>1. Cardinality(Peer) \in Nat
    BY NetAssumption, FS_CardinalityType
  <1>2. clients \in Array /\ OnceEach(clients) /\ UsedSocks(clients) = {}
    BY NoClientsFacts DEF Init
  <1>3. TypeOK
    BY <1>1, <1>2, NetAssumption DEF Init, TypeOK, Array
  <1>4. Waiting = {} /\ SockInUse = {}
    BY DEF Init, Waiting, SockInUse
  <1> QED
    BY <1>2, <1>3, <1>4, NetAssumption
    DEF Init, Inv, SocketsDiffer, AwayIsOut, WaitingOnce, ReadingHasSock, ArrayIsRight, Connections

------------------------------------------------------------------------------
(***************************************************************************)
(* The steps of the peers.                                                 *)
(***************************************************************************)
LEMMA DialsKeeps ==
  ASSUME Inv, NEW p \in Peer, Dials(p)
  PROVE  Inv'
  <1> USE DEF Inv
  <1>1. backlog \in Seq(Peer) /\ backlog' = Append(backlog, p)
    BY DEF TypeOK, Dials
  <1>2. /\ backlog' \in Seq(Peer) /\ Len(backlog') = Len(backlog) + 1 /\ Len(backlog) \in Nat
        /\ \A i \in 1..Len(backlog) : backlog'[i] = backlog[i]
        /\ backlog'[Len(backlog) + 1] = p
    BY <1>1, AppendProperties
  <1>3. p \notin Waiting /\ sock[p] = 0
    BY DEF Dials, AwayIsOut
  <1>4. 1..Len(backlog') = 1..Len(backlog) \cup {Len(backlog) + 1}
    BY <1>2
  <1>5. Waiting' = Waiting \cup {p}
    BY <1>2, <1>4 DEF Waiting
  <1>6. TypeOK'
    BY <1>2, NetAssumption DEF TypeOK, Dials
  <1>7. WaitingOnce'
    <2>1. \A q \in Waiting' : sock'[q] = 0
      BY <1>3, <1>5 DEF WaitingOnce, Dials
    <2>2. \A i \in 1..Len(backlog) : backlog[i] # p
      BY <1>3 DEF Waiting
    <2>3. \A i, j \in 1..Len(backlog') : backlog'[i] = backlog'[j] => i = j
      BY <1>2, <1>4, <2>2 DEF WaitingOnce
    <2> QED
      BY <2>1, <2>3 DEF WaitingOnce
  <1>8. AwayIsOut'
    BY <1>5 DEF AwayIsOut, Dials, TypeOK
  <1> QED
    BY <1>6, <1>7, <1>8
    DEF Dials, SocketsDiffer, ReadingHasSock, ArrayIsRight, Connections, SockInUse

LEMMA SaysKeeps ==
  ASSUME Inv, NEW p \in Peer, Says(p)
  PROVE  Inv'
  <1>1. pending' \in [Peer -> 0..MaxPending]
    BY NetAssumption DEF Inv, TypeOK, Says
  <1> QED
    BY <1>1, SMTT(30) DEF Inv, TypeOK, Says, peers, SocketsDiffer, AwayIsOut, Waiting, WaitingOnce,
                ReadingHasSock, ArrayIsRight, Connections, SockInUse

LEMMA HangsUpKeeps ==
  ASSUME Inv, NEW p \in Peer, HangsUp(p)
  PROVE  Inv'
  <1>1. TypeOK'
    BY DEF Inv, TypeOK, HangsUp
  <1>2. Waiting' = Waiting /\ SockInUse' = SockInUse
    BY DEF HangsUp, Waiting, SockInUse
  <1>3. AwayIsOut'
    BY <1>2 DEF Inv, TypeOK, AwayIsOut, HangsUp
  <1> QED
    BY <1>1, <1>2, <1>3 DEF Inv, HangsUp, SocketsDiffer, WaitingOnce,
                            ReadingHasSock, ArrayIsRight, Connections

------------------------------------------------------------------------------
(***************************************************************************)
(* When select does not fail the array is exactly the open connections.    *)
(***************************************************************************)
LEMMA BetweenReads ==
  ASSUME Inv, Selects
  PROVE  clients \in Array /\ OnceEach(clients) /\ UsedSocks(clients) = SockInUse
  <1>1. {reading} \cap Peer = {}
    BY NetAssumption DEF Selects
  <1>2. Connections = SockInUse
    BY <1>1 DEF Connections
  <1>3. clients \in Array
    BY DEF Inv, TypeOK, Array
  <1>4. OnceEach(clients) /\ SockInUse \subseteq UsedSocks(clients)
    BY <1>2 DEF Selects, Inv, ArrayIsRight
  <1> QED
    BY <1>3, <1>4 DEF Selects, DeadSocks

(***************************************************************************)
(* Connections accepted, closed and refused.                               *)
(***************************************************************************)
LEMMA CloseKeeps ==
  ASSUME Inv, Close
  PROVE  Inv'
  <1>1. Cardinality(Peer) \in Nat
    BY NetAssumption, FS_CardinalityType
  <1>2. clients' \in Array
    BY NoClientsFacts DEF Close, Closed
  <1>3. TypeOK'
    BY <1>1, <1>2, NetAssumption DEF Inv, Close, Closed, TypeOK, Array
  <1>4. Waiting' = {}
    BY DEF Close, Closed, Waiting
  <1> QED
    BY <1>3, <1>4, NetAssumption
    DEF Close, Closed, Inv, SocketsDiffer, AwayIsOut, WaitingOnce, ReadingHasSock, ArrayIsRight

LEMMA AcceptKeeps ==
  ASSUME Inv, Accept
  PROVE  Inv'
  <1> DEFINE p == Head(backlog)
             k == NewSock
  <1>1. /\ backlog \in Seq(Peer) /\ backlog # <<>> /\ backlog' = Tail(backlog)
        /\ Len(backlog) \in Nat
    BY DEF Inv, TypeOK, Accept
  <1>2. /\ p \in Peer /\ p = backlog[1] /\ backlog' \in Seq(Peer)
        /\ Len(backlog') = Len(backlog) - 1 /\ Len(backlog) > 0
        /\ \A i \in 1..Len(backlog') : backlog'[i] = backlog[i + 1]
    BY <1>1, HeadTailProperties
  <1>3. p \in Waiting
    BY <1>1, <1>2 DEF Waiting
  <1>4. sock[p] = 0 /\ remote[p] # "away"
    BY <1>2, <1>3 DEF Inv, WaitingOnce, AwayIsOut
  <1>5. Waiting' = Waiting \ {p}
    <2>1. ASSUME NEW i \in 1..Len(backlog') PROVE backlog'[i] \in Waiting \ {p}
      <3>1. i + 1 \in 1..Len(backlog) /\ 1 \in 1..Len(backlog) /\ i + 1 # 1
        BY <1>1, <1>2
      <3> QED
        BY <1>2, <3>1 DEF Waiting, Inv, WaitingOnce
    <2>2. ASSUME NEW j \in 1..Len(backlog), backlog[j] # p PROVE backlog[j] \in Waiting'
      <3>1. j # 1
        BY <1>2, <2>2
      <3>2. j - 1 \in 1..Len(backlog')
        BY <1>1, <1>2, <3>1
      <3>3. backlog'[j - 1] = backlog[j]
        BY <1>2, <3>2
      <3> QED
        BY <3>2, <3>3 DEF Waiting
    <2> QED
      BY <2>1, <2>2 DEF Waiting
  <1>6. k \in Nat \ {0} /\ k \notin SockInUse /\ k \in 1..Cardinality(Peer)
    BY <1>2, <1>4, NewSockFacts DEF Inv
  <1> HIDE DEF p, k
  <1>7. sock' = [sock EXCEPT ![p] = k] /\ reading' = p
    BY DEF Accept, p, k
  <1>8. /\ UNCHANGED <<status, clients, remote, connects, pending, held>>
        /\ status = "opened" /\ reading = NoPeer /\ Selects
    BY DEF Accept, Selects, peers
  <1>9. sock \in [Peer -> 0..Cardinality(Peer)]
    BY DEF Inv, TypeOK
  <1>10. sock' \in [Peer -> 0..Cardinality(Peer)]
    BY <1>2, <1>6, <1>7, <1>9
  <1>11. TypeOK'
    BY <1>2, <1>7, <1>8, <1>10 DEF Inv, TypeOK
  <1>12. SockInUse' = SockInUse \cup {k}
    BY <1>2, <1>4, <1>6, <1>7, <1>9 DEF SockInUse
  <1>13. SocketsDiffer'
    BY <1>2, <1>6, <1>7, <1>9 DEF Inv, SocketsDiffer, SockInUse
  <1>14. AwayIsOut'
    BY <1>2, <1>4, <1>5, <1>7, <1>8, <1>9 DEF Inv, AwayIsOut
  <1>15. WaitingOnce'
    <2>1. \A q \in Waiting' : sock'[q] = 0
      <3>1. Waiting \subseteq Peer
        BY <1>1 DEF Waiting
      <3> QED
        BY <1>5, <1>7, <1>9, <3>1 DEF Inv, WaitingOnce
    <2>2. \A i, j \in 1..Len(backlog') : backlog'[i] = backlog'[j] => i = j
      <3>1. SUFFICES ASSUME NEW i \in 1..Len(backlog'), NEW j \in 1..Len(backlog'),
                            backlog'[i] = backlog'[j]
                     PROVE  i = j
        OBVIOUS
      <3>2. i + 1 \in 1..Len(backlog) /\ j + 1 \in 1..Len(backlog)
        BY <1>1, <1>2
      <3>3. i + 1 = j + 1
        BY <1>2, <3>1, <3>2 DEF Inv, WaitingOnce
      <3> QED
        BY <3>3
    <2> QED
      BY <2>1, <2>2 DEF WaitingOnce
  <1>16. ReadingHasSock'
    BY <1>2, <1>6, <1>7, <1>9 DEF ReadingHasSock
  <1>17. ArrayIsRight'
    <2>1. OnceEach(clients) /\ UsedSocks(clients) = SockInUse
      BY <1>8, BetweenReads
    <2>2. Connections' = SockInUse
      BY <1>2, <1>6, <1>7, <1>9, <1>12 DEF Connections
    <2> QED
      BY <1>8, <2>1, <2>2 DEF ArrayIsRight
  <1> QED
    BY <1>11, <1>13, <1>14, <1>15, <1>16, <1>17 DEF Inv

(***************************************************************************)
(* Closing the socket of a connection that no queue holds.                 *)
(***************************************************************************)
LEMMA ForgetsKeeps ==
  ASSUME Inv, NEW p \in Peer, sock[p] # 0, Forgets(p), backlog' = backlog, reading' = NoPeer
  PROVE  /\ SocketsDiffer' /\ AwayIsOut' /\ WaitingOnce' /\ ReadingHasSock'
         /\ SockInUse' = SockInUse \ {sock[p]} /\ Connections' = SockInUse'
         /\ sock' \in [Peer -> 0..Cardinality(Peer)]
         /\ remote' \in [Peer -> {"away", "there", "gone"}]
  <1>1. /\ sock \in [Peer -> 0..Cardinality(Peer)] /\ sock' = [sock EXCEPT ![p] = 0]
        /\ remote \in [Peer -> {"away", "there", "gone"}] /\ remote' = [remote EXCEPT ![p] = "away"]
        /\ backlog \in Seq(Peer) /\ backlog' = backlog
    BY DEF Inv, TypeOK, Forgets
  <1>2. Cardinality(Peer) \in Nat
    BY NetAssumption, FS_CardinalityType
  <1>3. Waiting' = Waiting /\ Waiting \subseteq Peer /\ p \notin Waiting
    BY <1>1 DEF Waiting, Inv, WaitingOnce
  <1>4. SocketsDiffer'
    BY <1>1 DEF Inv, SocketsDiffer
  <1>5. AwayIsOut'
    BY <1>1, <1>3 DEF Inv, AwayIsOut
  <1>6. WaitingOnce'
    BY <1>1, <1>3 DEF Inv, WaitingOnce
  <1>7. SockInUse' = SockInUse \ {sock[p]}
    BY <1>1 DEF SockInUse, Inv, SocketsDiffer
  <1>8. Connections' = SockInUse'
    BY NetAssumption DEF Connections
  <1> QED
    BY <1>1, <1>2, <1>4, <1>5, <1>6, <1>7, <1>8, NetAssumption DEF ReadingHasSock

LEMMA FirstReadKeeps ==
  ASSUME Inv, NamedEvents, FirstRead
  PROVE  Inv'
  <1>1. /\ status = "opened" /\ reading \in Peer
        /\ UNCHANGED <<status, backlog, sock, remote, connects>> /\ reading' = NoPeer
    BY DEF FirstRead, peers, Inv, TypeOK
  <1>2. PICK k \in Takes(reading), id \in UnsetIds \cup {reading} :
          /\ pending' = [pending EXCEPT ![reading] = @ - k]
          /\ clients' = AddClient(clients, [sock |-> sock[reading], id |-> id])
          /\ held' = [held EXCEPT ![reading] = IF id = reading /\ k > 0 THEN clients'.nb ELSE 0]
    BY DEF FirstRead
  <1>20. id \in Peer \cup {Unnamed}
    BY <1>1 DEF UnsetIds, NamedEvents
  <1> DEFINE client == [sock |-> sock[reading], id |-> id]
  <1>3. /\ clients \in Array /\ OnceEach(clients) /\ sock[reading] # 0
        /\ UsedSocks(clients) = SockInUse \ {sock[reading]}
        /\ sock[reading] \in 0..Cardinality(Peer) /\ Cardinality(Peer) \in Nat
    BY <1>1, NetAssumption, FS_CardinalityType
    DEF Inv, TypeOK, Array, ArrayIsRight, Connections, ReadingHasSock
  <1>4. client \in Client /\ client.sock \notin UsedSocks(clients)
    BY <1>1, <1>3, <1>20 DEF Client
  <1>5. /\ clients' \in Array /\ Len(clients.slot) <= Len(clients'.slot)
    BY <1>2, <1>3, <1>4, AddFacts
  <1>6. OnceEach(clients') /\ UsedSocks(clients') = UsedSocks(clients) \cup {sock[reading]}
    BY <1>2, <1>3, <1>4, AddSocks
  <1>7. pending' \in [Peer -> 0..MaxPending]
    <2>1. pending \in [Peer -> 0..MaxPending]
      BY DEF Inv, TypeOK
    <2>2. pending[reading] - k \in 0..MaxPending
      BY <1>1, <2>1, NetAssumption DEF Takes
    <2> QED
      BY <1>2, <2>1, <2>2
  <1>8. held' \in [Peer -> 0..Len(clients'.slot)]
    <2>1. held \in [Peer -> 0..Len(clients.slot)] /\ Len(clients.slot) \in Nat
      BY <1>3 DEF Inv, TypeOK, Array
    <2>2. clients'.nb \in 0..Len(clients'.slot) /\ Len(clients'.slot) \in Nat
      BY <1>5 DEF Array
    <2>3. held \in [Peer -> 0..Len(clients'.slot)]
      BY <1>5, <2>1, <2>2
    <2> DEFINE h == IF id = reading /\ k > 0 THEN clients'.nb ELSE 0
    <2>4. h \in 0..Len(clients'.slot)
      BY <2>2
    <2>5. held' = [held EXCEPT ![reading] = h]
      BY <1>2
    <2> HIDE DEF h
    <2> QED
      BY <2>3, <2>4, <2>5
  <1>9. TypeOK'
    BY <1>1, <1>5, <1>7, <1>8 DEF Inv, TypeOK, Array
  <1>10. Connections' = SockInUse /\ SockInUse' = SockInUse
    BY <1>1, NetAssumption DEF Connections, SockInUse
  <1>11. sock[reading] \in SockInUse
    BY <1>1, <1>3 DEF SockInUse
  <1>12. ArrayIsRight'
    BY <1>3, <1>6, <1>10, <1>11 DEF ArrayIsRight
  <1> QED
    BY <1>1, <1>9, <1>12, NetAssumption
    DEF Inv, SocketsDiffer, AwayIsOut, Waiting, WaitingOnce, ReadingHasSock

LEMMA FirstReadRefusedKeeps ==
  ASSUME Inv, FirstReadRefused
  PROVE  Inv'
  <1> DEFINE client == [sock |-> sock[reading], id |-> Unnamed]
             A == AddClient(clients, client)
  <1>1. /\ status = "opened" /\ reading \in Peer /\ Forgets(reading) /\ reading' = NoPeer
        /\ pending' = [pending EXCEPT ![reading] = 0] /\ clients' = RemoveClient(A, client)
        /\ UNCHANGED <<status, backlog, connects, held>>
    BY DEF FirstReadRefused, Inv, TypeOK
  <1>2. /\ clients \in Array /\ OnceEach(clients) /\ sock[reading] # 0
        /\ UsedSocks(clients) = SockInUse \ {sock[reading]}
        /\ sock[reading] \in 0..Cardinality(Peer) /\ Cardinality(Peer) \in Nat
    BY <1>1, NetAssumption, FS_CardinalityType
    DEF Inv, TypeOK, Array, ArrayIsRight, Connections, ReadingHasSock
  <1>3. client \in Client /\ client.sock = sock[reading] /\ client.sock \notin UsedSocks(clients)
    BY <1>1, <1>2 DEF Client
  <1> HIDE DEF client
  <1>4. /\ A \in Array /\ Len(clients.slot) <= Len(A.slot)
        /\ A.nb = clients.nb + 1 /\ A.slot[A.nb] = client
    BY <1>2, <1>3, AddFacts
  <1>5. OnceEach(A) /\ UsedSocks(A) = UsedSocks(clients) \cup {sock[reading]}
    BY <1>2, <1>3, AddSocks
  <1> HIDE DEF A
  <1>6. Matching(A, client) # {}
    BY <1>2, <1>4 DEF Matching, Used, Array
  <1>7. /\ clients' \in Array /\ Len(clients'.slot) = Len(A.slot) /\ OnceEach(clients')
        /\ UsedSocks(clients') = UsedSocks(A) \ {sock[reading]}
    BY <1>1, <1>3, <1>4, <1>5, <1>6, RemoveFacts
  <1>8. pending' \in [Peer -> 0..MaxPending]
    BY <1>1, NetAssumption DEF Inv, TypeOK
  <1>9. held' \in [Peer -> 0..Len(clients'.slot)]
    <2>1. held \in [Peer -> 0..Len(clients.slot)] /\ Len(clients.slot) \in Nat
      BY <1>2 DEF Inv, TypeOK, Array
    <2>2. Len(clients'.slot) \in Nat /\ Len(clients.slot) <= Len(clients'.slot)
      BY <1>4, <1>7 DEF Array
    <2> QED
      BY <1>1, <2>1, <2>2
  <1>10. /\ SocketsDiffer' /\ AwayIsOut' /\ WaitingOnce' /\ ReadingHasSock'
         /\ SockInUse' = SockInUse \ {sock[reading]} /\ Connections' = SockInUse'
         /\ sock' \in [Peer -> 0..Cardinality(Peer)]
         /\ remote' \in [Peer -> {"away", "there", "gone"}]
    BY <1>1, <1>2, ForgetsKeeps
  <1>11. TypeOK'
    BY <1>1, <1>7, <1>8, <1>9, <1>10 DEF Inv, TypeOK, Array
  <1>12. ArrayIsRight'
    BY <1>2, <1>5, <1>7, <1>10 DEF ArrayIsRight
  <1> QED
    BY <1>10, <1>11, <1>12 DEF Inv

------------------------------------------------------------------------------
(***************************************************************************)
(* The events of the clients that are served.                              *)
(***************************************************************************)
LEMMA ConnectsKeeps ==
  ASSUME Inv, Selects, NEW q \in Peer, HandlerConnects(q),
         UNCHANGED <<reading, backlog>>, pending' \in [Peer -> 0..MaxPending]
  PROVE  Inv'
  <1> DEFINE k == NewSock
             client == [sock |-> k, id |-> q]
  <1>1. /\ remote[q] = "away" /\ connects < MaxConnects /\ connects' = connects + 1
        /\ remote' = [remote EXCEPT ![q] = "there"] /\ sock' = [sock EXCEPT ![q] = k]
        /\ clients' = AddClient(clients, client) /\ held' = [held EXCEPT ![q] = clients'.nb]
        /\ status' = status /\ status = "opened" /\ reading = NoPeer
    BY DEF HandlerConnects, Selects
  <1>2. /\ clients \in Array /\ OnceEach(clients) /\ UsedSocks(clients) = SockInUse
        /\ sock[q] = 0 /\ q \notin Waiting
    BY <1>1, BetweenReads DEF Inv, AwayIsOut
  <1>3. k \in Nat \ {0} /\ k \notin SockInUse /\ k \in 1..Cardinality(Peer)
    BY <1>2, NewSockFacts DEF Inv
  <1> HIDE DEF k
  <1>4. client \in Client /\ client.sock = k /\ client.sock \notin UsedSocks(clients)
    BY <1>2, <1>3 DEF Client
  <1> HIDE DEF client
  <1>5. clients' \in Array /\ Len(clients.slot) <= Len(clients'.slot)
    BY <1>1, <1>2, <1>4, AddFacts
  <1>6. OnceEach(clients') /\ UsedSocks(clients') = UsedSocks(clients) \cup {k}
    BY <1>1, <1>2, <1>4, AddSocks
  <1>7. sock \in [Peer -> 0..Cardinality(Peer)] /\ sock' \in [Peer -> 0..Cardinality(Peer)]
    BY <1>1, <1>3 DEF Inv, TypeOK
  <1>8. held' \in [Peer -> 0..Len(clients'.slot)]
    <2>1. held \in [Peer -> 0..Len(clients.slot)] /\ Len(clients.slot) \in Nat
      BY <1>2 DEF Inv, TypeOK, Array
    <2>2. clients'.nb \in 0..Len(clients'.slot) /\ Len(clients'.slot) \in Nat
      BY <1>5 DEF Array
    <2>3. held \in [Peer -> 0..Len(clients'.slot)]
      BY <1>5, <2>1, <2>2
    <2> QED
      BY <1>1, <2>2, <2>3
  <1>9. TypeOK'
    BY <1>1, <1>5, <1>7, <1>8, NetAssumption, SMTT(30) DEF Inv, TypeOK, Array
  <1>10. SockInUse' = SockInUse \cup {k}
    BY <1>1, <1>2, <1>3, <1>7 DEF SockInUse
  <1>11. SocketsDiffer'
    BY <1>1, <1>3, <1>7 DEF Inv, SocketsDiffer, SockInUse
  <1>12. Waiting' = Waiting /\ Waiting \subseteq Peer
    <2>1. backlog' = backlog /\ backlog \in Seq(Peer)
      BY DEF Inv, TypeOK
    <2> QED
      BY <2>1 DEF Waiting
  <1>13. AwayIsOut'
    BY <1>1, <1>7, <1>12 DEF Inv, TypeOK, AwayIsOut
  <1>14. WaitingOnce'
    BY <1>1, <1>2, <1>7, <1>12 DEF Inv, WaitingOnce
  <1>15. Connections' = SockInUse' /\ reading' = NoPeer
    BY <1>1, NetAssumption DEF Connections
  <1>16. ArrayIsRight'
    BY <1>2, <1>6, <1>10, <1>15 DEF ArrayIsRight
  <1> QED
    BY <1>9, <1>11, <1>13, <1>14, <1>15, <1>16, NetAssumption DEF Inv, ReadingHasSock

(***************************************************************************)
(* If the pointer leads beyond the used slots, either its socket is closed *)
(* already and nothing is done, or the socket may be closed and stay.      *)
(***************************************************************************)
LEMMA DisconnectsKeeps ==
  ASSUME Inv, Selects, NEW client \in Client,
         HandlerDisconnects(client), UNCHANGED <<reading, backlog>>,
         pending' \in [Peer -> 0..MaxPending], held' \in [Peer -> 0..Len(clients.slot)]
  PROVE  Inv'
  <1>1. /\ clients' = RemoveClient(clients, client) /\ connects' = connects
        /\ status' = status /\ reading = NoPeer
        /\ client.sock \in SockInUse => Forgets(PeerOn(client.sock))
        /\ client.sock \notin SockInUse => UNCHANGED <<sock, remote>>
    BY DEF HandlerDisconnects, Selects
  <1>2. clients \in Array /\ OnceEach(clients) /\ UsedSocks(clients) = SockInUse
    BY BetweenReads
  <1>3. /\ clients' \in Array /\ Len(clients'.slot) = Len(clients.slot) /\ OnceEach(clients')
        /\ \/ clients' = clients
           \/ client.sock \in SockInUse /\ UsedSocks(clients') = SockInUse \ {client.sock}
    BY <1>1, <1>2, RemoveFacts
  <1>4. TypeOK' <=> /\ sock' \in [Peer -> 0..Cardinality(Peer)]
                    /\ remote' \in [Peer -> {"away", "there", "gone"}]
    BY <1>1, <1>3 DEF Inv, TypeOK, Array
  <1>5. CASE client.sock \in SockInUse
    <2> DEFINE p == PeerOn(client.sock)
    <2>1. p \in Peer /\ sock[p] = client.sock /\ sock[p] # 0
      BY <1>5 DEF PeerOn, SockInUse
    <2> HIDE DEF p
    <2>2. Forgets(p)
      BY <1>1, <1>5 DEF p
    <2>3. /\ SocketsDiffer' /\ AwayIsOut' /\ WaitingOnce' /\ ReadingHasSock'
          /\ SockInUse' = SockInUse \ {sock[p]} /\ Connections' = SockInUse'
          /\ sock' \in [Peer -> 0..Cardinality(Peer)]
          /\ remote' \in [Peer -> {"away", "there", "gone"}]
      BY <1>1, <2>1, <2>2, ForgetsKeeps
    <2>4. ArrayIsRight'
      BY <1>1, <1>2, <1>3, <1>5, <2>1, <2>3 DEF ArrayIsRight
    <2> QED
      BY <1>4, <2>3, <2>4 DEF Inv
  <1>6. CASE client.sock \notin SockInUse
    <2>1. UNCHANGED <<clients, sock, remote, status, reading, backlog>>
      BY <1>1, <1>2, <1>3, <1>6
    <2>2. UNCHANGED <<SockInUse, Waiting, Connections>>
      BY <2>1 DEF SockInUse, Waiting, Connections
    <2>3. TypeOK'
      BY <1>4, <2>1 DEF Inv, TypeOK
    <2> QED
      BY <2>1, <2>2, <2>3 DEF Inv, SocketsDiffer, AwayIsOut, WaitingOnce,
                              ReadingHasSock, ArrayIsRight
  <1> QED
    BY <1>5, <1>6

LEMMA ServeKeeps ==
  ASSUME Inv, NEW i \in Used(clients), Serve(i)
  PROVE  Inv'
  <1> DEFINE client == clients.slot[i]
             p == PeerOn(client.sock)
  <1>1. Selects /\ (MessageEvent(i, p) \/ DisconnectionEvent(i, p))
    BY DEF Serve
  <1>2. /\ clients.slot \in Seq(Client) /\ clients.nb \in Nat /\ clients.nb <= Len(clients.slot)
        /\ held \in [Peer -> 0..Len(clients.slot)] /\ pending \in [Peer -> 0..MaxPending]
    BY DEF Inv, TypeOK
  <1>3. client \in Client
    BY <1>2 DEF Used
  <1>4. UsedSocks(clients) = SockInUse
    BY <1>1, BetweenReads
  <1>5. client.sock \in SockInUse
    BY <1>4 DEF UsedSocks
  <1>6. p \in Peer
    BY <1>5 DEF PeerOn, SockInUse
  <1> HIDE DEF p, client
  <1>7. CASE MessageEvent(i, p)
    <2>1. /\ pending[p] > 0 /\ UNCHANGED <<reading, backlog>>
          /\ \E k \in Takes(p) : LET left == [pending EXCEPT ![p] = @ - k] IN
               \/ pending' = left /\ UNCHANGED <<status, clients, sock, peers, held>>
               \/ pending' = left /\ \E q \in Peer : HandlerConnects(q)
               \/ /\ HandlerDisconnects(client)
                  /\ pending' = [left EXCEPT ![p] = 0]
                  /\ UNCHANGED held
               \/ \E q \in Peer :
                    /\ held[q] # 0 /\ held' = [held EXCEPT ![q] = 0]
                    /\ HandlerDisconnects(clients.slot[held[q]])
                    /\ pending' = [r \in Peer |-> IF sock'[r] = 0 /\ sock[r] # 0 THEN 0 ELSE left[r]]
      BY <1>7 DEF MessageEvent, client
    <2>2. PICK k \in Takes(p) : LET left == [pending EXCEPT ![p] = @ - k] IN
               \/ pending' = left /\ UNCHANGED <<status, clients, sock, peers, held>>
               \/ pending' = left /\ \E q \in Peer : HandlerConnects(q)
               \/ /\ HandlerDisconnects(client)
                  /\ pending' = [left EXCEPT ![p] = 0]
                  /\ UNCHANGED held
               \/ \E q \in Peer :
                    /\ held[q] # 0 /\ held' = [held EXCEPT ![q] = 0]
                    /\ HandlerDisconnects(clients.slot[held[q]])
                    /\ pending' = [r \in Peer |-> IF sock'[r] = 0 /\ sock[r] # 0 THEN 0 ELSE left[r]]
      BY <2>1
    <2> DEFINE left == [pending EXCEPT ![p] = @ - k]
    <2>3. pending[p] - k \in 0..MaxPending
      BY <1>2, <1>6, <2>1, NetAssumption DEF Takes
    <2>4. left \in [Peer -> 0..MaxPending]
      BY <1>2, <2>3
    <2> HIDE DEF left
    <2>5. CASE pending' = left /\ UNCHANGED <<status, clients, sock, peers, held>>
      BY <2>1, <2>4, <2>5, SMTT(30) DEF Inv, TypeOK, peers, SocketsDiffer, AwayIsOut, Waiting, WaitingOnce,
                              ReadingHasSock, ArrayIsRight, Connections, SockInUse
    <2>6. CASE pending' = left /\ \E q \in Peer : HandlerConnects(q)
      BY <1>1, <2>1, <2>4, <2>6, ConnectsKeeps
    <2>7. CASE HandlerDisconnects(client) /\ pending' = [left EXCEPT ![p] = 0] /\ UNCHANGED held
      <3>1. pending' \in [Peer -> 0..MaxPending]
        <4>1. 0 \in 0..MaxPending
          BY NetAssumption
        <4>2. pending' = [left EXCEPT ![p] = 0]
          BY <2>7
        <4> QED
          BY <1>6, <2>4, <4>1, <4>2
      <3> QED
        BY <1>1, <1>2, <1>3, <2>1, <2>7, <3>1, DisconnectsKeeps
    <2>8. CASE \E q \in Peer :
                    /\ held[q] # 0 /\ held' = [held EXCEPT ![q] = 0]
                    /\ HandlerDisconnects(clients.slot[held[q]])
                    /\ pending' = [r \in Peer |-> IF sock'[r] = 0 /\ sock[r] # 0 THEN 0 ELSE left[r]]
      <3>1. PICK q \in Peer :
                    /\ held[q] # 0 /\ held' = [held EXCEPT ![q] = 0]
                    /\ HandlerDisconnects(clients.slot[held[q]])
                    /\ pending' = [r \in Peer |-> IF sock'[r] = 0 /\ sock[r] # 0 THEN 0 ELSE left[r]]
        BY <2>8
      <3>2. clients.slot[held[q]] \in Client
        BY <1>2, <3>1
      <3>3. pending' \in [Peer -> 0..MaxPending]
        <4>1. 0 \in 0..MaxPending /\ \A r \in Peer : left[r] \in 0..MaxPending
          BY <2>4, NetAssumption
        <4> DEFINE lost(r) == sock'[r] = 0 /\ sock[r] # 0
        <4>2. pending' = [r \in Peer |-> IF lost(r) THEN 0 ELSE left[r]]
          BY <3>1
        <4> HIDE DEF lost
        <4> QED
          BY <4>1, <4>2
      <3>4. held' \in [Peer -> 0..Len(clients.slot)]
        BY <1>2, <3>1
      <3> QED
        BY <1>1, <2>1, <3>1, <3>2, <3>3, <3>4, DisconnectsKeeps
    <2> QED
      BY <2>2, <2>5, <2>6, <2>7, <2>8 DEF left
  <1>8. CASE DisconnectionEvent(i, p)
    <2>1. HandlerDisconnects(client) /\ UNCHANGED <<backlog, reading, pending, held>>
      BY <1>8 DEF DisconnectionEvent, client
    <2> QED
      BY <1>1, <1>2, <1>3, <2>1, DisconnectsKeeps
  <1> QED
    BY <1>1, <1>7, <1>8

------------------------------------------------------------------------------
LEMMA SelectFailsKeeps ==
  ASSUME Inv, SelectFails
  PROVE  Inv'
  <1>1. /\ status' = "ended" /\ clients' = clients /\ backlog' = backlog
        /\ reading' = reading /\ sock' = sock /\ remote' = remote
        /\ pending' = pending /\ held' = held /\ connects' = connects
    BY DEF SelectFails, peers
  <1>2. TypeOK'
    BY <1>1 DEF Inv, TypeOK
  <1>3. SocketsDiffer' /\ AwayIsOut' /\ WaitingOnce' /\ ReadingHasSock'
    BY <1>1 DEF Inv, SocketsDiffer, AwayIsOut, WaitingOnce, Waiting, ReadingHasSock
  <1>4. ArrayIsRight'
    BY <1>1 DEF ArrayIsRight
  <1> QED
    BY <1>2, <1>3, <1>4 DEF Inv

LEMMA NamedEventsKept ==
  ASSUME Inv, NamedEvents, [Next]_vars
  PROVE  NamedEvents'
  <1>1. ASSUME FirstRead PROVE NamedEvents'
    <2>1. PICK id \in UnsetIds \cup {reading} : event' = <<"connection", id>>
      BY <1>1 DEF FirstRead
    <2>2. id \in Peer \cup {Unnamed}
      BY <1>1 DEF UnsetIds, NamedEvents, FirstRead, Inv, TypeOK
    <2> QED
      BY <2>1, <2>2 DEF NamedEvents
  <1>2. ASSUME NEW i \in Used(clients), Serve(i) PROVE NamedEvents'
    <2>1. clients.slot[i] \in Client
      BY DEF Inv, TypeOK, Used
    <2>2. event' = <<"message", clients.slot[i].id>> \/ event' = <<"disconnection", clients.slot[i].id>>
      BY <1>2 DEF Serve, MessageEvent, DisconnectionEvent
    <2> QED
      BY <2>1, <2>2 DEF NamedEvents, Client
  <1>3. CASE event' = event
    BY <1>3 DEF NamedEvents
  <1> QED
    BY <1>1, <1>2, <1>3
    DEF Next, Dials, Says, HangsUp, Accept, FirstReadRefused, SelectFails, Close, Closed, vars

LEMMA InvNext == Inv /\ NamedEvents /\ [Next]_vars => Inv'
  <1> SUFFICES ASSUME Inv, NamedEvents, [Next]_vars PROVE Inv'
    OBVIOUS
  <1>1. CASE Next
    BY <1>1, DialsKeeps, SaysKeeps, HangsUpKeeps, AcceptKeeps, FirstReadKeeps,
       FirstReadRefusedKeeps, SelectFailsKeeps, ServeKeeps, CloseKeeps DEF Next
  <1>2. CASE UNCHANGED vars
    <2>1. /\ status' = status /\ clients' = clients /\ backlog' = backlog
          /\ reading' = reading /\ sock' = sock /\ remote' = remote
          /\ pending' = pending /\ held' = held /\ connects' = connects
      BY <1>2 DEF vars, peers
    <2>2. TypeOK' = TypeOK
      BY <2>1 DEF TypeOK
    <2>3. SocketsDiffer' = SocketsDiffer
      BY <2>1 DEF SocketsDiffer
    <2>4. AwayIsOut' = AwayIsOut /\ WaitingOnce' = WaitingOnce
      BY <2>1 DEF AwayIsOut, WaitingOnce, Waiting
    <2>5. ReadingHasSock' = ReadingHasSock
      BY <2>1 DEF ReadingHasSock
    <2>6. ArrayIsRight' = ArrayIsRight
      BY <2>1 DEF ArrayIsRight, Connections, SockInUse
    <2> QED
      BY <2>2, <2>3, <2>4, <2>5, <2>6 DEF Inv
  <1> QED
    BY <1>1, <1>2

THEOREM InvAlways == Spec => [](Inv /\ NamedEvents)
  <1>1. Init => NamedEvents
    BY DEF Init, NamedEvents
  <1>2. Inv /\ NamedEvents /\ [Next]_vars => NamedEvents'
    BY NamedEventsKept
  <1> QED
    BY InvInit, InvNext, <1>1, <1>2, PTL DEF Spec

(***************************************************************************)
(* The state of a network keeps its types: in particular a pointer to a    *)
(* client never leads out of the part of the array that was ever filled.   *)
(***************************************************************************)
THEOREM TypeCorrect == Spec => []TypeOK
  <1>1. Inv => TypeOK
    BY DEF Inv
  <1> QED
    BY InvAlways, <1>1, PTL

(***************************************************************************)
(* Whatever the peers do and whichever pointers the handlers use, while    *)
(* the network is open no connection is missing from the array of clients  *)
(* and no socket is in it twice (net.c, add_client and remove_client).     *)
(***************************************************************************)
THEOREM ArrayHoldsConnections == Spec => []SlotsAreConnections
  <1>1. Inv => SlotsAreConnections
    <2> SUFFICES ASSUME Inv, status = "opened"
                 PROVE  /\ Connections \subseteq UsedSocks(clients)
                        /\ Cardinality(UsedSocks(clients)) = clients.nb
      BY DEF SlotsAreConnections, Connections
    <2>1. OnceEach(clients) /\ Connections \subseteq UsedSocks(clients) /\ clients.nb \in Nat
      BY DEF Inv, ArrayIsRight, TypeOK
    <2> DEFINE f == [i \in Used(clients) |-> clients.slot[i].sock]
    <2>2. f \in Bijection(Used(clients), UsedSocks(clients))
      BY <2>1, Fun_IsBij DEF OnceEach, UsedSocks
    <2>3. IsFiniteSet(Used(clients)) /\ Cardinality(Used(clients)) = clients.nb
      BY <2>1, FS_Interval, SMTT(30) DEF Used
    <2>4. ExistsBijection(Used(clients), UsedSocks(clients))
      BY <2>2 DEF ExistsBijection
    <2> QED
      BY <2>1, <2>3, <2>4, FS_Bijection
  <1> QED
    BY InvAlways, <1>1, PTL

------------------------------------------------------------------------------
(***************************************************************************)
(* Which steps leave a closed socket in the array.                         *)
(***************************************************************************)
LeftoverUsed == \E q \in Peer : held[q] > clients.nb /\ held'[q] = 0

(***************************************************************************)
(* A client of a used slot leaves the array with its socket.               *)
(***************************************************************************)
LEMMA UsedLeaves ==
  ASSUME Inv, Selects, NEW i \in Used(clients), HandlerDisconnects(clients.slot[i])
  PROVE  DeadSocks' = {}
  <1> DEFINE client == clients.slot[i]
             p == PeerOn(client.sock)
  <1>1. clients \in Array /\ OnceEach(clients) /\ UsedSocks(clients) = SockInUse
    BY BetweenReads
  <1>2. client \in Client /\ client.sock \in SockInUse /\ i \in Matching(clients, client)
    BY <1>1 DEF Array, Used, UsedSocks, Matching
  <1>3. p \in Peer /\ sock[p] = client.sock
    BY <1>2 DEF PeerOn, SockInUse
  <1>4. clients' = RemoveClient(clients, client) /\ sock' = [sock EXCEPT ![p] = 0]
    BY <1>2 DEF HandlerDisconnects, Forgets
  <1> HIDE DEF client, p
  <1>5. UsedSocks(clients') = UsedSocks(clients) \ {client.sock}
    BY <1>1, <1>2, <1>4, RemoveFacts
  <1>6. SockInUse \ {client.sock} \subseteq SockInUse'
    BY <1>3, <1>4 DEF SockInUse, Inv, TypeOK
  <1> QED
    BY <1>1, <1>5, <1>6 DEF DeadSocks

LEMMA ConnectsHarmless ==
  ASSUME Inv, Selects, NEW q \in Peer, HandlerConnects(q)
  PROVE  DeadSocks' = {}
  <1>1. clients \in Array /\ OnceEach(clients) /\ UsedSocks(clients) = SockInUse /\ sock[q] = 0
    BY BetweenReads DEF Inv, AwayIsOut, HandlerConnects
  <1> DEFINE k == NewSock
  <1>2. k \notin SockInUse /\ k \in 1..Cardinality(Peer)
    BY <1>1, NewSockFacts DEF Inv
  <1>3. clients' = AddClient(clients, [sock |-> k, id |-> q]) /\ sock' = [sock EXCEPT ![q] = k]
    BY DEF HandlerConnects
  <1> HIDE DEF k
  <1>4. [sock |-> k, id |-> q] \in Client /\ [sock |-> k, id |-> q].sock = k
    BY <1>2 DEF Client
  <1>5. UsedSocks(clients') = SockInUse \cup {k}
    BY <1>1, <1>2, <1>3, <1>4, AddSocks
  <1>6. SockInUse \cup {k} \subseteq SockInUse'
    <2>1. sock \in [Peer -> 0..Cardinality(Peer)] /\ k # 0
      BY <1>2 DEF Inv, TypeOK
    <2> QED
      BY <1>1, <1>3, <2>1 DEF SockInUse
  <1> QED
    BY <1>5, <1>6 DEF DeadSocks

LEMMA ServeHarm ==
  ASSUME Inv, NEW i \in Used(clients), Serve(i)
  PROVE  DeadSocks' \subseteq DeadSocks \/ LeftoverUsed
  <1> DEFINE p == PeerOn(clients.slot[i].sock)
  <1>1. Selects /\ (MessageEvent(i, p) \/ DisconnectionEvent(i, p))
    BY DEF Serve
  <1> HIDE DEF p
  <1>2. CASE HandlerDisconnects(clients.slot[i])
    BY <1>1, <1>2, UsedLeaves
  <1>3. CASE \E q \in Peer : HandlerConnects(q)
    BY <1>1, <1>3, ConnectsHarmless
  <1>4. CASE UNCHANGED <<status, clients, sock, peers, held>>
    BY <1>4 DEF DeadSocks, SockInUse
  <1>5. ASSUME NEW q \in Peer, held[q] # 0, held' = [held EXCEPT ![q] = 0],
               HandlerDisconnects(clients.slot[held[q]])
        PROVE  DeadSocks' \subseteq DeadSocks \/ LeftoverUsed
    <2>1. /\ held \in [Peer -> 0..Len(clients.slot)] /\ clients.nb \in Nat
          /\ Len(clients.slot) \in Nat
      BY DEF Inv, TypeOK
    <2>2. CASE held[q] > clients.nb
      BY <1>5, <2>1, <2>2 DEF LeftoverUsed
    <2>3. CASE ~(held[q] > clients.nb)
      <3>1. held[q] \in Used(clients)
        BY <1>5, <2>1, <2>3 DEF Used
      <3> QED
        BY <1>1, <1>5, <3>1, UsedLeaves
    <2> QED
      BY <2>2, <2>3
  <1> QED
    BY <1>1, <1>2, <1>3, <1>4, <1>5 DEF MessageEvent, DisconnectionEvent

LEMMA FirstReadHarmless ==
  ASSUME Inv, NamedEvents, FirstRead \/ FirstReadRefused
  PROVE  DeadSocks' = {}
  <1>1. reading \in Peer /\ status = "opened"
    BY DEF FirstRead, FirstReadRefused, Inv, TypeOK
  <1>2. /\ clients \in Array /\ OnceEach(clients) /\ sock[reading] # 0
        /\ UsedSocks(clients) = SockInUse \ {sock[reading]}
        /\ sock[reading] \in 1..Cardinality(Peer) /\ sock \in [Peer -> 0..Cardinality(Peer)]
    <2>1. Cardinality(Peer) \in Nat /\ sock \in [Peer -> 0..Cardinality(Peer)] /\ clients \in Array
      BY NetAssumption, FS_CardinalityType DEF Inv, TypeOK, Array
    <2>2. sock[reading] # 0 /\ Connections = SockInUse \ {sock[reading]}
      BY <1>1 DEF Inv, ReadingHasSock, Connections
    <2>3. OnceEach(clients) /\ UsedSocks(clients) = Connections
      BY <1>1, NetAssumption DEF Inv, ArrayIsRight
    <2> QED
      BY <1>1, <2>1, <2>2, <2>3
  <1>3. sock[reading] \in SockInUse
    BY <1>1, <1>2 DEF SockInUse
  <1>4. CASE FirstRead
    <2>1. PICK id \in UnsetIds \cup {reading} :
            clients' = AddClient(clients, [sock |-> sock[reading], id |-> id])
      BY <1>4 DEF FirstRead
    <2> DEFINE client == [sock |-> sock[reading], id |-> id]
    <2>2. client \in Client /\ client.sock = sock[reading]
      BY <1>1, <1>2 DEF Client, UnsetIds, NamedEvents
    <2> HIDE DEF client
    <2>3. UsedSocks(clients') = UsedSocks(clients) \cup {sock[reading]}
      BY <1>2, <2>1, <2>2, AddSocks DEF client
    <2>4. SockInUse' = SockInUse
      BY <1>4 DEF FirstRead, SockInUse
    <2> QED
      BY <1>2, <1>3, <2>3, <2>4 DEF DeadSocks
  <1>5. CASE FirstReadRefused
    <2> DEFINE client == [sock |-> sock[reading], id |-> Unnamed]
               A == AddClient(clients, client)
    <2>1. clients' = RemoveClient(A, client) /\ sock' = [sock EXCEPT ![reading] = 0]
      BY <1>5 DEF FirstReadRefused, Forgets
    <2>2. client \in Client /\ client.sock = sock[reading]
      BY <1>2 DEF Client
    <2> HIDE DEF client
    <2>3. A \in Array /\ A.nb = clients.nb + 1 /\ A.slot[A.nb] = client
      BY <1>2, <2>2, AddFacts
    <2>4. OnceEach(A) /\ UsedSocks(A) = UsedSocks(clients) \cup {sock[reading]}
      BY <1>2, <2>2, AddSocks
    <2> HIDE DEF A
    <2>5. Matching(A, client) # {}
      BY <1>2, <2>3 DEF Matching, Used, Array
    <2>6. UsedSocks(clients') = UsedSocks(A) \ {sock[reading]}
      BY <2>1, <2>2, <2>3, <2>4, <2>5, RemoveFacts
    <2>7. SockInUse \ {sock[reading]} \subseteq SockInUse'
      BY <1>1, <1>2, <2>1 DEF SockInUse
    <2> QED
      BY <1>2, <2>4, <2>6, <2>7 DEF DeadSocks
  <1> QED
    BY <1>4, <1>5

LEMMA StepHarm ==
  ASSUME Inv, NamedEvents, [Next]_vars
  PROVE  DeadSocks' \subseteq DeadSocks \/ LeftoverUsed
  <1>1. CASE UNCHANGED <<clients, sock>>
    BY <1>1 DEF DeadSocks, SockInUse
  <1>2. CASE Accept
    <2>1. clients' = clients /\ sock' = [sock EXCEPT ![Head(backlog)] = NewSock] /\ Selects
      BY <1>2 DEF Accept
    <2>2. Head(backlog) \in Peer /\ sock[Head(backlog)] = 0
      <3>1. Head(backlog) = backlog[1] /\ 1 \in 1..Len(backlog) /\ Head(backlog) \in Peer
        BY <1>2, HeadTailProperties DEF Accept, Inv, TypeOK
      <3> QED
        BY <3>1 DEF Inv, WaitingOnce, Waiting
    <2>3. UsedSocks(clients) = SockInUse
      BY <2>1, BetweenReads
    <2>4. SockInUse \subseteq SockInUse'
      BY <2>1, <2>2 DEF SockInUse, Inv, TypeOK
    <2> QED
      BY <2>1, <2>3, <2>4 DEF DeadSocks
  <1>3. CASE FirstRead \/ FirstReadRefused
    BY <1>3, FirstReadHarmless
  <1>4. CASE Close
    BY <1>4, NoClientsFacts DEF Close, Closed, DeadSocks
  <1> QED
    BY <1>1, <1>2, <1>3, <1>4, ServeHarm DEF Next, Dials, Says, HangsUp, SelectFails, vars

(***************************************************************************)
(* Only a pointer that leads beyond the used slots can make the network    *)
(* close a socket and keep it (net.c, network__disconnect, remove_client): *)
(* a pointer that has come to lead to another client of the array cannot.  *)
(***************************************************************************)
THEOREM ClosedWithLeftovers == Spec => OnlyLeftoversHarm
  <1>1. Inv /\ NamedEvents /\ [Next]_vars =>
          [DeadSocks' \subseteq DeadSocks \/ \E q \in Peer : held[q] > clients.nb /\ held'[q] = 0]_vars
    BY StepHarm DEF LeftoverUsed
  <1> QED
    BY InvAlways, <1>1, PTL DEF Spec, OnlyLeftoversHarm

------------------------------------------------------------------------------
(***************************************************************************)
(* The sessions that the array of clients stands for.                      *)
(***************************************************************************)
session == [p \in Peer |-> SessionOn(clients, sock[p])]

------------------------------------------------------------------------------
(***************************************************************************)
(* The session on a socket is that of the one slot that holds it.          *)
(***************************************************************************)
LEMMA SessionFound ==
  ASSUME NEW C \in Array, OnceEach(C), NEW i \in Used(C)
  PROVE  SessionOn(C, C.slot[i].sock) = C.slot[i].id
  <1> DEFINE slots == {j \in Used(C) : C.slot[j].sock = C.slot[i].sock}
  <1>1. slots = {i}
    BY DEF OnceEach
  <1>2. (CHOOSE j \in slots : TRUE) = i
    BY <1>1
  <1> QED
    BY <1>1, <1>2 DEF SessionOn

LEMMA SessionNone ==
  ASSUME NEW C \in Array, NEW k, k \notin UsedSocks(C)
  PROVE  SessionOn(C, k) = NoSession
  <1>1. {i \in Used(C) : C.slot[i].sock = k} = {}
    BY DEF UsedSocks
  <1> QED
    BY <1>1 DEF SessionOn

(***************************************************************************)
(* No slot holds the number 0, which stands for no socket.                 *)
(***************************************************************************)
LEMMA NoSocket ==
  ASSUME NEW C \in Array
  PROVE  0 \notin UsedSocks(C)
  <1>1. ASSUME NEW i \in Used(C) PROVE C.slot[i].sock # 0
    <2>1. C.slot[i] \in Client
      BY DEF Used, Array
    <2>2. Cardinality(Peer) \in Nat
      BY NetAssumption, FS_CardinalityType
    <2> QED
      BY <2>1, <2>2 DEF Client
  <1> QED
    BY <1>1 DEF UsedSocks

(***************************************************************************)
(* Adding and removing a client leave the other sessions alone.            *)
(***************************************************************************)
LEMMA AddSession ==
  ASSUME NEW C \in Array, OnceEach(C), NEW client \in Client, client.sock \notin UsedSocks(C)
  PROVE  LET D == AddClient(C, client) IN
         /\ SessionOn(D, client.sock) = client.id
         /\ \A k : k # client.sock => SessionOn(D, k) = SessionOn(C, k)
  <1> DEFINE D == AddClient(C, client)
  <1>1. /\ D \in Array /\ D.nb = C.nb + 1 /\ D.slot[D.nb] = client
        /\ \A i \in Used(C) : D.slot[i] = C.slot[i]
    BY AddFacts
  <1>2. OnceEach(D) /\ UsedSocks(D) = UsedSocks(C) \cup {client.sock}
    BY AddSocks
  <1> HIDE DEF D
  <1>3. D.nb \in Used(D) /\ \A i \in Used(C) : i \in Used(D)
    BY <1>1 DEF Used, Array
  <1>4. SessionOn(D, client.sock) = client.id
    BY <1>1, <1>2, <1>3, SessionFound
  <1>5. ASSUME NEW k, k # client.sock PROVE SessionOn(D, k) = SessionOn(C, k)
    <2>1. CASE k \in UsedSocks(C)
      <3>1. PICK i \in Used(C) : C.slot[i].sock = k
        BY <2>1 DEF UsedSocks
      <3> QED
        BY <1>1, <1>2, <1>3, <3>1, SessionFound
    <2>2. CASE k \notin UsedSocks(C)
      BY <1>1, <1>2, <1>5, <2>2, SessionNone
    <2> QED
      BY <2>1, <2>2
  <1> QED
    BY <1>4, <1>5 DEF D

LEMMA RemoveSession ==
  ASSUME NEW C \in Array, OnceEach(C), NEW client \in Client
  PROVE  LET D == RemoveClient(C, client) IN
         \A k : k # client.sock => SessionOn(D, k) = SessionOn(C, k)
  <1> DEFINE D == RemoveClient(C, client)
  <1>1. D \in Array /\ OnceEach(D)
    BY RemoveFacts
  <1>2. D = C \/ UsedSocks(D) = UsedSocks(C) \ {client.sock}
    BY RemoveFacts
  <1>3. \A i \in Used(C) : C.slot[i].sock # client.sock => \E j \in Used(D) : D.slot[j] = C.slot[i]
    BY RemoveFacts
  <1> HIDE DEF D
  <1>4. ASSUME NEW k, k # client.sock PROVE SessionOn(D, k) = SessionOn(C, k)
    <2>1. CASE k \in UsedSocks(C)
      <3>1. PICK i \in Used(C) : C.slot[i].sock = k
        BY <2>1 DEF UsedSocks
      <3>2. PICK j \in Used(D) : D.slot[j] = C.slot[i]
        BY <1>3, <1>4, <3>1
      <3> QED
        BY <1>1, <3>1, <3>2, SessionFound
    <2>2. CASE k \notin UsedSocks(C)
      <3>1. k \notin UsedSocks(D)
        BY <1>2, <2>2
      <3> QED
        BY <1>1, <2>2, <3>1, SessionNone
    <2> QED
      BY <2>1, <2>2
  <1> QED
    BY <1>4 DEF D

------------------------------------------------------------------------------
(***************************************************************************)
(* Each step is a step of Sessions, or changes nothing there.              *)
(***************************************************************************)
AbstractStep == Abstract!Next \/ UNCHANGED <<session, pending, event>>

LEMMA SockTypes ==
  ASSUME Inv
  PROVE  sock \in [Peer -> 0..Cardinality(Peer)] /\ Cardinality(Peer) \in Nat /\ clients \in Array
  BY NetAssumption, FS_CardinalityType DEF Inv, TypeOK, Array

LEMMA AcceptMaps ==
  ASSUME Inv, Accept
  PROVE  AbstractStep
  <1> DEFINE p == Head(backlog)
  <1>1. Selects /\ UNCHANGED <<clients, pending, event>>
    BY DEF Accept
  <1>2. sock' = [sock EXCEPT ![p] = NewSock]
    BY DEF Accept
  <1>3. p \in Peer /\ sock[p] = 0
    <2>1. p \in Peer /\ p = backlog[1] /\ 1 \in 1..Len(backlog)
      BY HeadTailProperties DEF Accept, Inv, TypeOK
    <2> QED
      BY <2>1 DEF Inv, WaitingOnce, Waiting
  <1>4. clients \in Array /\ UsedSocks(clients) = SockInUse
    BY <1>1, BetweenReads
  <1> HIDE DEF p
  <1>5. SessionOn(clients, sock[p]) = NoSession
    BY <1>3, <1>4, NoSocket, SessionNone
  <1>6. SessionOn(clients, NewSock) = NoSession
    BY <1>4, NewSockFacts, SessionNone DEF Inv
  <1>7. \A q \in Peer : SessionOn(clients', sock'[q]) = SessionOn(clients, sock[q])
    BY <1>1, <1>2, <1>3, <1>5, <1>6, SockTypes
  <1> QED
    BY <1>1, <1>7 DEF AbstractStep, session

LEMMA FirstReadMaps ==
  ASSUME Inv, NamedEvents, FirstRead
  PROVE  AbstractStep
  <1> DEFINE p == reading
  <1>1. status = "opened" /\ p \in Peer /\ sock' = sock
    BY DEF FirstRead, Inv, TypeOK
  <1>2. PICK k \in Takes(p), id \in UnsetIds \cup {p} :
          /\ pending' = [pending EXCEPT ![p] = @ - k]
          /\ clients' = AddClient(clients, [sock |-> sock[p], id |-> id])
          /\ event' = <<"connection", id>>
    BY DEF FirstRead
  <1>20. id \in Peer \cup {Unnamed}
    BY <1>1 DEF UnsetIds, NamedEvents
  <1> DEFINE client == [sock |-> sock[p], id |-> id]
  <1>3. /\ clients \in Array /\ OnceEach(clients) /\ sock[p] # 0
        /\ UsedSocks(clients) = SockInUse \ {sock[p]}
    BY <1>1, SockTypes, NetAssumption DEF Inv, ArrayIsRight, Connections, ReadingHasSock
  <1>4. client \in Client /\ client.sock = sock[p] /\ client.id = id /\ sock[p] \notin UsedSocks(clients)
    BY <1>1, <1>3, <1>20, SockTypes DEF Client
  <1>5. /\ SessionOn(clients', sock[p]) = id
        /\ \A j : j # sock[p] => SessionOn(clients', j) = SessionOn(clients, j)
    BY <1>2, <1>3, <1>4, AddSession
  <1>6. SessionOn(clients, sock[p]) = NoSession
    BY <1>3, <1>4, SessionNone
  <1>7. \A q \in Peer \ {p} : sock[q] # sock[p]
    BY <1>1, <1>3 DEF Inv, SocketsDiffer
  <1> HIDE DEF p, client
  <1>8. session[p] = NoSession /\ session' = [session EXCEPT ![p] = id]
    BY <1>1, <1>5, <1>6, <1>7 DEF session
  <1>9. pending'[p] <= pending[p] /\ \A q \in Peer \ {p} : pending'[q] = pending[q]
    BY <1>1, <1>2, NetAssumption DEF Inv, TypeOK, Takes
  <1>10. Abstract!Open(p, id)
    BY <1>2, <1>8, <1>9 DEF Abstract!Open, session
  <1> QED
    BY <1>1, <1>10, <1>20 DEF AbstractStep, Abstract!Next

LEMMA FirstReadRefusedMaps ==
  ASSUME Inv, FirstReadRefused
  PROVE  AbstractStep
  <1> DEFINE p == reading
             client == [sock |-> sock[p], id |-> Unnamed]
             A == AddClient(clients, client)
  <1>1. /\ status = "opened" /\ p \in Peer /\ sock' = [sock EXCEPT ![p] = 0] /\ pending[p] > 0
        /\ pending' = [pending EXCEPT ![p] = 0] /\ clients' = RemoveClient(A, client) /\ event' = event
    BY DEF FirstReadRefused, Forgets, Inv, TypeOK
  <1>2. /\ clients \in Array /\ OnceEach(clients) /\ sock[p] # 0
        /\ UsedSocks(clients) = SockInUse \ {sock[p]}
    BY <1>1, SockTypes, NetAssumption DEF Inv, ArrayIsRight, Connections, ReadingHasSock
  <1>3. client \in Client /\ client.sock = sock[p] /\ sock[p] \notin UsedSocks(clients)
    BY <1>1, <1>2, SockTypes DEF Client
  <1>4. \A q \in Peer \ {p} : sock[q] # sock[p]
    BY <1>1, <1>2 DEF Inv, SocketsDiffer
  <1> HIDE DEF client, p
  <1>5. \A j : j # sock[p] => SessionOn(A, j) = SessionOn(clients, j)
    BY <1>2, <1>3, AddSession
  <1>6. A \in Array /\ OnceEach(A)
    BY <1>2, <1>3, AddFacts, AddSocks
  <1> HIDE DEF A
  <1>7. clients' \in Array /\ \A j : j # sock[p] => SessionOn(clients', j) = SessionOn(A, j)
    BY <1>1, <1>3, <1>6, RemoveFacts, RemoveSession
  <1>8. SessionOn(clients, sock[p]) = NoSession /\ SessionOn(clients', 0) = NoSession
    BY <1>2, <1>3, <1>7, NoSocket, SessionNone
  <1>9. \A q \in Peer : SessionOn(clients', sock'[q]) = SessionOn(clients, sock[q])
    BY <1>1, <1>4, <1>5, <1>7, <1>8, SockTypes
  <1>10. session' = session /\ session[p] = NoSession
    BY <1>1, <1>8, <1>9 DEF session
  <1>11. Abstract!Refuse(p)
    BY <1>1, <1>10 DEF Abstract!Refuse, session
  <1> QED
    BY <1>1, <1>11 DEF AbstractStep, Abstract!Next

------------------------------------------------------------------------------
(***************************************************************************)
(* What handlers do to the sessions.                                       *)
(***************************************************************************)
LEMMA ConnectsOpens ==
  ASSUME Inv, Selects, NEW q \in Peer, HandlerConnects(q)
  PROVE  session[q] = NoSession /\ session' = [session EXCEPT ![q] = q]
  <1> DEFINE k == NewSock
             client == [sock |-> k, id |-> q]
  <1>1. /\ sock' = [sock EXCEPT ![q] = k] /\ clients' = AddClient(clients, client) /\ sock[q] = 0
    BY DEF HandlerConnects, Inv, AwayIsOut
  <1>2. clients \in Array /\ OnceEach(clients) /\ UsedSocks(clients) = SockInUse
    BY BetweenReads
  <1>3. k \notin SockInUse /\ k \in 1..Cardinality(Peer)
    BY <1>1, NewSockFacts DEF Inv
  <1> HIDE DEF k
  <1>4. client \in Client /\ client.sock = k /\ client.id = q
    BY <1>3 DEF Client
  <1> HIDE DEF client
  <1>5. SessionOn(clients', k) = q /\ \A j : j # k => SessionOn(clients', j) = SessionOn(clients, j)
    BY <1>1, <1>2, <1>3, <1>4, AddSession
  <1>6. SessionOn(clients, sock[q]) = NoSession
    BY <1>1, <1>2, NoSocket, SessionNone
  <1>7. \A r \in Peer : sock[r] # k
    BY <1>3, SockTypes DEF SockInUse
  <1> QED
    BY <1>1, <1>5, <1>6, <1>7, SockTypes DEF session

LEMMA DisconnectsCloses ==
  ASSUME Inv, Selects, NEW client \in Client, HandlerDisconnects(client)
  PROVE  /\ client.sock \notin SockInUse => UNCHANGED <<session, sock>>
         /\ client.sock \in SockInUse =>
              LET p == PeerOn(client.sock) IN
              /\ session[p] # NoSession /\ session' = [session EXCEPT ![p] = NoSession]
              /\ sock' = [sock EXCEPT ![p] = 0]
  <1>1. /\ clients' = RemoveClient(clients, client)
        /\ client.sock \in SockInUse => Forgets(PeerOn(client.sock))
        /\ client.sock \notin SockInUse => sock' = sock
    BY DEF HandlerDisconnects
  <1>2. clients \in Array /\ OnceEach(clients) /\ UsedSocks(clients) = SockInUse
    BY BetweenReads
  <1>3. /\ clients' \in Array
        /\ clients' = clients \/ client.sock \in SockInUse
        /\ \A j : j # client.sock => SessionOn(clients', j) = SessionOn(clients, j)
    BY <1>1, <1>2, RemoveFacts, RemoveSession
  <1>4. CASE client.sock \notin SockInUse
    BY <1>1, <1>3, <1>4 DEF session
  <1>5. CASE client.sock \in SockInUse
    <2> DEFINE p == PeerOn(client.sock)
    <2>1. p \in Peer /\ sock[p] = client.sock /\ sock[p] # 0
      BY <1>5 DEF PeerOn, SockInUse
    <2>2. sock' = [sock EXCEPT ![p] = 0]
      BY <1>1, <1>5 DEF Forgets
    <2> HIDE DEF p
    <2>3. \A q \in Peer \ {p} : sock[q] # client.sock
      BY <2>1 DEF Inv, SocketsDiffer
    <2>4. SessionOn(clients', 0) = NoSession
      <3>1. clients' \in Array
        BY <1>3
      <3>2. 0 \notin UsedSocks(clients')
        BY <3>1, NoSocket
      <3> QED
        BY <3>1, <3>2, SessionNone
    <2>5. session' = [session EXCEPT ![p] = NoSession]
      BY <1>3, <2>1, <2>2, <2>3, <2>4, SockTypes DEF session
    <2>6. session[p] # NoSession
      <3>1. PICK i \in Used(clients) : clients.slot[i].sock = client.sock
        BY <1>2, <1>5 DEF UsedSocks
      <3>2. session[p] = clients.slot[i].id
        BY <1>2, <2>1, <3>1, SessionFound DEF session
      <3>3. clients.slot[i] \in Client
        BY <1>2 DEF Array, Used
      <3> QED
        BY <3>2, <3>3, NetAssumption DEF Client
    <2> QED
      BY <1>5, <2>2, <2>5, <2>6 DEF p
  <1> QED
    BY <1>4, <1>5

(***************************************************************************)
(* A client is served under the name of its session.                       *)
(***************************************************************************)
LEMMA ServeMaps ==
  ASSUME Inv, NEW i \in Used(clients), Serve(i)
  PROVE  AbstractStep
  <1> DEFINE client == clients.slot[i]
             p == PeerOn(client.sock)
  <1>1. Selects /\ (MessageEvent(i, p) \/ DisconnectionEvent(i, p))
    BY DEF Serve
  <1>2. clients \in Array /\ OnceEach(clients) /\ UsedSocks(clients) = SockInUse
    BY <1>1, BetweenReads
  <1>3. client \in Client /\ client.sock \in SockInUse
    BY <1>2 DEF Array, Used, UsedSocks
  <1>4. p \in Peer /\ sock[p] = client.sock
    BY <1>3 DEF PeerOn, SockInUse
  <1>5. session[p] = client.id
    BY <1>2, <1>4, SessionFound DEF session
  <1>6. session[p] # NoSession
    BY <1>3, <1>5, NetAssumption DEF Client
  <1>7. pending \in [Peer -> 0..MaxPending] /\ held \in [Peer -> 0..Len(clients.slot)]
    BY DEF Inv, TypeOK
  <1>8. CASE DisconnectionEvent(i, p)
    <2>1. /\ pending[p] = 0 /\ event' = <<"disconnection", client.id>>
          /\ HandlerDisconnects(client) /\ pending' = pending
      BY <1>8 DEF DisconnectionEvent
    <2> HIDE DEF client
    <2>2. session' = [session EXCEPT ![p] = NoSession]
      BY <1>1, <1>3, <2>1, DisconnectsCloses
    <2> HIDE DEF p
    <2>3. Abstract!Leave(p)
      BY <1>5, <1>6, <2>1, <2>2 DEF Abstract!Leave, session
    <2> QED
      BY <1>4, <2>3 DEF AbstractStep, Abstract!Next
  <1>9. CASE MessageEvent(i, p)
    <2>1. /\ pending[p] > 0 /\ event' = <<"message", client.id>>
          /\ \E k \in Takes(p) : LET left == [pending EXCEPT ![p] = @ - k] IN
               \/ pending' = left /\ UNCHANGED <<status, clients, sock, peers, held>>
               \/ pending' = left /\ \E q \in Peer : HandlerConnects(q)
               \/ /\ HandlerDisconnects(client)
                  /\ pending' = [left EXCEPT ![p] = 0]
                  /\ UNCHANGED held
               \/ \E q \in Peer :
                    /\ held[q] # 0 /\ held' = [held EXCEPT ![q] = 0]
                    /\ HandlerDisconnects(clients.slot[held[q]])
                    /\ pending' = [r \in Peer |-> IF sock'[r] = 0 /\ sock[r] # 0 THEN 0 ELSE left[r]]
      BY <1>9 DEF MessageEvent
    <2> HIDE DEF client, p
    <2>2. PICK k \in Takes(p) : LET left == [pending EXCEPT ![p] = @ - k] IN
               \/ pending' = left /\ UNCHANGED <<status, clients, sock, peers, held>>
               \/ pending' = left /\ \E q \in Peer : HandlerConnects(q)
               \/ /\ HandlerDisconnects(client)
                  /\ pending' = [left EXCEPT ![p] = 0]
                  /\ UNCHANGED held
               \/ \E q \in Peer :
                    /\ held[q] # 0 /\ held' = [held EXCEPT ![q] = 0]
                    /\ HandlerDisconnects(clients.slot[held[q]])
                    /\ pending' = [r \in Peer |-> IF sock'[r] = 0 /\ sock[r] # 0 THEN 0 ELSE left[r]]
      BY <2>1
    <2> DEFINE left == [pending EXCEPT ![p] = @ - k]
    <2>3. /\ left[p] < pending[p] /\ \A q \in Peer \ {p} : left[q] = pending[q]
          /\ DOMAIN left = Peer
      BY <1>4, <1>7, <2>1, NetAssumption DEF Takes
    <2> HIDE DEF left
    <2>4. CASE pending' = left /\ UNCHANGED <<session, sock>>
      <3>1. Abstract!Hear(p)
        BY <1>5, <1>6, <2>1, <2>3, <2>4 DEF Abstract!Hear, session
      <3> QED
        BY <1>4, <3>1 DEF AbstractStep, Abstract!Next
    <2>5. CASE pending' = left /\ \E q \in Peer : HandlerConnects(q)
      <3>1. PICK q \in Peer : HandlerConnects(q)
        BY <2>5
      <3>2. session[q] = NoSession /\ session' = [session EXCEPT ![q] = q]
        BY <1>1, <3>1, ConnectsOpens
      <3>3. Abstract!HearAndOpen(p, q)
        BY <1>5, <1>6, <2>1, <2>3, <2>5, <3>2 DEF Abstract!HearAndOpen, session
      <3> QED
        BY <1>4, <3>3 DEF AbstractStep, Abstract!Next
    <2>6. CASE HandlerDisconnects(client) /\ pending' = [left EXCEPT ![p] = 0]
      <3>1. session' = [session EXCEPT ![p] = NoSession]
        BY <1>1, <1>3, <2>6, DisconnectsCloses DEF p
      <3>2. pending'[p] = 0 /\ \A q \in Peer \ {p} : pending'[q] = pending[q]
        BY <1>4, <2>3, <2>6
      <3>3. Abstract!HearAndDrop(p, p)
        BY <1>5, <1>6, <2>1, <3>1, <3>2 DEF Abstract!HearAndDrop, session
      <3> QED
        BY <1>4, <3>3 DEF AbstractStep, Abstract!Next
    <2>7. CASE \E q \in Peer :
                    /\ held[q] # 0 /\ held' = [held EXCEPT ![q] = 0]
                    /\ HandlerDisconnects(clients.slot[held[q]])
                    /\ pending' = [r \in Peer |-> IF sock'[r] = 0 /\ sock[r] # 0 THEN 0 ELSE left[r]]
      <3>1. PICK q \in Peer :
              /\ held[q] # 0 /\ HandlerDisconnects(clients.slot[held[q]])
              /\ pending' = [r \in Peer |-> IF sock'[r] = 0 /\ sock[r] # 0 THEN 0 ELSE left[r]]
        BY <2>7
      <3> DEFINE other == clients.slot[held[q]]
                 x == PeerOn(other.sock)
      <3>2. other \in Client
        BY <1>2, <1>7, <3>1 DEF Array
      <3> HIDE DEF other
      <3>3. HandlerDisconnects(other)
        BY <3>1 DEF other
      <3>4. CASE other.sock \notin SockInUse
        <4>1. UNCHANGED <<session, sock>>
          BY <1>1, <3>2, <3>3, <3>4, DisconnectsCloses
        <4>2. pending' = left
          <5>1. pending' = [r \in Peer |-> left[r]]
            BY <3>1, <4>1
          <5>2. left = [r \in Peer |-> left[r]]
            BY <1>7 DEF left
          <5> QED
            BY <5>1, <5>2
        <4> QED
          BY <2>4, <4>1, <4>2
      <3>5. CASE other.sock \in SockInUse
        <4>1. x \in Peer /\ sock[x] # 0
          BY <3>5 DEF PeerOn, SockInUse
        <4>2. /\ session[x] # NoSession /\ session' = [session EXCEPT ![x] = NoSession]
              /\ sock' = [sock EXCEPT ![x] = 0]
          BY <1>1, <3>2, <3>3, <3>5, DisconnectsCloses
        <4> HIDE DEF x
        <4>3. pending'[x] = 0 /\ \A r \in Peer \ {x} : pending'[r] = left[r]
          BY <3>1, <4>1, <4>2, SockTypes
        <4>4. pending'[p] < pending[p] \/ p = x
          BY <1>4, <2>3, <4>3
        <4>5. \A r \in Peer \ {p, x} : pending'[r] = pending[r]
          BY <2>3, <4>3
        <4>6. Abstract!HearAndDrop(p, x)
          BY <1>5, <1>6, <2>1, <4>2, <4>3, <4>4, <4>5 DEF Abstract!HearAndDrop, session
        <4> QED
          BY <1>4, <4>1, <4>6 DEF AbstractStep, Abstract!Next
      <3> QED
        BY <3>4, <3>5
    <2>8. CASE pending' = left /\ UNCHANGED <<status, clients, sock, peers, held>>
      BY <2>4, <2>8 DEF session
    <2> QED
      BY <2>2, <2>5, <2>6, <2>7, <2>8 DEF left
  <1> QED
    BY <1>1, <1>8, <1>9

------------------------------------------------------------------------------
LEMMA StepMaps ==
  ASSUME Inv, NamedEvents, [Next]_vars
  PROVE  [Abstract!Next]_(Abstract!vars)
  <1>1. SUFFICES AbstractStep
    BY DEF AbstractStep, Abstract!vars, session
  <1>2. ASSUME NEW p \in Peer, Dials(p) \/ HangsUp(p) PROVE AbstractStep
    BY <1>2 DEF Dials, HangsUp, AbstractStep, session
  <1>6. ASSUME SelectFails PROVE AbstractStep
    BY <1>6 DEF SelectFails, AbstractStep, session
  <1>3. ASSUME NEW p \in Peer, Says(p) PROVE AbstractStep
    <2>1. session' = session /\ pending' = [pending EXCEPT ![p] = @ + 1] /\ event' = event
      BY <1>3 DEF Says, session
    <2>2. Abstract!Say(p)
      BY <2>1 DEF Abstract!Say, session
    <2> QED
      BY <2>2 DEF AbstractStep, Abstract!Next
  <1>4. ASSUME Close PROVE AbstractStep
    <2>1. clients' = NoClients /\ sock' = [p \in Peer |-> 0] /\ pending' = [p \in Peer |-> 0]
      BY <1>4 DEF Close, Closed
    <2>2. SessionOn(NoClients, 0) = NoSession
      BY NoClientsFacts, SessionNone
    <2>3. Abstract!End
      BY <2>1, <2>2 DEF Abstract!End
    <2> QED
      BY <2>3 DEF AbstractStep, Abstract!Next
  <1>5. CASE UNCHANGED vars
    BY <1>5 DEF vars, AbstractStep, session
  <1> QED
    BY <1>2, <1>3, <1>4, <1>5, <1>6, AcceptMaps, FirstReadMaps, FirstReadRefusedMaps, ServeMaps DEF Next

(***************************************************************************)
(* The program sees sessions: what it hears of a peer comes under the name *)
(* it gave its session, each message once, whatever slots the clients move *)
(* to and whatever pointers the handlers use.                              *)
(***************************************************************************)
THEOREM NetImplementsSessions == Spec => ImplementsSessions
  <1>1. Init => Abstract!Init
    <2> SUFFICES ASSUME Init PROVE Abstract!Init
      OBVIOUS
    <2>1. clients = NoClients /\ sock = [p \in Peer |-> 0] /\ pending = [p \in Peer |-> 0] /\ event = NoEvent
      BY DEF Init
    <2>2. SessionOn(NoClients, 0) = NoSession
      BY NoClientsFacts, SessionNone
    <2> QED
      BY <2>1, <2>2 DEF Abstract!Init
  <1>2. Inv /\ NamedEvents /\ [Next]_vars => [Abstract!Next]_(Abstract!vars)
    BY StepMaps
  <1> QED
    BY InvAlways, <1>1, <1>2, PTL DEF Spec, ImplementsSessions, Abstract!Spec
===============================================================================
