----------------------------- MODULE MCForwarding -----------------------------
(***************************************************************************)
(* Instances of Forwarding on the first routers of                         *)
(* src/config/ligne/ligne.dot, which are connected in a line.              *)
(***************************************************************************)
EXTENDS Forwarding

FourNodes == 1..4

LineNeighbor == [n \in Node |-> {m \in Node : m = n - 1 \/ m = n + 1}]

(***************************************************************************)
(* The tables once the vectors were exchanged; those at start, when router *)
(* 3 has not heard of router 1 yet; those after the weight of a link       *)
(* went up, when the router before it prefers the detour that its other    *)
(* neighbour still offers: each is then the next hop of the other.         *)
(***************************************************************************)
Settled ==
  [n \in Node |-> [d \in Node |-> IF d = n THEN Unknown ELSE IF d < n THEN n - 1 ELSE n + 1]]

Starting == [Settled EXCEPT ![3][1] = Unknown]

Looping == [Settled EXCEPT ![2][3] = 1]

SettledOnly == {Settled}
Moving == {Settled, Starting, Looping}

OneOfEach == [message |-> 1, ping |-> 1, route |-> 1]
OneRoute == [message |-> 0, ping |-> 0, route |-> 1]
==============================================================================
