----------------------------- MODULE MCController -----------------------------
(***************************************************************************)
(* Instances of Controller.  Node i is the i-th node of the file.  Its     *)
(* hash code is that of a name, "A1", "B1" or "C1": no two share a bucket. *)
(***************************************************************************)
EXTENDS Controller, TLC

TwoNodes == 1..2
ThreeNames == 1..3

LetterCode == [n \in Node |-> CASE n = 1 -> 51967 [] n = 2 -> 51708 [] OTHER -> 51449]

Weights == {1, 4}

(***************************************************************************)
(* src/config/ligne/ligne.dot cut to its first nodes, and a file with      *)
(* fewer nodes and no link.                                                *)
(***************************************************************************)
Line == [nodes |-> Node, weight |-> [e \in Edge |-> IF \E i \in Node : e = {i, i + 1} THEN 1 ELSE NoEdge]]
Alone == [nodes |-> {1}, weight |-> [e \in Edge |-> NoEdge]]

(***************************************************************************)
(* Two linked nodes; the other names are no nodes.                         *)
(***************************************************************************)
Pair == [nodes |-> {1, 2}, weight |-> [e \in Edge |-> IF e = {1, 2} THEN 1 ELSE NoEdge]]

PairOnly == {Pair}
LineOrAlone == {Line, Alone}

Routers == Permutations(Client)
==============================================================================
