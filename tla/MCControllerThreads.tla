------------------------- MODULE MCControllerThreads -------------------------
(***************************************************************************)
(* Instances of ControllerThreads: the two first nodes of                  *)
(* src/config/ligne/ligne.dot, with the codes of "n1" and "n2".            *)
(***************************************************************************)
EXTENDS ControllerThreads, TLC

TwoNodes == 1..2

NameCode == (1 :> 58832) @@ (2 :> 59088)

TwoWeights == {1, 4}

Line == {[nodes |-> Node, weight |-> [e \in Edge |-> IF \E i \in Node : e = {i, i + 1} THEN 1 ELSE NoEdge]]}

Routers == Permutations(Client)
==============================================================================
