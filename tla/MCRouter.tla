------------------------------- MODULE MCRouter -------------------------------
(***************************************************************************)
(* Instances of Router.                                                    *)
(***************************************************************************)
EXTENDS Router

ThreeNodes == 1..3

AllUp == {Node}

OpenSocks == 2..9
BackSocks == 11..15

Links(W) == [e \in Edge |-> IF e \in DOMAIN W THEN W[e] ELSE NoEdge]

Line == Links([e \in {{1, 2}, {2, 3}} |-> 2])
Triangle == Links([e \in {{1, 2}, {2, 3}, {1, 3}} |-> 1])

(***************************************************************************)
(* A line whose first link gets cheaper, and a triangle of equal links.    *)
(***************************************************************************)
LineAndTriangle == {Line, Triangle}
Cheaper == {<<1, 2, 1>>}

(***************************************************************************)
(* A line whose ends may be linked.                                        *)
(***************************************************************************)
JustLine == {Line}
EndsLinked == {<<1, 3, 1>>}

(***************************************************************************)
(* A line, or its first link alone, so that two routers may have no        *)
(* neighbour left; that link may get cheaper or be removed.                *)
(***************************************************************************)
LineOrLink == {Line, Links([e \in {{1, 2}} |-> 2])}
Edits == {<<1, 2, 1>>, <<1, 2, NoEdge>>}
==============================================================================
