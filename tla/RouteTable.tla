------------------------------ MODULE RouteTable ------------------------------
(***************************************************************************)
(* The route table of a router (src/router/routetable.cpp, entry.cpp) and  *)
(* what the messages about routing do to it: Router::parseVector,          *)
(* Router::parseNeighborhood and the LINK handler of Exec::sock_message.   *)
(*                                                                         *)
(* A table is a function from names to entries.  A name is its entry's     *)
(* key: Entry::name is compared with nothing but the next hop, where a     *)
(* default entry, whose name is empty, behaves as if it had its key.       *)
(***************************************************************************)
EXTENDS Integers, FiniteSets

CONSTANTS
  NoClient,   \* a null Client *
  NoHop,      \* the empty name
  Half        \* an int goes from -Half (INT_MIN) to Half - 1

ASSUME RouteTableAssumption == Half \in Nat \ {0}

Least == -Half

Wrapped(x) == ((x + Half) % (2 * Half)) - Half

NoTable == [s \in {} |-> 0]

(***************************************************************************)
(* near is isNeighbor, full is isComplete.                                 *)
(***************************************************************************)
Entry(nextHop, dist) ==
  [nextHop |-> nextHop, dist |-> dist, near |-> FALSE, full |-> FALSE, client |-> NoClient]

DefaultEntry == Entry(NoHop, -1)

With(t, s, e) == [x \in DOMAIN t \cup {s} |-> IF x = s THEN e ELSE t[x]]

Without(t, S) == [x \in DOMAIN t \ S |-> t[x]]

(***************************************************************************)
(* operator[] of the map: a name that is not there gets a default entry.   *)
(***************************************************************************)
Touched(t, s) == IF s \in DOMAIN t THEN t ELSE With(t, s, DefaultEntry)

(***************************************************************************)
(* What a loop over the map that erases the elements of S where it stands  *)
(* has erased when it ends.  The iterator goes on from the links of the    *)
(* erased element: in a map of more than four, the element that took its   *)
(* place in the tree may be passed over.                                   *)
(***************************************************************************)
ErasedByLoop(t, S) ==
  IF Cardinality(DOMAIN t) <= 4 THEN {S} ELSE {E \in SUBSET S : S # {} => E # {}}

------------------------------------------------------------------------------
(***************************************************************************)
(* Distance vectors.                                                       *)
(***************************************************************************)

(***************************************************************************)
(* RouteTable::vector leaves out the neighbour it is for, and nothing      *)
(* else: not what was learned from it, nor the neighbours of unknown cost. *)
(***************************************************************************)
Vector(t, client) == [s \in DOMAIN t \ {client} |-> t[s].dist]

(***************************************************************************)
(* parseVector first erases what was learned from the source.              *)
(***************************************************************************)
LearnedFrom(t, source) == {s \in DOMAIN t : s # t[s].nextHop /\ t[s].nextHop = source}

(***************************************************************************)
(* The route through the source, whose own distance may be unknown.        *)
(***************************************************************************)
Through(t, source, dist) == Wrapped(dist + t[source].dist)

(***************************************************************************)
(* Seeded fault: a neighbour is left for a route no shorter.               *)
(***************************************************************************)
PreferredTies(t, s, source, dist) ==
  LET e == t[s] IN
  \/ e.near /\ dist <= e.dist
  \/ ~e.near /\ Through(t, source, dist) < e.dist
  \/ ~e.near /\ e.nextHop = source /\ e.dist # Through(t, source, dist)
  \/ e.dist < 0

(***************************************************************************)
(* A neighbour's distance is compared with the one the source has, without *)
(* the way to the source.                                                  *)
(***************************************************************************)
Preferred(t, s, source, dist) ==
  LET e == t[s] IN
  \/ e.near /\ dist < e.dist
  \/ ~e.near /\ Through(t, source, dist) < e.dist
  \/ ~e.near /\ e.nextHop = source /\ e.dist # Through(t, source, dist)
  \/ e.dist < 0

(***************************************************************************)
(* Seeded fault: the way to the source is not added.                       *)
(***************************************************************************)
LearnedAsIs(t, s, source, dist) ==
  IF s \notin DOMAIN t THEN Entry(source, dist)
  ELSE IF Preferred(t, s, source, dist)
  THEN [t[s] EXCEPT !.nextHop = source, !.dist = dist]
  ELSE t[s]

Learned(t, s, source, dist) ==
  IF s \notin DOMAIN t THEN Entry(source, Through(t, source, dist))
  ELSE IF Preferred(t, s, source, dist)
  THEN [t[s] EXCEPT !.nextHop = source,
                    !.dist = IF t[s].near THEN dist ELSE Through(t, source, dist)]
  ELSE t[s]

(***************************************************************************)
(* Seeded fault: the router learns a way to itself.                        *)
(***************************************************************************)
MergedSelf(t, self, source, vector) ==
  [s \in DOMAIN t \cup DOMAIN vector |->
     IF s \in DOMAIN vector THEN Learned(t, s, source, vector[s]) ELSE t[s]]

(***************************************************************************)
(* The rest of parseVector, for the router "self".                         *)
(***************************************************************************)
Merged(t, self, source, vector) ==
  [s \in DOMAIN t \cup (DOMAIN vector \ {self}) |->
     IF s \in DOMAIN vector THEN Learned(t, s, source, vector[s]) ELSE t[s]]

------------------------------------------------------------------------------
(***************************************************************************)
(* Neighbours.                                                             *)
(***************************************************************************)

(***************************************************************************)
(* A LINK from a router that is not in the table: its distance is not      *)
(* known yet.                                                              *)
(***************************************************************************)
Linked(t, s, client) ==
  With(t, s, [Entry(s, Least) EXCEPT !.near = TRUE, !.client = client])

(***************************************************************************)
(* parseNeighborhood, for a neighbour of the list that is not in the table *)
(* and to which a connection was opened; and for one that is.              *)
(***************************************************************************)
Opened(t, s, cost, client) ==
  With(t, s, [Entry(s, cost) EXCEPT !.near = TRUE, !.full = TRUE, !.client = client])

(***************************************************************************)
(* Seeded fault: a neighbour whose cost is known keeps it.                 *)
(***************************************************************************)
ConfirmedOnce(t, s, cost) ==
  IF t[s].full THEN t ELSE [t EXCEPT ![s].dist = cost, ![s].near = TRUE, ![s].full = TRUE]

Confirmed(t, s, cost) ==
  IF t[s].full THEN [t EXCEPT ![s].dist = cost]
  ELSE [t EXCEPT ![s].dist = cost, ![s].near = TRUE, ![s].full = TRUE]

(***************************************************************************)
(* The neighbours that are not in the list any more, which are closed, and *)
(* the other routers whose next hop is not in the list.                    *)
(***************************************************************************)
Unlisted(t, list) == {s \in DOMAIN t : t[s].near /\ s \notin DOMAIN list}

Unreached(t, list) == {s \in DOMAIN t : ~t[s].near /\ t[s].nextHop \notin DOMAIN list}
==============================================================================
