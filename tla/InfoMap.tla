------------------------------- MODULE InfoMap -------------------------------
(***************************************************************************)
(* What src/controller/info_table.c promises: a partial map from router    *)
(* names to client information.  Adding a name that is present changes     *)
(* nothing (the code refuses it with a message); deleting a name forgets   *)
(* it and no other.  The table reserves nothing and never fails.           *)
(***************************************************************************)
CONSTANTS Key, Value

VARIABLE map

Init == map = [k \in {} |-> k]

AddInfo(k, v) ==
  map' = IF k \in DOMAIN map THEN map
         ELSE [j \in DOMAIN map \cup {k} |-> IF j = k THEN v ELSE map[j]]

DeleteInfo(k) == map' = [j \in DOMAIN map \ {k} |-> map[j]]

Next == \E k \in Key : DeleteInfo(k) \/ \E v \in Value : AddInfo(k, v)

Spec == Init /\ [][Next]_map
==============================================================================
