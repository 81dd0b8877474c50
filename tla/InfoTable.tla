------------------------------ MODULE InfoTable ------------------------------
(***************************************************************************)
(* src/controller/info_table.c over its hash table, driven the way         *)
(* exec__sock_message drives it: a name is added when a router is given it *)
(* and deleted when that router leaves, so a deletion is only asked for a  *)
(* name that was added since its last deletion.                            *)
(***************************************************************************)
EXTENDS HashTable

VARIABLES
  T,         \* the static hash table of info_table.c
  wanted,    \* ghost: the map the callers believe they keep
  crashed    \* the controller died of a division by zero

vars == <<T, wanted, crashed>>

Init ==
  /\ T = EmptyTable(KeyNum)
  /\ wanted = [k \in {} |-> k]
  /\ crashed = FALSE

(***************************************************************************)
(* table__add_info, called by a log in.                                    *)
(***************************************************************************)
AddInfo(k, v) ==
  /\ ~crashed
  /\ k \notin DOMAIN wanted
  /\ wanted' = [j \in DOMAIN wanted \cup {k} |-> IF j = k THEN v ELSE wanted[j]]
  /\ T' = IF HasKey(T, k) THEN T ELSE HashAdd(T, k, v)
  /\ UNCHANGED crashed

(***************************************************************************)
(* table__delete_info, called by a log out or a lost connection.           *)
(***************************************************************************)
DeleteInfo(k) ==
  /\ ~crashed
  /\ k \in DOMAIN wanted
  /\ wanted' = [j \in DOMAIN wanted \ {k} |-> wanted[j]]
  /\ IF RemoveDivides(T)
     THEN T' = HashRemove(T, k) /\ UNCHANGED crashed
     ELSE crashed' = TRUE /\ UNCHANGED T

Next ==
  \/ \E k \in Key, v \in Value : AddInfo(k, v)
  \/ \E k \in Key : DeleteInfo(k)

Spec == Init /\ [][Next]_vars

------------------------------------------------------------------------------

(***************************************************************************)
(* Shape of the state (hash_table_t and its store house).                  *)
(***************************************************************************)
TypeOK ==
  /\ T.num \in Nat \ {0}
  /\ T.count \in Nat
  /\ DOMAIN T.house = Buckets(T.num)
  /\ \A b \in DOMAIN T.house : T.house[b] \in Seq(Pair)
  /\ DOMAIN wanted \subseteq Key
  /\ \A k \in DOMAIN wanted : wanted[k] \in Value
  /\ crashed \in BOOLEAN

(***************************************************************************)
(* Whatever was lost on the way, a lookup never returns the information of *)
(* an earlier holder of the name, nor that of a name that was deleted.     *)
(***************************************************************************)
StoredIsCurrent ==
  /\ Stored(T) \subseteq DOMAIN wanted
  /\ \A k \in Stored(T) : Lookup(T, k) = wanted[k]

(***************************************************************************)
(* hash_table_get_elements allocates key_count slots and fills one per     *)
(* stored pair: the count may exceed the pairs, never the reverse.         *)
(***************************************************************************)
CountCoversElements == Len(Elements(T)) <= T.count

(***************************************************************************)
(* Every pair sits in the bucket its key hashes to under the current size, *)
(* once: after any number of resizes a lookup still finds what is stored.  *)
(***************************************************************************)
WellHoused ==
  LET all == Elements(T)
  IN  /\ \A b \in DOMAIN T.house : \A i \in DOMAIN T.house[b] : Bucket(T.house[b][i].key, T.num) = b
      /\ \A i, j \in DOMAIN all : all[i].key = all[j].key => i = j

(***************************************************************************)
(* Deleting a name costs at most one other name, one of the same bucket;   *)
(* adding one never costs any.                                             *)
(***************************************************************************)
BoundedLoss ==
  [][LET lost == Stored(T) \ Stored(T')
         gone == DOMAIN wanted \ DOMAIN wanted'
     IN  /\ gone = {} => lost = {}
         /\ Cardinality(lost \ gone) <= 1
         /\ \A k \in lost, j \in gone : Bucket(k, T'.num) = Bucket(j, T'.num)]_vars

(***************************************************************************)
(* The table implements the map it stands for.                             *)
(***************************************************************************)
Map == INSTANCE InfoMap WITH map <- Contents(T)

ImplementsMap == Map!Spec
==============================================================================
