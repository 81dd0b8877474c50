------------------------------ MODULE HashTable ------------------------------
(***************************************************************************)
(* The chained hash table of src/controller/hashtable.c, in the mode the   *)
(* controller uses it (MODE_ALLREF: keys and values are kept by reference, *)
(* so a stored pair never changes).                                        *)
(*                                                                         *)
(* A table is a record:                                                    *)
(*   num    key_num, the length of store_house                             *)
(*   count  key_count, what the code believes it stores                    *)
(*   house  store_house, a chain (sequence of pairs) per bucket; only the  *)
(*          buckets some key can hash to are kept, the others stay NULL    *)
(*                                                                         *)
(* Operators are pure: the modules that own a table (InfoTable,            *)
(* Controller) apply them to their variable.                               *)
(***************************************************************************)
EXTENDS Naturals, Sequences, SequencesExt, FiniteSets

CONSTANTS
  Key,       \* the router names
  Value,     \* what the table maps them to (a Client_info)
  HashCode,  \* the 16-bit value of hash_table_do_hash before its modulo
  KeyNum,    \* initial key_num (128 in the code)
  KeyRatio   \* key_ratio (4 in the code)

ASSUME HashTableAssumption ==
  /\ IsFiniteSet(Key)
  /\ HashCode \in [Key -> Nat]
  /\ KeyNum \in Nat \ {0}
  /\ KeyRatio \in Nat \ {0, 1}

Bucket(k, num) == HashCode[k] % num

Buckets(num) == {Bucket(k, num) : k \in Key}

Pair == [key : Key, value : Value]

EmptyTable(num) == [num |-> num, count |-> 0, house |-> [b \in Buckets(num) |-> <<>>]]

Chain(t, k) == t.house[Bucket(k, t.num)]

HasKey(t, k) == \E i \in DOMAIN Chain(t, k) : Chain(t, k)[i].key = k

(***************************************************************************)
(* Where a walk of the chain stops: at the first pair with that key.       *)
(* Defined when HasKey(t, k).                                              *)
(***************************************************************************)
Position(t, k) ==
  LET c == Chain(t, k)
  IN  CHOOSE i \in DOMAIN c : c[i].key = k /\ \A j \in 1..(i - 1) : c[j].key # k

Lookup(t, k) == Chain(t, k)[Position(t, k)].value

(***************************************************************************)
(* The table once the chain of k's bucket is c and key_count is n.         *)
(***************************************************************************)
WithChain(t, k, c, n) ==
  [num |-> t.num, count |-> n, house |-> [t.house EXCEPT ![Bucket(k, t.num)] = c]]

(***************************************************************************)
(* Seeded fault: the first pair of a bucket is not counted.                *)
(***************************************************************************)
LinkUncounted(t, p) ==
  LET c == Chain(t, p.key)
  IN  WithChain(t, p.key, Append(c, p), IF c = <<>> THEN t.count ELSE t.count + 1)

(***************************************************************************)
(* The part of hash_table_add after its resize.  A pair whose key is       *)
(* already in the chain, but not at its head, is replaced in place.        *)
(***************************************************************************)
Link(t, p) ==
  LET c    == Chain(t, p.key)
      dups == {i \in 2..Len(c) : c[i].key = p.key}
  IN  IF dups # {}
      THEN WithChain(t, p.key, [i \in DOMAIN c |-> IF i \in dups THEN p ELSE c[i]], t.count)
      ELSE WithChain(t, p.key, Append(c, p), t.count + 1)

ChainAt(t, b) == IF b \in DOMAIN t.house THEN t.house[b] ELSE <<>>

(***************************************************************************)
(* The loop of hash_table_get_elements: what it has gathered after b       *)
(* buckets, bucket after bucket, each chain from its head.                 *)
(***************************************************************************)
Gathered(t) ==
  LET first[b \in 0..t.num] == IF b = 0 THEN <<>> ELSE first[b - 1] \o ChainAt(t, b - 1)
  IN  first

Elements(t) == Gathered(t)[t.num]

(***************************************************************************)
(* The loop of hash_table_resize: the new store house once i of the pairs  *)
(* have been added to it, from the last to the first. Adding a pair does   *)
(* not resize again: see ResizesNeverNest in InfoTableProofs.              *)
(***************************************************************************)
Refilled(all, len) ==
  LET moved[i \in 0..Len(all)] ==
        IF i = 0 THEN EmptyTable(len) ELSE Link(moved[i - 1], all[Len(all) + 1 - i])
  IN  moved

(***************************************************************************)
(* Seeded faults: the loop over the elements stops one short; the chains   *)
(* are copied to the new store house without hashing again.                *)
(***************************************************************************)
ResizeOneShort(t, len) ==
  LET all == Elements(t)
  IN  IF all = <<>> THEN t ELSE Refilled(Tail(all), len)[Len(all) - 1]

ResizeCopied(t, len) ==
  [t EXCEPT !.num = len,
            !.house = [b \in Buckets(len) |-> IF b \in DOMAIN t.house THEN t.house[b] ELSE <<>>]]

(***************************************************************************)
(* hash_table_resize: nothing happens to a table that stores no pair.      *)
(* Pairs that stay together come out in the reverse order.                 *)
(***************************************************************************)
Resize(t, len) ==
  LET all == Elements(t)
  IN  IF all = <<>> THEN t ELSE Refilled(all, len)[Len(all)]

HashAdd(t, k, v) ==
  LET grown == IF t.count \div t.num >= KeyRatio THEN Resize(t, t.num * 2) ELSE t
  IN  Link(grown, [key |-> k, value |-> v])

(***************************************************************************)
(* hash_table_remove divides key_num by key_count before anything else.    *)
(***************************************************************************)
RemoveDivides(t) == t.count # 0

Shrunk(t) == IF t.num \div t.count >= KeyRatio THEN Resize(t, t.num \div 2) ELSE t

(***************************************************************************)
(* Seeded fault: the pair before the victim is unlinked.                   *)
(***************************************************************************)
UnlinkPrevious(c, i) == IF i = 1 THEN Tail(c) ELSE RemoveAt(c, i - 1)

(***************************************************************************)
(* Unlinking the pair at position i of a chain.  The code compares prev    *)
(* with the head of the chain; prev is the head for the second pair too,   *)
(* so the chain then starts after the victim, and the head goes with it.   *)
(***************************************************************************)
Unlink(c, i) == IF i <= 2 THEN SubSeq(c, i + 1, Len(c)) ELSE RemoveAt(c, i)

(***************************************************************************)
(* Seeded faults: two pairs are counted out; a key that is not found is    *)
(* counted out all the same.                                               *)
(***************************************************************************)
HashRemoveTwo(t, k) ==
  LET s == Shrunk(t)
  IN  IF HasKey(s, k)
      THEN WithChain(s, k, Unlink(Chain(s, k), Position(s, k)), s.count - 2)
      ELSE s

HashRemoveAlways(t, k) ==
  LET s == Shrunk(t)
  IN  IF HasKey(s, k)
      THEN WithChain(s, k, Unlink(Chain(s, k), Position(s, k)), s.count - 1)
      ELSE [s EXCEPT !.count = @ - 1]

(***************************************************************************)
(* hash_table_remove, for a table whose count is not zero.  The count goes *)
(* down by one however many pairs were unlinked.                           *)
(***************************************************************************)
HashRemove(t, k) ==
  LET s == Shrunk(t)
  IN  IF HasKey(s, k)
      THEN WithChain(s, k, Unlink(Chain(s, k), Position(s, k)), s.count - 1)
      ELSE s

(***************************************************************************)
(* What a lookup of every key sees.                                        *)
(***************************************************************************)
Stored(t) == {k \in Key : HasKey(t, k)}

Contents(t) == [k \in Stored(t) |-> Lookup(t, k)]
==============================================================================
