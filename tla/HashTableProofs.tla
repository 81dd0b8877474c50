--------------------------- MODULE HashTableProofs ---------------------------
(***************************************************************************)
(* What the operators of HashTable promise, for every set of keys, every   *)
(* hash code and every ratio above one. The central notion is Sound: the   *)
(* pairs of a table are where their keys hash to, one for each key, and    *)
(* key_count is at least their number. An empty table is sound, and        *)
(* hash_table_add, hash_table_resize and hash_table_remove keep a sound    *)
(* table sound; the lemmas AddSound, ResizeSound and RemoveSound also say  *)
(* which bindings they add and take away. That the loops of the code have  *)
(* a result, and what it satisfies, follows from the lemmas of LoopProofs. *)
(***************************************************************************)
EXTENDS HashTable, LoopProofs, SequenceTheorems

-------------------------------------------------------------------------------
(***************************************************************************)
(* The tables with a store house of that length, and what a record must be *)
(* to be a table at all.                                                   *)
(***************************************************************************)
Tables(num) == [num : {num}, count : Nat, house : [Buckets(num) -> Seq(Pair)]]

IsTable(t) == t.num \in Nat \ {0} /\ t \in Tables(t.num)

(***************************************************************************)
(* A hash is an index of the store house.                                  *)
(***************************************************************************)
LEMMA BucketRange ==
  ASSUME NEW k \in Key, NEW num \in Nat \ {0}
  PROVE  Bucket(k, num) \in 0..(num - 1) /\ Bucket(k, num) \in Buckets(num)
  <1>1. HashCode[k] \in Nat
    BY HashTableAssumption DEF HashTableAssumption
  <1>2. Bucket(k, num) \in 0..(num - 1)
    BY <1>1 DEF Bucket
  <1> QED
    BY <1>2 DEF Buckets

(***************************************************************************)
(* The buckets some key hashes to are indices of the store house.          *)
(***************************************************************************)
LEMMA BucketsBelow ==
  ASSUME NEW num \in Nat \ {0}
  PROVE  Buckets(num) \subseteq 0..(num - 1)
  BY BucketRange DEF Buckets

(***************************************************************************)
(* The types of a table's parts.                                           *)
(***************************************************************************)
LEMMA ShapeOfTable ==
  ASSUME NEW t, IsTable(t)
  PROVE  /\ t.num \in Nat \ {0} /\ t.count \in Nat
         /\ t.house \in [Buckets(t.num) -> Seq(Pair)]
         /\ DOMAIN t.house = Buckets(t.num)
         /\ \A b : ChainAt(t, b) \in Seq(Pair)
         /\ \A b \in Buckets(t.num) : ChainAt(t, b) = t.house[b]
         /\ \A k \in Key : Chain(t, k) = t.house[Bucket(k, t.num)] /\ Chain(t, k) \in Seq(Pair)
  <1>1. /\ t.num \in Nat \ {0} /\ t.count \in Nat
        /\ t.house \in [Buckets(t.num) -> Seq(Pair)]
    BY DEF IsTable, Tables
  <1>2. \A b : ChainAt(t, b) \in Seq(Pair)
    BY <1>1, EmptySeq DEF ChainAt
  <1>3. \A k \in Key : Bucket(k, t.num) \in Buckets(t.num)
    BY <1>1, BucketRange
  <1> QED
    BY <1>1, <1>2, <1>3 DEF ChainAt, Chain

(***************************************************************************)
(* What a change of one chain leaves alone.                                *)
(***************************************************************************)
LEMMA ChangedTable ==
  ASSUME NEW t, IsTable(t), NEW k \in Key, NEW c \in Seq(Pair), NEW n \in Nat
  PROVE  /\ IsTable(WithChain(t, k, c, n)) /\ WithChain(t, k, c, n) \in Tables(t.num)
         /\ WithChain(t, k, c, n).num = t.num /\ WithChain(t, k, c, n).count = n
         /\ WithChain(t, k, c, n).house[Bucket(k, t.num)] = c
         /\ \A b \in Buckets(t.num) :
              b # Bucket(k, t.num) => WithChain(t, k, c, n).house[b] = t.house[b]
  <1> DEFINE b == Bucket(k, t.num)
             h == [t.house EXCEPT ![b] = c]
             u == WithChain(t, k, c, n)
  <1>1. t.num \in Nat \ {0} /\ t.house \in [Buckets(t.num) -> Seq(Pair)] /\ b \in Buckets(t.num)
    BY ShapeOfTable, BucketRange
  <1>2. h \in [Buckets(t.num) -> Seq(Pair)]
    BY <1>1
  <1>3. h[b] = c /\ \A a \in Buckets(t.num) : a # b => h[a] = t.house[a]
    BY <1>1
  <1>4. u.num = t.num /\ u.count = n /\ u.house = h
    BY DEF WithChain
  <1>5. u \in Tables(t.num)
    BY <1>2 DEF Tables, WithChain
  <1> HIDE DEF h, u
  <1>6. IsTable(u)
    BY <1>1, <1>4, <1>5 DEF IsTable
  <1> QED
    BY <1>3, <1>4, <1>5, <1>6 DEF u

(***************************************************************************)
(* hash_table_get_elements, bucket by bucket: the recursive function of    *)
(* the model is the run of its loop.                                       *)
(***************************************************************************)
LEMMA GatheredSteps ==
  ASSUME NEW t, IsTable(t)
  PROVE  /\ Gathered(t) \in [0..t.num -> Seq(Pair)]
         /\ Gathered(t)[0] = <<>>
         /\ \A b \in 1..t.num : Gathered(t)[b] = Gathered(t)[b - 1] \o ChainAt(t, b - 1)
  <1> DEFINE V == Seq(Pair)
             step == [b \in 1..t.num |-> [s \in V |-> s \o ChainAt(t, b - 1)]]
             G(f) == [b \in 0..t.num |-> IF b = 0 THEN <<>> ELSE f[b - 1] \o ChainAt(t, b - 1)]
  <1>1. t.num \in Nat \ {0} /\ t.num \in Nat /\ <<>> \in V /\ \A b : ChainAt(t, b) \in V
    BY ShapeOfTable, EmptySeq
  <1>2. \A b \in 1..t.num, s \in V : s \o ChainAt(t, b - 1) \in V
    BY <1>1, ConcatProperties
  <1>3. /\ step \in [1..t.num -> [V -> V]]
        /\ \A b \in 1..t.num, s \in V : step[b][s] = s \o ChainAt(t, b - 1)
    BY <1>2
  <1> HIDE DEF step, V
  <1>4. PICK f \in [0..t.num -> V] : Iterates(f, t.num, <<>>, step)
    BY <1>1, <1>3, RecursiveFunction
  <1>5. ASSUME NEW b \in 1..t.num PROVE f[b] = f[b - 1] \o ChainAt(t, b - 1)
    <2>1. b - 1 \in 0..t.num
      BY <1>1
    <2> QED
      BY <1>3, <1>4, <2>1 DEF Iterates
  <1>6. ASSUME NEW b \in 0..t.num
        PROVE  f[b] = IF b = 0 THEN <<>> ELSE f[b - 1] \o ChainAt(t, b - 1)
    <2>1. CASE b = 0
      BY <1>4, <2>1 DEF Iterates
    <2>2. CASE b # 0
      <3>1. b \in 1..t.num
        BY <1>1, <2>2
      <3> QED
        BY <1>5, <2>2, <3>1
    <2> QED
      BY <2>1, <2>2
  <1>7. f = G(f)
    BY <1>4, <1>6
  <1>8. Gathered(t) = G(Gathered(t))
    BY <1>7, Zenon DEF Gathered
  <1>9. ASSUME NEW g, g = G(g)
        PROVE  g[0] = <<>> /\ \A b \in 1..t.num : g[b] = g[b - 1] \o ChainAt(t, b - 1)
    BY <1>1, <1>9
  <1>10. ASSUME NEW g, g = G(g)
         PROVE  g \in [0..t.num -> V]
    <2>1. 0..t.num \subseteq {b \in 0..t.num : g[b] \in V}
      <3> DEFINE S == {b \in 0..t.num : g[b] \in V}
      <3>1. 0 \in S
        BY <1>1, <1>9, <1>10
      <3>2. ASSUME NEW b \in 0..(t.num - 1), b \in S PROVE b + 1 \in S
        <4>1. b + 1 \in 1..t.num /\ b + 1 \in 0..t.num /\ (b + 1) - 1 = b /\ g[b] \in V
          BY <1>1, <3>2
        <4>2. g[b + 1] = g[b] \o ChainAt(t, b)
          BY <1>9, <1>10, <4>1
        <4>3. g[b] \o ChainAt(t, b) \in V
          BY <1>1, <4>1, ConcatProperties DEF V
        <4> QED
          BY <4>1, <4>2, <4>3
      <3> HIDE DEF S
      <3>3. 0..t.num \subseteq S
        BY <1>1, <3>1, <3>2, BoundedInduction
      <3> QED
        BY <3>3 DEF S
    <2>2. g = [b \in 0..t.num |-> g[b]]
      BY <1>10
    <2> QED
      BY <2>1, <2>2
  <1> QED
    BY <1>8, <1>9, <1>10 DEF V

-------------------------------------------------------------------------------
(***************************************************************************)
(* The sequence holds that pair.                                           *)
(***************************************************************************)
InSeq(s, p) == \E i \in 1..Len(s) : s[i] = p

(***************************************************************************)
(* No two pairs of the sequence have the same key.                         *)
(***************************************************************************)
OneEach(s) == \A i, j \in 1..Len(s) : s[i].key = s[j].key => i = j

(***************************************************************************)
(* Every pair is in the bucket its key hashes to, once.                    *)
(***************************************************************************)
Housed(t) ==
  \A b \in Buckets(t.num) :
    /\ OneEach(t.house[b])
    /\ \A p : InSeq(t.house[b], p) => Bucket(p.key, t.num) = b

(***************************************************************************)
(* Which pairs two sequences hold together.                                *)
(***************************************************************************)
LEMMA InConcat ==
  ASSUME NEW s1 \in Seq(Pair), NEW s2 \in Seq(Pair), NEW p
  PROVE  InSeq(s1 \o s2, p) <=> InSeq(s1, p) \/ InSeq(s2, p)
  <1>1. /\ Len(s1) \in Nat /\ Len(s2) \in Nat /\ Len(s1 \o s2) = Len(s1) + Len(s2)
        /\ \A i \in 1..(Len(s1) + Len(s2)) :
             (s1 \o s2)[i] = IF i <= Len(s1) THEN s1[i] ELSE s2[i - Len(s1)]
    BY ConcatProperties, LenProperties
  <1>2. ASSUME InSeq(s1 \o s2, p) PROVE InSeq(s1, p) \/ InSeq(s2, p)
    <2>1. PICK i \in 1..(Len(s1) + Len(s2)) : (s1 \o s2)[i] = p
      BY <1>1, <1>2 DEF InSeq
    <2>2. CASE i <= Len(s1)
      BY <1>1, <2>1, <2>2 DEF InSeq
    <2>3. CASE i > Len(s1)
      <3>1. i - Len(s1) \in 1..Len(s2) /\ s2[i - Len(s1)] = p
        BY <1>1, <2>1, <2>3
      <3> QED
        BY <3>1 DEF InSeq
    <2> QED
      BY <1>1, <2>2, <2>3
  <1>3. ASSUME InSeq(s1, p) PROVE InSeq(s1 \o s2, p)
    BY <1>1, <1>3 DEF InSeq
  <1>4. ASSUME InSeq(s2, p) PROVE InSeq(s1 \o s2, p)
    <2>1. PICK i \in 1..Len(s2) : s2[i] = p
      BY <1>4 DEF InSeq
    <2>2. Len(s1) + i \in 1..(Len(s1) + Len(s2)) /\ (s1 \o s2)[Len(s1) + i] = p
      BY <1>1, <2>1
    <2> QED
      BY <1>1, <2>2 DEF InSeq
  <1> QED
    BY <1>2, <1>3, <1>4

(***************************************************************************)
(* Two sequences without a common key.                                     *)
(***************************************************************************)
LEMMA OneEachConcat ==
  ASSUME NEW s1 \in Seq(Pair), NEW s2 \in Seq(Pair), OneEach(s1), OneEach(s2),
         \A p, q : InSeq(s1, p) /\ InSeq(s2, q) => p.key # q.key
  PROVE  OneEach(s1 \o s2)
  <1> DEFINE s == s1 \o s2
  <1>1. /\ Len(s1) \in Nat /\ Len(s2) \in Nat /\ Len(s) = Len(s1) + Len(s2)
        /\ \A i \in 1..(Len(s1) + Len(s2)) :
             s[i] = IF i <= Len(s1) THEN s1[i] ELSE s2[i - Len(s1)]
    BY ConcatProperties, LenProperties
  <1> HIDE DEF s
  <1> SUFFICES ASSUME NEW i \in 1..(Len(s1) + Len(s2)), NEW j \in 1..(Len(s1) + Len(s2)),
                      s[i].key = s[j].key
               PROVE  i = j
    BY <1>1 DEF OneEach, s
  <1>2. \A l \in 1..(Len(s1) + Len(s2)) :
          \/ l \in 1..Len(s1) /\ s[l] = s1[l] /\ InSeq(s1, s[l])
          \/ l - Len(s1) \in 1..Len(s2) /\ s[l] = s2[l - Len(s1)] /\ InSeq(s2, s[l])
    BY <1>1 DEF InSeq
  <1>3. CASE i \in 1..Len(s1) /\ s[i] = s1[i] /\ InSeq(s1, s[i])
    BY <1>2, <1>3 DEF OneEach
  <1>4. CASE i - Len(s1) \in 1..Len(s2) /\ s[i] = s2[i - Len(s1)] /\ InSeq(s2, s[i])
    <2>1. j - Len(s1) \in 1..Len(s2) /\ s[j] = s2[j - Len(s1)]
      BY <1>2, <1>4
    <2>2. i - Len(s1) = j - Len(s1)
      BY <1>4, <2>1 DEF OneEach
    <2> QED
      BY <1>1, <2>2
  <1> QED
    BY <1>2, <1>3, <1>4

(***************************************************************************)
(* What the loop has gathered after b buckets: the pairs of those buckets. *)
(***************************************************************************)
LEMMA GatheredPairs ==
  ASSUME NEW t, IsTable(t), NEW b \in 0..t.num, NEW p
  PROVE  InSeq(Gathered(t)[b], p) <=> \E c \in 0..(b - 1) : InSeq(ChainAt(t, c), p)
  <1> DEFINE S == {a \in 0..t.num :
                     InSeq(Gathered(t)[a], p) <=> \E c \in 0..(a - 1) : InSeq(ChainAt(t, c), p)}
  <1>1. t.num \in Nat /\ \A c : ChainAt(t, c) \in Seq(Pair)
    BY ShapeOfTable
  <1>2. 0 \in S
    <2>1. Gathered(t)[0] = <<>>
      BY GatheredSteps
    <2>2. ~InSeq(<<>>, p)
      BY EmptySeq DEF InSeq
    <2> QED
      BY <1>1, <2>1, <2>2
  <1>3. ASSUME NEW a \in 0..(t.num - 1), a \in S PROVE a + 1 \in S
    <2>1. a + 1 \in 1..t.num /\ (a + 1) - 1 = a /\ a \in 0..t.num /\ a + 1 \in 0..t.num
      BY <1>1
    <2>2. Gathered(t)[a + 1] = Gathered(t)[a] \o ChainAt(t, a) /\ Gathered(t)[a] \in Seq(Pair)
      BY <2>1, GatheredSteps
    <2>3. InSeq(Gathered(t)[a + 1], p) <=> InSeq(Gathered(t)[a], p) \/ InSeq(ChainAt(t, a), p)
      BY <1>1, <2>2, InConcat
    <2>4. (\E c \in 0..a : InSeq(ChainAt(t, c), p))
            <=> (\E c \in 0..(a - 1) : InSeq(ChainAt(t, c), p)) \/ InSeq(ChainAt(t, a), p)
      BY <1>1
    <2> QED
      BY <1>3, <2>1, <2>3, <2>4
  <1>4. 0..t.num \subseteq S
    <2> HIDE DEF S
    <2> QED
      BY <1>1, <1>2, <1>3, BoundedInduction
  <1> QED
    BY <1>4

(***************************************************************************)
(* A key is gathered once, because its pairs are all in one bucket.        *)
(***************************************************************************)
LEMMA GatheredOnce ==
  ASSUME NEW t, IsTable(t), Housed(t), NEW b \in 0..t.num
  PROVE  OneEach(Gathered(t)[b])
  <1> DEFINE S == {a \in 0..t.num : OneEach(Gathered(t)[a])}
  <1>1. t.num \in Nat /\ \A c : ChainAt(t, c) \in Seq(Pair)
    BY ShapeOfTable
  <1>2. OneEach(<<>>) /\ \A p : ~InSeq(<<>>, p)
    BY EmptySeq DEF OneEach, InSeq
  <1>3. \A c : OneEach(ChainAt(t, c)) /\ \A p : InSeq(ChainAt(t, c), p) => Bucket(p.key, t.num) = c
    BY <1>2, ShapeOfTable DEF Housed, ChainAt
  <1>4. 0 \in S
    <2>1. 0 \in 0..t.num
      BY <1>1
    <2>2. Gathered(t)[0] = <<>>
      BY GatheredSteps
    <2> QED
      BY <1>2, <2>1, <2>2
  <1>5. ASSUME NEW a \in 0..(t.num - 1), a \in S PROVE a + 1 \in S
    <2>1. a + 1 \in 1..t.num /\ (a + 1) - 1 = a /\ a \in 0..t.num /\ a + 1 \in 0..t.num
      BY <1>1
    <2>2. Gathered(t)[a + 1] = Gathered(t)[a] \o ChainAt(t, a) /\ Gathered(t)[a] \in Seq(Pair)
      BY <2>1, GatheredSteps
    <2>3. \A p, q : InSeq(Gathered(t)[a], p) /\ InSeq(ChainAt(t, a), q) => p.key # q.key
      <3>1. \A p : InSeq(Gathered(t)[a], p) => \E c \in 0..(a - 1) : InSeq(ChainAt(t, c), p)
        BY <2>1, GatheredPairs
      <3>2. \A p : InSeq(Gathered(t)[a], p) => Bucket(p.key, t.num) \in 0..(a - 1)
        BY <1>3, <3>1
      <3>3. a \notin 0..(a - 1)
        BY <1>1
      <3> QED
        BY <1>3, <3>2, <3>3
    <2>4. OneEach(Gathered(t)[a + 1])
      BY <1>1, <1>3, <1>5, <2>2, <2>3, OneEachConcat
    <2> QED
      BY <2>1, <2>4
  <1>6. 0..t.num \subseteq S
    <2> HIDE DEF S
    <2> QED
      BY <1>1, <1>4, <1>5, BoundedInduction
  <1> QED
    BY <1>6

(***************************************************************************)
(* When one chain changes, the number of elements changes with the length  *)
(* of that chain.                                                          *)
(***************************************************************************)
LEMMA LengthChanged ==
  ASSUME NEW t, IsTable(t), NEW u, IsTable(u), u.num = t.num, NEW c \in Buckets(t.num),
         \A b \in Buckets(t.num) : b # c => u.house[b] = t.house[b]
  PROVE  Len(Elements(u)) = Len(Elements(t)) + Len(u.house[c]) - Len(t.house[c])
  <1> DEFINE lt(b) == Len(Gathered(t)[b])
             lu(b) == Len(Gathered(u)[b])
             more == Len(u.house[c]) - Len(t.house[c])
             S == {b \in 0..t.num : lu(b) = lt(b) + (IF c < b THEN more ELSE 0)}
  <1>1. /\ t.num \in Nat /\ t.num > 0 /\ c \in 0..(t.num - 1)
        /\ \A b : ChainAt(t, b) \in Seq(Pair) /\ ChainAt(u, b) \in Seq(Pair)
        /\ ChainAt(t, c) = t.house[c] /\ ChainAt(u, c) = u.house[c]
    BY ShapeOfTable, BucketsBelow
  <1>2. \A b : b # c => ChainAt(u, b) = ChainAt(t, b)
    BY ShapeOfTable DEF ChainAt
  <1>3. /\ Len(u.house[c]) \in Nat /\ Len(t.house[c]) \in Nat
        /\ Len(ChainAt(t, c)) = Len(t.house[c]) /\ Len(ChainAt(u, c)) = Len(u.house[c])
        /\ \A b : Len(ChainAt(t, b)) \in Nat
    BY <1>1, LenProperties
  <1>4. \A b \in 0..t.num : lt(b) \in Nat /\ lu(b) \in Nat
    BY <1>1, GatheredSteps, LenProperties
  <1>5. lt(0) = 0 /\ lu(0) = 0
    BY GatheredSteps, EmptySeq
  <1>6. ASSUME NEW b \in 0..(t.num - 1)
        PROVE  /\ lt(b + 1) = lt(b) + Len(ChainAt(t, b))
               /\ lu(b + 1) = lu(b) + Len(ChainAt(u, b))
    <2>1. b + 1 \in 1..t.num /\ (b + 1) - 1 = b /\ b \in 0..t.num
      BY <1>1
    <2>2. /\ Gathered(t)[b + 1] = Gathered(t)[b] \o ChainAt(t, b) /\ Gathered(t)[b] \in Seq(Pair)
          /\ Gathered(u)[b + 1] = Gathered(u)[b] \o ChainAt(u, b) /\ Gathered(u)[b] \in Seq(Pair)
      BY <2>1, GatheredSteps
    <2> QED
      BY <1>1, <2>2, ConcatProperties
  <1>7. more \in Int /\ Len(ChainAt(u, c)) = Len(ChainAt(t, c)) + more
    BY <1>3
  <1> HIDE DEF lt, lu, more
  <1>8. 0 \in S
    BY <1>1, <1>5
  <1>9. ASSUME NEW b \in 0..(t.num - 1), b \in S PROVE b + 1 \in S
    <2>1. b \in 0..t.num /\ b + 1 \in 0..t.num /\ lu(b) = lt(b) + (IF c < b THEN more ELSE 0)
      BY <1>1, <1>9
    <2>2. CASE b = c
      <3>1. lu(b) = lt(b) /\ c < b + 1
        BY <1>1, <1>4, <2>1, <2>2
      <3>2. /\ lt(c + 1) = lt(c) + Len(ChainAt(t, c))
            /\ lu(c + 1) = lu(c) + Len(ChainAt(u, c))
        BY <1>6, <2>2
      <3>3. lt(c) \in Nat /\ Len(ChainAt(t, c)) \in Nat /\ more \in Int
        BY <1>3, <1>4, <1>7, <2>1, <2>2
      <3>4. lu(b + 1) = lt(b + 1) + more
        BY <1>7, <2>2, <3>1, <3>2, <3>3
      <3> QED
        BY <2>1, <3>1, <3>4
    <2>3. CASE b # c
      <3>1. ChainAt(u, b) = ChainAt(t, b) /\ (c < b <=> c < b + 1)
        BY <1>1, <1>2, <2>3
      <3>2. lu(b + 1) = lt(b + 1) + (IF c < b + 1 THEN more ELSE 0)
        BY <1>3, <1>4, <1>6, <1>7, <2>1, <3>1
      <3> QED
        BY <2>1, <3>2
    <2> QED
      BY <2>2, <2>3
  <1>10. t.num \in S
    <2> HIDE DEF S
    <2>1. 0..t.num \subseteq S
      BY <1>1, <1>8, <1>9, BoundedInduction
    <2> QED
      BY <1>1, <2>1
  <1>11. lu(t.num) = lt(t.num) + more /\ t.num \in 0..t.num
    BY <1>1, <1>10
  <1> QED
    BY <1>3, <1>4, <1>11 DEF Elements, lt, lu, more

-------------------------------------------------------------------------------
(***************************************************************************)
(* The count is at least the number of elements, so the array that         *)
(* hash_table_get_elements allocates from it is long enough.               *)
(***************************************************************************)
Covered(t) == Len(Elements(t)) <= t.count

(***************************************************************************)
(* The invariant of a table.                                               *)
(***************************************************************************)
Sound(t) == IsTable(t) /\ Housed(t) /\ Covered(t)

(***************************************************************************)
(* A walk of the key's chain meets that value.                             *)
(***************************************************************************)
Binds(t, k, v) == InSeq(Chain(t, k), [key |-> k, value |-> v])

(***************************************************************************)
(* hash_table_get_elements returns the pairs of all the chains, each key   *)
(* once.                                                                   *)
(***************************************************************************)
LEMMA PairsOfElements ==
  ASSUME NEW t, IsTable(t)
  PROVE  /\ Elements(t) \in Seq(Pair) /\ Len(Elements(t)) \in Nat
         /\ \A p : InSeq(Elements(t), p) <=> \E b \in Buckets(t.num) : InSeq(t.house[b], p)
         /\ Housed(t) => OneEach(Elements(t))
  <1>1. /\ t.num \in Nat /\ t.num \in 0..t.num
        /\ Buckets(t.num) \subseteq 0..(t.num - 1)
        /\ \A b \in Buckets(t.num) : ChainAt(t, b) = t.house[b]
    BY ShapeOfTable, BucketsBelow
  <1>2. Elements(t) \in Seq(Pair)
    BY <1>1, GatheredSteps DEF Elements
  <1>3. ASSUME NEW p
        PROVE  InSeq(Elements(t), p) <=> \E b \in Buckets(t.num) : InSeq(t.house[b], p)
    <2>1. InSeq(Elements(t), p) <=> \E b \in 0..(t.num - 1) : InSeq(ChainAt(t, b), p)
      BY <1>1, GatheredPairs DEF Elements
    <2>2. \A b : b \notin Buckets(t.num) => ~InSeq(ChainAt(t, b), p)
      BY EmptySeq, ShapeOfTable DEF ChainAt, InSeq
    <2> QED
      BY <1>1, <2>1, <2>2
  <1>4. Housed(t) => OneEach(Elements(t))
    BY <1>1, GatheredOnce DEF Elements
  <1> QED
    BY <1>2, <1>3, <1>4, LenProperties

(***************************************************************************)
(* The table of hash_table_new, and the new store house of a resize.       *)
(***************************************************************************)
LEMMA EmptyIsSound ==
  ASSUME NEW num \in Nat \ {0}
  PROVE  /\ Sound(EmptyTable(num)) /\ EmptyTable(num) \in Tables(num)
         /\ EmptyTable(num).num = num /\ EmptyTable(num).count = 0
         /\ \A k \in Key : \A v : ~Binds(EmptyTable(num), k, v)
         /\ Len(Elements(EmptyTable(num))) = 0
  <1> DEFINE h == [b \in Buckets(num) |-> <<>>]
  <1>1. h \in [Buckets(num) -> Seq(Pair)]
    BY EmptySeq
  <1> DEFINE t == EmptyTable(num)
  <1>2. t = [num |-> num, count |-> 0, house |-> h]
    BY DEF EmptyTable
  <1> HIDE DEF t
  <1>3a. t.num = num /\ t.count = 0 /\ t.house = h
    BY <1>2
  <1>3b. t \in Tables(num)
    BY <1>1, <1>2 DEF Tables
  <1>3. IsTable(t) /\ t \in Tables(num) /\ t.num = num /\ t.count = 0 /\ t.house = h
    BY <1>3a, <1>3b DEF IsTable
  <1>4. \A b \in Buckets(t.num) : \A p : t.house[b] = <<>> /\ ~InSeq(t.house[b], p)
    BY <1>3, EmptySeq DEF InSeq
  <1>5. OneEach(<<>>)
    BY EmptySeq DEF OneEach
  <1>6. Housed(t)
    BY <1>4, <1>5 DEF Housed
  <1>7. Len(Elements(t)) = 0
    <2>1. \A p : ~InSeq(Elements(t), p)
      BY <1>3, <1>4, PairsOfElements
    <2>2. Len(Elements(t)) \in Nat
      BY <1>3, PairsOfElements
    <2>3. ASSUME Len(Elements(t)) > 0 PROVE FALSE
      <3>1. 1 \in 1..Len(Elements(t))
        BY <2>2, <2>3
      <3> QED
        BY <2>1, <3>1 DEF InSeq
    <2> QED
      BY <2>2, <2>3
  <1>8. \A k \in Key : \A v : ~Binds(t, k, v)
    BY <1>3, <1>4, BucketRange DEF Binds, Chain
  <1> QED
    BY <1>3, <1>6, <1>7, <1>8 DEF Sound, Covered, t

(***************************************************************************)
(* The pair at which a walk stops is the one of that key.                  *)
(***************************************************************************)
LEMMA FoundAt ==
  ASSUME NEW t, IsTable(t), Housed(t), NEW k \in Key, HasKey(t, k)
  PROVE  /\ Position(t, k) \in 1..Len(Chain(t, k))
         /\ Chain(t, k)[Position(t, k)].key = k
         /\ Chain(t, k)[Position(t, k)] = [key |-> k, value |-> Lookup(t, k)]
         /\ Lookup(t, k) \in Value
  <1> DEFINE c == Chain(t, k)
  <1>1. c \in Seq(Pair) /\ DOMAIN c = 1..Len(c) /\ Len(c) \in Nat /\ OneEach(c)
    BY ShapeOfTable, BucketRange, LenProperties DEF Housed
  <1>2. PICK i \in 1..Len(c) : c[i].key = k
    BY <1>1 DEF HasKey
  <1>3. ASSUME NEW j \in 1..(i - 1) PROVE c[j].key # k
    <2>1. j \in 1..Len(c) /\ j # i
      BY <1>1
    <2> QED
      BY <1>1, <1>2, <2>1 DEF OneEach
  <1>4. \E j \in DOMAIN c : c[j].key = k /\ \A l \in 1..(j - 1) : c[l].key # k
    BY <1>1, <1>2, <1>3
  <1>5. Position(t, k) \in DOMAIN c /\ c[Position(t, k)].key = k
    BY <1>4 DEF Position
  <1>6. c[Position(t, k)] \in Pair
    BY <1>1, <1>5, ElementOfSeq
  <1>7. /\ c[Position(t, k)] = [key |-> c[Position(t, k)].key, value |-> c[Position(t, k)].value]
        /\ c[Position(t, k)].value \in Value
    BY <1>6 DEF Pair
  <1> QED
    BY <1>1, <1>5, <1>7 DEF Lookup

(***************************************************************************)
(* A key that is found is bound to the value its lookup returns, and to no *)
(* other.                                                                  *)
(***************************************************************************)
LEMMA KeysAreBound ==
  ASSUME NEW t, IsTable(t), Housed(t), NEW k \in Key
  PROVE  /\ \A v : Binds(t, k, v) <=> HasKey(t, k) /\ Lookup(t, k) = v
         /\ HasKey(t, k) <=> \E p : InSeq(Chain(t, k), p) /\ p.key = k
         /\ HasKey(t, k) => Lookup(t, k) \in Value
  <1> DEFINE c == Chain(t, k)
  <1>1. c \in Seq(Pair) /\ DOMAIN c = 1..Len(c) /\ Len(c) \in Nat /\ OneEach(c)
    BY ShapeOfTable, BucketRange, LenProperties DEF Housed
  <1>2. HasKey(t, k) <=> \E p : InSeq(c, p) /\ p.key = k
    BY <1>1 DEF HasKey, InSeq
  <1>3. ASSUME NEW v, Binds(t, k, v) PROVE HasKey(t, k) /\ Lookup(t, k) = v
    <2>1. PICK i \in 1..Len(c) : c[i] = [key |-> k, value |-> v]
      BY <1>3 DEF Binds, InSeq
    <2>2. c[i].key = k /\ c[i].value = v
      BY <2>1
    <2>3. HasKey(t, k)
      BY <1>1, <2>2 DEF HasKey
    <2>4. Position(t, k) \in 1..Len(c) /\ c[Position(t, k)].key = k
      BY <2>3, FoundAt
    <2>5. Position(t, k) = i
      BY <1>1, <2>2, <2>4 DEF OneEach
    <2> QED
      BY <2>2, <2>3, <2>5 DEF Lookup
  <1>4. ASSUME HasKey(t, k) PROVE Binds(t, k, Lookup(t, k)) /\ Lookup(t, k) \in Value
    BY <1>4, FoundAt DEF Binds, InSeq
  <1> QED
    BY <1>2, <1>3, <1>4

(***************************************************************************)
(* A table that stores anything has a count that is not zero: a removal of *)
(* what is stored never divides by zero.                                   *)
(***************************************************************************)
LEMMA StoredIsCounted ==
  ASSUME NEW t, Sound(t), NEW k \in Key, NEW v, Binds(t, k, v)
  PROVE  t.count # 0
  <1>1. /\ Bucket(k, t.num) \in Buckets(t.num) /\ Chain(t, k) = t.house[Bucket(k, t.num)]
        /\ IsTable(t) /\ Covered(t) /\ t.count \in Nat
    BY ShapeOfTable, BucketRange DEF Sound
  <1>2. InSeq(Elements(t), [key |-> k, value |-> v])
    BY <1>1, PairsOfElements DEF Binds
  <1>3. Len(Elements(t)) # 0 /\ Len(Elements(t)) \in Nat
    BY <1>1, <1>2, PairsOfElements DEF InSeq
  <1> QED
    BY <1>1, <1>3 DEF Covered

(***************************************************************************)
(* Linking a pair keeps the shape of a table, whatever it holds.           *)
(***************************************************************************)
LEMMA LinkIsTable ==
  ASSUME NEW t, IsTable(t), NEW p \in Pair
  PROVE  Link(t, p) \in Tables(t.num)
  <1> DEFINE c == Chain(t, p.key)
             dups == {i \in 2..Len(c) : c[i].key = p.key}
             d == [i \in DOMAIN c |-> IF i \in dups THEN p ELSE c[i]]
             b == Bucket(p.key, t.num)
  <1>1. p.key \in Key /\ t.count \in Nat /\ t \in Tables(t.num)
    BY ShapeOfTable DEF Pair, IsTable
  <1>2. c \in Seq(Pair) /\ Len(c) \in Nat /\ DOMAIN c = 1..Len(c)
    BY <1>1, ShapeOfTable, LenProperties
  <1>3. d \in Seq(Pair)
    <2>1. \A i \in 1..Len(c) : c[i] \in Pair
      BY <1>2, ElementOfSeq
    <2>2. d \in [1..Len(c) -> Pair]
      BY <1>2, <2>1
    <2> HIDE DEF d
    <2>3. Seq(Pair) = UNION {[1..n -> Pair] : n \in Nat}
      BY SeqDef
    <2> QED
      BY <1>2, <2>2, <2>3
  <1>4. Append(c, p) \in Seq(Pair)
    BY <1>2, AppendProperties
  <1>5. \/ Link(t, p) = WithChain(t, p.key, d, t.count)
        \/ Link(t, p) = WithChain(t, p.key, Append(c, p), t.count + 1)
    BY DEF Link
  <1> HIDE DEF d, c
  <1>6. WithChain(t, p.key, d, t.count) \in Tables(t.num)
    BY <1>1, <1>3, ChangedTable
  <1>7. WithChain(t, p.key, Append(c, p), t.count + 1) \in Tables(t.num)
    <2>1. t.count + 1 \in Nat
      BY <1>1
    <2> QED
      BY <1>1, <1>4, <2>1, ChangedTable
  <1> QED
    BY <1>5, <1>6, <1>7

(***************************************************************************)
(* A key that is not in the table is linked behind the last pair of its    *)
(* chain.                                                                  *)
(***************************************************************************)
LEMMA LinkFresh ==
  ASSUME NEW t, IsTable(t), NEW p \in Pair, ~HasKey(t, p.key)
  PROVE  Link(t, p) = WithChain(t, p.key, Append(Chain(t, p.key), p), t.count + 1)
  <1> DEFINE c == Chain(t, p.key)
  <1>1. p.key \in Key
    BY DEF Pair
  <1>2. Len(c) \in Nat /\ DOMAIN c = 1..Len(c)
    BY <1>1, ShapeOfTable, LenProperties
  <1>3. {i \in 2..Len(c) : c[i].key = p.key} = {}
    BY <1>2 DEF HasKey
  <1> QED
    BY <1>3 DEF Link

(***************************************************************************)
(* Linking a new key binds it, changes no other binding and counts it.     *)
(***************************************************************************)
LEMMA LinkSound ==
  ASSUME NEW t, Sound(t), NEW p \in Pair, ~HasKey(t, p.key)
  PROVE  /\ Sound(Link(t, p)) /\ Link(t, p).num = t.num
         /\ Link(t, p).count = t.count + 1
         /\ Len(Elements(Link(t, p))) = Len(Elements(t)) + 1
         /\ \A k \in Key : \A v :
              Binds(Link(t, p), k, v) <=> Binds(t, k, v) \/ p = [key |-> k, value |-> v]
  <1> DEFINE u == Link(t, p)
             a == Bucket(p.key, t.num)
             c == t.house[a]
             d == Append(c, p)
  <1>0. IsTable(t) /\ Housed(t) /\ Len(Elements(t)) <= t.count
    BY DEF Sound, Covered
  <1>1. p.key \in Key /\ t.num \in Nat \ {0} /\ t.count \in Nat /\ t.count + 1 \in Nat
    BY <1>0, ShapeOfTable DEF Pair
  <1>2. a \in Buckets(t.num) /\ Chain(t, p.key) = c /\ c \in Seq(Pair) /\ Len(c) \in Nat
    BY <1>0, <1>1, ShapeOfTable, BucketRange, LenProperties DEF Chain
  <1>3. /\ d \in Seq(Pair) /\ Len(d) = Len(c) + 1 /\ d[Len(c) + 1] = p
        /\ \A i \in 1..Len(c) : d[i] = c[i]
    BY <1>2, AppendProperties
  <1> HIDE DEF d
  <1>4. u = WithChain(t, p.key, d, t.count + 1)
    BY <1>0, <1>2, LinkFresh DEF d
  <1>5. /\ IsTable(u) /\ u.num = t.num /\ u.count = t.count + 1
        /\ u.house[a] = d
        /\ \A b \in Buckets(t.num) : b # a => u.house[b] = t.house[b]
    BY <1>0, <1>1, <1>3, <1>4, ChangedTable
  <1> HIDE DEF u, c
  <1>6. \A q : InSeq(d, q) <=> InSeq(c, q) \/ q = p
    <2>1. \A i \in 1..Len(d) : i \in 1..Len(c) \/ i = Len(c) + 1
      BY <1>2, <1>3
    <2>2. Len(c) + 1 \in 1..Len(d) /\ \A i \in 1..Len(c) : i \in 1..Len(d)
      BY <1>2, <1>3
    <2> QED
      BY <1>3, <2>1, <2>2 DEF InSeq
  <1>7. \A q : InSeq(c, q) => q.key # p.key
    BY <1>0, <1>1, <1>2, KeysAreBound
  <1>8. Housed(u)
    <2>1. OneEach(c) /\ \A q : InSeq(c, q) => Bucket(q.key, t.num) = a
      BY <1>0, <1>2 DEF Housed, c
    <2>2. ASSUME NEW i \in 1..Len(d), NEW j \in 1..Len(d), d[i].key = d[j].key PROVE i = j
      <3>1. \A l \in 1..Len(d) :
              \/ l \in 1..Len(c) /\ d[l] = c[l] /\ InSeq(c, d[l])
              \/ l = Len(c) + 1 /\ d[l] = p
        BY <1>2, <1>3 DEF InSeq
      <3>2. CASE i \in 1..Len(c) /\ j \in 1..Len(c)
        BY <1>3, <2>1, <2>2, <3>2 DEF OneEach
      <3>3. CASE ~(i \in 1..Len(c) /\ j \in 1..Len(c))
        BY <1>7, <2>2, <3>1, <3>3
      <3> QED
        BY <3>2, <3>3
    <2>3. OneEach(d)
      BY <2>2 DEF OneEach
    <2>4. \A q : InSeq(d, q) => Bucket(q.key, t.num) = a
      BY <1>6, <2>1
    <2> QED
      BY <1>0, <1>5, <2>3, <2>4 DEF Housed
  <1>9. Len(Elements(u)) = Len(Elements(t)) + 1
    <2>1. Len(Elements(u)) = Len(Elements(t)) + Len(d) - Len(c)
      BY <1>0, <1>2, <1>5, LengthChanged DEF c
    <2>2. Len(Elements(t)) \in Nat
      BY <1>0, PairsOfElements
    <2> QED
      BY <1>2, <1>3, <2>1, <2>2
  <1>10. Covered(u)
    <2>1. Len(Elements(t)) \in Nat
      BY <1>0, PairsOfElements
    <2> QED
      BY <1>0, <1>1, <1>5, <1>9, <2>1 DEF Covered
  <1>11. ASSUME NEW k \in Key, NEW v
         PROVE  Binds(u, k, v) <=> Binds(t, k, v) \/ p = [key |-> k, value |-> v]
    <2> DEFINE q == [key |-> k, value |-> v]
    <2>1. Chain(u, k) = u.house[Bucket(k, t.num)] /\ Chain(t, k) = t.house[Bucket(k, t.num)]
      BY <1>5 DEF Chain
    <2>2. q.key = k
      OBVIOUS
    <2>3. Bucket(k, t.num) \in Buckets(t.num)
      BY <1>1, BucketRange
    <2> HIDE DEF q
    <2>4. CASE Bucket(k, t.num) = a
      BY <1>5, <1>6, <2>1, <2>4 DEF Binds, c, q
    <2>5. CASE Bucket(k, t.num) # a
      <3>1. p # q
        BY <2>2, <2>5
      <3> QED
        BY <1>5, <2>1, <2>3, <2>5, <3>1 DEF Binds, q
    <2> QED
      BY <2>4, <2>5
  <1> QED
    BY <1>5, <1>8, <1>9, <1>10, <1>11 DEF Sound, u

(***************************************************************************)
(* The loop of hash_table_resize, pair by pair: the recursive function of  *)
(* the model is its run.                                                   *)
(***************************************************************************)
LEMMA RefilledSteps ==
  ASSUME NEW all \in Seq(Pair), NEW len \in Nat \ {0}
  PROVE  /\ Refilled(all, len)[0] = EmptyTable(len)
         /\ \A i \in 1..Len(all) :
              Refilled(all, len)[i] = Link(Refilled(all, len)[i - 1], all[Len(all) + 1 - i])
  <1> DEFINE n == Len(all)
             V == Tables(len)
             step == [i \in 1..n |-> [s \in V |-> Link(s, all[n + 1 - i])]]
             G(f) == [i \in 0..n |->
                        IF i = 0 THEN EmptyTable(len) ELSE Link(f[i - 1], all[n + 1 - i])]
  <1>1. n \in Nat /\ EmptyTable(len) \in V
    BY LenProperties, EmptyIsSound
  <1>2. \A i \in 1..n, s \in V : Link(s, all[n + 1 - i]) \in V
    <2> SUFFICES ASSUME NEW i \in 1..n, NEW s \in V PROVE Link(s, all[n + 1 - i]) \in V
      OBVIOUS
    <2>1. IsTable(s) /\ s.num = len
      BY DEF Tables, IsTable
    <2>2. n + 1 - i \in 1..n
      BY <1>1
    <2>3. all[n + 1 - i] \in Pair
      BY <2>2, ElementOfSeq
    <2> QED
      BY <2>1, <2>3, LinkIsTable
  <1>3. /\ step \in [1..n -> [V -> V]]
        /\ \A i \in 1..n, s \in V : step[i][s] = Link(s, all[n + 1 - i])
    BY <1>2
  <1> HIDE DEF step, V
  <1>4. PICK f \in [0..n -> V] : Iterates(f, n, EmptyTable(len), step)
    BY <1>1, <1>3, RecursiveFunction
  <1>5. ASSUME NEW i \in 1..n PROVE f[i] = Link(f[i - 1], all[n + 1 - i])
    <2>1. i - 1 \in 0..n
      BY <1>1
    <2> QED
      BY <1>3, <1>4, <2>1 DEF Iterates
  <1>6. ASSUME NEW i \in 0..n
        PROVE  f[i] = IF i = 0 THEN EmptyTable(len) ELSE Link(f[i - 1], all[n + 1 - i])
    <2>1. CASE i = 0
      BY <1>4, <2>1 DEF Iterates
    <2>2. CASE i # 0
      <3>1. i \in 1..n
        BY <1>1, <2>2
      <3> QED
        BY <1>5, <2>2, <3>1
    <2> QED
      BY <2>1, <2>2
  <1>7. f = G(f)
    BY <1>4, <1>6
  <1>8. Refilled(all, len) = G(Refilled(all, len))
    BY <1>7, Zenon DEF Refilled
  <1>9. ASSUME NEW g, g = G(g)
        PROVE  g[0] = EmptyTable(len) /\ \A i \in 1..n : g[i] = Link(g[i - 1], all[n + 1 - i])
    BY <1>1, <1>9
  <1> QED
    BY <1>8, <1>9

(***************************************************************************)
(* The new store house after i pairs: sound, of the new length, and it     *)
(* binds exactly those pairs.                                              *)
(***************************************************************************)
LEMMA RefilledSound ==
  ASSUME NEW all \in Seq(Pair), OneEach(all), NEW len \in Nat \ {0}, NEW i \in 0..Len(all)
  PROVE  /\ Sound(Refilled(all, len)[i])
         /\ Refilled(all, len)[i].num = len /\ Refilled(all, len)[i].count = i
         /\ Len(Elements(Refilled(all, len)[i])) = i
         /\ \A k \in Key : \A v :
              Binds(Refilled(all, len)[i], k, v)
                <=> \E j \in 1..i : all[Len(all) + 1 - j] = [key |-> k, value |-> v]
  <1> DEFINE n == Len(all)
             r(j) == Refilled(all, len)[j]
             Good(j) ==
               /\ Sound(r(j)) /\ r(j).num = len /\ r(j).count = j /\ Len(Elements(r(j))) = j
               /\ \A k \in Key : \A v :
                    Binds(r(j), k, v)
                      <=> \E l \in 1..j : all[n + 1 - l] = [key |-> k, value |-> v]
             S == {j \in 0..n : Good(j)}
  <1>1. n \in Nat
    BY LenProperties
  <1>2. 0 \in S
    <2>1. r(0) = EmptyTable(len) /\ 0 \in 0..n
      BY <1>1, RefilledSteps
    <2>2. 1..0 = {}
      OBVIOUS
    <2> HIDE DEF r
    <2>3. Good(0)
      BY <2>1, <2>2, EmptyIsSound
    <2> QED
      BY <2>1, <2>3
  <1>3. ASSUME NEW j \in 0..(n - 1), j \in S PROVE j + 1 \in S
    <2> DEFINE p == all[n + 1 - (j + 1)]
    <2>1. j + 1 \in 1..n /\ (j + 1) - 1 = j /\ n + 1 - (j + 1) \in 1..n /\ j + 1 \in 0..n
      BY <1>1
    <2>2. r(j + 1) = Link(r(j), p)
      BY <2>1, RefilledSteps
    <2>3. p \in Pair
      BY <2>1, ElementOfSeq
    <2>4. Good(j)
      BY <1>3
    <2> HIDE DEF r
    <2>5. p.key \in Key /\ p = [key |-> p.key, value |-> p.value]
      BY <2>3 DEF Pair
    <2>6. ~HasKey(r(j), p.key)
      <3> SUFFICES ASSUME HasKey(r(j), p.key) PROVE FALSE
        OBVIOUS
      <3>1. PICK v : Binds(r(j), p.key, v)
        BY <2>4, <2>5, KeysAreBound DEF Sound
      <3>2. PICK l \in 1..j : all[n + 1 - l] = [key |-> p.key, value |-> v]
        BY <2>4, <2>5, <3>1
      <3>3. all[n + 1 - l].key = p.key
        BY <3>2
      <3>4. n + 1 - l \in 1..n /\ n + 1 - l # n + 1 - (j + 1)
        BY <1>1
      <3> QED
        BY <2>1, <3>3, <3>4 DEF OneEach
    <2>7. /\ Sound(r(j + 1)) /\ r(j + 1).num = len /\ r(j + 1).count = j + 1
          /\ Len(Elements(r(j + 1))) = j + 1
          /\ \A k \in Key : \A v :
               Binds(r(j + 1), k, v) <=> Binds(r(j), k, v) \/ p = [key |-> k, value |-> v]
      BY <2>2, <2>3, <2>4, <2>6, LinkSound
    <2>8. ASSUME NEW q
          PROVE  (\E l \in 1..(j + 1) : all[n + 1 - l] = q)
                   <=> (\E l \in 1..j : all[n + 1 - l] = q) \/ p = q
      <3>1. 1..(j + 1) = (1..j) \cup {j + 1}
        OBVIOUS
      <3> QED
        BY <3>1
    <2>9. Good(j + 1)
      <3> HIDE DEF p
      <3> QED BY <2>4, <2>7, <2>8
    <2> QED
      BY <2>1, <2>9
  <1>4. i \in S
    <2> HIDE DEF S
    <2>1. 0..n \subseteq S
      BY <1>1, <1>2, <1>3, BoundedInduction
    <2> QED
      BY <2>1
  <1> QED
    BY <1>4

(***************************************************************************)
(* hash_table_resize keeps every binding and binds nothing else, at every  *)
(* length. A count that had drifted from the number of pairs is exact      *)
(* again afterwards.                                                       *)
(***************************************************************************)
LEMMA ResizeSound ==
  ASSUME NEW t, Sound(t), NEW len \in Nat \ {0}
  PROVE  /\ Sound(Resize(t, len))
         /\ Resize(t, len).num \in {t.num, len}
         /\ Len(Elements(Resize(t, len))) = Len(Elements(t))
         /\ \A k \in Key : \A v : Binds(Resize(t, len), k, v) <=> Binds(t, k, v)
  <1> DEFINE all == Elements(t)
             n == Len(all)
             u == Refilled(all, len)[n]
  <1>1. CASE all = <<>>
    BY <1>1 DEF Resize
  <1>2. CASE all # <<>>
    <2>1. all \in Seq(Pair) /\ n \in Nat /\ OneEach(all) /\ n \in 0..n
      BY PairsOfElements DEF Sound
    <2>2. Resize(t, len) = u
      BY <1>2 DEF Resize
    <2>3. /\ Sound(u) /\ u.num = len /\ u.count = n /\ Len(Elements(u)) = n
          /\ \A k \in Key : \A v :
               Binds(u, k, v) <=> \E j \in 1..n : all[n + 1 - j] = [key |-> k, value |-> v]
      BY <2>1, RefilledSound
    <2>4. ASSUME NEW q PROVE (\E j \in 1..n : all[n + 1 - j] = q) <=> InSeq(all, q)
      <3>1. \A j \in 1..n : n + 1 - j \in 1..n /\ n + 1 - (n + 1 - j) = j
        BY <2>1
      <3> QED
        BY <3>1 DEF InSeq
    <2>5. ASSUME NEW k \in Key, NEW v
          PROVE  InSeq(all, [key |-> k, value |-> v]) <=> Binds(t, k, v)
      <3> DEFINE q == [key |-> k, value |-> v]
      <3>1. q.key = k
        OBVIOUS
      <3> HIDE DEF q
      <3>2. Bucket(k, t.num) \in Buckets(t.num) /\ Chain(t, k) = t.house[Bucket(k, t.num)]
        BY ShapeOfTable, BucketRange DEF Sound
      <3>3. \A b \in Buckets(t.num) : InSeq(t.house[b], q) => b = Bucket(k, t.num)
        BY <3>1 DEF Sound, Housed
      <3>4. InSeq(all, q) <=> \E b \in Buckets(t.num) : InSeq(t.house[b], q)
        BY PairsOfElements DEF Sound
      <3> QED
        BY <3>2, <3>3, <3>4 DEF Binds, q
    <2> HIDE DEF u, all
    <2> QED
      BY <2>2, <2>3, <2>4, <2>5 DEF all
  <1> QED
    BY <1>1, <1>2

(***************************************************************************)
(* hash_table_add of a key that is not stored binds it and changes no      *)
(* other binding, whether or not it resizes.                               *)
(***************************************************************************)
LEMMA AddSound ==
  ASSUME NEW t, Sound(t), NEW k \in Key, NEW v \in Value, ~HasKey(t, k)
  PROVE  /\ Sound(HashAdd(t, k, v))
         /\ \A j \in Key : \A w : Binds(HashAdd(t, k, v), j, w) <=> Binds(t, j, w) \/ (j = k /\ w = v)
  <1> DEFINE p == [key |-> k, value |-> v]
             g == IF t.count \div t.num >= KeyRatio THEN Resize(t, t.num * 2) ELSE t
  <1>1. p \in Pair /\ p.key = k
    BY DEF Pair
  <1>2. t.num * 2 \in Nat \ {0}
    BY ShapeOfTable DEF Sound
  <1>3. Sound(g) /\ \A j \in Key : \A w : Binds(g, j, w) <=> Binds(t, j, w)
    BY <1>2, ResizeSound
  <1>4. HashAdd(t, k, v) = Link(g, p)
    BY DEF HashAdd
  <1> HIDE DEF g
  <1>5. ~HasKey(g, k)
    BY <1>3, KeysAreBound DEF Sound
  <1>6. /\ Sound(Link(g, p))
        /\ \A j \in Key : \A w :
             Binds(Link(g, p), j, w) <=> Binds(g, j, w) \/ p = [key |-> j, value |-> w]
    BY <1>1, <1>3, <1>5, LinkSound
  <1>7. \A j, w : p = [key |-> j, value |-> w] <=> j = k /\ w = v
    OBVIOUS
  <1> QED
    BY <1>3, <1>4, <1>6, <1>7

(***************************************************************************)
(* The position, in the old chain, of what is at position j once the pair  *)
(* at position i has been unlinked.                                        *)
(***************************************************************************)
Origin(i, j) == IF i <= 2 THEN j + i ELSE IF j < i THEN j ELSE j + 1

(***************************************************************************)
(* Unlinking leaves only pairs of the old chain, and every one of them     *)
(* except the victim and the head.                                         *)
(***************************************************************************)
LEMMA UnlinkKeeps ==
  ASSUME NEW c \in Seq(Pair), NEW i \in 1..Len(c)
  PROVE  /\ Unlink(c, i) \in Seq(Pair)
         /\ Len(Unlink(c, i)) <= Len(c) - 1
         /\ \A j \in 1..Len(Unlink(c, i)) :
              Origin(i, j) \in 1..Len(c) \ {i} /\ Unlink(c, i)[j] = c[Origin(i, j)]
         /\ \A l \in 1..Len(c) : l # i /\ (i # 2 \/ l # 1) => InSeq(Unlink(c, i), c[l])
  <1> DEFINE n == Len(c)
             tail == SubSeq(c, i + 1, n)
             front == SubSeq(c, 1, i - 1)
  <1>1. n \in Nat /\ \A l \in 1..n : c[l] \in Pair
    BY LenProperties, ElementOfSeq
  <1>2. /\ tail \in Seq(Pair) /\ Len(tail) = n - i
        /\ \A j \in 1..(n - i) : tail[j] = c[j + i]
    <2>1. \A j \in (i + 1)..n : c[j] \in Pair
      BY <1>1
    <2>2. /\ tail \in Seq(Pair) /\ Len(tail) = IF i + 1 <= n THEN n - (i + 1) + 1 ELSE 0
          /\ \A j \in 1..(n - (i + 1) + 1) : tail[j] = c[(i + 1) + j - 1]
      BY <1>1, <2>1, SubSeqProperties
    <2> HIDE DEF tail
    <2>3. Len(tail) = n - i
      BY <1>1, <2>2
    <2>4. ASSUME NEW j \in 1..(n - i) PROVE tail[j] = c[j + i]
      <3>1. j \in 1..(n - (i + 1) + 1) /\ (i + 1) + j - 1 = j + i
        BY <1>1
      <3> QED
        BY <2>2, <3>1
    <2> QED
      BY <2>2, <2>3, <2>4
  <1>3. CASE i <= 2
    <2>1. Unlink(c, i) = tail
      BY <1>3 DEF Unlink
    <2> HIDE DEF tail
    <2>2. \A j \in 1..(n - i) : Origin(i, j) = j + i /\ j + i \in 1..n \ {i}
      BY <1>1, <1>3 DEF Origin
    <2>3. ASSUME NEW l \in 1..n, l # i, i # 2 \/ l # 1 PROVE InSeq(tail, c[l])
      <3>1. l - i \in 1..(n - i) /\ (l - i) + i = l
        BY <1>1, <1>3, <2>3
      <3> QED
        BY <1>2, <3>1 DEF InSeq
    <2>4. n - i <= n - 1
      BY <1>1
    <2> QED
      BY <1>2, <2>1, <2>2, <2>3, <2>4
  <1>4. CASE i > 2
    <2>1. Unlink(c, i) = front \o tail
      <3>1. Unlink(c, i) = RemoveAt(c, i)
        BY <1>1, <1>4 DEF Unlink
      <3> QED
        BY <3>1 DEF RemoveAt
    <2>2. /\ front \in Seq(Pair) /\ Len(front) = i - 1
          /\ \A j \in 1..(i - 1) : front[j] = c[j]
      <3>1. \A j \in 1..(i - 1) : c[j] \in Pair
        BY <1>1
      <3>2. /\ front \in Seq(Pair) /\ Len(front) = IF 1 <= i - 1 THEN (i - 1) - 1 + 1 ELSE 0
            /\ \A j \in 1..((i - 1) - 1 + 1) : front[j] = c[1 + j - 1]
        BY <1>1, <3>1, SubSeqProperties
      <3> HIDE DEF front
      <3>3. Len(front) = i - 1
        BY <1>1, <1>4, <3>2
      <3>4. ASSUME NEW j \in 1..(i - 1) PROVE front[j] = c[j]
        <4>1. j \in 1..((i - 1) - 1 + 1) /\ 1 + j - 1 = j
          BY <1>1
        <4> QED
          BY <3>2, <4>1
      <3> QED
        BY <3>2, <3>3, <3>4
    <2> HIDE DEF tail, front
    <2>3. /\ front \o tail \in Seq(Pair) /\ Len(front \o tail) = n - 1
          /\ \A j \in 1..(n - 1) :
               (front \o tail)[j] = IF j <= i - 1 THEN front[j] ELSE tail[j - (i - 1)]
      <3>1. (i - 1) + (n - i) = n - 1
        BY <1>1
      <3>2. Len(front) + Len(tail) = n - 1
        BY <1>2, <2>2, <3>1
      <3>3. /\ front \o tail \in Seq(Pair) /\ Len(front \o tail) = Len(front) + Len(tail)
            /\ \A j \in 1..(Len(front) + Len(tail)) :
                 (front \o tail)[j] = IF j <= Len(front) THEN front[j] ELSE tail[j - Len(front)]
        BY <1>2, <2>2, ConcatProperties
      <3> QED
        BY <2>2, <3>2, <3>3
    <2>4. ASSUME NEW j \in 1..(n - 1)
          PROVE  /\ Origin(i, j) \in 1..n \ {i} /\ (front \o tail)[j] = c[Origin(i, j)]
                 /\ j < i => Origin(i, j) = j
                 /\ j >= i => Origin(i, j) = j + 1
      <3>1. CASE j < i
        <4>1. j \in 1..(i - 1) /\ j <= i - 1 /\ j \in 1..n \ {i} /\ Origin(i, j) = j /\ ~(j >= i)
          BY <1>1, <1>4, <3>1 DEF Origin
        <4> QED
          BY <2>2, <2>3, <4>1
      <3>2. CASE j >= i
        <4>1. /\ j - (i - 1) \in 1..(n - i) /\ (j - (i - 1)) + i = j + 1 /\ ~(j <= i - 1)
              /\ j + 1 \in 1..n \ {i} /\ Origin(i, j) = j + 1 /\ ~(j < i)
          BY <1>1, <1>4, <3>2 DEF Origin
        <4> QED
          BY <1>2, <2>3, <4>1
      <3>3. j < i \/ j >= i
        BY <1>1
      <3> QED
        BY <3>1, <3>2, <3>3
    <2>5. ASSUME NEW l \in 1..n, l # i PROVE InSeq(front \o tail, c[l])
      <3>1. CASE l < i
        <4>1. l \in 1..(n - 1)
          BY <1>1, <3>1
        <4> QED
          BY <2>3, <2>4, <3>1, <4>1 DEF InSeq
      <3>2. CASE l > i
        <4>1. l - 1 \in 1..(n - 1) /\ l - 1 >= i /\ (l - 1) + 1 = l
          BY <1>1, <3>2
        <4> QED
          BY <2>3, <2>4, <3>2, <4>1 DEF InSeq
      <3> QED
        BY <1>1, <2>5, <3>1, <3>2
    <2> QED
      BY <1>4, <2>1, <2>3, <2>4, <2>5
  <1>5. i <= 2 \/ i > 2
    BY <1>1
  <1> QED
    BY <1>3, <1>4, <1>5

(***************************************************************************)
(* A table that shrinks keeps at least one bucket. This is where the ratio *)
(* must be above one: with ratio one, a store house of length one would be *)
(* halved to nothing, and the next hash would be taken modulo zero.        *)
(***************************************************************************)
LEMMA HalfIsPositive ==
  ASSUME NEW num \in Nat \ {0}, NEW count \in Nat \ {0}, num \div count >= KeyRatio
  PROVE  num \div 2 \in Nat \ {0}
  <1>1. KeyRatio \in Nat /\ KeyRatio >= 2
    BY HashTableAssumption DEF HashTableAssumption
  <1>2. num # 1
    <2>1. ASSUME num = 1 PROVE FALSE
      <3>1. 1 \div count >= 2
        BY <1>1, <2>1
      <3>2. count = 1 \/ count > 1
        OBVIOUS
      <3> QED
        BY <3>1, <3>2
    <2> QED
      BY <2>1
  <1> QED
    BY <1>2

(***************************************************************************)
(* The resize at the start of hash_table_remove changes no binding.        *)
(***************************************************************************)
LEMMA ShrunkSound ==
  ASSUME NEW t, Sound(t), t.count # 0
  PROVE  /\ Sound(Shrunk(t))
         /\ \A k \in Key : \A v : Binds(Shrunk(t), k, v) <=> Binds(t, k, v)
  <1>1. t.num \in Nat \ {0} /\ t.count \in Nat \ {0}
    BY ShapeOfTable DEF Sound
  <1>2. CASE t.num \div t.count >= KeyRatio
    <2>1. t.num \div 2 \in Nat \ {0}
      BY <1>1, <1>2, HalfIsPositive
    <2>2. Shrunk(t) = Resize(t, t.num \div 2)
      BY <1>2 DEF Shrunk
    <2> QED
      BY <2>1, <2>2, ResizeSound
  <1>3. CASE ~(t.num \div t.count >= KeyRatio)
    BY <1>3 DEF Shrunk
  <1> QED
    BY <1>2, <1>3

(***************************************************************************)
(* The pairs of a chain whose victim has been unlinked; the only other key *)
(* that can be missing is the one at the head.                             *)
(***************************************************************************)
LEMMA UnlinkOnce ==
  ASSUME NEW c \in Seq(Pair), OneEach(c), NEW i \in 1..Len(c)
  PROVE  /\ OneEach(Unlink(c, i))
         /\ \A q : InSeq(Unlink(c, i), q) => InSeq(c, q) /\ q.key # c[i].key
         /\ \A q : InSeq(c, q) /\ ~InSeq(Unlink(c, i), q)
                   => q.key = c[i].key \/ (i = 2 /\ q.key = c[1].key)
  <1> DEFINE d == Unlink(c, i)
  <1>1. Len(c) \in Nat /\ Len(d) \in Nat
    BY UnlinkKeeps, LenProperties
  <1>2. \A j \in 1..Len(d) : Origin(i, j) \in 1..Len(c) \ {i} /\ d[j] = c[Origin(i, j)]
    BY UnlinkKeeps
  <1>3. \A l \in 1..Len(c) : l # i /\ (i # 2 \/ l # 1) => InSeq(d, c[l])
    BY UnlinkKeeps
  <1> HIDE DEF d
  <1>4. ASSUME NEW j \in 1..Len(d), NEW l \in 1..Len(d), Origin(i, j) = Origin(i, l) PROVE j = l
    BY <1>1, <1>4 DEF Origin
  <1>5. OneEach(d)
    BY <1>2, <1>4 DEF OneEach
  <1>6. ASSUME NEW q, InSeq(d, q) PROVE InSeq(c, q) /\ q.key # c[i].key
    <2>1. PICK j \in 1..Len(d) : d[j] = q
      BY <1>6 DEF InSeq
    <2>2. Origin(i, j) \in 1..Len(c) /\ Origin(i, j) # i /\ c[Origin(i, j)] = q
      BY <1>2, <2>1
    <2> QED
      BY <2>2 DEF InSeq, OneEach
  <1>7. ASSUME NEW q, InSeq(c, q), ~InSeq(d, q)
        PROVE  q.key = c[i].key \/ (i = 2 /\ q.key = c[1].key)
    <2>1. PICK l \in 1..Len(c) : c[l] = q
      BY <1>7 DEF InSeq
    <2> QED
      BY <1>3, <1>7, <2>1
  <1> QED
    BY <1>5, <1>6, <1>7 DEF d

(***************************************************************************)
(* The branch of hash_table_remove that finds its key.                     *)
(***************************************************************************)
Taken(s, k) == WithChain(s, k, Unlink(Chain(s, k), Position(s, k)), s.count - 1)

(***************************************************************************)
(* Going from s to u unbinds k, binds nothing, and unbinds at most one     *)
(* other key, which hashes to the bucket of k.                             *)
(***************************************************************************)
Removal(s, u, k) ==
  /\ \A j \in Key : \A w : Binds(u, j, w) => Binds(s, j, w) /\ j # k
  /\ \E x : \A j \in Key : \A w :
       Binds(s, j, w) /\ ~Binds(u, j, w)
         => (j = k \/ j = x) /\ Bucket(j, u.num) = Bucket(k, u.num)

(***************************************************************************)
(* A removal of k spares the head of k's chain, after the resize that      *)
(* comes first, when the pair of k is not the second of it. Then it keeps  *)
(* every other binding.                                                    *)
(***************************************************************************)
SparesHead(t, k) == HasKey(Shrunk(t), k) => Position(Shrunk(t), k) # 2

Keeps(s, u, k) == \A j \in Key : \A w : Binds(s, j, w) /\ j # k => Binds(u, j, w)

(***************************************************************************)
(* Taking out a pair that was found. The count stays high enough: it goes  *)
(* down by one, and at least one pair went.                                *)
(***************************************************************************)
LEMMA FoundIsRemoved ==
  ASSUME NEW s, Sound(s), NEW k \in Key, HasKey(s, k)
  PROVE  /\ Sound(Taken(s, k)) /\ Taken(s, k).num = s.num
         /\ Len(Elements(Taken(s, k))) <= Len(Elements(s)) - 1
         /\ Removal(s, Taken(s, k), k)
         /\ Position(s, k) # 2 => Keeps(s, Taken(s, k), k)
  <1> DEFINE u == Taken(s, k)
             a == Bucket(k, s.num)
             c == s.house[a]
             i == Position(s, k)
             d == Unlink(c, i)
  <1>1. IsTable(s) /\ Housed(s) /\ Len(Elements(s)) <= s.count
    BY DEF Sound, Covered
  <1>2. /\ a \in Buckets(s.num) /\ Chain(s, k) = c /\ c \in Seq(Pair) /\ Len(c) \in Nat
        /\ s.count \in Nat /\ s.num \in Nat \ {0}
    BY <1>1, ShapeOfTable, BucketRange, LenProperties DEF Chain
  <1>3. OneEach(c) /\ \A q : InSeq(c, q) => Bucket(q.key, s.num) = a
    BY <1>1, <1>2 DEF Housed
  <1>4. i \in 1..Len(c) /\ c[i].key = k
    BY <1>1, <1>2, FoundAt, ZenonT(30)
  <1> HIDE DEF i, c
  <1>5. d \in Seq(Pair) /\ Len(d) <= Len(c) - 1
    BY <1>2, <1>4, UnlinkKeeps
  <1>6. /\ OneEach(d)
        /\ \A q : InSeq(d, q) => InSeq(c, q) /\ q.key # k
        /\ \A q : InSeq(c, q) /\ ~InSeq(d, q) => q.key = k \/ (i = 2 /\ q.key = c[1].key)
    BY <1>2, <1>3, <1>4, UnlinkOnce
  <1> HIDE DEF d
  <1>7. Len(Elements(s)) \in Nat /\ Len(d) \in Nat
    BY <1>1, <1>5, PairsOfElements, LenProperties
  <1>8. Len(Elements(s)) >= 1
    <2>1. InSeq(c, c[i])
      BY <1>4 DEF InSeq
    <2>2. InSeq(Elements(s), c[i])
      BY <1>1, <1>2, <2>1, PairsOfElements DEF c
    <2> QED
      BY <1>7, <2>2 DEF InSeq
  <1>9. s.count - 1 \in Nat
    BY <1>1, <1>2, <1>7, <1>8
  <1>10. u = WithChain(s, k, d, s.count - 1)
    BY <1>2 DEF d, i, Taken
  <1> HIDE DEF u
  <1>11. /\ IsTable(u) /\ u.num = s.num /\ u.count = s.count - 1
         /\ u.house[a] = d
         /\ \A b \in Buckets(s.num) : b # a => u.house[b] = s.house[b]
    BY <1>1, <1>5, <1>9, <1>10, ChangedTable
  <1>12. Housed(u)
    <2>1. OneEach(d) /\ \A q : InSeq(d, q) => Bucket(q.key, s.num) = a
      BY <1>3, <1>6
    <2> QED
      BY <1>1, <1>11, <2>1 DEF Housed
  <1>13. Len(Elements(u)) = Len(Elements(s)) + Len(d) - Len(c)
    BY <1>1, <1>2, <1>11, LengthChanged DEF c
  <1>14. Len(Elements(u)) <= Len(Elements(s)) - 1
    BY <1>2, <1>5, <1>7, <1>13
  <1>15. Covered(u)
    <2>1. Len(Elements(u)) \in Nat
      BY <1>11, PairsOfElements
    <2> QED
      BY <1>1, <1>2, <1>7, <1>11, <1>14, <2>1 DEF Covered
  <1>16. ASSUME NEW j \in Key, NEW w
         PROVE  /\ Binds(u, j, w) => Binds(s, j, w) /\ j # k
                /\ Binds(s, j, w) /\ ~Binds(u, j, w)
                     => /\ j = k \/ (i = 2 /\ j = c[1].key)
                        /\ Bucket(j, u.num) = Bucket(k, u.num)
    <2> DEFINE q == [key |-> j, value |-> w]
    <2>1. q.key = j
      OBVIOUS
    <2>2. Chain(u, j) = u.house[Bucket(j, s.num)] /\ Chain(s, j) = s.house[Bucket(j, s.num)]
      BY <1>11 DEF Chain
    <2>3. Bucket(j, s.num) \in Buckets(s.num)
      BY <1>2, BucketRange
    <2> HIDE DEF q
    <2>4. CASE Bucket(j, s.num) = a
      <3>1. (Binds(u, j, w) <=> InSeq(d, q)) /\ (Binds(s, j, w) <=> InSeq(c, q))
        BY <1>11, <2>2, <2>4 DEF Binds, c, q
      <3> QED
        BY <1>6, <1>11, <2>1, <2>4, <3>1
    <2>5. CASE Bucket(j, s.num) # a
      <3>1. Binds(u, j, w) <=> Binds(s, j, w)
        BY <1>11, <2>2, <2>3, <2>5 DEF Binds
      <3> QED
        BY <2>5, <3>1
    <2> QED
      BY <2>4, <2>5
  <1>17. Removal(s, u, k)
    BY <1>16 DEF Removal
  <1>18. Position(s, k) # 2 => Keeps(s, u, k)
    BY <1>16 DEF Keeps, i
  <1> QED
    BY <1>11, <1>12, <1>14, <1>15, <1>17, <1>18 DEF Sound, u

(***************************************************************************)
(* hash_table_remove of a table whose count is not zero. It keeps the      *)
(* table sound and loses at most one key too many.                         *)
(***************************************************************************)
LEMMA RemoveSound ==
  ASSUME NEW t, Sound(t), t.count # 0, NEW k \in Key
  PROVE  /\ Sound(HashRemove(t, k))
         /\ HashRemove(t, k).num = Shrunk(t).num
         /\ Len(Elements(HashRemove(t, k))) <= Len(Elements(Shrunk(t)))
         /\ Removal(t, HashRemove(t, k), k)
         /\ SparesHead(t, k) => Keeps(t, HashRemove(t, k), k)
  <1> DEFINE s == Shrunk(t)
  <1>1. Sound(s) /\ \A j \in Key : \A w : Binds(s, j, w) <=> Binds(t, j, w)
    BY ShrunkSound
  <1>2. Len(Elements(s)) \in Nat
    BY <1>1, PairsOfElements DEF Sound
  <1>3. HashRemove(t, k) = IF HasKey(s, k) THEN Taken(s, k) ELSE s
    BY DEF HashRemove, Taken
  <1> HIDE DEF s
  <1>4. CASE ~HasKey(s, k)
    <2>1. \A w : ~Binds(s, k, w)
      BY <1>1, <1>4, KeysAreBound DEF Sound
    <2>2. Removal(t, s, k)
      BY <1>1, <2>1 DEF Removal
    <2>3. Keeps(t, s, k)
      BY <1>1 DEF Keeps
    <2> QED
      BY <1>1, <1>2, <1>3, <1>4, <2>2, <2>3 DEF s
  <1>5. CASE HasKey(s, k)
    <2> DEFINE u == Taken(s, k)
    <2>1. /\ Sound(u) /\ u.num = s.num /\ Len(Elements(u)) <= Len(Elements(s)) - 1
          /\ Removal(s, u, k) /\ (Position(s, k) # 2 => Keeps(s, u, k))
      BY <1>1, <1>5, FoundIsRemoved
    <2> HIDE DEF u
    <2>2. Len(Elements(u)) <= Len(Elements(s))
      <3>1. Len(Elements(u)) \in Nat
        BY <2>1, PairsOfElements DEF Sound
      <3> QED
        BY <1>2, <2>1, <3>1
    <2>3. Removal(t, u, k)
      BY <1>1, <2>1 DEF Removal
    <2>4. HashRemove(t, k) = u
      BY <1>3, <1>5 DEF u
    <2>5. SparesHead(t, k) => Keeps(t, u, k)
      BY <1>1, <1>5, <2>1 DEF SparesHead, Keeps, s
    <2> QED
      BY <2>1, <2>2, <2>3, <2>4, <2>5 DEF s
  <1> QED
    BY <1>4, <1>5

-------------------------------------------------------------------------------
(***************************************************************************)
(* The load that hash_table_add keeps: no more pairs than the ratio allows *)
(* for the length of the store house.                                      *)
(***************************************************************************)
Packed(t) == Len(Elements(t)) <= KeyRatio * t.num

(***************************************************************************)
(* Refilling a store house of that length, the test at the start of        *)
(* hash_table_add never asks for another resize: the resize does not nest, *)
(* and Link is all that hash_table_add does there.                         *)
(***************************************************************************)
Flat(t, len) ==
  \A i \in 0..(Len(Elements(t)) - 1) : Refilled(Elements(t), len)[i].count \div len < KeyRatio

(***************************************************************************)
(* The integer quotient in the tests of the code, as a product.            *)
(***************************************************************************)
LEMMA QuotientBelow ==
  ASSUME NEW a \in Nat, NEW b \in Nat \ {0}, NEW r \in Nat
  PROVE  a \div b < r <=> a < r * b
  <1> DEFINE q == a \div b
  <1>1. q \in Nat /\ a >= q * b /\ a < q * b + b
    OBVIOUS
  <1> HIDE DEF q
  <1>2. ASSUME q < r PROVE a < r * b
    <2>1. (q + 1) * b <= r * b
      BY <1>1, <1>2
    <2>2. (q + 1) * b = q * b + b
      BY <1>1
    <2> QED
      BY <1>1, <2>1, <2>2
  <1>3. ASSUME ~(q < r) PROVE ~(a < r * b)
    <2>1. r * b <= q * b
      BY <1>1, <1>3
    <2> QED
      BY <1>1, <2>1
  <1> QED
    BY <1>2, <1>3 DEF q

(***************************************************************************)
(* A new store house that the pairs fit in, at the ratio, is never resized *)
(* again while they are added.                                             *)
(***************************************************************************)
LEMMA FlatWhenRoomy ==
  ASSUME NEW t, Sound(t), NEW len \in Nat \ {0}, Len(Elements(t)) <= KeyRatio * len
  PROVE  Flat(t, len)
  <1> SUFFICES ASSUME NEW i \in 0..(Len(Elements(t)) - 1)
               PROVE  Refilled(Elements(t), len)[i].count \div len < KeyRatio
    BY DEF Flat
  <1>1. Elements(t) \in Seq(Pair) /\ OneEach(Elements(t)) /\ Len(Elements(t)) \in Nat
    BY PairsOfElements DEF Sound
  <1>2. i \in Nat /\ i \in 0..Len(Elements(t)) /\ i < Len(Elements(t))
    BY <1>1
  <1>3. Refilled(Elements(t), len)[i].count = i
    BY <1>1, <1>2, RefilledSound
  <1>4. KeyRatio \in Nat /\ KeyRatio * len \in Nat
    BY HashTableAssumption DEF HashTableAssumption
  <1>5. i < KeyRatio * len
    BY <1>1, <1>2, <1>4
  <1> QED
    BY <1>2, <1>3, <1>4, <1>5, QuotientBelow

(***************************************************************************)
(* Doubling a packed table does not nest.                                  *)
(***************************************************************************)
LEMMA GrowsFlat ==
  ASSUME NEW t, Sound(t), Packed(t)
  PROVE  Flat(t, t.num * 2)
  <1>1. t.num \in Nat \ {0} /\ Len(Elements(t)) \in Nat /\ KeyRatio \in Nat
    BY ShapeOfTable, PairsOfElements, HashTableAssumption DEF Sound, HashTableAssumption
  <1>2. t.num * 2 \in Nat \ {0}
    BY <1>1
  <1>3. KeyRatio * (t.num * 2) = KeyRatio * t.num + KeyRatio * t.num /\ KeyRatio * t.num \in Nat
    BY <1>1
  <1>4. Len(Elements(t)) <= KeyRatio * (t.num * 2)
    BY <1>1, <1>3 DEF Packed
  <1> QED
    BY <1>2, <1>4, FlatWhenRoomy

(***************************************************************************)
(* A table is only shrunk when its pairs fit in the smaller store house.   *)
(***************************************************************************)
LEMMA RoomyAfterShrink ==
  ASSUME NEW t, Sound(t), t.count # 0, t.num \div t.count >= KeyRatio
  PROVE  t.num \div 2 \in Nat \ {0} /\ Len(Elements(t)) <= KeyRatio * (t.num \div 2)
  <1>1. t.num \in Nat \ {0} /\ t.count \in Nat \ {0} /\ Len(Elements(t)) \in Nat
    BY ShapeOfTable, PairsOfElements DEF Sound
  <1>2. KeyRatio \in Nat /\ KeyRatio >= 2
    BY HashTableAssumption DEF HashTableAssumption
  <1>3. t.num \div 2 \in Nat \ {0}
    BY <1>1, HalfIsPositive
  <1>4. ~(t.num < KeyRatio * t.count)
    BY <1>1, <1>2, QuotientBelow
  <1> DEFINE half == t.num \div 2
             n == Len(Elements(t))
  <1>5. t.num <= half * 2 + 1
    BY <1>1
  <1> HIDE DEF half
  <1>6. n <= t.count
    BY DEF Sound, Covered
  <1>7. 2 * t.count <= KeyRatio * t.count /\ KeyRatio * t.count \in Nat
    BY <1>1, <1>2
  <1>8. 2 * half <= KeyRatio * half /\ KeyRatio * half \in Nat
    BY <1>2, <1>3 DEF half
  <1>9. 2 * n <= half * 2 + 1
    BY <1>1, <1>3, <1>4, <1>5, <1>6, <1>7 DEF half
  <1>10. n <= half
    BY <1>1, <1>3, <1>9 DEF half
  <1>11. n <= KeyRatio * half
    BY <1>1, <1>3, <1>8, <1>10 DEF half
  <1> QED
    BY <1>3, <1>11 DEF half

(***************************************************************************)
(* Halving a table does not nest.                                          *)
(***************************************************************************)
LEMMA ShrinksFlat ==
  ASSUME NEW t, Sound(t), t.count # 0, t.num \div t.count >= KeyRatio
  PROVE  Flat(t, t.num \div 2)
  BY RoomyAfterShrink, FlatWhenRoomy

(***************************************************************************)
(* hash_table_add keeps a table packed: it resizes as soon as the count    *)
(* reaches the ratio, and the count is never below the number of pairs.    *)
(***************************************************************************)
LEMMA AddKeepsPacked ==
  ASSUME NEW t, Sound(t), Packed(t), NEW k \in Key, NEW v \in Value, ~HasKey(t, k)
  PROVE  Packed(HashAdd(t, k, v))
  <1> DEFINE p == [key |-> k, value |-> v]
             g == IF t.count \div t.num >= KeyRatio THEN Resize(t, t.num * 2) ELSE t
             n == Len(Elements(t))
  <1>1. t.num \in Nat \ {0} /\ t.count \in Nat /\ n \in Nat /\ t.num * 2 \in Nat \ {0}
    BY ShapeOfTable, PairsOfElements DEF Sound
  <1>2. KeyRatio \in Nat \ {0, 1}
    BY HashTableAssumption DEF HashTableAssumption
  <1>3. /\ Sound(g) /\ Len(Elements(g)) = n
        /\ \A j \in Key : \A w : Binds(g, j, w) <=> Binds(t, j, w)
    BY <1>1, ResizeSound
  <1>4. HashAdd(t, k, v) = Link(g, p) /\ p \in Pair /\ p.key = k
    BY DEF HashAdd, Pair
  <1>5. KeyRatio * t.num \in Nat \ {0} /\ n <= KeyRatio * t.num
    BY <1>1, <1>2 DEF Packed
  <1>6. n + 1 <= KeyRatio * g.num
    <2>1. CASE ~(t.count \div t.num >= KeyRatio)
      <3>1. t.count \div t.num < KeyRatio
        BY <1>1, <1>2, <2>1
      <3>2. t.count < KeyRatio * t.num
        BY <1>1, <1>2, <3>1, QuotientBelow
      <3>3. n <= t.count
        BY DEF Sound, Covered
      <3> QED
        BY <1>1, <1>5, <2>1, <3>2, <3>3
    <2>2. CASE t.count \div t.num >= KeyRatio /\ Elements(t) = <<>>
      <3>1. g = t /\ n = 0
        BY <2>2, EmptySeq DEF Resize
      <3> QED
        BY <1>5, <3>1
    <2>3. CASE t.count \div t.num >= KeyRatio /\ Elements(t) # <<>>
      <3>1. g = Refilled(Elements(t), t.num * 2)[n]
        BY <2>3 DEF Resize
      <3>2. n \in 0..n /\ Elements(t) \in Seq(Pair) /\ OneEach(Elements(t))
        BY <1>1, PairsOfElements DEF Sound
      <3>3. g.num = t.num * 2
        BY <1>1, <3>1, <3>2, RefilledSound
      <3>4. KeyRatio * (t.num * 2) = KeyRatio * t.num + KeyRatio * t.num
        BY <1>1, <1>2
      <3> HIDE DEF g
      <3>5. n + 1 <= KeyRatio * (t.num * 2)
        BY <1>1, <1>5, <3>4
      <3> QED
        BY <3>3, <3>5
    <2> QED
      BY <2>1, <2>2, <2>3
  <1> HIDE DEF g
  <1>7. ~HasKey(g, k)
    BY <1>3, KeysAreBound DEF Sound
  <1>8. Len(Elements(Link(g, p))) = n + 1 /\ Link(g, p).num = g.num
    BY <1>3, <1>4, <1>7, LinkSound
  <1> QED
    BY <1>4, <1>6, <1>8 DEF Packed

(***************************************************************************)
(* hash_table_remove keeps a table packed.                                 *)
(***************************************************************************)
LEMMA RemoveKeepsPacked ==
  ASSUME NEW t, Sound(t), Packed(t), t.count # 0, NEW k \in Key
  PROVE  Packed(HashRemove(t, k))
  <1> DEFINE s == Shrunk(t)
             u == HashRemove(t, k)
             n == Len(Elements(t))
  <1>1. t.num \in Nat \ {0} /\ t.count \in Nat \ {0} /\ n \in Nat
    BY ShapeOfTable, PairsOfElements DEF Sound
  <1>2. Sound(s)
    BY ShrunkSound
  <1>3. Len(Elements(s)) <= KeyRatio * s.num
    <2>1. CASE ~(t.num \div t.count >= KeyRatio)
      BY <2>1 DEF Shrunk, Packed
    <2>2. CASE t.num \div t.count >= KeyRatio
      <3>1. t.num \div 2 \in Nat \ {0} /\ n <= KeyRatio * (t.num \div 2)
        BY <2>2, RoomyAfterShrink
      <3>2. s = Resize(t, t.num \div 2)
        BY <2>2 DEF Shrunk
      <3>3. Len(Elements(s)) = n /\ s.num \in {t.num, t.num \div 2}
        BY <3>1, <3>2, ResizeSound
      <3> QED
        BY <3>1, <3>3 DEF Packed
    <2> QED
      BY <2>1, <2>2
  <1>4. u.num = s.num /\ Len(Elements(u)) <= Len(Elements(s)) /\ Sound(u)
    BY RemoveSound
  <1>5. Len(Elements(u)) \in Nat /\ Len(Elements(s)) \in Nat /\ KeyRatio * s.num \in Nat
    BY <1>2, <1>4, PairsOfElements, ShapeOfTable, HashTableAssumption DEF Sound, HashTableAssumption
  <1> HIDE DEF s, u
  <1> QED
    BY <1>3, <1>4, <1>5 DEF Packed, u
=============================================================================
