--------------------------- MODULE InfoTableProofs ---------------------------
(***************************************************************************)
(* The information table, for every set of names, every hash code, every   *)
(* initial size and every ratio above one. What a table promises, step by  *)
(* step, is in HashTableProofs; here it is related to the map that the     *)
(* callers believe they keep.                                              *)
(***************************************************************************)
EXTENDS InfoTable, HashTableProofs, FiniteSetTheorems

(***************************************************************************)
(* Every binding of the table is one the callers believe in.               *)
(***************************************************************************)
Current == \A k \in Key : \A v : Binds(T, k, v) => k \in DOMAIN wanted /\ v = wanted[k]

(***************************************************************************)
(* The inductive invariant. That keys are stored once and where they hash  *)
(* to, and that the count is not too low, is part of Sound: each is what   *)
(* keeps the others when the table is resized.                             *)
(***************************************************************************)
Inv ==
  /\ Sound(T)
  /\ DOMAIN wanted \subseteq Key
  /\ \A k \in DOMAIN wanted : wanted[k] \in Value
  /\ crashed \in BOOLEAN
  /\ Current

(***************************************************************************)
(* An empty table binds nothing.                                           *)
(***************************************************************************)
LEMMA InvInit == Init => Inv
  <1> SUFFICES ASSUME Init PROVE Inv
    OBVIOUS
  <1>1. KeyNum \in Nat \ {0}
    BY HashTableAssumption DEF HashTableAssumption
  <1>2. Sound(T) /\ \A k \in Key : \A v : ~Binds(T, k, v)
    BY <1>1, EmptyIsSound DEF Init
  <1>3. DOMAIN wanted = {} /\ crashed = FALSE
    BY DEF Init
  <1> QED
    BY <1>2, <1>3 DEF Inv, Current

(***************************************************************************)
(* table__add_info keeps the invariant and loses no binding.               *)
(***************************************************************************)
LEMMA InvAdd ==
  ASSUME Inv, NEW k \in Key, NEW v \in Value, AddInfo(k, v)
  PROVE  /\ Inv'
         /\ \A j \in Key : \A w : Binds(T, j, w) => Binds(T', j, w)
         /\ DOMAIN wanted \subseteq DOMAIN wanted'
  <1>1. /\ k \notin DOMAIN wanted
        /\ wanted' = [j \in DOMAIN wanted \cup {k} |-> IF j = k THEN v ELSE wanted[j]]
        /\ T' = IF HasKey(T, k) THEN T ELSE HashAdd(T, k, v)
        /\ crashed' = crashed
    BY DEF AddInfo
  <1>2. ~HasKey(T, k)
    BY <1>1, KeysAreBound DEF Inv, Current, Sound
  <1>3. T' = HashAdd(T, k, v)
    BY <1>1, <1>2
  <1>4. /\ Sound(HashAdd(T, k, v))
        /\ \A j \in Key : \A w : Binds(HashAdd(T, k, v), j, w) <=> Binds(T, j, w) \/ (j = k /\ w = v)
    BY <1>2, AddSound DEF Inv
  <1>5. Sound(T') /\ \A j \in Key : \A w : Binds(T', j, w) <=> Binds(T, j, w) \/ (j = k /\ w = v)
    BY <1>3, <1>4
  <1>6. /\ DOMAIN wanted' = DOMAIN wanted \cup {k} /\ wanted'[k] = v
        /\ \A j \in DOMAIN wanted : wanted'[j] = wanted[j]
    BY <1>1
  <1>7. Current'
    BY <1>5, <1>6 DEF Inv, Current
  <1>8. DOMAIN wanted' \subseteq Key /\ \A j \in DOMAIN wanted' : wanted'[j] \in Value
    BY <1>6 DEF Inv
  <1> QED
    BY <1>1, <1>5, <1>6, <1>7, <1>8 DEF Inv

(***************************************************************************)
(* table__delete_info keeps the invariant; what it unbinds is the name     *)
(* asked for and at most one other. A table whose count is zero stores     *)
(* nothing, so a division by zero changes no binding.                      *)
(***************************************************************************)
LEMMA InvDelete ==
  ASSUME Inv, NEW k \in Key, DeleteInfo(k)
  PROVE  /\ Inv'
         /\ DOMAIN wanted \ DOMAIN wanted' = {k}
         /\ Removal(T, T', k)
  <1>1. k \in DOMAIN wanted /\ wanted' = [j \in DOMAIN wanted \ {k} |-> wanted[j]]
    BY DEF DeleteInfo
  <1>2. /\ DOMAIN wanted' = DOMAIN wanted \ {k}
        /\ \A j \in DOMAIN wanted' : wanted'[j] = wanted[j]
    BY <1>1
  <1>3. DOMAIN wanted' \subseteq Key /\ \A j \in DOMAIN wanted' : wanted'[j] \in Value
    BY <1>2 DEF Inv
  <1>4. DOMAIN wanted \ DOMAIN wanted' = {k}
    BY <1>1, <1>2
  <1>5. CASE RemoveDivides(T)
    <2>1. T' = HashRemove(T, k) /\ crashed' = crashed /\ T.count # 0
      BY <1>5 DEF DeleteInfo, RemoveDivides
    <2>2. Sound(HashRemove(T, k)) /\ Removal(T, HashRemove(T, k), k)
      BY <2>1, RemoveSound DEF Inv
    <2>3. Sound(T') /\ Removal(T, T', k)
      BY <2>1, <2>2
    <2>4. Current'
      BY <1>2, <2>3 DEF Inv, Current, Removal
    <2> QED
      BY <1>3, <1>4, <2>1, <2>3, <2>4 DEF Inv
  <1>6. CASE ~RemoveDivides(T)
    <2>1. T' = T /\ crashed' = TRUE /\ T.count = 0
      BY <1>6 DEF DeleteInfo, RemoveDivides
    <2>2. \A j \in Key : \A w : ~Binds(T, j, w)
      <3>1. Len(Elements(T)) = 0
        BY <2>1, PairsOfElements DEF Inv, Sound, Covered
      <3>2. \A p : ~InSeq(Elements(T), p)
        BY <3>1 DEF InSeq
      <3>3. \A b \in Buckets(T.num) : \A p : ~InSeq(T.house[b], p)
        BY <3>2, PairsOfElements DEF Inv, Sound
      <3>4. \A j \in Key : Bucket(j, T.num) \in Buckets(T.num)
        BY DEF Buckets
      <3> QED
        BY <3>3, <3>4 DEF Binds, Chain
    <2>3. Current'
      BY <2>1, <2>2 DEF Current
    <2>4. Removal(T, T', k)
      BY <2>1, <2>2 DEF Removal
    <2> QED
      BY <1>3, <1>4, <2>1, <2>3, <2>4 DEF Inv
  <1> QED
    BY <1>5, <1>6

(***************************************************************************)
(* Every step keeps the invariant.                                         *)
(***************************************************************************)
LEMMA InvStep == Inv /\ [Next]_vars => Inv'
  <1> SUFFICES ASSUME Inv, [Next]_vars PROVE Inv'
    OBVIOUS
  <1>1. CASE UNCHANGED vars
    BY <1>1 DEF vars, Inv, Current
  <1> QED
    BY <1>1, InvAdd, InvDelete DEF Next

(***************************************************************************)
(* The invariant holds at all times.                                       *)
(***************************************************************************)
LEMMA Invariance == Spec => []Inv
  BY InvInit, InvStep, PTL DEF Spec

(***************************************************************************)
(* The shape of hash_table_t and of its store house, through any number of *)
(* resizes.                                                                *)
(***************************************************************************)
THEOREM TypeCorrect == Spec => []TypeOK
  <1>1. Inv => TypeOK
    BY ShapeOfTable DEF Inv, Sound, TypeOK
  <1> QED
    BY <1>1, Invariance, PTL

(***************************************************************************)
(* table__get_info never returns what was stored for an earlier holder of  *)
(* a name, nor anything for a name that was deleted.                       *)
(***************************************************************************)
THEOREM LookupsAreCurrent == Spec => []StoredIsCurrent
  <1>1. Inv => StoredIsCurrent
    <2> SUFFICES ASSUME Inv, NEW k \in Key, HasKey(T, k)
                 PROVE  k \in DOMAIN wanted /\ Lookup(T, k) = wanted[k]
      BY DEF StoredIsCurrent, Stored
    <2>1. Binds(T, k, Lookup(T, k))
      BY KeysAreBound DEF Inv, Sound
    <2> QED
      BY <2>1 DEF Inv, Current
  <1> QED
    BY <1>1, Invariance, PTL

(***************************************************************************)
(* The array that hash_table_get_elements allocates from key_count is      *)
(* never too short for the pairs it then writes into it.                   *)
(***************************************************************************)
THEOREM CountIsEnough == Spec => []CountCoversElements
  <1>1. Inv => CountCoversElements
    BY DEF Inv, Sound, Covered, CountCoversElements
  <1> QED
    BY <1>1, Invariance, PTL

(***************************************************************************)
(* Every pair is where its key hashes to, and no key is stored twice.      *)
(***************************************************************************)
THEOREM StaysWellHoused == Spec => []WellHoused
  <1>1. Inv => WellHoused
    <2> SUFFICES ASSUME Inv PROVE WellHoused
      OBVIOUS
    <2>1. IsTable(T) /\ Housed(T) /\ DOMAIN T.house = Buckets(T.num)
      BY ShapeOfTable DEF Inv, Sound
    <2>2. /\ OneEach(Elements(T)) /\ DOMAIN Elements(T) = 1..Len(Elements(T))
      BY <2>1, PairsOfElements, LenProperties
    <2>3. ASSUME NEW b \in Buckets(T.num), NEW i \in DOMAIN T.house[b]
          PROVE  Bucket(T.house[b][i].key, T.num) = b
      <3>1. i \in 1..Len(T.house[b])
        BY <2>1, ShapeOfTable, LenProperties
      <3> QED
        BY <2>1, <3>1 DEF Housed, InSeq
    <2> QED
      BY <2>1, <2>2, <2>3 DEF WellHoused, OneEach
  <1> QED
    BY <1>1, Invariance, PTL

(***************************************************************************)
(* A key is stored exactly when it is bound.                               *)
(***************************************************************************)
LEMMA StoredKeys ==
  ASSUME NEW t, Sound(t)
  PROVE  \A k : k \in Stored(t) <=> k \in Key /\ \E v : Binds(t, k, v)
  BY KeysAreBound DEF Stored, Sound

(***************************************************************************)
(* A deletion costs at most one name besides the one asked for, and only   *)
(* one of the same bucket; an addition costs none.                         *)
(***************************************************************************)
THEOREM LossesAreBounded == Spec => BoundedLoss
  <1> DEFINE lost == Stored(T) \ Stored(T')
             gone == DOMAIN wanted \ DOMAIN wanted'
             Bounded == /\ gone = {} => lost = {}
                        /\ Cardinality(lost \ gone) <= 1
                        /\ \A k \in lost, j \in gone : Bucket(k, T'.num) = Bucket(j, T'.num)
  <1>1. ASSUME Inv, [Next]_vars PROVE [Bounded]_vars
    <2>0. Sound(T) /\ Sound(T')
      BY <1>1, InvStep DEF Inv
    <2>1. \A k : k \in lost <=> k \in Key /\ (\E v : Binds(T, k, v)) /\ ~(\E v : Binds(T', k, v))
      BY <2>0, StoredKeys
    <2> HIDE DEF lost, gone
    <2>2. ASSUME lost = {} PROVE Bounded
      <3>1. lost \ gone = {} /\ Cardinality({}) = 0
        BY <2>2, FS_EmptySet
      <3> QED
        BY <2>2, <3>1
    <2>3. ASSUME NEW k \in Key, NEW v \in Value, AddInfo(k, v) PROVE Bounded
      BY <1>1, <2>1, <2>2, <2>3, InvAdd
    <2>4. ASSUME NEW k \in Key, DeleteInfo(k) PROVE Bounded
      <3>1. gone = {k}
        BY <1>1, <2>4, InvDelete DEF gone
      <3>2. PICK x : \A j \in Key : \A w : Binds(T, j, w) /\ ~Binds(T', j, w)
                     => (j = k \/ j = x) /\ Bucket(j, T'.num) = Bucket(k, T'.num)
        BY <1>1, <2>4, InvDelete DEF Removal
      <3>3. \A j \in lost : (j = k \/ j = x) /\ Bucket(j, T'.num) = Bucket(k, T'.num)
        BY <2>1, <3>2
      <3>4. lost \ gone \subseteq {x}
        BY <3>1, <3>3
      <3>5. Cardinality(lost \ gone) <= 1
        <4>1. IsFiniteSet({x}) /\ Cardinality({x}) = 1
          BY FS_Singleton
        <4>2. Cardinality(lost \ gone) <= Cardinality({x})
          BY <3>4, <4>1, FS_Subset
        <4> QED
          BY <4>1, <4>2
      <3> QED
        BY <3>1, <3>3, <3>5
    <2> QED
      BY <1>1, <2>3, <2>4 DEF Next
  <1> QED
    BY <1>1, Invariance, PTL DEF Spec, BoundedLoss

(***************************************************************************)
(* Whenever the test of hash_table_add or of hash_table_remove asks for a  *)
(* resize, the additions that refill the new store house ask for none.     *)
(***************************************************************************)
NoNestedResize ==
  /\ T.count \div T.num >= KeyRatio => Flat(T, T.num * 2)
  /\ T.count # 0 /\ T.num \div T.count >= KeyRatio => Flat(T, T.num \div 2)

(***************************************************************************)
(* The load stays within the ratio: an addition resizes in time and a      *)
(* removal only shrinks a table that is sparse.                            *)
(***************************************************************************)
LEMMA StaysPacked == Spec => [](Inv /\ Packed(T))
  <1>1. Init => Packed(T)
    <2> SUFFICES ASSUME Init PROVE Packed(T)
      OBVIOUS
    <2>1. KeyNum \in Nat \ {0} /\ KeyRatio \in Nat /\ KeyRatio * KeyNum \in Nat
      BY HashTableAssumption DEF HashTableAssumption
    <2>2. T.num = KeyNum /\ Len(Elements(T)) = 0
      BY <2>1, EmptyIsSound DEF Init
    <2> QED
      BY <2>1, <2>2 DEF Packed
  <1>2. Inv /\ Packed(T) /\ [Next]_vars => Packed(T)'
    <2> SUFFICES ASSUME Inv, Packed(T), [Next]_vars PROVE Packed(T')
      OBVIOUS
    <2>1. ASSUME NEW k \in Key, NEW v \in Value, AddInfo(k, v) PROVE Packed(T')
      BY <2>1, AddKeepsPacked DEF AddInfo, Inv
    <2>2. ASSUME NEW k \in Key, DeleteInfo(k) PROVE Packed(T')
      BY <2>2, RemoveKeepsPacked DEF DeleteInfo, RemoveDivides, Inv
    <2>3. CASE UNCHANGED vars
      BY <2>3 DEF vars
    <2> QED
      BY <2>1, <2>2, <2>3 DEF Next
  <1> QED
    BY <1>1, <1>2, InvInit, InvStep, PTL DEF Spec

(***************************************************************************)
(* hash_table_resize calls hash_table_add, whose own test could call       *)
(* hash_table_resize again, on a table half rebuilt. It never does, so the *)
(* model is right to let a resize only link the pairs.                     *)
(***************************************************************************)
THEOREM ResizesNeverNest == Spec => []NoNestedResize
  <1>1. Inv /\ Packed(T) => NoNestedResize
    BY GrowsFlat, ShrinksFlat DEF Inv, NoNestedResize
  <1> QED
    BY <1>1, StaysPacked, PTL

-------------------------------------------------------------------------------

(***************************************************************************)
(* No deletion unlinks the second pair of a chain.                         *)
(***************************************************************************)
HeadsAreSpared == [][\A k \in Key : DeleteInfo(k) => SparesHead(T, k)]_vars

(***************************************************************************)
(* The table binds what the map maps, and nothing else.                    *)
(***************************************************************************)
Mirrors(t, w) ==
  /\ Sound(t)
  /\ w = [k \in DOMAIN w |-> w[k]]
  /\ \A k \in DOMAIN w : k \in Key
  /\ \A k \in Key : \A v : Binds(t, k, v) <=> k \in DOMAIN w /\ v = w[k]

(***************************************************************************)
(* Nothing that the callers believe in has been lost.                      *)
(***************************************************************************)
Complete == Inv /\ Mirrors(T, wanted) /\ ~crashed

(***************************************************************************)
(* Then a lookup of every key gives the map back.                          *)
(***************************************************************************)
LEMMA ContentsMirrored ==
  ASSUME NEW t, NEW w, Mirrors(t, w)
  PROVE  Contents(t) = w
  <1>1. \A k : k \in Stored(t) <=> k \in Key /\ \E v : Binds(t, k, v)
    BY StoredKeys DEF Mirrors
  <1>2. Stored(t) = DOMAIN w
    BY <1>1 DEF Mirrors
  <1>3. \A k \in Stored(t) : Lookup(t, k) = w[k]
    BY <1>1, KeysAreBound DEF Mirrors, Sound
  <1>4. w = [k \in DOMAIN w |-> w[k]]
    BY DEF Mirrors
  <1> QED
    BY <1>2, <1>3, <1>4 DEF Contents

(***************************************************************************)
(* The table of table__init.                                               *)
(***************************************************************************)
LEMMA CompleteInit == Init => Complete
  <1> SUFFICES ASSUME Init PROVE Complete
    OBVIOUS
  <1>1. Inv
    BY InvInit
  <1>2. wanted = [k \in DOMAIN wanted |-> wanted[k]] /\ DOMAIN wanted = {} /\ crashed = FALSE
    BY DEF Init
  <1>3. \A k \in Key : \A v : ~Binds(T, k, v)
    BY <1>1, <1>2 DEF Inv, Current
  <1> QED
    BY <1>1, <1>2, <1>3 DEF Complete, Mirrors, Inv

(***************************************************************************)
(* table__add_info does what InfoMap says of it.                           *)
(***************************************************************************)
LEMMA CompleteAdd ==
  ASSUME Complete, NEW k \in Key, NEW v \in Value, AddInfo(k, v)
  PROVE  Complete' /\ Map!AddInfo(k, v)
  <1>1. /\ k \notin DOMAIN wanted /\ crashed' = crashed
        /\ wanted' = [j \in DOMAIN wanted \cup {k} |-> IF j = k THEN v ELSE wanted[j]]
        /\ T' = IF HasKey(T, k) THEN T ELSE HashAdd(T, k, v)
    BY DEF AddInfo
  <1>2. Inv' /\ \A j \in Key : \A w : Binds(T, j, w) => Binds(T', j, w)
    BY InvAdd DEF Complete
  <1>3. Binds(T', k, v)
    <2>1. ~HasKey(T, k)
      BY <1>1, KeysAreBound DEF Complete, Inv, Current, Sound
    <2>2. T' = HashAdd(T, k, v)
      BY <1>1, <2>1
    <2>3. \A j \in Key : \A w :
            Binds(HashAdd(T, k, v), j, w) <=> Binds(T, j, w) \/ (j = k /\ w = v)
      BY <2>1, AddSound DEF Complete, Inv
    <2> QED
      BY <2>2, <2>3
  <1>4. DOMAIN wanted' = DOMAIN wanted \cup {k} /\ DOMAIN wanted \subseteq Key
    BY <1>1 DEF Complete, Inv
  <1>5. \A j \in DOMAIN wanted' : Binds(T', j, wanted'[j])
    BY <1>1, <1>2, <1>3, <1>4 DEF Complete, Mirrors
  <1>6. wanted' = [j \in DOMAIN wanted' |-> wanted'[j]]
    BY <1>1
  <1>7. Mirrors(T', wanted')
    BY <1>2, <1>5, <1>6 DEF Inv, Current, Mirrors
  <1>8. Contents(T) = wanted /\ Contents(T') = wanted'
    BY <1>7, ContentsMirrored DEF Complete
  <1> QED
    BY <1>1, <1>2, <1>7, <1>8 DEF Complete, Map!AddInfo

(***************************************************************************)
(* table__delete_info does too, when it spares the head of the chain; its  *)
(* division is safe, because the name it is asked for is stored and        *)
(* counted.                                                                *)
(***************************************************************************)
LEMMA CompleteDelete ==
  ASSUME Complete, NEW k \in Key, DeleteInfo(k), SparesHead(T, k)
  PROVE  Complete' /\ Map!DeleteInfo(k)
  <1>1. k \in DOMAIN wanted /\ wanted' = [j \in DOMAIN wanted \ {k} |-> wanted[j]]
    BY DEF DeleteInfo
  <1>2. Inv'
    BY InvDelete DEF Complete
  <1>3. RemoveDivides(T)
    <2>1. PICK v : Binds(T, k, v)
      BY <1>1 DEF Complete, Mirrors
    <2> QED
      BY <2>1, StoredIsCounted DEF Complete, Inv, RemoveDivides
  <1>4. T' = HashRemove(T, k) /\ crashed' = crashed /\ T.count # 0
    BY <1>3 DEF DeleteInfo, RemoveDivides
  <1>5. \A j \in Key : \A w : Binds(T, j, w) /\ j # k => Binds(T', j, w)
    BY <1>4, RemoveSound DEF Complete, Inv, Keeps
  <1>6. DOMAIN wanted' = DOMAIN wanted \ {k} /\ DOMAIN wanted \subseteq Key
    BY <1>1 DEF Complete, Inv
  <1>7. \A j \in DOMAIN wanted' : Binds(T', j, wanted'[j])
    BY <1>1, <1>5, <1>6 DEF Complete, Mirrors
  <1>8. wanted' = [j \in DOMAIN wanted' |-> wanted'[j]]
    BY <1>1
  <1>9. Mirrors(T', wanted')
    BY <1>2, <1>7, <1>8 DEF Inv, Current, Mirrors
  <1>10. Contents(T) = wanted /\ Contents(T') = wanted'
    BY <1>9, ContentsMirrored DEF Complete
  <1> QED
    BY <1>1, <1>2, <1>4, <1>9, <1>10 DEF Complete, Map!DeleteInfo

(***************************************************************************)
(* Unlinking the second pair of a chain is the only way in which the table *)
(* fails to be the map of InfoMap: in every behaviour where no deletion    *)
(* does that, the table implements the map, and the controller does not    *)
(* divide by zero in it. ImplementsMap alone does not hold (the run        *)
(* InfoTable_lost).                                                        *)
(***************************************************************************)
THEOREM ImplementsMapWhenSpared == Spec /\ HeadsAreSpared => ImplementsMap /\ []~crashed
  <1> DEFINE Spares == \A k \in Key : DeleteInfo(k) => SparesHead(T, k)
  <1>1. Init => Map!Init
    <2>1. Complete => Contents(T) = wanted
      BY ContentsMirrored DEF Complete
    <2> QED
      BY <2>1, CompleteInit DEF Init, Map!Init
  <1>2. Complete /\ [Next]_vars /\ [Spares]_vars => Complete' /\ [Map!Next]_(Contents(T))
    <2> SUFFICES ASSUME Complete, [Next]_vars, [Spares]_vars
                 PROVE  Complete' /\ [Map!Next]_(Contents(T))
      OBVIOUS
    <2>1. CASE UNCHANGED vars
      <3>1. T' = T /\ wanted' = wanted /\ crashed' = crashed
        BY <2>1 DEF vars
      <3>2. Complete'
        BY <3>1 DEF Complete, Inv, Current
      <3>3. Contents(T)' = Contents(T)
        BY <3>1
      <3> QED
        BY <3>2, <3>3
    <2>2. ASSUME NEW k \in Key, NEW v \in Value, AddInfo(k, v)
          PROVE  Complete' /\ [Map!Next]_(Contents(T))
      BY <2>2, CompleteAdd DEF Map!Next
    <2>3. ASSUME NEW k \in Key, DeleteInfo(k), Spares
          PROVE  Complete' /\ [Map!Next]_(Contents(T))
      <3>1. SparesHead(T, k)
        BY <2>3
      <3> QED
        BY <2>3, <3>1, CompleteDelete DEF Map!Next
    <2> QED
      BY <2>1, <2>2, <2>3 DEF Next
  <1>3. Complete => ~crashed
    BY DEF Complete
  <1> QED
    BY <1>1, <1>2, <1>3, CompleteInit, PTL DEF Spec, HeadsAreSpared, ImplementsMap, Map!Spec
=============================================================================
