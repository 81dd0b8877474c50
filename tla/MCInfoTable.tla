----------------------------- MODULE MCInfoTable -----------------------------
(***************************************************************************)
(* Instances of InfoTable.  The hash codes are the values the code         *)
(* computes: for a two-letter name, 0xbabe xor (p << 8) xor p on 16 bits,  *)
(* with p the two bytes read as a little-endian integer.                   *)
(***************************************************************************)
EXTENDS InfoTable

(***************************************************************************)
(* "n1" to "n3", as in src/config/carre/carre.dot.  Their low byte is the  *)
(* same (0xd0): they share a bucket at every size up to 256.               *)
(***************************************************************************)
NodeCode == [n1 |-> 58832, n2 |-> 59088, n3 |-> 59344]

TwoNodes == {"n1", "n2"}

CodeOf2 == [k \in TwoNodes |-> NodeCode[k]]

(***************************************************************************)
(* Three names of one bucket, and "A1", which joins them when the table is *)
(* down to one bucket.                                                     *)
(***************************************************************************)
Mixed == {"n1", "n2", "n3", "A1"}
MixedCode == [k \in Mixed |-> IF k = "A1" THEN 51967 ELSE NodeCode[k]]
==============================================================================
