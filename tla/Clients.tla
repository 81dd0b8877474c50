-------------------------------- MODULE Clients --------------------------------
(***************************************************************************)
(* The array of clients of a network (src/common/net.c).  A client is a    *)
(* record with a socket "sock" and an id "id"; a Client * is the number of *)
(* its slot.  Only the first nb slots are in use: what removals left after *)
(* them stays there, and a pointer may still lead to it.                   *)
(***************************************************************************)
EXTENDS Naturals, Sequences

NoClients == [slot |-> <<>>, nb |-> 0]

Used(C) == 1..C.nb

UsedSocks(C) == {C.slot[i].sock : i \in Used(C)}

(***************************************************************************)
(* add_client: the pointer it returns is the new nb.                       *)
(***************************************************************************)
AddClient(C, client) ==
  [slot |-> IF C.nb < Len(C.slot) THEN [C.slot EXCEPT ![C.nb + 1] = client]
                                  ELSE Append(C.slot, client),
   nb |-> C.nb + 1]

(***************************************************************************)
(* Seeded fault: clients are compared by id only.                          *)
(***************************************************************************)
MatchingById(C, client) == {i \in Used(C) : C.slot[i].id = client.id}

(***************************************************************************)
(* get_client_id: the slots that client__compare finds equal, by socket    *)
(* and by id.                                                              *)
(***************************************************************************)
Matching(C, client) == {i \in Used(C) : C.slot[i] = client}

(***************************************************************************)
(* Seeded fault: one client too few is moved down.                         *)
(***************************************************************************)
RemoveShort(C, client) ==
  IF Matching(C, client) = {} THEN C
  ELSE LET k == CHOOSE i \in Matching(C, client) : \A j \in Matching(C, client) : i <= j
       IN  [slot |-> [i \in DOMAIN C.slot |-> IF i \in k..(C.nb - 2) THEN C.slot[i + 1] ELSE C.slot[i]],
            nb |-> C.nb - 1]

(***************************************************************************)
(* remove_client: the clients after the one removed move down one slot.    *)
(***************************************************************************)
RemoveClient(C, client) ==
  IF Matching(C, client) = {} THEN C
  ELSE LET k == CHOOSE i \in Matching(C, client) : \A j \in Matching(C, client) : i <= j
       IN  [slot |-> [i \in DOMAIN C.slot |-> IF i \in k..(C.nb - 1) THEN C.slot[i + 1] ELSE C.slot[i]],
            nb |-> C.nb - 1]
==============================================================================
