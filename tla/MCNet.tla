--------------------------------- MODULE MCNet ---------------------------------
(***************************************************************************)
(* An instance of Net whose peers are alike.                               *)
(***************************************************************************)
EXTENDS Net, TLC

AnyPeer == Permutations(Peer)
================================================================================
