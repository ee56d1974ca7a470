------------------------- MODULE MCSubeventBuilder -------------------------
(* TLC instances of SubeventBuilder: every fragment of up to MaxFragment   *)
(* dwords, in every order.                                                 *)
EXTENDS SubeventBuilder, FiniteSets

CONSTANTS MaxFragment

MCFragment == UNION {[1..n -> Word] : n \in 0..MaxFragment}
=============================================================================
