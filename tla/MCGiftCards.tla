------------------------------ MODULE MCGiftCards ------------------------------
(* GiftCards for TLC: checkouts and transaction items are interchangeable.  *)
EXTENDS GiftCards, TLC

ItemSymmetry == Permutations(Checkouts) \cup Permutations(Items)
=============================================================================
