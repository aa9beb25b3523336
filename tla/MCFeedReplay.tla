---------------------------- MODULE MCFeedReplay ----------------------------
(***************************************************************************)
(* Model checking FeedReplay: ids and instruments are interchangeable.     *)
(***************************************************************************)
EXTENDS FeedReplay

FeedSymmetry == Permutations(OrderIDs) \cup Permutations(Stocks)

=============================================================================
