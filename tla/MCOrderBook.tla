---------------------------- MODULE MCOrderBook ----------------------------
(***************************************************************************)
(* Model checking OrderBook: ids are interchangeable.                      *)
(***************************************************************************)
EXTENDS TopOfBook

IDSymmetry == Permutations(OrderIDs)

=============================================================================
