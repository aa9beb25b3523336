----------------------- MODULE MCOrderBookRefinement -----------------------
(***************************************************************************)
(* Model checking the refinement: ids are interchangeable.                 *)
(***************************************************************************)
EXTENDS OrderBookRefinement

IDSymmetry == Permutations(OrderIDs)

=============================================================================
