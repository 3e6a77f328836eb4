------------------------- MODULE MCCacheProjection --------------------------
(***************************************************************************)
(* Instances of CacheProjection for TLC.                                   *)
(***************************************************************************)
EXTENDS CacheProjection, TLC

\* Deliveries are interchangeable: no action or property names one.
WorkersAlike == Permutations(Worker)
=============================================================================
