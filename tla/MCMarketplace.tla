---------------------------- MODULE MCMarketplace ----------------------------
(***************************************************************************)
(* Finite instances of Marketplace for TLC.                                *)
(***************************************************************************)
EXTENDS Marketplace, TLC

(* Workers differ in name only.                                            *)
WorkerSymmetry == Permutations(Worker)
=============================================================================
