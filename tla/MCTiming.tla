-------------------------------- MODULE MCTiming --------------------------------
(***************************************************************************)
(* Instances of Timing for TLC.                                            *)
(***************************************************************************)
EXTENDS Timing, TLC

CONSTANTS k1, k2, A, B

\* The bits of k2 are all set once k1 is in the filter, not the other way round.
SharedBits == k1 :> {1, 2} @@ k2 :> {2}
=============================================================================
