-------------------------- MODULE MCRttStatistics ---------------------------
(***************************************************************************)
(* Instances of RttStatistics for TLC.                                     *)
(***************************************************************************)
EXTENDS RttStatistics

MCRtts == {-3, 0, 1, 9}
MCTtls == {-1, 64}
=============================================================================
