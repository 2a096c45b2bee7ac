------------------------- MODULE MCEpisodeLifecycle -------------------------
(* Instances of EpisodeLifecycle for TLC.                                  *)
EXTENDS EpisodeLifecycle, TLC

MCSymmetry == Permutations(Episodes)

=============================================================================
