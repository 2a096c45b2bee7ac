---------------------------- MODULE MCSandboxes ----------------------------
(* Instances of Sandboxes for TLC.                                         *)
EXTENDS Sandboxes, TLC

\* Only where no liveness is checked.
MCSymmetry == Permutations(Tasks) \cup Permutations(Commands)

=============================================================================
