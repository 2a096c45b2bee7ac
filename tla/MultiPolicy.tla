----------------------------- MODULE MultiPolicy -----------------------------
(***************************************************************************)
(* The two halves of examples/multi_policy that keep state of their own:   *)
(* the trainer, with the batches and checkpoints of all policies, and the  *)
(* manager of the session groups its rollouts run in.  They meet only in   *)
(* the outcome of a rollout, which the trainer's half takes as it comes,   *)
(* so a behaviour follows one of them.                                     *)
(***************************************************************************)
EXTENDS PolicyTraining, SessionGroups

VARIABLE half  \* "trainer" or "groups"

MultiPolicyInit == half \in {"trainer", "groups"} /\ Init /\ GroupInit

TrainerStep == half = "trainer" /\ Next /\ UNCHANGED <<groupvars, half>>
GroupStep == half = "groups" /\ GroupNext /\ UNCHANGED <<vars, half>>

MultiPolicyNext == TrainerStep \/ GroupStep

MultiPolicySpec == MultiPolicyInit /\ [][MultiPolicyNext]_<<vars, groupvars, half>>

=============================================================================
