---------------------------- MODULE MCMultiPolicy ----------------------------
(* Instances of MultiPolicy for TLC: model values for the policies and the *)
(* session groups.                                                         *)
EXTENDS MultiPolicy
CONSTANTS actor, critic, g1, g2
MCPolicies == {actor, critic}
MCGroups == {g1, g2}
=============================================================================
