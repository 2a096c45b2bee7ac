-------------------------- MODULE MCGatewaySession --------------------------
(***************************************************************************)
(* Instances of GatewaySession for TLC: a user message u, the assistant a   *)
(* that the backend samples, an assistant b that only clients write, and    *)
(* further user messages v and w.                                          *)
(***************************************************************************)
EXTENDS GatewaySession, TLC

MCMessages == {"u", "v", "w", "a", "b"}
MCAssistants == {"a", "b"}
MCReplies == {"a"}

\* A first turn, its continuation, and the continuation of a rewritten turn.
MCPrompts == {<<"u">>, <<"u", "a", "v">>, <<"u", "b", "v">>}

\* With a rewrite of the second turn.
MCLongPrompts == MCPrompts \cup {<<"u", "a", "v", "b", "w">>}

MCSymmetry == Permutations(Requests)

=============================================================================
