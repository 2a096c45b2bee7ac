--------------------------- MODULE MCTreeSession ---------------------------
(* Instances of TreeSession for TLC: a user message u, the assistant a that  *)
(* the backend samples, an assistant b that only clients write, and a       *)
(* further user messages v and w.                                          *)
EXTENDS TreeSession, TLC

MCMessages == {"u", "v", "w", "a", "b"}
MCAssistants == {"a", "b"}
MCReplies == {"a"}
MCScopes == {[tools |-> "none", agent |-> "main"]}

\* A first turn, its continuation, the continuation of a rewritten turn, a
\* rewrite of the second turn, and a rewrite of the first that never fits.
MCPrompts ==
  {<<"u">>, <<"u", "a", "v">>, <<"u", "b", "v">>, <<"u", "a", "v", "b", "w">>,
   <<"u", "b", "v", "v", "w", "w">>}

MCSymmetry == Permutations(Requests)

=============================================================================
