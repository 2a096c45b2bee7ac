------------------------- MODULE MCRouterAccounting -------------------------
(* Instances of RouterAccounting for TLC: a prompt of one full block, and    *)
(* the prompt of the next turn, which has a second one.                     *)
EXTENDS RouterAccounting, TLC

MCBlocks == {"h1", "h2"}
MCPrompts == {[chain |-> <<"h1">>, len |-> 3], [chain |-> <<"h1", "h2">>, len |-> 4]}

MCSymmetry ==
  Permutations(Servers) \cup Permutations(Sessions) \cup Permutations(Calls)

=============================================================================
