--------------------------- MODULE MCEngineEvents ---------------------------
EXTENDS EngineEvents

CONSTANTS a, b

MCChains == {<<a>>, <<b>>, <<a, b>>}

\* Four events reach every property of the view, three every way an acquire may
\* overlap them; one is enough for a stop.
MCScenarios ==
  {[replay |-> TRUE, events |-> 4, faults |-> 1, stops |-> FALSE, prompts |-> {}],
   [replay |-> FALSE, events |-> 3, faults |-> 2, stops |-> FALSE, prompts |-> {}],
   [replay |-> TRUE, events |-> 3, faults |-> 1, stops |-> FALSE, prompts |-> {<<a, b>>}],
   [replay |-> FALSE, events |-> 3, faults |-> 1, stops |-> FALSE, prompts |-> {<<a>>, <<a, b>>}]}
    \cup [replay : BOOLEAN, events : {1}, faults : {2}, stops : {TRUE}, prompts : {{}}]
=============================================================================
