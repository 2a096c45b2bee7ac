----------------------------- MODULE MCTaskRuns -----------------------------
(* Instances of TaskRuns for TLC.                                          *)
EXTENDS TaskRuns, TLC

CONSTANTS a, b  \* an implementation that fails or passes some cases, and a correct one

MCRanks == (a :> {0, 1}) @@ (b :> {2})
MCPatience == [correctness |-> 2, latency |-> 1]
MCLogNames ==
  {[r \in LogRuns |-> "i1"], [r \in LogRuns |-> IF r = "l1" THEN "i1" ELSE "i2"]}

=============================================================================
