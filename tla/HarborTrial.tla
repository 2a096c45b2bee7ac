----------------------------- MODULE HarborTrial -----------------------------
(* One Harbor trial (uni_agent/tasks/harbor): the task family that runs the
   Harbor CLI on the host instead of an agent in a sandbox.  The CLI writes
   its trial under a directory of this trial's name; run() moves it to the
   rollout's log directory when there is one, reads result.json and turns it
   into a TaskResult; whatever happens, the directory is removed at the end.
   A cancellation kills the CLI.                                           *)
EXTENDS Integers, Sequences

VARIABLES
  place,    \* where HarborTask.run is
  logged,   \* there is a log directory to keep the trial in
  harbor,   \* the CLI process
  exit,     \* its exit status
  trial,    \* what the CLI left in the trial directory (NoTrial: nothing)
  kept,     \* what is in the log directory
  outcome   \* the TaskResult

harborVars == <<place, logged, harbor, exit, trial, kept, outcome>>

\* A result.json as the CLI writes it: an exception of the trial, and the
\* reward (1: full, 0: some other number, -1: none, or not one number).
Trials  == [valid : BOOLEAN, exception : BOOLEAN, reward : {-1, 0, 1}]
NoOutcome == [completed |-> FALSE, resolved |-> FALSE]

HarborInit ==
  /\ place = "begin" /\ logged \in BOOLEAN /\ harbor = "absent" /\ exit = "none"
  /\ trial = <<>> /\ kept \in {<<>>} /\ outcome = NoOutcome

\* A log directory that already holds a trial is an error.
HarborBegin ==
  /\ place = "begin"
  /\ \/ place' = "running" /\ harbor' = "running"
     \/ place' = "raised" /\ UNCHANGED harbor       \* output exists, or no CLI
  /\ UNCHANGED <<logged, exit, trial, kept, outcome>>

\* The CLI (external) writes its result, or not, and exits.
HarborWrites ==
  /\ harbor = "running" /\ trial = <<>>
  /\ \E t \in Trials : trial' = <<t>>
  /\ UNCHANGED <<place, logged, harbor, exit, kept, outcome>>

HarborExits ==
  /\ harbor = "running"
  /\ harbor' = "exited" /\ exit' \in {"zero", "nonzero"}
  /\ UNCHANGED <<place, logged, trial, kept, outcome>>

\* communicate() has returned: the trial is moved where it is to be kept.
HarborMoves ==
  /\ place = "running" /\ harbor = "exited"
  /\ \/ /\ logged /\ trial # <<>>
        /\ \/ place' = "read" /\ kept' = trial /\ trial' = <<>>
           \/ place' = "clean" /\ UNCHANGED <<kept, trial>>    \* OSError
     \/ (~logged \/ trial = <<>>) /\ place' = "read" /\ UNCHANGED <<kept, trial>>
  /\ UNCHANGED <<logged, harbor, exit, outcome>>

\* task_result_from_harbor_trial: no error of the CLI or of the trial, and one
\* numeric reward.
Completed(t) == exit = "zero" /\ ~t.exception /\ t.reward # -1

\* result.json is read where the trial is now; a missing or invalid one raises.
HarborReads ==
  /\ place = "read"
  /\ LET found == IF kept # <<>> THEN kept ELSE trial
     IN  IF found # <<>> /\ found[1].valid
         THEN outcome' = [completed |-> Completed(found[1]),
                          resolved  |-> Completed(found[1]) /\ found[1].reward = 1]
         ELSE UNCHANGED outcome
  /\ place' = "clean"
  /\ UNCHANGED <<logged, harbor, exit, trial, kept>>

\* Mutant: the CLI of a cancelled trial goes on.
CliKilledNever == harbor

\* run_harbor_cli kills the CLI and waits for it, whatever interrupts it.
CliKilled == IF harbor = "running" THEN "exited" ELSE harbor

HarborCancel ==
  /\ place \in {"running", "read"}
  /\ harbor' = CliKilled
  /\ exit' = IF harbor' # harbor THEN "nonzero" ELSE exit
  /\ place' = "clean"
  /\ UNCHANGED <<logged, trial, kept, outcome>>

\* The `finally` of run().
HarborCleans ==
  /\ place = "clean"
  /\ trial' = <<>> /\ place' = "over"
  /\ UNCHANGED <<logged, harbor, exit, kept, outcome>>

HarborOver == place \in {"over", "raised"} /\ UNCHANGED harborVars

HarborNext == HarborBegin \/ HarborWrites \/ HarborExits \/ HarborMoves \/ HarborReads
              \/ HarborCancel \/ HarborCleans

-----------------------------------------------------------------------------
HarborTypeOK ==
  /\ place \in {"begin", "running", "read", "clean", "over", "raised"}
  /\ logged \in BOOLEAN /\ harbor \in {"absent", "running", "exited"}
  /\ exit \in {"none", "zero", "nonzero"}
  /\ trial \in {<<>>} \union {<<t>> : t \in Trials}
  /\ kept \in {<<>>} \union {<<t>> : t \in Trials} /\ (kept # <<>> => logged)
  /\ outcome \in [completed : BOOLEAN, resolved : BOOLEAN]

(* When run() is over nothing of the trial is left behind on the host: no CLI
   runs, which could write the directory again, and the directory is gone.  A
   resolved trial ended well: its CLI exited 0 without an exception.        *)
TrialLeavesNothing ==
  place = "over" =>
    /\ harbor = "exited" /\ trial = <<>>
    /\ outcome.resolved => exit = "zero"

=============================================================================
