----------------------------- MODULE TaskEpisode -----------------------------
(* One episode of a task family: Task.run (uni_agent/tasks/swe_bench,
   swe_rebench, swe_bench_pro, swe_bench_multilingual, r2e_gym and
   terminal_bench) called by run_task.  A sandbox is started and prepared, the
   agent or the gold patch changes the workspace, and the same sandbox then
   runs the tests whose outcome is the reward.  AgentRun is the agent's part;
   its CLI is a process of that sandbox, so what the task does after the agent
   and what a CLI left behind still does interleave.
   Abstracted: the workspace is the number of steps that changed it; the tests
   pass or fail as they like, on it.                                         *)
EXTENDS AgentRun

VARIABLES
  family,   \* the task family
  oracle,   \* run_oracle_solution
  phase,     \* where Task.run is
  history,  \* the repository in the sandbox: "full" holds the future commits
  finished, \* the episode's `finished`, from the agent or the gold patch
  left,     \* the workspace when the agent phase ended
  tests,    \* the tests in place for the evaluation
  log,      \* how far the evaluation's output goes
  tested,   \* the workspace the tests ran on
  passes,   \* what the tests that ran say
  reward,   \* who wrote the reward in /logs/verifier
  evalCode, \* exit code of the evaluation
  graded     \* the TaskResult

taskVars == <<family, oracle, phase, history, finished, left, tests, log, tested, passes,
              reward, evalCode, graded>>
taskConfig == <<family, oracle>>

Families == {"swe_bench", "swe_rebench", "swe_bench_pro", "swe_bench_multilingual", "r2e_gym",
             "terminal_bench"}
NoTree  == MaxSteps + 1      \* no workspace
NoScore == [resolved |-> FALSE, finished |-> FALSE]

\* Families whose preparation must succeed; swe_bench prepares nothing and
\* swe_bench_multilingual does not look at the outcome.
Checked == {"swe_rebench", "swe_bench_pro", "r2e_gym", "terminal_bench"}

TaskInit ==
  /\ AgentInit
  /\ family \in Families /\ oracle \in BOOLEAN
  /\ oracle => kind = "claude_code"
  /\ phase = "start" /\ history = "full" /\ finished = FALSE /\ left = NoTree
  /\ tests = "absent" /\ log = "none" /\ tested = NoTree /\ passes = FALSE
  /\ reward = "none" /\ evalCode = "none" /\ graded = NoScore

-----------------------------------------------------------------------------
(* Before the agent.                                                       *)

\* build_terminal_bench_sandbox_config refuses the other providers.
Accepted == family = "terminal_bench" => provider \in {"docker", "modal"}

\* The sandbox starts, or the episode fails.
Start ==
  /\ phase = "start"
  /\ phase' \in IF Accepted
               THEN {IF family = "swe_bench" THEN "solve" ELSE "prepare", "failed"}
               ELSE {"failed"}
  /\ UNCHANGED <<taskConfig, history, finished, left, tests, log, tested, passes, reward,
                 evalCode, graded, agentVars>>

\* A preparation that fails raises, where the family checks it.
GoesOn(ok) == ok \/ family \notin Checked

(* What a preparing command that succeeds (ok), or not, does to the history. *)

\* _GIT_CLEAN_HISTORY of swe_rebench and _GIT_PREPARE_SCRIPT of swe_bench_pro
\* run under `set -e` and end by testing that the history is gone.
CleanRebench(ok, pruned) == ok => pruned
PreparePro(ok, pruned)   == ok => pruned

\* Each command of multilingual's is `|| true`.
CleanMultilingual(ok, pruned) == TRUE

\* _SETUP_SCRIPT moves the tests out of the way; terminal_bench makes its log
\* directories.
PrepareR2E(ok, pruned) == ~pruned
PrepareTerminal(ok, pruned) == ~pruned

Prepares(ok, pruned) ==
  CASE family = "swe_rebench"            -> CleanRebench(ok, pruned)
    [] family = "swe_bench_pro"          -> PreparePro(ok, pruned)
    [] family = "swe_bench_multilingual" -> CleanMultilingual(ok, pruned)
    [] family = "r2e_gym"                -> PrepareR2E(ok, pruned)
    [] OTHER                             -> PrepareTerminal(ok, pruned)

Prepare ==
  /\ phase = "prepare"
  /\ \E ok \in BOOLEAN, pruned \in BOOLEAN :
       /\ Prepares(ok, pruned)
       /\ history' = IF pruned THEN "pruned" ELSE history
       /\ phase' = IF GoesOn(ok) THEN "solve" ELSE "failed"
  /\ UNCHANGED <<taskConfig, finished, left, tests, log, tested, passes, reward, evalCode,
                 graded, agentVars>>

\* Oracle mode: the gold patch, whose failure swe_bench and swe_rebench do not
\* notice, instead of the agent.
GoldPatch(ok) == IF ok \/ family \in {"swe_bench", "swe_rebench"} THEN {"grade"} ELSE {"failed"}

\* terminal_bench runs a solution script, after installing it.
GoldScript(ok) == IF ok THEN {"grade"} ELSE {"grade", "failed"}

Gold ==
  /\ phase = "solve" /\ oracle
  /\ \E ok \in BOOLEAN :
       /\ phase' \in IF family = "terminal_bench" THEN GoldScript(ok) ELSE GoldPatch(ok)
       /\ finished' = (family = "terminal_bench" => ok)
  /\ left' = steps
  /\ UNCHANGED <<taskConfig, history, tests, log, tested, passes, reward, evalCode,
                 graded, agentVars>>

\* The files of the evaluation that the agent may write to.
Exposed == IF family = "terminal_bench" THEN {"reward"} ELSE {"tests"}

\* The agent phase: Agent.run and the CLI.
AgentPhase ==
  /\ phase = "solve" /\ ~oracle
  /\ Adapter \/ Cli
  /\ touched' \subseteq Exposed
  /\ reward' = IF "reward" \in touched' \ touched THEN "agent" ELSE reward
  /\ UNCHANGED <<taskConfig, phase, history, finished, left, tests, log, tested, passes,
                 evalCode, graded>>

\* terminal_bench: asyncio.wait_for(agent.run(...), agent_timeout).
AgentExpires ==
  /\ phase = "solve" /\ ~oracle /\ family = "terminal_bench"
  /\ Cancel
  /\ UNCHANGED <<taskConfig, phase, history, finished, left, tests, log, tested, passes, reward,
                 evalCode, graded>>

\* Agent.run is over: an exception ends the episode, but for terminal_bench,
\* which scores the resulting filesystem even when the agent fails.
AgentReturns ==
  /\ phase = "solve" /\ ~oracle /\ AgentOver
  /\ phase' = IF host = "over" \/ family = "terminal_bench" THEN "grade" ELSE "failed"
  /\ left' = steps /\ finished' = (host = "over" /\ returned.finished)
  /\ UNCHANGED <<taskConfig, history, tests, log, tested, passes, reward, evalCode, graded,
                 agentVars>>

\* A CLI that was left behind goes on while the sandbox lives; what it prints
\* reaches nobody.
LeftBehind ==
  /\ phase \in {"grade", "patch", "test", "read"} /\ cli = "running"
  /\ CliStep \/ CliDies
  /\ touched' \subseteq Exposed
  /\ reward' = IF "reward" \in touched' \ touched THEN "agent" ELSE reward
  /\ UNCHANGED <<taskConfig, phase, history, finished, left, tests, log, tested, passes,
                 evalCode, graded>>

-----------------------------------------------------------------------------
(* compute_reward.                                                         *)

\* Step 1 of terminal_bench: verifier-owned output is cleared.
Reset == IF family = "terminal_bench" THEN "none" ELSE reward

\* The evaluation is put into the sandbox; a failure raises.
Upload ==
  /\ phase = "grade"
  /\ \/ phase' = "patch" /\ reward' = Reset
     \/ phase' = "failed" /\ UNCHANGED reward
  /\ UNCHANGED <<taskConfig, history, finished, left, tests, log, tested, passes, evalCode,
                 graded, agentVars>>

\* swe_bench_pro's script exits when the test patch does not apply.
Patched(applied) == applied \/ family # "swe_bench_pro"

\* The official tests come in as a patch, which test files of the agent's own
\* can keep from applying (the files the patch modifies are reset first).
ByPatch(applied) == ~applied => "tests" \in touched

\* r2e_gym runs the tests that _SETUP_SCRIPT put aside; terminal_bench extracts
\* an archive into an emptied directory.
PutAside(applied)  == applied <=> "tests" \notin touched
ByArchive(applied) == applied

Apply ==
  /\ phase = "patch" /\ evalCode = "none"
  /\ \E applied \in BOOLEAN :
       /\ CASE family = "r2e_gym"        -> PutAside(applied)
            [] family = "terminal_bench" -> ByArchive(applied)
            [] OTHER                     -> ByPatch(applied)
       /\ tests' = IF applied THEN "official" ELSE "agents"
       /\ IF Patched(applied) THEN phase' = "test" /\ UNCHANGED evalCode
          ELSE phase' = "read" /\ evalCode' = "nonzero"
  /\ UNCHANGED <<taskConfig, history, finished, left, log, tested, passes, reward, graded, agentVars>>

\* The tests run over the workspace as it is; their output begins and, unless
\* the run is cut, ends (END_TEST_OUTPUT, pytest's summary, the parser's
\* output.json, the verifier's reward file).
RunTests ==
  /\ phase = "test" /\ log = "none"
  /\ tested' = steps /\ log' = "begun"
  /\ passes' \in BOOLEAN
  /\ UNCHANGED <<taskConfig, phase, history, finished, left, tests, reward, evalCode, graded, agentVars>>

EndTests ==
  /\ phase = "test" /\ log = "begun"
  /\ log' = "ended" /\ phase' = "read"
  /\ evalCode' \in {"zero", "nonzero"}
  /\ reward' \in IF family = "terminal_bench" THEN {"verifier", reward} ELSE {reward}
  /\ UNCHANGED <<taskConfig, history, finished, left, tests, tested, passes, graded, agentVars>>

\* What a timed out evaluation leaves to read: its output, which only modal
\* gives in part; for swe_bench_pro a file, which the script still writes where
\* it outlives its exec.
Remains == IF family = "swe_bench_pro"
           THEN IF log = "begun" /\ provider \in {"docker", "local"} THEN {"none", "ended"}
                ELSE {"none"}
           ELSE {IF provider = "modal" THEN log ELSE "none"}

EvalTimesOut ==
  /\ phase \in {"patch", "test"}
  /\ phase' = "read" /\ evalCode' = "timeout"
  /\ log' \in Remains
  /\ UNCHANGED <<taskConfig, history, finished, left, tests, tested, passes, reward, graded, agentVars>>

(* The reports.                                                            *)

\* Mutant: a report is made of the output as far as it goes.
MarkedOnceBegun == log # "none" /\ passes

\* _get_logs_eval of swe_bench and swe_rebench wants both markers around the
\* tests' output.
Marked == log = "ended" /\ passes

\* _grade of multilingual parses what there is: the required tests passed if
\* they all are in it, whether or not the output ends.
Parsed == IF log = "begun" THEN {passes, FALSE} ELSE {log = "ended" /\ passes}

\* The file that the official parser of swe_bench_pro writes at the end.
ParserFile == log = "ended" /\ passes

\* r2e_gym: pytest's short summary equals the expected one.
Summary == log = "ended" /\ passes

\* terminal_bench: a verifier that timed out is incomplete, else the reward
\* file says it.
Verdict == evalCode # "timeout" /\ reward # "none" /\ (reward = "verifier" => passes)

Grades ==
  CASE family \in {"swe_bench", "swe_rebench"} -> {Marked}
    [] family = "swe_bench_multilingual"       -> Parsed
    [] family = "swe_bench_pro"                -> {ParserFile}
    [] family = "r2e_gym"                      -> {Summary}
    [] OTHER                                   -> {Verdict}

\* Scoring raises when swe_rebench does not know the instance's log parser.
Score ==
  /\ phase = "read"
  /\ \/ /\ \E resolved \in Grades :
            graded' = [resolved |-> resolved, finished |-> finished]
        /\ phase' = "over"
     \/ family = "swe_rebench" /\ phase' = "failed" /\ UNCHANGED graded
  /\ UNCHANGED <<taskConfig, history, finished, left, tests, log, tested, passes, reward,
                 evalCode, agentVars>>

Grading == Upload \/ Apply \/ RunTests \/ EndTests \/ EvalTimesOut \/ Score

\* The sandbox is stopped and its processes with it.
TaskOver == phase \in {"over", "failed"} /\ UNCHANGED <<agentVars, taskVars>>

TaskStep == Start \/ Prepare \/ Gold \/ AgentPhase \/ AgentExpires \/ AgentReturns \/ LeftBehind
            \/ Grading

-----------------------------------------------------------------------------
EpisodeTypeOK ==
  /\ AgentTypeOK
  /\ family \in Families /\ oracle \in BOOLEAN
  /\ phase \in {"start", "prepare", "solve", "grade", "patch", "test", "read", "over", "failed"}
  /\ history \in {"full", "pruned"} /\ finished \in BOOLEAN
  /\ left \in 0..NoTree /\ tested \in 0..NoTree
  /\ tests \in {"absent", "official", "agents"} /\ log \in {"none", "begun", "ended"}
  /\ passes \in BOOLEAN /\ reward \in {"none", "agent", "verifier"}
  /\ evalCode \in {"none", "zero", "nonzero", "timeout"}
  /\ graded \in [resolved : BOOLEAN, finished : BOOLEAN]

(* The command that ran the CLI came back by itself: not timed out, lost or
   cancelled, after any of which the CLI may still be running.             *)
Ordinary == code \in {"zero", "nonzero"}

(* The tests run on the workspace as the agent left it when the command that
   ran it came back by itself (the adapters wait for the CLI, dsh's script for
   dsh).                                                                    *)
GradedAsLeft == tested # NoTree /\ Ordinary => tested = left

(* The reward of a terminal_bench episode was written by the verifier this
   episode ran, not by the agent before it.                                 *)
RewardOfVerifier ==
  family = "terminal_bench" /\ graded.resolved /\ Ordinary => reward = "verifier" /\ passes

(* A resolved instance is one whose tests ran and passed, to the end of their
   output but for multilingual's; swe_bench_pro resolves only by the official
   tests.                                                                   *)
ResolvedMeansTested ==
  graded.resolved /\ family # "terminal_bench" =>
    /\ passes /\ (log = "ended" \/ (family = "swe_bench_multilingual" /\ log = "begun"))
    /\ family = "swe_bench_pro" => tests = "official"

(* When the agent starts, the history after the base commit is gone, in the
   families that check their clean-up.                                      *)
SolutionHidden ==
  host # "idle" /\ family \in {"swe_rebench", "swe_bench_pro"} => history = "pruned"

=============================================================================
