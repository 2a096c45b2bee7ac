------------------------------ MODULE AgentRun ------------------------------
(* One black-box agent run: Agent.run of the six adapters that launch a real
   command-line agent inside a live sandbox (uni_agent/agents/claude_code,
   codex, hermes, openclaw, deepseek_harness, mini_swe_agent), the CLI process
   they start, the sidecar that runs Hermes (run_hermes.py) and the watchdog
   beside dsh.  The adapter prepares the sandbox, runs one command through
   Sandbox.exec, and derives from its exit code, its output and its files
   whether the episode "finished": the flag that decides if it is trained on.

   The CLI is a process of the sandbox, not of the adapter: what an exec that
   times out, is lost or is cancelled does to it depends on the provider.
   Abstracted: a CLI's edits are numbered by its steps, its final report is
   the three things the adapters read off it.                              *)
EXTENDS Naturals

CONSTANTS MaxSteps,   \* bound: steps a CLI takes
          StepLimit   \* deepseek_harness's step_limit

ASSUME StepsAssumption == MaxSteps \in Nat /\ StepLimit \in Nat \ {0}

VARIABLES
  kind,      \* the agent
  provider,  \* the sandbox provider
  host,      \* where Agent.run is
  cli,       \* the CLI process
  steps,     \* steps the CLI has started
  foreign,   \* step/start lines of other sessions in /tmp/dsh-home
  touched,   \* what of the verifier's the CLI has written to
  draft,     \* the report the CLI ends with (NoReport: it has not ended)
  resultFile,      \* hermes: result.json
  said,      \* the report on stdout
  rc,        \* exit status of the CLI
  watchdog,  \* dsh's step watchdog
  secret,    \* openclaw: the config with the credentials is in place
  code,      \* exit code of the exec that ran the CLI
  heard,     \* the stdout the adapter got
  failure,   \* openclaw: what went wrong before or in the run
  tidy,      \* openclaw: the clean-up succeeded
  returned     \* what Agent.run returned

config  == <<kind, provider, foreign>>
cliVars == <<cli, steps, touched, draft, resultFile, said, rc, watchdog>>
hostVars == <<host, secret, code, heard, failure, tidy, returned>>
agentVars == <<kind, provider, foreign, cli, steps, touched, draft, resultFile, said,
               rc, watchdog, host, secret, code, heard, failure, tidy, returned>>

Kinds == {"claude_code", "codex", "hermes", "openclaw", "deepseek_harness", "mini_swe_agent"}
Providers == {"docker", "local", "e2b", "modal"}

(* A final report: how the CLI says it ended, whose run it names, and whether
   something disqualifies it (codex: an error event, openclaw: a fallback
   model was used).                                                        *)
Reports  == [status : {"solved", "cut", "broken"}, run : {"own", "blank"}, odd : BOOLEAN]
NoReport == [status |-> "none", run |-> "own", odd |-> FALSE]
NoResult == [finished |-> FALSE, error |-> "pending"]

-----------------------------------------------------------------------------
(* What the end of an exec does to the command, per provider.              *)

\* The process that exec started is the CLI itself, not a shell above it.
Direct == kind \in {"claude_code", "openclaw"}

\* docker kills its own `docker exec` client, and nothing in the container.
DockerTimeoutKills == FALSE

\* local kills the process it started; e2b and modal end the command in the
\* sandbox.
LocalTimeoutKills == Direct
E2BTimeoutKills   == TRUE
ModalTimeoutKills == TRUE

KilledByTimeout ==
  CASE provider = "docker" -> DockerTimeoutKills
    [] provider = "local"  -> LocalTimeoutKills
    [] provider = "e2b"    -> E2BTimeoutKills
    [] provider = "modal"  -> ModalTimeoutKills

\* A cancelled exec: only e2b's handler kills the command.
KilledByCancel == provider = "e2b"

\* The output of a command that timed out is lost, but for modal's streams.
OutputAfterTimeout == IF provider = "modal" THEN said ELSE NoReport

-----------------------------------------------------------------------------
(* The CLI process (external), up to what the adapters read of it.         *)

Running == cli = "running" /\ draft = NoReport

\* A step: it edits the workspace, possibly files the verifier uses.
CliStep ==
  /\ Running /\ steps < MaxSteps
  /\ steps' = steps + 1
  /\ \E t \in SUBSET {"tests", "reward"} : touched' = touched \union t
  /\ UNCHANGED <<config, cli, draft, resultFile, said, rc, watchdog, hostVars>>

\* The CLI reaches its end and composes its report (map_hermes_result for
\* Hermes: an error first, then a budget, then a completed final response).
CliEnds ==
  /\ Running
  /\ \E ending \in {"solved", "cut", "broken"}, odd \in BOOLEAN :
       /\ odd => kind \in {"codex", "openclaw"}
       /\ draft' = [status |-> ending, run |-> "own", odd |-> odd]
  /\ UNCHANGED <<config, cli, steps, touched, resultFile, said, rc, watchdog, hostVars>>

\* run() of run_hermes.py writes result.json; a failure to write becomes the
\* envelope of main(), whose run_id is empty, which it tries to write too.
SidecarWrites ==
  /\ kind = "hermes" /\ cli = "running" /\ draft # NoReport
  /\ resultFile = NoReport /\ said = NoReport /\ draft.run = "own"
  /\ \/ resultFile' = draft /\ UNCHANGED draft
     \/ /\ draft' = [status |-> "broken", run |-> "blank", odd |-> FALSE]
        /\ resultFile' \in {NoReport, draft'}
  /\ UNCHANGED <<config, cli, steps, touched, said, rc, watchdog, hostVars>>

\* The report goes to stdout (main of run_hermes.py prints it marked, after
\* the file).
CliPrints ==
  /\ cli = "running" /\ draft # NoReport /\ said = NoReport
  /\ kind = "hermes" => resultFile # NoReport \/ draft.run = "blank"
  /\ said' = draft
  /\ UNCHANGED <<config, cli, steps, touched, draft, resultFile, rc, watchdog, hostVars>>

\* The sidecar and run_agent.py exit 0 whatever they report; openclaw may; the
\* others exit 0 only when they solved their task.
CliExits ==
  /\ cli = "running" /\ said # NoReport
  /\ cli' = "exited"
  /\ rc' \in IF kind \in {"hermes", "mini_swe_agent"} THEN {"zero"}
             ELSE IF draft.status = "solved" THEN {"zero"}
             ELSE IF kind = "openclaw" THEN {"zero", "nonzero"}
             ELSE {"nonzero"}
  /\ UNCHANGED <<config, steps, touched, draft, resultFile, said, watchdog, hostVars>>

\* Killed from outside (memory) at any moment of its life.
CliDies ==
  /\ cli = "running"
  /\ cli' = "exited" /\ rc' = "nonzero"
  /\ UNCHANGED <<config, steps, touched, draft, resultFile, said, watchdog, hostVars>>

\* The watchdog (_build_step_watchdog) counts the step/start lines under
\* DSH_HOME and kills the exact PID it was given.
WatchdogFires ==
  /\ watchdog = "watching" /\ cli = "running" /\ steps + foreign >= StepLimit
  /\ cli' = "exited" /\ rc' = "nonzero" /\ watchdog' = "gone"
  /\ UNCHANGED <<config, steps, touched, draft, resultFile, said, hostVars>>

Cli == CliStep \/ CliEnds \/ SidecarWrites \/ CliPrints \/ CliExits \/ CliDies \/ WatchdogFires

-----------------------------------------------------------------------------
(* Agent.run, from its validation to the launch.                           *)

AgentInit ==
  /\ kind \in Kinds /\ provider \in Providers
  /\ foreign \in IF provider = "local" /\ kind = "deepseek_harness" THEN {0, 1} ELSE {0}
  /\ host = "idle" /\ cli = "absent" /\ steps = 0 /\ touched = {}
  /\ draft = NoReport /\ resultFile = NoReport /\ said = NoReport /\ rc = "none"
  /\ watchdog = "none" /\ secret = FALSE /\ code = "none" /\ heard = NoReport
  /\ failure = "none" /\ tidy = TRUE /\ returned = NoResult

(* Where run() of each adapter goes when it accepts the prompt and the model
   endpoint; it raises when it does not.                                    *)

\* claude_code looks for its CLI.
ClaudeStarts == IF kind = "claude_code" THEN {"probe"} ELSE {}

\* codex uploads its model catalogue, hermes its request.
CodexStarts  == IF kind = "codex" THEN {"upload"} ELSE {}
HermesStarts == IF kind = "hermes" THEN {"upload"} ELSE {}

\* openclaw makes a private directory.
OpenClawStarts == IF kind = "openclaw" THEN {"mkdir"} ELSE {}

\* dsh and mini-swe-agent carry everything in their command.
DshStarts  == IF kind = "deepseek_harness" THEN {"launch"} ELSE {}
MiniStarts == IF kind = "mini_swe_agent" THEN {"launch"} ELSE {}

Call ==
  /\ host = "idle"
  /\ host' \in {"raised"} \union ClaudeStarts \union CodexStarts \union HermesStarts
               \union OpenClawStarts \union DshStarts \union MiniStarts
  /\ UNCHANGED <<config, cliVars, secret, code, heard, failure, tidy, returned>>

\* _ensure_claude: probe, install when absent, probe again; what fails raises,
\* as the upload of codex's catalogue and of hermes' request does.
Ready ==
  /\ \/ host = "probe" /\ host' \in {"launch", "install", "raised"}
     \/ host = "install" /\ host' \in {"launch", "raised"}
     \/ host = "upload" /\ host' \in {"launch", "raised"}
  /\ UNCHANGED <<config, cliVars, secret, code, heard, failure, tidy, returned>>

\* openclaw: the private directory of the episode.
MakeRoot ==
  /\ host = "mkdir"
  /\ \/ host' = "config" /\ UNCHANGED returned
     \/ host' = "over" /\ returned' = [finished |-> FALSE, error |-> "startup_failure"]
     \/ host' = "raised" /\ UNCHANGED returned
  /\ UNCHANGED <<config, cliVars, secret, code, heard, failure, tidy>>

\* openclaw: a file is written, or the attempt is an OSError, a TimeoutError,
\* or another error, which leaves run() after the clean-up.
WriteInputs ==
  /\ host \in {"config", "prompt"}
  /\ \/ /\ host' = IF host = "config" THEN "prompt" ELSE "launch"
        /\ secret' = TRUE /\ UNCHANGED failure
     \/ /\ host' = "cleanup"
        /\ failure' \in {"startup_failure", "timeout", "raise"}
        /\ secret' \in {secret, TRUE}
  /\ UNCHANGED <<config, cliVars, code, heard, tidy, returned>>

Launch ==
  /\ host = "launch"
  /\ host' = "running" /\ cli' = "running"
  /\ watchdog' = IF kind = "deepseek_harness" THEN "watching" ELSE "none"
  /\ UNCHANGED <<config, steps, touched, draft, resultFile, said, rc, secret, code, heard,
                 failure, tidy, returned>>

-----------------------------------------------------------------------------
(* The exec returns, times out, is lost, or is cancelled.                  *)

\* Mutant: without `wait` the script ends, with status 0, as soon as it has
\* started dsh and its watchdog in the background.
ShellOverUnwaited == cli = "exited" \/ kind = "deepseek_harness"

\* The command has ended: for dsh the script waits for it, stops the watchdog
\* and exits with its status.
ShellOver == cli = "exited"

NextAfterExec == IF kind = "openclaw" THEN "cleanup" ELSE IF kind = "hermes" THEN "fetch" ELSE "judge"

ExecReturns ==
  /\ host = "running" /\ ShellOver
  /\ code' = IF cli = "exited" THEN rc ELSE "zero"
  /\ heard' = said
  /\ watchdog' = IF watchdog = "watching" THEN "gone" ELSE watchdog
  /\ host' = NextAfterExec
  /\ UNCHANGED <<config, cli, steps, touched, draft, resultFile, said, rc, secret, failure, tidy, returned>>

Stopped(killed) ==
  /\ cli' = IF killed /\ cli = "running" THEN "exited" ELSE cli
  /\ rc' = IF killed /\ cli = "running" THEN "nonzero" ELSE rc
  /\ watchdog' = IF killed /\ watchdog = "watching" THEN "gone" ELSE watchdog

\* exec() turns a timeout into exit code -1.
ExecTimesOut ==
  /\ host = "running" /\ cli = "running"
  /\ Stopped(KilledByTimeout)
  /\ code' = "timeout" /\ heard' = OutputAfterTimeout
  /\ failure' = IF kind = "openclaw" THEN "timeout" ELSE failure
  /\ host' = NextAfterExec
  /\ UNCHANGED <<config, steps, touched, draft, resultFile, said, secret, tidy, returned>>

\* The connection to a remote sandbox fails: exit code 127 while the sandbox
\* is alive, an exception when it is not.
ExecLost ==
  /\ host = "running" /\ provider \in {"e2b", "modal"}
  /\ \/ /\ Stopped(provider = "e2b")
        /\ code' = "lost" /\ host' = NextAfterExec /\ UNCHANGED failure
     \/ /\ Stopped(TRUE)
        /\ code' = "none" /\ host' = IF kind = "openclaw" THEN "cleanup" ELSE "raised"
        /\ failure' \in IF kind = "openclaw" THEN {"startup_failure", "raise"} ELSE {"raise"}
  /\ UNCHANGED <<config, steps, touched, draft, resultFile, said, secret, heard, tidy, returned>>

\* The caller gives up on run() (asyncio.wait_for): the coroutine is cancelled
\* wherever it waits.
Cancel ==
  /\ host \notin {"idle", "cleanup", "judge", "over", "raised"}
  /\ Stopped(KilledByCancel)
  /\ host' = IF kind = "openclaw" /\ host # "mkdir" THEN "cleanup" ELSE "raised"
  /\ failure' = "raise"
  /\ UNCHANGED <<config, steps, touched, draft, resultFile, said, secret, code, heard, tidy, returned>>

-----------------------------------------------------------------------------
(* From the exec to the AgentResult.                                       *)

\* openclaw: the clean-up is in a `finally`.
CleansUp == TRUE

RemoveConfig ==
  /\ host = "cleanup"
  /\ IF CleansUp
     THEN \/ secret' = FALSE /\ tidy' = TRUE
          \/ UNCHANGED secret /\ tidy' = FALSE
     ELSE UNCHANGED <<secret, tidy>>
  /\ host' = IF failure = "raise" THEN "raised" ELSE "judge"
  /\ UNCHANGED <<config, cliVars, code, heard, failure, returned>>

\* hermes: result.json unless the run timed out, else the marked line.
Fetch ==
  /\ host = "fetch"
  /\ \/ code # "timeout" /\ resultFile # NoReport /\ heard' = resultFile
     \/ UNCHANGED heard
  /\ host' = "judge"
  /\ UNCHANGED <<config, cliVars, secret, code, failure, tidy, returned>>

\* hermes: a timeout first, then a missing result, then a failed runner, then
\* validate_result, which wants this run's id.
Envelope ==
  IF code = "timeout" THEN "timeout"
  ELSE IF heard = NoReport \/ code # "zero" \/ heard.run # "own" THEN "broken"
  ELSE heard.status

\* parse_agent_result: exit status 0, no error event, a turn.completed event.
CodexOk == code = "zero" /\ heard.status = "solved" /\ ~heard.odd

\* Mutant: the envelope is believed whichever model answered.
OpenClawOkByAnyModel == code = "zero" /\ heard.status = "solved" /\ tidy

\* Exit status 0, not aborted, no fallback model, credentials removed.
OpenClawOk == code = "zero" /\ heard.status = "solved" /\ ~heard.odd /\ tidy

\* parse_agent_result of mini_swe_agent: the marked line says "Submitted".
MiniOk == heard.status = "solved"

\* claude_code and dsh go by the exit status.
ClaudeOk == code = "zero"
DshOk    == code = "zero"

Finished ==
  /\ failure = "none"
  /\ CASE kind = "hermes"           -> Envelope = "solved"
       [] kind = "codex"            -> CodexOk
       [] kind = "openclaw"         -> OpenClawOk
       [] kind = "mini_swe_agent"   -> MiniOk
       [] kind = "claude_code"      -> ClaudeOk
       [] kind = "deepseek_harness" -> DshOk

OpenClawError ==
  IF failure # "none"                                THEN failure
  ELSE IF heard # NoReport /\ heard.status = "cut"   THEN "timeout"
  ELSE IF code # "zero"                              THEN "agent_failure"
  ELSE IF heard = NoReport                           THEN "protocol_error"
  ELSE IF heard.status = "broken"                    THEN "agent_failure"
  ELSE IF heard.odd                                  THEN "trajectory_rejected"
  ELSE IF ~tidy                                      THEN "cleanup_failure"
  ELSE "none"

\* info["error_kind"]; claude_code, dsh and mini-swe-agent report none.
ErrorKind ==
  CASE kind = "openclaw"              -> OpenClawError
    [] kind \in {"codex", "hermes"}   -> IF Finished THEN "none"
                                         ELSE IF code = "timeout" THEN "timeout"
                                         ELSE "agent_failure"
    [] OTHER                          -> "untracked"

Judge ==
  /\ host = "judge"
  /\ returned' = [finished |-> Finished, error |-> ErrorKind]
  /\ host' = "over"
  /\ UNCHANGED <<config, cliVars, secret, code, heard, failure, tidy>>

Adapter == Call \/ Ready \/ MakeRoot \/ WriteInputs \/ Launch \/ ExecReturns \/ ExecTimesOut
           \/ ExecLost \/ RemoveConfig \/ Fetch \/ Judge

AgentOver == host \in {"over", "raised"}

-----------------------------------------------------------------------------
AgentTypeOK ==
  /\ kind \in Kinds /\ provider \in Providers /\ foreign \in 0..1
  /\ host \in {"idle", "probe", "install", "upload", "mkdir", "config", "prompt", "launch",
               "running", "cleanup", "fetch", "judge", "over", "raised"}
  /\ cli \in {"absent", "running", "exited"} /\ steps \in 0..MaxSteps
  /\ touched \subseteq {"tests", "reward"}
  /\ {draft, resultFile, said, heard} \subseteq Reports \union {NoReport}
  /\ rc \in {"none", "zero", "nonzero"} /\ ((cli = "exited") <=> (rc # "none"))
  /\ watchdog \in {"none", "watching", "gone"}
  /\ secret \in BOOLEAN /\ tidy \in BOOLEAN
  /\ code \in {"none", "zero", "nonzero", "timeout", "lost"}
  /\ failure \in {"none", "startup_failure", "timeout", "raise"}
  /\ returned = NoResult \/ host = "over"

(* An episode reported as finished is one whose CLI reached its own end and
   solved its task with the policy's model: it was not cut by a budget, a
   timeout or the watchdog, and its answer is of this run (hermes: run_id,
   openclaw: fallbackUsed).  Unfinished episodes are masked from the loss.  *)
FinishedMeansSolved ==
  returned.finished =>
    /\ draft.status = "solved"
    /\ kind = "openclaw" => ~draft.odd

(* An adapter that reports a kind of error reports one for every run it does
   not call finished, and none for the others (info["error_kind"]).         *)
FailureExplained ==
  host = "over" /\ kind \in {"codex", "hermes", "openclaw"} =>
    (returned.error = "none") <=> returned.finished

(* When OpenClaw's run is over, by any way, its config with the credentials is
   gone, or its removal failed and the episode is not finished.             *)
CredentialsRemoved ==
  AgentOver /\ secret => ~tidy /\ ~returned.finished

=============================================================================
