------------------------------- MODULE TaskRuns -------------------------------
(***************************************************************************)
(* The runs a task is made of: an episode of a sandboxed task family with  *)
(* a command-line agent (TaskEpisode over AgentRun), an agent that is a    *)
(* loop of the library (AgentLoop), a Harbor trial (HarborTrial), a        *)
(* session of the kernel task with the verifier and what it leaves in the  *)
(* workspace (KernelVerify), the evaluator NPUs that the verifiers of all  *)
(* sessions of a host share (NpuLease), and the logs they write            *)
(* (RunLogging).  They have no state in common but the clean-up of         *)
(* verifiers, whose effect KernelVerify takes over from NpuLease: a        *)
(* behaviour follows one of them.                                          *)
(***************************************************************************)
EXTENDS NpuLease, KernelVerify, TaskEpisode, HarborTrial, AgentLoop,
        RunLogging

VARIABLE part  \* the part that acts

episodevars == <<agentVars, taskVars>>
allvars == <<leasevars, kvars, episodevars, harborVars, loopVars, logvars, part>>

\* The parts that do not act stay in one of their initial states.
TasksInit ==
  /\ part \in {"lease", "verify", "episode", "trial", "loop", "log"}
  /\ LeaseInit /\ KInit /\ TaskInit /\ HarborInit /\ LoopInit /\ LogInit
  /\ part # "episode" => /\ kind = "claude_code" /\ provider = "docker"
                         /\ family = "swe_bench" /\ ~oracle
  /\ part # "trial" => ~logged
  /\ part # "loop" => loop = "react"
  /\ part # "log" => rootLevel = MountLevel /\ \A r, s \in LogRuns : logId[r] = logId[s]

LeaseStep   == part = "lease" /\ LeaseNext
               /\ UNCHANGED <<kvars, episodevars, harborVars, loopVars, logvars, part>>
VerifyStep  == part = "verify" /\ KNext
               /\ UNCHANGED <<leasevars, episodevars, harborVars, loopVars, logvars, part>>
EpisodeStep == part = "episode" /\ (TaskStep \/ TaskOver)
               /\ UNCHANGED <<leasevars, kvars, harborVars, loopVars, logvars, part>>
TrialStep   == part = "trial" /\ (HarborNext \/ HarborOver)
               /\ UNCHANGED <<leasevars, kvars, episodevars, loopVars, logvars, part>>
LoopStep    == part = "loop" /\ (LoopNext \/ LoopOver)
               /\ UNCHANGED <<leasevars, kvars, episodevars, harborVars, logvars, part>>
LogStep     == part = "log" /\ (LogNext \/ LogsOver)
               /\ UNCHANGED <<leasevars, kvars, episodevars, harborVars, loopVars, part>>

TasksSpec == TasksInit
             /\ [][\/ LeaseStep \/ VerifyStep \/ EpisodeStep
                   \/ TrialStep \/ LoopStep \/ LogStep]_allvars

-----------------------------------------------------------------------------
\* The type invariant, of the part that acts: the others do not change.
TasksTypeOK ==
  CASE part = "lease"   -> LeaseTypeOK
    [] part = "verify"  -> KTypeOK
    [] part = "episode" -> EpisodeTypeOK
    [] part = "trial"   -> HarborTypeOK
    [] part = "loop"    -> LoopTypeOK
    [] part = "log"     -> LogTypeOK

(* When a run is over nothing of it is left on its host: no verifier of an
   ended session (NpuLease), no credentials of OpenClaw (AgentRun), no Harbor
   CLI and no trial directory (HarborTrial).                                *)
NothingLeft == CleanupComplete /\ CredentialsRemoved /\ TrialLeavesNothing

(* An agent says "finished" only of an episode that its policy, or the CLI it
   ran, brought to an end of its own, and gives an error for any other.     *)
HonestEnd == FinishedMeansSolved /\ FailureExplained /\ FinishedByPolicy

(* What is graded is the agent's own work: made without the upstream history,
   and tested as the agent left it.                                         *)
AgentsOwnWork == SolutionHidden /\ GradedAsLeft

(* A resolved instance was resolved by the tests that this episode ran.     *)
RewardEarned == RewardOfVerifier /\ ResolvedMeansTested

(* The score of a kernel session is that of the best implementation whose
   verification bore it out, and an early stop had its patience used up.    *)
ScoreSound == ScoredAsVerified /\ BestScored /\ PrefixHoldsBest /\ StopJustified

(* No turn is lost: a conversation answers each of its tool calls before it
   goes on, and mem_agent's contexts hold every turn once.                  *)
TurnsKept == CallsAnswered /\ SegmentsOnce

(* What the runs logged is in their files and the root logger is the host's
   again; and every part keeps its types.                                   *)
LogsKept == TasksTypeOK /\ LogsSound

=============================================================================
