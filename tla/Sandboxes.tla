------------------------------ MODULE Sandboxes ------------------------------
(***************************************************************************)
(* Where the commands of a rollout run.  sandbox/registry.py builds the    *)
(* sandbox whose provider the configuration names: one that creates and    *)
(* deletes with a call each, or agent_dx.  The shell of the toolbox drives *)
(* a tmux in it, and external applications are processes of the host.      *)
(* These parts share no state: a behaviour follows one of them.            *)
(***************************************************************************)
EXTENDS SandboxLifecycle, AgentDxSandbox, ToolShell, MasProcess

VARIABLE part  \* the part that acts

parts == <<vars, dxvars, shellvars, masvars>>

AgentDx == provider = "agent_dx"

\* What the other parts start from is of no interest: one choice of it.
SandboxInit ==
  /\ part \in {"call", "agent_dx", "shell", "process"}
  /\ Init /\ DxInit /\ ShellInit /\ MasInit
  /\ IF part = "call" THEN ~AgentDx ELSE AgentDx /\ limit = 0
  /\ part # "agent_dx" => \A c \in Commands : form[c] = "exec"
  /\ part # "process" => timed /\ exit /\ \A p \in Processes : traits[p] = {"holds_pipes"}

CallStep == part = "call" /\ Next /\ UNCHANGED <<dxvars, shellvars, masvars, part>>
AgentDxStep(step) ==
  part = "agent_dx" /\ step /\ UNCHANGED <<vars, shellvars, masvars, part>>
ShellStep == part = "shell" /\ ShellNext /\ UNCHANGED <<vars, dxvars, masvars, part>>
ProcessStep(step) ==
  part = "process" /\ step /\ UNCHANGED <<vars, dxvars, shellvars, part>>

SandboxNext == CallStep \/ AgentDxStep(DxNext) \/ ShellStep \/ ProcessStep(MasNext)

\* The event loop runs every task that can run, timers expire and SDK calls
\* return; the lock of agent_dx is handed on in the order of its waiters.
SandboxFairness ==
  /\ WF_dxvars(AgentDxStep(OwnerStep)) /\ WF_dxvars(AgentDxStep(SdkStep))
  /\ SF_dxvars(AgentDxStep(TimerStep)) /\ SF_dxvars(AgentDxStep(OwnerStops))
  /\ \A c \in Commands : SF_dxvars(AgentDxStep(CommandStep(c)))
  /\ WF_masvars(ProcessStep(Launch)) /\ WF_masvars(ProcessStep(Communicated))
  /\ WF_masvars(ProcessStep(CallSteps))

SandboxSpec ==
  SandboxInit /\ [][SandboxNext]_<<parts, part>> /\ SandboxFairness

\* The task gets out of its sandbox, whatever is cancelled, fails or expires,
\* if the SDK calls return: the lock, the settled threads and the stop() of a
\* poisoned command never wait for one another (agent_dx.py:490).
AgentDxEnds == part = "agent_dx" => <>(owner \in OwnerOver)

\* A command with a timeout is over some time after it was launched, whoever
\* holds its pipes, and leaves no configuration file (process_backend.py:83).
ProcessEnds == part = "process" /\ timed => <>(mas = "over" /\ ~configFile)

\* Starts, sandboxes and processes end as they are asked to.
PartsEnd == CancelledNeverRetries /\ AgentDxEnds /\ ProcessEnds

=============================================================================
