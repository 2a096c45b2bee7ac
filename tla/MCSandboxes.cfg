SPECIFICATION SandboxSpec
CONSTANTS
  Tasks = {t1, t2}
  Providers = {"docker", "vefaas", "openyuanrong", "e2b", "modal", "agent_dx"}
  Retry = 2
  Limits = {0, 1, 2}
  MaxFaults = 2
  MaxChanges = 1
  Commands = {c1, c2}
  Forms = {"exec", "shell", "file"}
  Tries = 2
  Reconciles = 2
  MaxTrouble = 3
  ShellCalls = 3
  StartTries = 2
  Helpers = {h1, h2}
  MaxCancels = 2
INVARIANTS
  LifecycleSound
  AgentDxSound
  ShellSound
  ProcessSound
PROPERTIES
  PartsEnd
