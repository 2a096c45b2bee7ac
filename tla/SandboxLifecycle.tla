-------------------------- MODULE SandboxLifecycle --------------------------
(***************************************************************************)
(* sandbox/base.py: a task enters its sandbox (start() with retries, under *)
(* a shared startup slot and a timeout), works inside it, and stops it.    *)
(* The providers that create and delete an environment with one remote     *)
(* call each are told apart by what start() and stop() remember of it when *)
(* a call fails or is cancelled; sandbox/agent_dx.py has a module of its   *)
(* own.  A remote call goes on when its caller is gone if it runs in a     *)
(* thread or a subprocess.                                                 *)
(***************************************************************************)
EXTENDS Integers, FiniteSets, Sequences, SequencesExt

CONSTANTS
  Tasks,      \* tasks, each with a sandbox object of its own
  Providers,  \* the providers that may be configured
  Retry,      \* start() attempts of __aenter__
  Limits,     \* values SANDBOX_STARTUP_CONCURRENCY may take; none when <= 0
  MaxFaults,  \* bound: failed calls, timeouts, cancellations and changes of the limit
  MaxChanges  \* bound: changes of the limit among them

ASSUME TasksAssumption == IsFiniteSet(Tasks)
ASSUME RetryAssumption == Retry \in Nat \ {0}
ASSUME LimitsAssumption == Limits \subseteq Int /\ Limits # {}
ASSUME BoundsAssumption == MaxFaults \in Nat /\ MaxChanges \in Nat
ASSUME ProvidersAssumption ==
  Providers \subseteq
    {"docker", "vefaas", "openyuanrong", "e2b", "modal", "agent_dx"}

VARIABLES
  provider,  \* SandboxConfig.provider
  limit,     \* SANDBOX_STARTUP_CONCURRENCY
  sems,      \* the semaphores built so far; the last is the registered one
  changes,   \* changes of the limit so far
  pc,        \* where the task is in __aenter__ / entered()
  attempt,   \* attempt of the loop in __aenter__, 0 before it
  slot,      \* the semaphore whose slot the task waits for or holds, 0 for none
  why,       \* what unwinds __aenter__: none, error, cancelled
  stopping,  \* where stop() is: no, closing, killing
  handle,    \* _container_name, _sandbox_id or _sandbox: an attempt, 0 for None
  runtime,   \* VefaasSandbox._runtime is set
  aim,       \* the environment that stop() deletes
  env,       \* the environment of each attempt, as the provider sees it
  kill,      \* the deletion of each environment: none, sent, ok, failed
  waived,    \* history: what was interrupted, with its attempt
  faults     \* faults so far

config == <<provider, limit, sems, changes>>
task   == <<pc, attempt, slot, why, stopping>>
object == <<handle, runtime, aim>>
remote == <<env, kill>>
vars   == <<config, task, object, remote, waived, faults>>

Attempts == 1..Retry
Starting == {"preparing", "creating", "compensating", "setting"}
Over == {"done", "raised", "cancelled"}

Init ==
  /\ provider \in Providers
  /\ limit \in Limits
  /\ sems = <<>>
  /\ changes = 0
  /\ pc = [t \in Tasks |-> "idle"]
  /\ attempt = [t \in Tasks |-> 1]
  /\ slot = [t \in Tasks |-> 0]
  /\ why = [t \in Tasks |-> "none"]
  /\ stopping = [t \in Tasks |-> "no"]
  /\ handle = [t \in Tasks |-> 0]
  /\ runtime = [t \in Tasks |-> FALSE]
  /\ aim = [t \in Tasks |-> 0]
  /\ env = [t \in Tasks |-> [a \in Attempts |-> "none"]]
  /\ kill = [t \in Tasks |-> [a \in Attempts |-> "none"]]
  /\ waived = [t \in Tasks |-> {}]
  /\ faults = 0

Go(t, where) == pc' = [pc EXCEPT ![t] = where]
Fault == faults + changes < MaxFaults /\ faults' = faults + 1

-----------------------------------------------------------------------------
(* What the providers do differently.                                      *)

\* docker pulls its images, e2b builds a template and modal looks up its app
\* and builds the mounted images before the environment is created.
DockerPrepares == provider = "docker"
E2BPrepares == provider = "e2b"
ModalPrepares == provider = "modal"
Prepares == DockerPrepares \/ E2BPrepares \/ ModalPrepares

\* start() returns at once if the object says that it is started already.
VefaasStarted(t) == provider = "vefaas" /\ runtime[t]
Started(t) == VefaasStarted(t) \/ (provider # "vefaas" /\ handle[t] # 0)

\* stop() forgets the environment before it deletes it.
DockerForgets == provider = "docker"
E2BForgets == provider = "e2b"
ForgetsFirst == DockerForgets \/ E2BForgets

\* vefaas forgets it only once it is deleted; openyuanrong also when the
\* deletion raises; modal however the deletion ends.
VefaasKeeps(how) == provider = "vefaas" /\ how \in {"failed", "cancelled"}
YuanrongKeeps(how) == provider = "openyuanrong" /\ how = "cancelled"

Keeps(how) == VefaasKeeps(how) \/ YuanrongKeeps(how)

\* docker ignores the exit code of rm, openyuanrong and e2b log the error.
StopReraises == provider \in {"vefaas", "modal"}

\* A remote call outlives its caller in a thread or a subprocess; a coroutine
\* of e2b or modal is cancelled with the request perhaps on its way.
Outlives == provider \in {"docker", "vefaas", "openyuanrong"}

-----------------------------------------------------------------------------
(* The startup slots.                                                      *)

ChangeLimit(l) ==
  /\ l # limit /\ changes < MaxChanges /\ faults + changes < MaxFaults
  /\ limit' = l /\ changes' = changes + 1
  /\ UNCHANGED <<provider, sems, task, object, remote, waived, faults>>

Holders(g) == {t \in Tasks : slot[t] = g /\ pc[t] \in Starting}

\* The registered semaphore, built on first use and when the limit changes.
Registered ==
  IF limit <= 0 \/ (sems # <<>> /\ Last(sems) = limit) THEN sems
  ELSE Append(sems, limit)

AskSlot(t) ==
  /\ pc[t] = "idle"
  /\ sems' = Registered
  /\ slot' = [slot EXCEPT ![t] = IF limit <= 0 THEN 0 ELSE Len(sems')]
  /\ Go(t, "queued")
  /\ UNCHANGED <<provider, limit, changes, attempt, why, stopping, object,
                 remote, waived, faults>>

\* start() begins in the slot; it calls the provider unless it has an object.
BeginStart(t) ==
  /\ pc[t] = "queued"
  /\ slot[t] # 0 => Cardinality(Holders(slot[t])) < sems[slot[t]]
  /\ IF Started(t) THEN Go(t, "inside") /\ slot' = [slot EXCEPT ![t] = 0]
                        /\ UNCHANGED env
     ELSE /\ UNCHANGED slot
          /\ IF Prepares THEN Go(t, "preparing") /\ UNCHANGED env
             ELSE /\ Go(t, "creating")
                  /\ env' = [env EXCEPT ![t][attempt[t]] = "asked"]
  /\ UNCHANGED <<config, attempt, why, stopping, object, kill, waived, faults>>

\* start() ends: the slot is given back before stop() and the backoff.
LeaveStart(t, where, cause) ==
  /\ Go(t, where)
  /\ slot' = [slot EXCEPT ![t] = 0]
  /\ why' = [why EXCEPT ![t] = cause]

-----------------------------------------------------------------------------
(* start() of the providers.                                               *)

Create(t) ==
  /\ pc[t] = "preparing"
  /\ Go(t, "creating")
  /\ env' = [env EXCEPT ![t][attempt[t]] = "asked"]
  /\ UNCHANGED <<config, attempt, slot, why, stopping, object, kill, waived,
                 faults>>

\* The provider creates the environment, or refuses.
Created(t, a) ==
  /\ env[t][a] = "asked"
  /\ \/ env' = [env EXCEPT ![t][a] = "bare"] /\ UNCHANGED faults
     \/ env' = [env EXCEPT ![t][a] = "gone"] /\ Fault
  /\ UNCHANGED <<config, task, object, kill, waived>>

\* The object remembers the environment once the call has returned.
CreateReturns(t) ==
  /\ pc[t] = "creating" /\ env[t][attempt[t]] = "bare"
  /\ handle' = [handle EXCEPT ![t] = attempt[t]]
  /\ Go(t, "setting")
  /\ UNCHANGED <<config, attempt, slot, why, stopping, runtime, aim, remote,
                 waived, faults>>

CreateRaises(t) ==
  /\ pc[t] = "creating" /\ env[t][attempt[t]] = "gone"
  /\ LeaveStart(t, "cleanup", "error")
  /\ UNCHANGED <<config, attempt, stopping, object, remote, waived, faults>>

\* vefaas: wait_until_alive has succeeded; tmux is installed next.
RuntimeAlive(t) ==
  /\ provider = "vefaas" /\ pc[t] = "setting" /\ ~runtime[t]
  /\ runtime' = [runtime EXCEPT ![t] = TRUE]
  /\ UNCHANGED <<config, task, handle, aim, remote, waived, faults>>

\* Mounts, executable paths and tools are in place: the body may begin.
SetupReturns(t) ==
  /\ pc[t] = "setting" /\ (provider = "vefaas" => runtime[t])
  /\ env' = [env EXCEPT ![t][attempt[t]] = "ready"]
  /\ LeaveStart(t, "inside", "none")
  /\ UNCHANGED <<config, attempt, stopping, object, kill, waived, faults>>

\* A pull, a template, a readiness probe or an executable path fails.
StartFails(t) ==
  /\ pc[t] \in {"preparing", "setting"}
  /\ Fault
  /\ LeaveStart(t, "cleanup", "error")
  /\ UNCHANGED <<config, attempt, stopping, object, remote, waived>>

\* start() is cancelled at an await.  What it was creating is not remembered;
\* a request of e2b and modal may have been dropped.
InterruptStart(t, cause) ==
  /\ LeaveStart(t, "cleanup", cause)
  /\ IF pc[t] \notin {"creating", "compensating"} THEN UNCHANGED <<env, waived>>
     ELSE /\ waived' = [waived EXCEPT ![t] = @ \cup {<<"create", attempt[t]>>}]
          /\ \/ UNCHANGED env
             \/ /\ ~Outlives /\ env[t][attempt[t]] = "asked"
                /\ env' = [env EXCEPT ![t][attempt[t]] = "gone"]
  /\ UNCHANGED <<config, attempt, stopping, object, kill>>

\* SANDBOX_STARTUP_TIMEOUT.
StartupTimeout(t) ==
  pc[t] \in Starting /\ Fault /\ InterruptStart(t, "error")

CancelEnter(t) ==
  pc[t] \in Starting \cup {"queued"} /\ Fault /\ InterruptStart(t, "cancelled")

\* docker: `docker run` exceeded start_timeout; its client is killed, and a
\* container that it may have created is removed by name.
DockerStartTimeout(t) ==
  /\ provider = "docker" /\ pc[t] = "creating"
  /\ Fault
  /\ \E made \in {"bare", "gone"} : env' = [env EXCEPT ![t][attempt[t]] = made]
  /\ kill' = [kill EXCEPT ![t][attempt[t]] = "sent"]
  /\ Go(t, "compensating")
  /\ UNCHANGED <<config, attempt, slot, why, stopping, object, waived>>

Compensated(t) ==
  /\ pc[t] = "compensating" /\ kill[t][attempt[t]] \in {"ok", "failed"}
  /\ LeaveStart(t, "cleanup", "error")
  /\ UNCHANGED <<config, attempt, stopping, object, remote, waived, faults>>

-----------------------------------------------------------------------------
(* stop(), as the cleanup of a failed start or at the end of entered().    *)

\* What follows a stop() that has ended.
AfterStop(t, exit) ==
  IF pc[t] = "exiting" THEN exit
  ELSE IF why[t] = "cancelled" THEN "cancelled"
  ELSE IF attempt[t] < Retry THEN "backoff" ELSE "raised"

StopOver(t, exit) ==
  /\ Go(t, AfterStop(t, exit))
  /\ stopping' = [stopping EXCEPT ![t] = "no"]

NothingToStop(t) ==
  /\ pc[t] \in {"cleanup", "exiting"} /\ stopping[t] = "no" /\ handle[t] = 0
  /\ StopOver(t, "done")
  /\ UNCHANGED <<config, attempt, slot, why, object, remote, waived, faults>>

SendKill(t) ==
  /\ aim' = [aim EXCEPT ![t] = handle[t]]
  /\ kill' = [kill EXCEPT ![t][handle[t]] = "sent"]
  /\ handle' = [handle EXCEPT ![t] = IF ForgetsFirst THEN 0 ELSE @]
  /\ stopping' = [stopping EXCEPT ![t] = "killing"]

Stop(t) ==
  /\ pc[t] \in {"cleanup", "exiting"} /\ stopping[t] = "no" /\ handle[t] # 0
  /\ IF runtime[t] THEN /\ stopping' = [stopping EXCEPT ![t] = "closing"]
                        /\ UNCHANGED <<aim, kill, handle>>
     ELSE SendKill(t)
  /\ UNCHANGED <<config, pc, attempt, slot, why, runtime, env, waived, faults>>

\* vefaas: the swerex server was closed, or close() logged its error.
RuntimeClosed(t) ==
  /\ stopping[t] = "closing"
  /\ runtime' = [runtime EXCEPT ![t] = FALSE]
  /\ SendKill(t)
  /\ UNCHANGED <<config, pc, attempt, slot, why, env, waived, faults>>

\* The provider deletes the environment, or fails to.
Killed(t, a) ==
  /\ kill[t][a] = "sent"
  /\ \/ /\ kill' = [kill EXCEPT ![t][a] = "ok"]
        /\ env' = [env EXCEPT ![t][a] = "gone"]
        /\ UNCHANGED faults
     \/ /\ kill' = [kill EXCEPT ![t][a] = "failed"]
        /\ Fault
        /\ UNCHANGED env
  /\ UNCHANGED <<config, task, object, waived>>

Forget(t, how) ==
  handle' = [handle EXCEPT ![t] = IF Keeps(how) THEN @ ELSE 0]

StopReturns(t) ==
  /\ stopping[t] = "killing" /\ kill[t][aim[t]] \in {"ok", "failed"}
  /\ LET failed == kill[t][aim[t]] = "failed"
     IN  /\ Forget(t, kill[t][aim[t]])
         /\ StopOver(t, IF failed /\ StopReraises THEN "raised" ELSE "done")
  /\ UNCHANGED <<config, attempt, slot, why, runtime, aim, remote, waived,
                 faults>>

\* stop() is cancelled: at its timeout in a cleanup, or with the task when
\* entered() ends.
InterruptStop(t, exit) ==
  /\ stopping[t] # "no"
  /\ Fault
  /\ waived' = [waived EXCEPT ![t] = @ \cup
       {IF stopping[t] = "closing" THEN <<"close", handle[t]>>
        ELSE <<"stop", aim[t]>>}]
  /\ IF stopping[t] = "killing" THEN Forget(t, "cancelled") ELSE UNCHANGED handle
  /\ \/ UNCHANGED kill
     \/ /\ ~Outlives /\ stopping[t] = "killing" /\ kill[t][aim[t]] = "sent"
        /\ kill' = [kill EXCEPT ![t][aim[t]] = "failed"]
  /\ StopOver(t, exit)
  /\ UNCHANGED <<config, attempt, slot, why, runtime, aim, env>>

\* SANDBOX_STOP_TIMEOUT bounds the cleanup of a failed start.
StopTimeout(t) == pc[t] = "cleanup" /\ InterruptStop(t, "done")

CancelExit(t) == pc[t] = "exiting" /\ InterruptStop(t, "cancelled")

\* Mutant: the cleanup is not shielded.
CancelCleanupUnshielded(t) ==
  /\ pc[t] = "cleanup" /\ why[t] # "cancelled"
  /\ Fault
  /\ why' = [why EXCEPT ![t] = "cancelled"]
  /\ stopping' = [stopping EXCEPT ![t] = "no"]
  /\ Go(t, "cancelled")
  /\ UNCHANGED <<config, attempt, slot, object, remote, waived>>

\* The cleanup is shielded: a cancellation is kept for its end.
CancelCleanup(t) ==
  /\ pc[t] = "cleanup" /\ why[t] # "cancelled"
  /\ Fault
  /\ why' = [why EXCEPT ![t] = "cancelled"]
  /\ UNCHANGED <<config, pc, attempt, slot, stopping, object, remote, waived>>

-----------------------------------------------------------------------------
TryAgain(t) ==
  /\ pc[t] = "backoff"
  /\ \/ /\ attempt' = [attempt EXCEPT ![t] = @ + 1]
        /\ Go(t, "idle")
        /\ why' = [why EXCEPT ![t] = "none"]
        /\ UNCHANGED faults
     \/ /\ Fault \* cancelled during the backoff
        /\ Go(t, "cancelled")
        /\ UNCHANGED <<attempt, why>>
  /\ UNCHANGED <<config, slot, stopping, object, remote, waived>>

\* The body ends, however it does; entered() stops the sandbox.
LeaveBody(t) ==
  /\ pc[t] = "inside"
  /\ Go(t, "exiting")
  /\ UNCHANGED <<config, attempt, slot, why, stopping, object, remote, waived,
                 faults>>

Terminated ==
  /\ \A t \in Tasks : pc[t] \in Over
  /\ UNCHANGED vars

Next ==
  \/ \E l \in Limits : ChangeLimit(l)
  \/ \E t \in Tasks :
       \/ AskSlot(t) \/ BeginStart(t) \/ Create(t) \/ CreateReturns(t)
       \/ CreateRaises(t) \/ RuntimeAlive(t) \/ SetupReturns(t)
       \/ StartFails(t) \/ StartupTimeout(t) \/ CancelEnter(t)
       \/ DockerStartTimeout(t) \/ Compensated(t)
       \/ NothingToStop(t) \/ Stop(t) \/ RuntimeClosed(t) \/ StopReturns(t)
       \/ StopTimeout(t) \/ CancelExit(t) \/ CancelCleanup(t)
       \/ TryAgain(t) \/ LeaveBody(t)
       \/ \E a \in Attempts : Created(t, a) \/ Killed(t, a)
  \/ Terminated

Spec == Init /\ [][Next]_vars

-----------------------------------------------------------------------------
(* Properties.                                                             *)

\* The type invariant.
LifecycleTypeOK ==
  /\ provider \in Providers /\ limit \in Limits /\ sems \in Seq(Limits)
  /\ pc \in [Tasks -> Starting \cup Over \cup
               {"idle", "queued", "inside", "cleanup", "exiting", "backoff"}]
  /\ attempt \in [Tasks -> Attempts]
  /\ slot \in [Tasks -> 0..Len(sems)]
  /\ why \in [Tasks -> {"none", "error", "cancelled"}]
  /\ stopping \in [Tasks -> {"no", "closing", "killing"}]
  /\ handle \in [Tasks -> 0..Retry] /\ aim \in [Tasks -> 0..Retry]
  /\ runtime \in [Tasks -> BOOLEAN]
  /\ env \in [Tasks -> [Attempts -> {"none", "asked", "bare", "ready", "gone"}]]
  /\ kill \in [Tasks -> [Attempts -> {"none", "sent", "ok", "failed"}]]

\* An environment exists, or may still come to exist.
Left(t) == {a \in Attempts : env[t][a] \in {"asked", "bare", "ready"}}

\* Whatever fails, times out or is cancelled, and however often: when the task
\* is through with its sandbox, each environment it asked for is gone or its
\* deletion was sent (base.py:309 shields the cleanup for this).  Excluded by
\* name: a start() interrupted while it creates, and a vefaas stop()
\* interrupted while it closes the runtime.
EveryEnvironmentDeleted ==
  \A t \in Tasks : pc[t] \in Over =>
    \A a \in Left(t) :
      \/ kill[t][a] # "none"
      \/ <<"create", a>> \in waived[t]
      \/ <<"close", a>> \in waived[t]

\* The body runs in an environment whose start() finished and that nobody has
\* begun to delete (base.py:434 "return it ready").  Excluded by name: an
\* openyuanrong stop() given up at its timeout keeps the object, and the next
\* attempt takes it for started; the same with a vefaas runtime being closed.
ReadyMeansSetUp ==
  \A t \in Tasks : pc[t] = "inside" =>
    \/ /\ handle[t] # 0
       /\ env[t][handle[t]] = "ready"
       /\ kill[t][handle[t]] = "none"
    \/ \E w \in waived[t] : w[1] \in {"stop", "close"} /\ w[2] = handle[t]

\* Starts in flight at one time: at most the limit, and while the limit
\* changes at most those of the semaphores that still have holders
\* (base.py:271, 285).
StartupsBounded ==
  LET startups == {t \in Tasks : pc[t] \in Starting}
  IN  IF changes = 0
      THEN limit > 0 => Cardinality(startups) <= limit
      ELSE \A g \in DOMAIN sems : Cardinality(Holders(g)) <= sems[g]

\* A cancelled enter is not retried: it ends by raising the cancellation,
\* once its cleanup is over (base.py:439).
CancelledNeverRetries ==
  [][\A t \in Tasks : why[t] = "cancelled" =>
       why'[t] = "cancelled" /\ pc'[t] \in {"cleanup", "cancelled"}]_vars

\* Whatever fails, expires or is cancelled, starts are limited, a body runs in
\* a sandbox that is ready and none is left behind.
LifecycleSound ==
  LifecycleTypeOK /\ EveryEnvironmentDeleted /\ ReadyMeansSetUp /\ StartupsBounded

=============================================================================
