--------------------------- MODULE AgentDxSandbox ---------------------------
(***************************************************************************)
(* sandbox/agent_dx.py under __aenter__ and entered() of sandbox/base.py:  *)
(* one Environment, the task that owns it, the commands of the body, and   *)
(* the timer of its lifetime.  All are tasks of one event loop; start()    *)
(* and stop() exclude each other by the lifecycle lock, and SDK calls run  *)
(* in threads that go on when their caller is cancelled.                   *)
(***************************************************************************)
EXTENDS Integers

CONSTANTS
  Commands,   \* what the body runs: exec, a shell command or a file transfer
  Forms,      \* the forms a command may have
  Tries,      \* start() attempts of __aenter__
  Reconciles, \* _CREATE_RECONCILE_ATTEMPTS
  MaxTrouble  \* bound: failed SDK calls, cancellations and timeouts

ASSUME CommandsAssumption ==
  Forms \subseteq {"exec", "shell", "file"} /\ Commands \cap {"free", "owner", "timer"} = {}
ASSUME CountsAssumption ==
  Tries \in Nat \ {0} /\ Reconciles \in Nat \ {0} /\ MaxTrouble \in Nat

VARIABLES
  owner,        \* where the owner is
  try,          \* attempt of __aenter__
  cause,        \* why the owner unwinds: none, error, cancelled
  lock,         \* _lifecycle_lock: free, or who holds it
  timer,        \* _expire(): none, armed, fired, stopping, over
  form,         \* the form of each command
  cmd,          \* where each command is
  creation,     \* sdk.Environment(...): none, pending, ok or how it failed
  environment,  \* _environment is set
  identified,   \* environment_id is known
  attempted,    \* _attempted
  pending,      \* _delete_pending
  unconfirmed,  \* _create_unconfirmed
  seen,         \* _create_seen
  initializing, \* _initializing
  fatal,        \* _fatal_error is set
  startupError, \* _startup_error is set
  deletion,     \* where the running _delete() is; idle, ok and failed are its ends
  rounds,       \* attempt of _reconcile_create
  instance,     \* the Environment at the provider: none, asked, up, gone
  trouble       \* faults so far

tasks  == <<owner, try, cause, lock, timer, form, cmd>>
dxobject == <<creation, environment, identified, attempted, pending,
              unconfirmed, seen, initializing, fatal, startupError>>
cleanup == <<deletion, rounds>>
dxvars == <<tasks, dxobject, cleanup, instance, trouble>>

OwnerOver == {"done", "raised", "cancelled"}
CommandOver == {"result", "raised", "cancelled"}

DxInit ==
  /\ owner = "entering" /\ try = 1 /\ cause = "none"
  /\ lock = "free" /\ timer = "none"
  /\ form \in [Commands -> Forms]
  /\ cmd = [c \in Commands |-> "idle"]
  /\ creation = "none"
  /\ environment = FALSE /\ identified = FALSE /\ attempted = FALSE
  /\ pending = FALSE /\ unconfirmed = FALSE /\ seen = FALSE
  /\ initializing = FALSE /\ fatal = FALSE /\ startupError = FALSE
  /\ deletion = "idle" /\ rounds = 0
  /\ instance = "none" /\ trouble = 0

Trouble == trouble < MaxTrouble /\ trouble' = trouble + 1

-----------------------------------------------------------------------------
(* _delete(), run by whoever holds the lock.                               *)

\* It takes the handle; what it does depends on what is known of the creation.
BeginDelete(held, open, doubtful, known) ==
  /\ environment' = FALSE
  /\ deletion' = CASE ~open -> "ok"
                   [] open /\ doubtful /\ ~known -> "failed"
                   [] open /\ doubtful /\ known -> "seek"
                   [] open /\ ~doubtful /\ held -> "kill"
                   [] OTHER -> "delete"
  /\ rounds' = 1

KillAnswers ==
  /\ deletion = "kill"
  /\ \/ /\ instance' = "gone" /\ pending' = FALSE /\ deletion' = "ok"
        /\ UNCHANGED trouble
     \/ Trouble /\ deletion' = "delete" /\ UNCHANGED <<instance, pending>>
  /\ UNCHANGED <<tasks, creation, environment, identified, attempted,
                 unconfirmed, seen, initializing, fatal, startupError, rounds>>

\* Environment.delete by id; an Environment that is not there is no error.
DeleteById == instance' = IF instance = "up" THEN "gone" ELSE instance

DeleteAnswers ==
  /\ deletion = "delete"
  /\ \/ DeleteById /\ pending' = FALSE /\ deletion' = "ok" /\ UNCHANGED trouble
     \/ Trouble /\ deletion' = "failed" /\ UNCHANGED <<instance, pending>>
  /\ UNCHANGED <<tasks, creation, environment, identified, attempted,
                 unconfirmed, seen, initializing, fatal, startupError, rounds>>

\* _reconcile_create: look, delete, and look again if it was ever seen.
Seek ==
  /\ deletion = "seek"
  /\ \/ seen' = (seen \/ instance = "up") /\ UNCHANGED trouble
     \/ Trouble /\ UNCHANGED seen \* the probe fails: None
  /\ deletion' = "purge"
  /\ UNCHANGED <<tasks, creation, environment, identified, attempted, pending,
                 unconfirmed, initializing, fatal, startupError, rounds,
                 instance>>

NextRound ==
  IF rounds < Reconciles THEN deletion' = "seek" /\ rounds' = rounds + 1
  ELSE deletion' = "failed" /\ UNCHANGED rounds

\* Mutant: a "not found" is final before the creation was seen.
PurgeTrustingNotFound ==
  /\ deletion = "purge"
  /\ \/ DeleteById /\ deletion' = "confirm" /\ UNCHANGED <<rounds, trouble>>
     \/ Trouble /\ deletion' = "failed" /\ UNCHANGED <<instance, rounds>>
  /\ UNCHANGED <<tasks, dxobject>>

Purge ==
  /\ deletion = "purge"
  /\ \/ /\ DeleteById
        /\ IF seen THEN deletion' = "confirm" /\ UNCHANGED rounds ELSE NextRound
        /\ UNCHANGED trouble
     \/ Trouble /\ deletion' = "failed" /\ UNCHANGED <<instance, rounds>>
  /\ UNCHANGED <<tasks, dxobject>>

Confirm ==
  /\ deletion = "confirm"
  /\ \/ /\ instance # "up"
        /\ unconfirmed' = FALSE /\ pending' = FALSE /\ deletion' = "ok"
        /\ UNCHANGED <<rounds, trouble>>
     \/ Trouble /\ NextRound /\ UNCHANGED <<unconfirmed, pending>>
  /\ UNCHANGED <<tasks, creation, environment, identified, attempted, seen,
                 initializing, fatal, startupError, instance>>

-----------------------------------------------------------------------------
(* The provider's side of a creation.                                      *)

CreationAnswers ==
  /\ creation = "pending"
  /\ \/ creation' = "ok" /\ instance' = "up" /\ UNCHANGED trouble
     \/ /\ Trouble
        /\ \/ creation' = "refused" /\ instance' = "gone"
           \/ creation' \in {"unknown", "unknown without id"} /\ UNCHANGED instance
  /\ UNCHANGED <<tasks, environment, identified, attempted, pending,
                 unconfirmed, seen, initializing, fatal, startupError, cleanup>>

\* A creation whose outcome the SDK does not know may still be carried out.
LateCreation ==
  /\ creation \in {"unknown", "unknown without id"} /\ instance = "asked"
  /\ instance' \in {"up", "gone"}
  /\ UNCHANGED <<tasks, dxobject, cleanup, trouble>>

-----------------------------------------------------------------------------
(* start(), under the lock.                                                *)

Start ==
  /\ owner = "entering" /\ lock = "free"
  /\ \/ /\ ~startupError /\ ~fatal /\ ~attempted
        /\ attempted' = TRUE
        /\ creation' = "pending" /\ instance' = "asked"
        /\ lock' = "owner" /\ owner' = "creating"
        /\ UNCHANGED <<cause, trouble>>
     \/ /\ startupError \/ fatal \/ attempted
        /\ owner' = "cleanup" /\ cause' = "error"
        /\ UNCHANGED <<lock, attempted, creation, instance, trouble>>
     \/ /\ ~attempted /\ Trouble \* no SDK, or no valid connection
        /\ owner' = "cleanup" /\ cause' = "error"
        /\ UNCHANGED <<lock, attempted, creation, instance>>
  /\ UNCHANGED <<try, timer, form, cmd, environment, identified, pending,
                 unconfirmed, seen, initializing, fatal, startupError, cleanup>>

\* _record_create_error
RecordCreateError ==
  /\ identified' = (identified \/ creation = "unknown")
  /\ unconfirmed' = (unconfirmed \/ creation # "refused")
  /\ pending' = (pending \/ creation # "refused")

EnvironmentCreated ==
  /\ owner = "creating" /\ creation = "ok"
  /\ environment' = TRUE /\ identified' = TRUE /\ pending' = TRUE
  /\ timer' = "armed" /\ initializing' = TRUE /\ owner' = "setting"
  /\ UNCHANGED <<try, cause, lock, form, cmd, creation, attempted, unconfirmed,
                 seen, fatal, startupError, cleanup, instance, trouble>>

CreateFails ==
  /\ owner = "creating" /\ creation \notin {"pending", "ok"}
  /\ RecordCreateError
  /\ fatal' = TRUE
  /\ owner' = "cleanup" /\ cause' = "error" /\ lock' = "free"
  /\ UNCHANGED <<try, timer, form, cmd, creation, environment, attempted, seen,
                 initializing, startupError, cleanup, instance, trouble>>

\* Cancelled, by the startup timeout (an error for __aenter__) or by the
\* caller: the thread is waited for, through repeated cancellation.
InterruptCreate ==
  /\ owner = "creating" /\ Trouble
  /\ owner' = "settling" /\ cause' \in {"error", "cancelled"}
  /\ UNCHANGED <<try, lock, timer, form, cmd, dxobject, cleanup, instance>>

\* What the thread created is deleted before the cancellation goes on.
CreateSettles ==
  /\ owner = "settling" /\ creation # "pending"
  /\ IF creation = "ok"
     THEN identified' = TRUE /\ pending' = TRUE /\ UNCHANGED unconfirmed
     ELSE RecordCreateError
  /\ fatal' = TRUE
  /\ BeginDelete(creation = "ok", pending', unconfirmed', identified')
  /\ owner' = "rollback"
  /\ UNCHANGED <<try, cause, lock, timer, form, cmd, creation, attempted, seen,
                 initializing, startupError, instance, trouble>>

\* The executable paths are linked with exec(); then the lifetime is looked at.
EnvironmentReady ==
  /\ owner = "setting" /\ ~fatal
  /\ initializing' = FALSE /\ lock' = "free" /\ owner' = "inside"
  /\ UNCHANGED <<try, cause, timer, form, cmd, creation, environment,
                 identified, attempted, pending, unconfirmed, seen, fatal,
                 startupError, cleanup, instance, trouble>>

CancelTimer == timer' = IF timer = "armed" THEN "none" ELSE timer

RollBack(reason, poisoned) ==
  /\ startupError' = TRUE
  /\ fatal' = (fatal \/ poisoned)
  /\ CancelTimer
  /\ BeginDelete(environment, pending, unconfirmed, identified)
  /\ owner' = "rollback" /\ cause' = reason
  /\ UNCHANGED <<try, lock, form, cmd, creation, identified, attempted, pending,
                 unconfirmed, seen, initializing, instance>>

\* Mutant: exec() stops the sandbox itself and waits for the lock of its caller.
SetupFailsStopping ==
  /\ owner = "setting"
  /\ \/ fatal /\ RollBack("error", TRUE) /\ UNCHANGED trouble
     \/ Trouble /\ RollBack("error", FALSE)
     \/ /\ Trouble /\ fatal' = TRUE
        /\ owner' = "exiting" /\ cause' \in {"error", "cancelled"}
        /\ UNCHANGED <<try, lock, timer, form, cmd, creation, environment,
                       identified, attempted, pending, unconfirmed, seen,
                       initializing, startupError, cleanup, instance>>

\* A link fails, the lifetime is over, exec() loses the Environment, or start()
\* is interrupted there; exec() leaves the stop() to start(), which has the lock.
SetupFails ==
  /\ owner = "setting"
  /\ \/ fatal /\ RollBack("error", TRUE) /\ UNCHANGED trouble
     \/ Trouble /\ \E poisoned \in BOOLEAN : RollBack("error", poisoned)
     \/ Trouble /\ RollBack("cancelled", TRUE)

RolledBack ==
  /\ owner = "rollback" /\ deletion \in {"ok", "failed"}
  /\ deletion' = "idle" /\ initializing' = FALSE /\ lock' = "free"
  /\ owner' = "cleanup"
  /\ UNCHANGED <<try, cause, timer, form, cmd, creation, environment,
                 identified, attempted, pending, unconfirmed, seen, fatal,
                 startupError, rounds, instance, trouble>>

-----------------------------------------------------------------------------
(* stop(), by the owner, the timer or a command that poisoned the sandbox. *)

BeginStop(who) ==
  /\ lock = "free"
  /\ lock' = who
  /\ CancelTimer
  /\ BeginDelete(environment, pending, unconfirmed, identified)
  /\ UNCHANGED <<creation, identified, attempted, pending, unconfirmed, seen,
                 initializing, fatal, startupError, instance, trouble>>

EndStop ==
  /\ deletion \in {"ok", "failed"}
  /\ deletion' = "idle" /\ lock' = "free"
  /\ UNCHANGED <<dxobject, rounds, instance, trouble>>

OwnerStops ==
  /\ owner \in {"cleanup", "exiting"} /\ BeginStop("owner")
  /\ owner' = IF owner = "cleanup" THEN "cleaning" ELSE "stopping"
  /\ UNCHANGED <<try, cause, form, cmd>>

\* The next attempt, or the end of __aenter__.
AfterCleanup ==
  IF cause = "cancelled" THEN owner' = "cancelled" /\ UNCHANGED <<try, cause>>
  ELSE IF try < Tries
       THEN owner' = "entering" /\ try' = try + 1 /\ cause' = "none"
       ELSE owner' = "raised" /\ UNCHANGED <<try, cause>>

OwnerCleaned ==
  /\ owner = "cleaning" /\ EndStop
  /\ AfterCleanup
  /\ UNCHANGED <<timer, form, cmd>>

\* entered() raises what the body raised, then the error of stop(), then the
\* infrastructure error that a body without exception has left behind.
OwnerStopped ==
  /\ owner = "stopping" /\ EndStop
  /\ owner' = IF cause = "cancelled" THEN "cancelled"
               ELSE IF cause = "error" \/ fatal \/ deletion = "failed" THEN "raised"
               ELSE "done"
  /\ UNCHANGED <<try, cause, timer, form, cmd>>

\* While it waits for the lock stop() can be cancelled, in a cleanup only by
\* SANDBOX_STOP_TIMEOUT; a deletion under way is settled first.
OwnerGivesUp ==
  /\ Trouble
  /\ \/ owner = "cleanup" /\ lock # "free" /\ AfterCleanup
     \/ /\ owner = "exiting" /\ lock # "free"
        /\ owner' = "cancelled" /\ cause' = "cancelled" /\ UNCHANGED try
     \/ /\ owner \in {"cleanup", "cleaning", "stopping"} /\ cause # "cancelled"
        /\ cause' = "cancelled" /\ UNCHANGED <<owner, try>>
  /\ UNCHANGED <<lock, timer, form, cmd, dxobject, cleanup, instance>>

\* The body ends, with or without an exception, once its commands have.
BodyEnds ==
  /\ owner = "inside"
  /\ \A c \in Commands : cmd[c] \in CommandOver \cup {"idle"}
  /\ owner' = "exiting" /\ cause' \in {"none", "error"}
  /\ UNCHANGED <<try, lock, timer, form, cmd, dxobject, cleanup, instance, trouble>>

-----------------------------------------------------------------------------
(* _expire()                                                               *)

TimerFires ==
  /\ timer = "armed"
  /\ timer' = "fired" /\ fatal' = TRUE
  /\ UNCHANGED <<owner, try, cause, lock, form, cmd, creation, environment,
                 identified, attempted, pending, unconfirmed, seen,
                 initializing, startupError, cleanup, instance, trouble>>

TimerStops ==
  /\ timer = "fired" /\ lock = "free"
  /\ lock' = "timer" /\ timer' = "stopping"
  /\ BeginDelete(environment, pending, unconfirmed, identified)
  /\ UNCHANGED <<owner, try, cause, form, cmd, creation, identified, attempted,
                 pending, unconfirmed, seen, initializing, fatal, startupError,
                 instance, trouble>>

TimerStopped ==
  /\ timer = "stopping" /\ EndStop
  /\ timer' = "over"
  /\ UNCHANGED <<owner, try, cause, form, cmd>>

-----------------------------------------------------------------------------
(* Commands: _exec, _AgentDxShell.run and _file_operation.                 *)

Command(c, where) == cmd' = [cmd EXCEPT ![c] = where]

Submit(c) ==
  /\ owner = "inside" /\ cmd[c] = "idle"
  /\ IF ~fatal /\ environment THEN Command(c, "running") ELSE Command(c, "raised")
  /\ UNCHANGED <<owner, try, cause, lock, timer, form, dxobject, cleanup,
                 instance, trouble>>

\* The result of a command that ran to its end.
CommandReturns(c) ==
  /\ cmd[c] = "running" /\ instance = "up"
  /\ Command(c, "result")
  /\ UNCHANGED <<owner, try, cause, lock, timer, form, dxobject, cleanup,
                 instance, trouble>>

\* A lost, truncated or unavailable result: of a file transfer it is its own
\* error, else the sandbox is poisoned; a shell is stopped too.
CommandFails(c) ==
  /\ cmd[c] = "running"
  /\ IF instance = "up" THEN Trouble ELSE UNCHANGED trouble
  /\ fatal' = (fatal \/ form[c] # "file")
  /\ Command(c, IF form[c] = "shell" THEN "poisoning" ELSE "raised")
  /\ UNCHANGED <<owner, try, cause, lock, timer, form, creation, environment,
                 identified, attempted, pending, unconfirmed, seen,
                 initializing, startupError, cleanup, instance>>

\* Cancelled, or beyond its deadline and the grace for its result.
CommandInterrupted(c) ==
  /\ cmd[c] = "running"
  /\ Trouble
  /\ fatal' = TRUE
  /\ Command(c, "poisoning")
  /\ UNCHANGED <<owner, try, cause, lock, timer, form, creation, environment,
                 identified, attempted, pending, unconfirmed, seen,
                 initializing, startupError, cleanup, instance>>

PoisonedStops(c) ==
  /\ cmd[c] = "poisoning" /\ BeginStop(c)
  /\ Command(c, "stopping")
  /\ UNCHANGED <<owner, try, cause, form>>

PoisonedStopped(c) ==
  /\ cmd[c] = "stopping" /\ EndStop
  /\ Command(c, "raised")
  /\ UNCHANGED <<owner, try, cause, timer, form>>

-----------------------------------------------------------------------------
DxTerminated ==
  /\ owner \in OwnerOver /\ lock = "free" /\ timer \in {"none", "over"}
  /\ UNCHANGED dxvars

OwnerStep ==
  \/ Start \/ EnvironmentCreated \/ CreateFails \/ CreateSettles \/ EnvironmentReady
  \/ SetupFails \/ RolledBack \/ OwnerStops \/ OwnerCleaned \/ OwnerStopped
  \/ BodyEnds
TimerStep == TimerStops \/ TimerStopped
CommandStep(c) ==
  Submit(c) \/ CommandReturns(c) \/ CommandFails(c) \/ PoisonedStops(c)
  \/ PoisonedStopped(c)
SdkStep ==
  CreationAnswers \/ KillAnswers \/ DeleteAnswers \/ Seek \/ Purge \/ Confirm

DxNext ==
  \/ OwnerStep \/ TimerStep \/ SdkStep
  \/ InterruptCreate \/ OwnerGivesUp \/ TimerFires \/ LateCreation
  \/ \E c \in Commands : CommandStep(c) \/ CommandInterrupted(c)
  \/ DxTerminated

DxSpec == DxInit /\ [][DxNext]_dxvars

-----------------------------------------------------------------------------
(* Properties.                                                             *)

\* The type invariant.
DxTypeOK ==
  /\ owner \in OwnerOver \cup
       {"entering", "creating", "settling", "setting", "rollback", "cleanup",
        "cleaning", "inside", "exiting", "stopping"}
  /\ try \in 1..Tries /\ cause \in {"none", "error", "cancelled"}
  /\ lock \in {"free", "owner", "timer"} \cup Commands
  /\ timer \in {"none", "armed", "fired", "stopping", "over"}
  /\ form \in [Commands -> Forms]
  /\ cmd \in [Commands -> CommandOver \cup
                {"idle", "running", "poisoning", "stopping"}]
  /\ creation \in {"none", "pending", "ok", "refused", "unknown",
                   "unknown without id"}
  /\ {environment, identified, attempted, pending, unconfirmed, seen,
      initializing, fatal, startupError} \subseteq BOOLEAN
  /\ deletion \in {"idle", "kill", "delete", "seek", "purge", "confirm", "ok",
                   "failed"}
  /\ rounds \in 0..Reconciles
  /\ instance \in {"none", "asked", "up", "gone"}

\* Unless start() is still waiting for its creation, an Environment that
\* exists or may still come to exist is one whose deletion is owed: no error,
\* cancellation, expiry or poisoned command makes the sandbox forget it, and a
\* "not found" before the creation was seen does not settle the debt
\* (agent_dx.py:440 "A pre-create 404 is not final").
DeletionOwed ==
  instance \in {"asked", "up"} =>
    pending \/ owner \in {"creating", "settling"}

\* An infrastructure failure is never passed over: the body that leaves without
\* an exception does so from a sandbox that was never poisoned or expired, and
\* whose Environment was deleted (agent_dx.py:33, 297, 303).
FailureSurfaces == owner = "done" => ~fatal /\ instance = "gone"

\* The deletion of an Environment, and the failure of one, is never forgotten.
AgentDxSound == DxTypeOK /\ DeletionOwed /\ FailureSurfaces

=============================================================================
