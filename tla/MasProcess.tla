----------------------------- MODULE MasProcess -----------------------------
(***************************************************************************)
(* One external application of examples/multi_policy: run_external_mas     *)
(* writes a configuration file, run_local_process starts the command in a  *)
(* session of its own and collects its output, and on a timeout or a       *)
(* cancellation ends the whole process group.                              *)
(*                                                                         *)
(* The command is a leader with helpers, which may hold its pipes, ignore  *)
(* SIGTERM or have left the group.  Bound: MaxCancels cancellations.       *)
(***************************************************************************)
EXTENDS Naturals

CONSTANTS Helpers, MaxCancels

ASSUME MasBoundAssumption == MaxCancels \in Nat

Leader == "leader"
Processes == {Leader} \cup Helpers
Traits == SUBSET {"holds_pipes", "ignores_term", "left_group"}

VARIABLES
  mas,        \* run_local_process: idle, communicating, terminating, draining, over
  outcome,    \* how it ended: none, ok, error, timeout, cancelled
  reason,        \* the exception that is being handled: none, timeout, cancelled
  timed,      \* timeout_seconds is configured
  running,    \* processes that run
  traits,     \* of each process
  exit,       \* return code of the leader is 0, or not
  communicate,\* communicate_task: pending, done, cancelled
  pipes,      \* our ends of the pipes are open
  configFile, \* the temporary configuration exists
  cancels, interrupted

masvars == <<mas, outcome, reason, timed, running, traits, exit, communicate, pipes,
             configFile, cancels, interrupted>>

Group == {p \in running : "left_group" \notin traits[p]}
PipesHeld == \E p \in running : "holds_pipes" \in traits[p]

MasInit ==
  /\ mas = "idle" /\ outcome = "none" /\ reason = "none" /\ timed \in BOOLEAN
  /\ running = {} /\ traits \in [Processes -> Traits]
  /\ "holds_pipes" \in traits[Leader] /\ "left_group" \notin traits[Leader]
  /\ exit \in BOOLEAN /\ communicate = "pending" /\ pipes = FALSE
  /\ configFile = FALSE /\ cancels = 0 /\ interrupted = FALSE

-----------------------------------------------------------------------------
(* The application. *)

\* The leader starts a helper, before it exits.
StartHelper(h) ==
  /\ Leader \in running /\ h \notin running
  /\ mas # "over" /\ running' = running \cup {h}
  /\ UNCHANGED <<mas, outcome, reason, timed, traits, exit, communicate, pipes, configFile, cancels, interrupted>>

ProcessExits(p) ==
  /\ p \in running /\ running' = running \ {p}
  /\ UNCHANGED <<mas, outcome, reason, timed, traits, exit, communicate, pipes, configFile, cancels, interrupted>>

-----------------------------------------------------------------------------
(* run_external_mas and run_local_process. *)

Launch ==
  /\ mas = "idle" /\ mas' = "communicating"
  /\ configFile' = TRUE /\ running' = {Leader} /\ pipes' = TRUE
  /\ UNCHANGED <<outcome, reason, timed, traits, exit, communicate, cancels, interrupted>>

\* communicate() returns when the pipes are closed and the leader has exited.
Communicated ==
  /\ communicate = "pending" /\ pipes /\ ~PipesHeld /\ Leader \notin running
  /\ communicate' = "done" /\ pipes' = FALSE
  /\ UNCHANGED <<mas, outcome, reason, timed, running, traits, exit, configFile, cancels, interrupted>>

\* The call ends; the runner's finally clause removes the configuration.
Ends(result) ==
  /\ mas' = "over" /\ outcome' = result /\ configFile' = FALSE

\* A return code other than 0 raises.
Return ==
  /\ mas = "communicating" /\ communicate = "done"
  /\ Ends(IF exit THEN "ok" ELSE "error")
  /\ UNCHANGED <<reason, timed, running, traits, exit, communicate, pipes, cancels, interrupted>>

\* Who is left of the processes once SIGTERM was sent to the group.
Survivors == running \ {p \in Group : "ignores_term" \notin traits[p]}

\* _terminate_process_group: nothing is sent to a group that is gone.
Handle(exception) ==
  /\ mas' = "terminating" /\ reason' = exception
  /\ running' = Survivors
  /\ UNCHANGED <<outcome, configFile>>

\* communicate_task is shielded when there is a timeout.
TimesOut ==
  /\ mas = "communicating" /\ timed /\ communicate = "pending"
  /\ Handle("timeout")
  /\ UNCHANGED <<timed, traits, exit, communicate, pipes, cancels, interrupted>>

\* Mutant: an exited leader ends the clean-up.
KillIfLeaderRuns ==
  /\ mas = "terminating"
  /\ running' = IF Leader \in running THEN running \ Group ELSE running
  /\ mas' = "draining"
  /\ UNCHANGED <<outcome, reason, timed, traits, exit, communicate, pipes, configFile, cancels, interrupted>>

\* The grace period is over, or the group is gone before: SIGKILL what is left
\* of it, also when the leader has exited, and wait for the leader.
Kill ==
  /\ mas = "terminating"
  /\ running' = running \ Group
  /\ mas' = "draining"
  /\ UNCHANGED <<outcome, reason, timed, traits, exit, communicate, pipes, configFile, cancels, interrupted>>

\* _drain_communicate: done, cancelled with its caller, or given up after two
\* seconds, when the pipes are closed from our side.
Drain ==
  /\ mas = "draining"
  /\ \/ communicate \in {"done", "cancelled"} /\ UNCHANGED <<communicate, pipes>>
     \/ communicate = "pending" /\ communicate' = "cancelled" /\ pipes' = FALSE
  /\ Ends(reason)
  /\ UNCHANGED <<reason, timed, running, traits, exit, cancels, interrupted>>

\* Without a timeout the await cancels communicate_task with it.
CancelCommunicate ==
  /\ mas = "communicating" /\ communicate # "done"
  /\ communicate' = IF timed THEN communicate ELSE "cancelled"
  /\ Handle("cancelled")
  /\ UNCHANGED interrupted

\* A cancellation while the clean-up awaits leaves the except clause.
CancelMasCleanup ==
  /\ mas \in {"terminating", "draining"}
  /\ Ends("cancelled") /\ interrupted' = TRUE
  /\ communicate' = IF mas = "draining" /\ communicate = "pending" THEN "cancelled" ELSE communicate
  /\ UNCHANGED <<reason, running>>

CancelMas ==
  /\ cancels < MaxCancels /\ cancels' = cancels + 1
  /\ CancelCommunicate \/ CancelMasCleanup
  /\ UNCHANGED <<timed, traits, exit, pipes>>

-----------------------------------------------------------------------------
CallSteps == Return \/ TimesOut \/ Kill \/ Drain

MasOver == mas = "over" /\ UNCHANGED masvars

MasNext ==
  \/ \E h \in Helpers : StartHelper(h)
  \/ \E p \in Processes : ProcessExits(p)
  \/ Launch \/ Communicated \/ CallSteps \/ CancelMas \/ MasOver

MasSpec == MasInit /\ [][MasNext]_masvars

-----------------------------------------------------------------------------
(* Properties. *)

\* The type invariant.
MasTypeOK ==
  /\ mas \in {"idle", "communicating", "terminating", "draining", "over"}
  /\ outcome \in {"none", "ok", "error", "timeout", "cancelled"}
  /\ reason \in {"none", "timeout", "cancelled"} /\ timed \in BOOLEAN
  /\ running \subseteq Processes /\ traits \in [Processes -> Traits] /\ exit \in BOOLEAN
  /\ communicate \in {"pending", "done", "cancelled"} /\ pipes \in BOOLEAN
  /\ configFile \in BOOLEAN /\ cancels \in 0..MaxCancels /\ interrupted \in BOOLEAN

\* When a command was given up nothing of its process group runs on, also when
\* its leader had exited and helpers that ignore SIGTERM hold its pipes
\* (process_backend.py:104-106).  Excluded by name: a cancellation of the
\* clean-up itself, before SIGKILL.
GroupGone ==
  mas = "over" /\ outcome \in {"timeout", "cancelled"} /\ ~interrupted => Group = {}

\* An external application that was given up is gone.
ProcessSound == MasTypeOK /\ GroupGone

=============================================================================
