-------------------------- MODULE EpisodeLifecycle --------------------------
(***************************************************************************)
(* The life of agent episodes: framework/framework.py runs a Runner inside *)
(* a Gateway session, gateway/manager.py routes the session to a Gateway   *)
(* actor, gateway/gateway.py keeps it there.                               *)
(*                                                                         *)
(* The framework and the manager are tasks of one event loop, so an action *)
(* of an episode is its code between two awaits, the manager's coroutine   *)
(* included.  The actor is another process: its calls start in the order   *)
(* they were sent, and wait for the request_lock of the session.           *)
(***************************************************************************)
EXTENDS Integers, FiniteSets

CONSTANTS
  Episodes,      \* sessions of the batch, each with a fresh session id
  GatewayCount,  \* number of Gateway actors
  MaxSessions,   \* max_concurrent_sessions of the runner; no limit when <= 0
  Modes,         \* dispatch modes the runner may be configured with
  Cancellable,   \* the awaits at which the parent may be cancelled
  MaxFaults      \* bound: cancellations and failed calls in one behaviour

Gateways == 0..(GatewayCount - 1)
Nowhere == -1

ASSUME EpisodesAssumption == IsFiniteSet(Episodes)
ASSUME GatewaysAssumption == GatewayCount \in Nat \ {0}
ASSUME LimitsAssumption == MaxSessions \in Int /\ MaxFaults \in Nat

Awaits == {"creating", "running", "cancelling", "finalizing", "scoring", "aborting"}
Over == {"ok", "failed", "cancelled"}

ASSUME CancellableAssumption ==
  Cancellable \subseteq Awaits /\ Modes \subseteq {"ray_task", "inline_async"}

VARIABLES
  mode,      \* dispatch_mode of the runner
  episode,   \* where _run_agent_episode is: queued, one of Awaits or Over
  cause,     \* the exception that unwinds an episode: none, error or cancelled
  runner,    \* the runner: none, running, returned, raised, gone (told to stop)
  slots,     \* free slots of the runner's semaphore
  route,     \* _session_to_gateway_index, Nowhere for an absent session
  load,      \* active_sessions_per_gateway
  aborter,   \* manager.abort_session of an episode: none, awaited, shielded, over
  home,      \* the gateway the manager's calls for an episode go to
  call,      \* the actor calls of an episode: unsent, sent, locked, ok, raised
  sessions,  \* _sessions of each actor
  phase,     \* SessionPhase of each session
  request,   \* an HTTP request of the runner: idle, preparing, backend, committing
  faults     \* cancellations and failed calls so far

framework == <<mode, episode, cause, runner, slots>>
manager   == <<route, load, aborter, home>>
actor     == <<call, sessions, phase, request>>
vars      == <<framework, manager, actor, faults>>

Calls == {"create", "finalize", "abort"}

Init ==
  /\ mode \in Modes
  /\ episode = [e \in Episodes |-> "queued"]
  /\ cause = [e \in Episodes |-> "none"]
  /\ runner = [e \in Episodes |-> "none"]
  /\ slots = MaxSessions
  /\ route = [e \in Episodes |-> Nowhere]
  /\ load = [g \in Gateways |-> 0]
  /\ aborter = [e \in Episodes |-> "none"]
  /\ home = [e \in Episodes |-> Nowhere]
  /\ call = [e \in Episodes |-> [c \in Calls |-> "unsent"]]
  /\ sessions = [g \in Gateways |-> {}]
  /\ phase = [e \in Episodes |-> "none"]
  /\ request = [e \in Episodes |-> "idle"]
  /\ faults = 0

-----------------------------------------------------------------------------
(* What the actions share.                                                 *)

Goto(e, label) == episode' = [episode EXCEPT ![e] = label]
Mark(e, c, state) == call' = [call EXCEPT ![e][c] = state]
Fault == faults < MaxFaults /\ faults' = faults + 1

\* Leaving the semaphore ends the episode.
End(e, outcome) ==
  /\ Goto(e, outcome)
  /\ slots' = IF MaxSessions > 0 THEN slots + 1 ELSE slots

\* _select_gateway_index: the first gateway with the least load.
LeastLoaded ==
  CHOOSE g \in Gateways :
    \A h \in Gateways : load[g] < load[h] \/ (load[g] = load[h] /\ g <= h)

\* Mutant: only the route is dropped.
ReleaseRouteOnly(e) ==
  /\ route' = [route EXCEPT ![e] = Nowhere]
  /\ UNCHANGED load

\* Drop the route and give its place in the load back.
ReleaseRoute(e) ==
  /\ route' = [route EXCEPT ![e] = Nowhere]
  /\ load' = [load EXCEPT ![home[e]] = @ - 1]

\* The except clauses of _run_agent_episode: the abort is shielded when the
\* parent was cancelled, awaited after an error.
BeginAbort(e, why) ==
  /\ Goto(e, "aborting")
  /\ cause' = [cause EXCEPT ![e] = why]
  /\ aborter' = [aborter EXCEPT ![e] = IF why = "cancelled" THEN "shielded" ELSE "awaited"]
  /\ Mark(e, "abort", "sent")

-----------------------------------------------------------------------------
(* The episode, with the manager's half of its calls.                      *)

\* Enter the semaphore and create the session: the route and the load are
\* reserved before the call to the actor is awaited.
Admit(e) ==
  LET g == LeastLoaded IN
  /\ episode[e] = "queued"
  /\ MaxSessions > 0 => slots > 0
  /\ slots' = IF MaxSessions > 0 THEN slots - 1 ELSE slots
  /\ route' = [route EXCEPT ![e] = g]
  /\ load' = [load EXCEPT ![g] = @ + 1]
  /\ home' = [home EXCEPT ![e] = g]
  /\ Mark(e, "create", "sent")
  /\ Goto(e, "creating")
  /\ UNCHANGED <<mode, cause, runner, aborter, sessions, phase, request, faults>>

\* The session exists: dispatch the runner.
Created(e) ==
  /\ episode[e] = "creating"
  /\ call[e]["create"] = "ok"
  /\ runner' = [runner EXCEPT ![e] = "running"]
  /\ Goto(e, "running")
  /\ UNCHANGED <<mode, cause, slots, manager, actor, faults>>

\* The remote create failed: roll the route back.
CreateFailed(e) ==
  /\ episode[e] = "creating"
  /\ call[e]["create"] = "raised"
  /\ ReleaseRoute(e)
  /\ End(e, "failed")
  /\ UNCHANGED <<mode, cause, runner, aborter, home, actor, faults>>

\* The runner ends by itself; a hung one never does.
RunnerEnds(e) ==
  /\ runner[e] = "running"
  /\ episode[e] = "running"
  /\ \E result \in {"returned", "raised"} : runner' = [runner EXCEPT ![e] = result]
  /\ UNCHANGED <<mode, episode, cause, slots, manager, actor, faults>>

\* Finalize the session of a runner that returned.
StartFinalize(e) ==
  /\ episode[e] = "running"
  /\ runner[e] = "returned"
  /\ Mark(e, "finalize", "sent")
  /\ Goto(e, "finalizing")
  /\ UNCHANGED <<mode, cause, runner, slots, manager, sessions, phase, request, faults>>

\* Abort the session of a runner that raised.
RunnerFailed(e) ==
  /\ episode[e] = "running"
  /\ runner[e] = "raised"
  /\ BeginAbort(e, "error")
  /\ UNCHANGED <<mode, runner, slots, route, load, home, sessions, phase, request, faults>>

\* Mutant: the timeout waits for the runner.
TimeOutAfterRunner(e) ==
  /\ mode = "ray_task"
  /\ episode[e] = "running"
  /\ runner[e] # "running"
  /\ cause' = [cause EXCEPT ![e] = "error"]
  /\ Goto(e, "cancelling")
  /\ UNCHANGED <<mode, runner, slots, manager, actor, faults>>

\* session_timeout_seconds: only Ray tasks have one.  The task is cancelled.
TimeOut(e) ==
  /\ mode = "ray_task"
  /\ episode[e] = "running"
  /\ runner[e] = "running"
  /\ cause' = [cause EXCEPT ![e] = "error"]
  /\ Goto(e, "cancelling")
  /\ UNCHANGED <<mode, runner, slots, manager, actor, faults>>

\* _cancel_runner_task: the runner ends within the grace period or is killed.
RunnerStopped(e) ==
  /\ episode[e] = "cancelling"
  /\ runner' = [runner EXCEPT ![e] = "gone"]
  /\ BeginAbort(e, cause[e])
  /\ UNCHANGED <<mode, slots, route, load, home, sessions, phase, request, faults>>

\* The finalize call returned: release the route, keep the trajectories.
Finalized(e) ==
  /\ episode[e] = "finalizing"
  /\ call[e]["finalize"] = "ok"
  /\ ReleaseRoute(e)
  /\ Goto(e, "scoring")
  /\ UNCHANGED <<mode, cause, runner, slots, aborter, home, actor, faults>>

FinalizeFailed(e) ==
  /\ episode[e] = "finalizing"
  /\ call[e]["finalize"] = "raised"
  /\ BeginAbort(e, "error")
  /\ UNCHANGED <<mode, runner, slots, route, load, home, sessions, phase, request, faults>>

\* Postprocessing, reward and dump, after the session is gone.
Score(e) ==
  /\ episode[e] = "scoring"
  /\ \E outcome \in {"ok", "failed"} : End(e, outcome)
  /\ UNCHANGED <<mode, cause, runner, manager, actor, faults>>

\* manager.abort_session resumes: it releases the route only when the actor's
\* abort did not raise.  The episode may have stopped waiting for it.
Aborted(e) ==
  /\ aborter[e] \in {"awaited", "shielded"}
  /\ call[e]["abort"] \in {"ok", "raised"}
  /\ aborter' = [aborter EXCEPT ![e] = "over"]
  /\ IF call[e]["abort"] = "ok" THEN ReleaseRoute(e) ELSE UNCHANGED <<route, load>>
  /\ IF episode[e] = "aborting"
     THEN End(e, IF cause[e] = "cancelled" THEN "cancelled" ELSE "failed")
     ELSE UNCHANGED <<episode, slots>>
  /\ UNCHANGED <<mode, cause, runner, home, actor, faults>>

-----------------------------------------------------------------------------
(* Cancellation of the parent, at each await.  The actor's calls are not    *)
(* cancelled with the coroutine that awaits them.                          *)

\* create_session rolls back; the episode is not inside its try yet.
CancelCreating(e) ==
  /\ episode[e] = "creating"
  /\ ReleaseRoute(e)
  /\ End(e, "cancelled")
  /\ UNCHANGED <<mode, cause, runner, aborter, home, actor>>

\* Mutant: the Ray task is left running.
CancelRunningDetached(e) ==
  /\ episode[e] = "running"
  /\ BeginAbort(e, "cancelled")
  /\ UNCHANGED <<mode, runner, slots, route, load, home, sessions, phase, request>>

\* A Ray task is cancelled first; an inline runner is the cancelled coroutine.
CancelRunning(e) ==
  /\ episode[e] = "running"
  /\ IF mode = "ray_task"
     THEN /\ cause' = [cause EXCEPT ![e] = "cancelled"]
          /\ Goto(e, "cancelling")
          /\ UNCHANGED <<runner, aborter, call>>
     ELSE /\ runner' = [runner EXCEPT ![e] = "gone"]
          /\ BeginAbort(e, "cancelled")
  /\ UNCHANGED <<mode, slots, route, load, home, sessions, phase, request>>

\* Interrupts the grace period: the runner was asked to stop, not killed.
CancelCancelling(e) ==
  /\ episode[e] = "cancelling"
  /\ runner' = [runner EXCEPT ![e] = "gone"]
  /\ BeginAbort(e, "cancelled")
  /\ UNCHANGED <<mode, slots, route, load, home, sessions, phase, request>>

\* finalize_session is left at its await, its remote call still in flight.
CancelFinalizing(e) ==
  /\ episode[e] = "finalizing"
  /\ BeginAbort(e, "cancelled")
  /\ UNCHANGED <<mode, runner, slots, route, load, home, sessions, phase, request>>

CancelScoring(e) ==
  /\ episode[e] = "scoring"
  /\ End(e, "cancelled")
  /\ UNCHANGED <<mode, cause, runner, manager, actor>>

\* An awaited abort_session is cancelled with the episode, a shielded one goes on.
CancelAborting(e) ==
  /\ episode[e] = "aborting"
  /\ End(e, "cancelled")
  /\ aborter' = [aborter EXCEPT ![e] = IF @ = "awaited" THEN "over" ELSE @]
  /\ UNCHANGED <<mode, cause, runner, route, load, home, actor>>

Cancel(e) ==
  /\ episode[e] \in Cancellable
  /\ Fault
  /\ \/ CancelCreating(e) \/ CancelRunning(e) \/ CancelCancelling(e)
     \/ CancelFinalizing(e) \/ CancelScoring(e) \/ CancelAborting(e)

-----------------------------------------------------------------------------
(* The actor.  Only the preparation and the commit of a request keep the    *)
(* request_lock; whoever waits for it is served first come, first served.   *)

Busy(e) == request[e] \in {"preparing", "committing"}
Queued(e) == call[e]["finalize"] = "locked" \/ call[e]["abort"] = "locked"
Live(e) == \E g \in Gateways : e \in sessions[g]
Unregister(e) == sessions' = [sessions EXCEPT ![home[e]] = @ \ {e}]

HandleCreate(e) ==
  /\ call[e]["create"] = "sent"
  /\ sessions' = [sessions EXCEPT ![home[e]] = @ \cup {e}]
  /\ phase' = [phase EXCEPT ![e] = "ACTIVE"]
  /\ Mark(e, "create", "ok")
  /\ UNCHANGED <<framework, manager, request, faults>>

\* The actor is not started, or the policy is unknown.
RejectCreate(e) ==
  /\ call[e]["create"] = "sent"
  /\ Fault
  /\ Mark(e, "create", "raised")
  /\ UNCHANGED <<framework, manager, sessions, phase, request>>

\* The request_lock is taken: wait for it behind those already waiting.
\* Each call has looked the session up before it waits.
QueueForLock(e) ==
  /\ Live(e)
  /\ \/ /\ call[e]["finalize"] = "sent"
        /\ Busy(e)
        /\ Mark(e, "finalize", "locked")
     \/ /\ call[e]["abort"] = "sent"
        /\ call[e]["finalize"] # "sent"
        /\ Busy(e) \/ Queued(e)
        /\ Mark(e, "abort", "locked")
  /\ UNCHANGED <<framework, manager, sessions, phase, request, faults>>

\* finalize_session with the lock: close the session and unregister it.
HandleFinalize(e) ==
  /\ \/ call[e]["finalize"] = "sent" /\ Live(e)
     \/ call[e]["finalize"] = "locked"
  /\ ~Busy(e)
  /\ IF phase[e] = "ACTIVE"
     THEN /\ phase' = [phase EXCEPT ![e] = "FINALIZED"]
          /\ Unregister(e)
          /\ Mark(e, "finalize", "ok")
     ELSE /\ Mark(e, "finalize", "raised")
          /\ UNCHANGED <<phase, sessions>>
  /\ UNCHANGED <<framework, manager, request, faults>>

\* Materializing the trajectories raises before the phase changes.
FailFinalize(e) ==
  /\ call[e]["finalize"] \in {"sent", "locked"}
  /\ ~Busy(e)
  /\ Fault
  /\ Mark(e, "finalize", "raised")
  /\ UNCHANGED <<framework, manager, sessions, phase, request>>

\* abort_session of an unknown session returns at once; of a session that was
\* finalized while it waited for the lock, it raises.
HandleAbort(e) ==
  /\ call[e]["abort"] \in {"sent", "locked"}
  /\ call[e]["finalize"] \notin {"sent", "locked"}
  /\ IF call[e]["abort"] = "sent" /\ ~Live(e)
     THEN Mark(e, "abort", "ok") /\ UNCHANGED <<phase, sessions>>
     ELSE /\ ~Busy(e)
          /\ IF phase[e] = "FINALIZED"
             THEN Mark(e, "abort", "raised") /\ UNCHANGED <<phase, sessions>>
             ELSE /\ phase' = [phase EXCEPT ![e] = "ABORTED"]
                  /\ Unregister(e)
                  /\ Mark(e, "abort", "ok")
  /\ UNCHANGED <<framework, manager, request, faults>>

\* A request to the session: prepared and committed under the lock, refused
\* once the session is closed.  A runner that was told to stop, or something it
\* started, may still send one.
RequestStarts(e) ==
  /\ runner[e] # "none"
  /\ request[e] = "idle"
  /\ Live(e) /\ phase[e] = "ACTIVE" /\ ~Queued(e)
  /\ request' = [request EXCEPT ![e] = "preparing"]
  /\ UNCHANGED <<framework, manager, call, sessions, phase, faults>>

RequestContinues(e) ==
  /\ \/ /\ request[e] = "preparing"
        /\ request' = [request EXCEPT ![e] = "backend"]
     \/ /\ request[e] = "backend" /\ ~Queued(e)
        /\ request' = [request EXCEPT ![e] =
                         IF phase[e] = "ACTIVE" THEN "committing" ELSE "idle"]
     \/ /\ request[e] = "committing"
        /\ request' = [request EXCEPT ![e] = "idle"]
  /\ UNCHANGED <<framework, manager, call, sessions, phase, faults>>

-----------------------------------------------------------------------------
\* What the event loops do without help; runners, faults and cancellations
\* come from outside.
EpisodeStep(e) ==
  \/ Admit(e) \/ Created(e) \/ CreateFailed(e) \/ StartFinalize(e)
  \/ RunnerFailed(e) \/ TimeOut(e) \/ RunnerStopped(e) \/ Finalized(e)
  \/ FinalizeFailed(e) \/ Score(e) \/ Aborted(e)

ActorStep(e) ==
  HandleCreate(e) \/ QueueForLock(e) \/ HandleFinalize(e) \/ HandleAbort(e)

Environment(e) ==
  \/ RunnerEnds(e) \/ RequestStarts(e) \/ RejectCreate(e) \/ FailFinalize(e) \/ Cancel(e)

\* The batch is over, and nothing is left in flight.
Quiet(e) ==
  /\ episode[e] \in Over
  /\ aborter[e] \in {"none", "over"}
  /\ request[e] = "idle"
  /\ \A c \in Calls : call[e][c] \notin {"sent", "locked"}

Terminated ==
  /\ \A e \in Episodes : Quiet(e)
  /\ UNCHANGED vars

Next ==
  \/ \E e \in Episodes : EpisodeStep(e) \/ ActorStep(e) \/ RequestContinues(e)
                          \/ Environment(e)
  \/ Terminated

Spec == Init /\ [][Next]_vars

\* Timeouts expire, the two event loops run what is ready, the semaphore wakes
\* its waiters in turn, and the codec and the backend answer.  The runner is not
\* assumed to make progress.
Fairness ==
  \A e \in Episodes :
    /\ SF_vars(Admit(e))
    /\ WF_vars(EpisodeStep(e))
    /\ WF_vars(ActorStep(e))
    /\ WF_vars(RequestContinues(e))

FairSpec == Spec /\ Fairness

-----------------------------------------------------------------------------
(* Properties.                                                             *)

\* Every variable has the type the code gives it.
TypeOK ==
  /\ mode \in Modes
  /\ episode \in [Episodes -> {"queued"} \cup Awaits \cup Over]
  /\ cause \in [Episodes -> {"none", "error", "cancelled"}]
  /\ runner \in [Episodes -> {"none", "running", "returned", "raised", "gone"}]
  /\ slots \in IF MaxSessions > 0 THEN 0..MaxSessions ELSE {MaxSessions}
  /\ route \in [Episodes -> Gateways \cup {Nowhere}]
  /\ load \in [Gateways -> Nat]
  /\ aborter \in [Episodes -> {"none", "awaited", "shielded", "over"}]
  /\ home \in [Episodes -> Gateways \cup {Nowhere}]
  /\ call \in [Episodes -> [Calls -> {"unsent", "sent", "locked", "ok", "raised"}]]
  /\ sessions \in [Gateways -> SUBSET Episodes]
  /\ phase \in [Episodes -> {"none", "ACTIVE", "FINALIZED", "ABORTED"}]
  /\ request \in [Episodes -> {"idle", "preparing", "backend", "committing"}]
  /\ faults \in 0..MaxFaults

RoutedTo(g) == {e \in Episodes : route[e] = g}

\* active_sessions_per_gateway counts the routes, through concurrent creates,
\* rollbacks, and finalize and abort calls that overlap.
LoadCountsRoutes == \A g \in Gateways : load[g] = Cardinality(RoutedTo(g))

\* Each episode that is over gave its semaphore slot back, once.
SlotsConserved ==
  MaxSessions > 0 =>
    slots + Cardinality({e \in Episodes : episode[e] \in Awaits}) = MaxSessions

\* Until its runner ends or is told to stop, the session is live, at the actor
\* the manager routes to: no cleanup overtakes the runner.
SessionOutlivesRunner ==
  \A e \in Episodes : runner[e] = "running" =>
    /\ route[e] \in Gateways
    /\ e \in sessions[route[e]]
    /\ phase[e] = "ACTIVE"

\* Trajectories are scored only if the session was finalized, and they were
\* taken before any abort.
ScoredMeansFinalized ==
  \A e \in Episodes : episode[e] \in {"scoring", "ok"} =>
    phase[e] = "FINALIZED" /\ call[e]["abort"] = "unsent"

\* Cancellations that nothing cleans up after: while the session is created,
\* while its abort is awaited after an error, or while finalize is awaited and
\* the abort finds the session finalized.
CutShort(e) ==
  /\ episode[e] = "cancelled"
  /\ \/ call[e]["abort"] = "raised"
     \/ cause[e] = "error"
     \/ aborter[e] = "none" /\ phase[e] # "FINALIZED"

\* "must not leave the Gateway route and actor-owned session live after the
\* runner task is gone": nothing of an episode is left when all is quiet.
ReleasedWhenOver ==
  \A e \in Episodes : Quiet(e) /\ ~CutShort(e) =>
    /\ route[e] = Nowhere
    /\ \A g \in Gateways : e \notin sessions[g]

\* Routes, load and slots add up, and what is scored was finalized.
EpisodesAccounted == TypeOK /\ LoadCountsRoutes /\ SlotsConserved /\ ScoredMeansFinalized

\* A session lives as long as its runner, and no longer than its episode.
SessionFollowsEpisode == SessionOutlivesRunner /\ ReleasedWhenOver

\* A hung runner cannot hold its slot forever: as Ray tasks time out, every
\* episode ends.
EpisodesEnd == mode = "ray_task" => \A e \in Episodes : <>(episode[e] \in Over)

=============================================================================
