---------------------------- MODULE SessionGroups ----------------------------
(***************************************************************************)
(* The session groups of examples/multi_policy: a rollout of several roles *)
(* has one Gateway session per role, created, finalized and aborted as one *)
(* by MultiAgentGatewayManager, on behalf of the framework's episodes.     *)
(*                                                                         *)
(* Three tasks may act on a group: its caller (the episode), an            *)
(* abort_session of its own when it is shielded, and shutdown().  Each     *)
(* goes through the roles in order and awaits one actor call at a time.    *)
(* The actor takes the calls on one session in the order they were sent,   *)
(* those on different sessions in any order.  A cancelled task leaves its  *)
(* call with the actor.  A group id is used for one rollout only.          *)
(***************************************************************************)
EXTENDS Integers, Sequences, FiniteSets

CONSTANTS
  Groups,         \* session groups
  RoleCount,      \* roles of a group
  GroupGateways,  \* number of Gateway actors
  GroupTroubles   \* bound: groups begun, cancellations and failing actor calls, together

ASSUME GroupBoundsAssumption ==
  /\ IsFiniteSet(Groups)
  /\ {RoleCount, GroupGateways} \subseteq Nat \ {0} /\ GroupTroubles \in Nat

Roles == 1..RoleCount
Pool == 0..(GroupGateways - 1)
NoIndex == -1
Parties == {"caller", "abort", "shutdown"}
CallerOver == {"ok", "failed"}

VARIABLES
  caller,    \* where the episode of a group is
  at,        \* the role each party has come to; 0 when it is not in its loop
  shielded,  \* the abort of a group goes on when its caller is cancelled
  answer,    \* what the actor answered to each party: none, ok, raised
  inbox,     \* the calls that wait for a session: [op, by]
  live,      \* role sessions that the actors hold: <<group, role>>
  finalized, \* role sessions whose trajectories were handed out
  index,     \* _group_gateway_indices and _group_sessions, NoIndex when absent
  groupLoad, \* active_sessions_per_gateway
  closing,   \* shutdown(): off, sweeping, stopping, down
  tornGroups,\* groups a sweep of which was cancelled or failed for a role
  outpaced,  \* groups that created a role behind the sweep of shutdown()
  troubles

groupvars == <<caller, at, shielded, answer, inbox, live, finalized, index,
               groupLoad, closing, tornGroups, outpaced, troubles>>

GroupInit ==
  /\ caller = [g \in Groups |-> "idle"]
  /\ at = [g \in Groups |-> [p \in Parties |-> 0]]
  /\ shielded = [g \in Groups |-> FALSE]
  /\ answer = [g \in Groups |-> [p \in Parties |-> "none"]]
  /\ inbox = [g \in Groups |-> [r \in Roles |-> <<>>]]
  /\ live = {} /\ finalized = {}
  /\ index = [g \in Groups |-> NoIndex]
  /\ groupLoad = [i \in Pool |-> 0]
  /\ closing = "off" /\ tornGroups = {} /\ outpaced = {} /\ troubles = 0

-----------------------------------------------------------------------------
(* What the actions share. *)

Moves(g, stage) == caller' = [caller EXCEPT ![g] = stage]
Disowned(calls, parties) ==
  [k \in DOMAIN calls |->
     IF calls[k].by \in parties THEN [calls[k] EXCEPT !.by = "nobody"] ELSE calls[k]]
Trouble == troubles < GroupTroubles /\ troubles' = troubles + 1

\* The party's next call, of role r, is sent.  The call that it still awaited,
\* or that its caller awaited when it turns to an abort, stays with the actor and
\* nobody waits for it.
Sends(g, p, op, r) ==
  LET left == IF p = "abort" THEN {p, "caller"} ELSE {p} IN
  /\ at' = [at EXCEPT ![g] = [q \in Parties |->
       IF q = p THEN r ELSE IF q \in left THEN 0 ELSE @[q]]]
  /\ answer' = [answer EXCEPT ![g] = [q \in Parties |-> IF q \in left THEN "none" ELSE @[q]]]
  /\ inbox' = [inbox EXCEPT ![g] = [s \in Roles |->
       LET kept == Disowned(@[s], left) IN
       IF s = r THEN Append(kept, [op |-> op, by |-> p]) ELSE kept]]

\* The party leaves its loop.
Leaves(g, p) ==
  /\ at' = [at EXCEPT ![g][p] = 0]
  /\ answer' = [answer EXCEPT ![g][p] = "none"]
  /\ inbox' = [inbox EXCEPT ![g] = [s \in Roles |-> Disowned(@[s], {p})]]

\* Mutant: the slot is given back although the group was dropped before.
DropUnguarded(g) ==
  /\ index' = [index EXCEPT ![g] = NoIndex]
  /\ groupLoad' = [i \in Pool |-> groupLoad[i] - IF i \in {index[g], index[g] + 1} THEN 1 ELSE 0]

\* _drop_group_state: whoever pops the index gives the slot back.
Drop(g) ==
  /\ index' = [index EXCEPT ![g] = NoIndex]
  /\ groupLoad' = [i \in Pool |-> groupLoad[i] - IF i = index[g] THEN 1 ELSE 0]

Answered(g, p) == answer[g][p] # "none"
LastRole(g, p) == at[g][p] = RoleCount

\* abort_session begins; a group that is gone counts as aborted already.
BeginsAbort(g, stage, shield) ==
  /\ Sends(g, "abort", "abort", 1)
  /\ shielded' = [shielded EXCEPT ![g] = shield]
  /\ Moves(g, stage)
  /\ UNCHANGED <<index, groupLoad>>

\* The exception leaves the manager: the framework aborts the group again.
EndsFailed(g) == Moves(g, "failed")

-----------------------------------------------------------------------------
(* create_session and the runner. *)

\* Reserve the id and the slot before the first await.  A manager that is shut
\* down, or a group that is known, raises.
CreateGroup(g) ==
  /\ caller[g] = "idle" /\ closing # "down" /\ Trouble
  /\ \E i \in Pool :
       /\ \A j \in Pool : groupLoad[i] < groupLoad[j] \/ (groupLoad[i] = groupLoad[j] /\ i <= j)
       /\ index' = [index EXCEPT ![g] = i]
       /\ groupLoad' = [groupLoad EXCEPT ![i] = @ + 1]
  /\ Sends(g, "caller", "create", 1)
  /\ Moves(g, "creating")
  /\ outpaced' = IF closing = "off" THEN outpaced ELSE outpaced \cup {g}
  /\ UNCHANGED <<shielded, live, finalized, closing, tornGroups>>

RoleCreated(g) ==
  /\ caller[g] = "creating" /\ answer[g]["caller"] = "ok"
  /\ IF LastRole(g, "caller")
     THEN Leaves(g, "caller") /\ Moves(g, "running") /\ UNCHANGED outpaced
     ELSE /\ Sends(g, "caller", "create", at[g]["caller"] + 1)
          /\ outpaced' = IF closing = "off" THEN outpaced ELSE outpaced \cup {g}
          /\ UNCHANGED caller
  /\ UNCHANGED <<shielded, live, finalized, index, groupLoad, closing, tornGroups, troubles>>

\* The except clause of create_session: a shielded abort of every role, which
\* returns at once when the group is gone.
CreateUnwinds(g) ==
  IF index[g] = NoIndex
  THEN Leaves(g, "caller") /\ EndsFailed(g) /\ Drop(g) /\ UNCHANGED shielded
  ELSE BeginsAbort(g, "unwinding", TRUE)

CreateRoleFails(g) ==
  /\ caller[g] = "creating" /\ answer[g]["caller"] = "raised"
  /\ CreateUnwinds(g)
  /\ UNCHANGED <<live, finalized, closing, tornGroups, outpaced, troubles>>

\* The shielded abort has ended: drop once more, and raise.
Unwound(g) ==
  /\ caller[g] = "unwinding" /\ at[g]["abort"] = 0
  /\ Drop(g) /\ EndsFailed(g)
  /\ UNCHANGED <<at, shielded, answer, inbox, live, finalized, closing, tornGroups, outpaced, troubles>>

\* The runner returned; a group that shutdown() forgot raises.
RunnerReturns(g) ==
  /\ caller[g] = "running"
  /\ IF index[g] = NoIndex
     THEN EndsFailed(g) /\ UNCHANGED <<at, answer, inbox>>
     ELSE Sends(g, "caller", "finalize", 1) /\ Moves(g, "finalizing")
  /\ UNCHANGED <<shielded, live, finalized, index, groupLoad, closing, tornGroups, outpaced, troubles>>

\* The runner raised: the framework awaits abort_session.
RunnerRaises(g) ==
  /\ caller[g] = "running"
  /\ IF index[g] = NoIndex
     THEN EndsFailed(g) /\ UNCHANGED <<at, answer, inbox, shielded, index, groupLoad>>
     ELSE BeginsAbort(g, "aborting", FALSE)
  /\ UNCHANGED <<live, finalized, closing, tornGroups, outpaced, troubles>>

-----------------------------------------------------------------------------
(* finalize_session. *)

RoleFinalized(g) ==
  /\ caller[g] = "finalizing" /\ answer[g]["caller"] = "ok"
  /\ IF LastRole(g, "caller")
     THEN Leaves(g, "caller") /\ Moves(g, "ok") /\ Drop(g)
     ELSE /\ Sends(g, "caller", "finalize", at[g]["caller"] + 1)
          /\ UNCHANGED <<caller, index, groupLoad>>
  /\ UNCHANGED <<shielded, live, finalized, closing, tornGroups, outpaced, troubles>>

\* A role cannot be finalized: abort all of them, the handed-out ones included.
FinalizeRoleFails(g) ==
  /\ caller[g] = "finalizing" /\ answer[g]["caller"] = "raised"
  /\ Sends(g, "caller", "abort", 1) /\ Moves(g, "sweeping")
  /\ UNCHANGED <<shielded, live, finalized, index, groupLoad, closing, tornGroups, outpaced, troubles>>

-----------------------------------------------------------------------------
(* _abort_group_sessions: the next role whatever the actor answered; the    *)
(* group is dropped behind it.                                             *)

Swept(g, p) ==
  /\ at[g][p] > 0 /\ Answered(g, p)
  /\ tornGroups' = IF answer[g][p] = "raised" THEN tornGroups \cup {g} ELSE tornGroups
  /\ IF LastRole(g, p) THEN Leaves(g, p) ELSE Sends(g, p, "abort", at[g][p] + 1)

\* In finalize_session.
SweepAfterFinalize(g) ==
  /\ caller[g] = "sweeping"
  /\ Swept(g, "caller")
  /\ IF LastRole(g, "caller") THEN Drop(g) /\ EndsFailed(g) ELSE UNCHANGED <<index, groupLoad, caller>>
  /\ UNCHANGED <<shielded, live, finalized, closing, outpaced, troubles>>

\* In abort_session, which the caller awaits, or has left.
SweepOfAbort(g) ==
  /\ Swept(g, "abort")
  /\ IF LastRole(g, "abort")
     THEN Drop(g) /\ (IF caller[g] = "aborting" THEN EndsFailed(g) ELSE UNCHANGED caller)
     ELSE UNCHANGED <<index, groupLoad, caller>>
  /\ UNCHANGED <<shielded, live, finalized, closing, outpaced, troubles>>

-----------------------------------------------------------------------------
(* Cancellation of the caller at each of its awaits. *)

CancelCreate(g) ==
  caller[g] = "creating" /\ CreateUnwinds(g) /\ UNCHANGED tornGroups

\* The shielded abort goes on; the group is forgotten at once.
CancelUnwinding(g) ==
  /\ caller[g] = "unwinding"
  /\ Drop(g) /\ EndsFailed(g)
  /\ UNCHANGED <<at, shielded, answer, inbox, tornGroups>>

CancelRunner(g) ==
  /\ caller[g] = "running"
  /\ IF index[g] = NoIndex
     THEN EndsFailed(g) /\ UNCHANGED <<at, answer, inbox, shielded, index, groupLoad>>
     ELSE BeginsAbort(g, "aborting", TRUE)
  /\ UNCHANGED tornGroups

CancelFinalize(g) ==
  /\ caller[g] = "finalizing"
  /\ Sends(g, "caller", "abort", 1) /\ Moves(g, "sweeping")
  /\ UNCHANGED <<shielded, index, groupLoad, tornGroups>>

\* The sweep of finalize_session is not shielded: the roles behind it stay, and
\* the framework's own abort finds the group gone.
CancelSweep(g) ==
  /\ caller[g] = "sweeping"
  /\ Leaves(g, "caller") /\ Drop(g) /\ EndsFailed(g)
  /\ tornGroups' = tornGroups \cup {g}
  /\ UNCHANGED shielded

\* An awaited abort ends with its caller, behind the role it has come to; a
\* shielded one goes on.
CancelAbort(g) ==
  /\ caller[g] = "aborting" /\ EndsFailed(g)
  /\ IF shielded[g] THEN UNCHANGED <<at, answer, inbox, index, groupLoad, tornGroups>>
     ELSE Leaves(g, "abort") /\ Drop(g) /\ tornGroups' = tornGroups \cup {g}
  /\ UNCHANGED shielded

CancelCaller(g) ==
  /\ Trouble
  /\ \/ CancelCreate(g) \/ CancelUnwinding(g) \/ CancelRunner(g)
     \/ CancelFinalize(g) \/ CancelSweep(g) \/ CancelAbort(g)
  /\ UNCHANGED <<live, finalized, closing, outpaced>>

-----------------------------------------------------------------------------
(* shutdown(). *)

\* The groups of this moment are swept side by side.
BeginShutdown ==
  /\ closing = "off" /\ closing' = "sweeping"
  /\ at' = [g \in Groups |-> [at[g] EXCEPT !["shutdown"] = IF index[g] = NoIndex THEN 0 ELSE 1]]
  /\ inbox' = [g \in Groups |->
       IF index[g] = NoIndex THEN inbox[g]
       ELSE [inbox[g] EXCEPT ![1] = Append(@, [op |-> "abort", by |-> "shutdown"])]]
  /\ UNCHANGED <<caller, shielded, answer, live, finalized, index, groupLoad, tornGroups, outpaced, troubles>>

SweepOfShutdown(g) ==
  /\ Swept(g, "shutdown")
  /\ UNCHANGED <<caller, shielded, live, finalized, index, groupLoad, closing, outpaced, troubles>>

\* The actors' servers are told to stop.
StopActors ==
  /\ closing = "sweeping" /\ \A g \in Groups : at[g]["shutdown"] = 0
  /\ closing' = "stopping"
  /\ UNCHANGED <<caller, at, shielded, answer, inbox, live, finalized, index, groupLoad, tornGroups, outpaced, troubles>>

\* A cancelled shutdown stops the actors without the rest of the sweeps.
CancelShutdown ==
  LET unswept == {g \in Groups : at[g]["shutdown"] > 0} IN
  /\ closing = "sweeping" /\ unswept # {} /\ Trouble
  /\ closing' = "stopping" /\ tornGroups' = tornGroups \cup unswept
  /\ at' = [g \in Groups |-> [at[g] EXCEPT !["shutdown"] = 0]]
  /\ answer' = [g \in Groups |-> [answer[g] EXCEPT !["shutdown"] = "none"]]
  /\ inbox' = [g \in Groups |-> [r \in Roles |-> Disowned(inbox[g][r], {"shutdown"})]]
  /\ UNCHANGED <<caller, shielded, live, finalized, index, groupLoad, outpaced>>

\* The pool is cleared and the groups are forgotten in one step.
ShutDown ==
  /\ closing = "stopping" /\ closing' = "down"
  /\ index' = [g \in Groups |-> NoIndex] /\ groupLoad' = [i \in Pool |-> 0]
  /\ UNCHANGED <<caller, at, shielded, answer, inbox, live, finalized, tornGroups, outpaced, troubles>>

-----------------------------------------------------------------------------
(* The Gateway actors. *)

Reply(g, r, result) ==
  LET by == Head(inbox[g][r]).by IN
  /\ inbox' = [inbox EXCEPT ![g][r] = Tail(@)]
  /\ answer' = IF by = "nobody" THEN answer ELSE [answer EXCEPT ![g][by] = result]

Serve(g, r) ==
  LET here == <<g, r>> \in live
      op == Head(inbox[g][r]).op
  IN /\ inbox[g][r] # <<>>
     /\ \/ /\ op = "create" /\ ~here /\ closing # "down"
           /\ Reply(g, r, "ok") /\ live' = live \cup {<<g, r>>} /\ UNCHANGED finalized
        \/ /\ op = "create" /\ (here \/ closing \in {"stopping", "down"})
           /\ Reply(g, r, "raised") /\ UNCHANGED <<live, finalized>>
        \/ /\ op = "finalize" /\ here
           /\ Reply(g, r, "ok") /\ live' = live \ {<<g, r>>}
           /\ finalized' = finalized \cup {<<g, r>>}
        \/ /\ op = "finalize" /\ ~here
           /\ Reply(g, r, "raised") /\ UNCHANGED <<live, finalized>>
        \/ /\ op = "abort"
           /\ Reply(g, r, "ok") /\ live' = live \ {<<g, r>>} /\ UNCHANGED finalized
  /\ UNCHANGED <<caller, at, shielded, index, groupLoad, closing, tornGroups, outpaced, troubles>>

\* A call fails inside the actor, before it changed anything.
ServeFails(g, r) ==
  /\ inbox[g][r] # <<>> /\ Trouble /\ Reply(g, r, "raised")
  /\ UNCHANGED <<caller, at, shielded, live, finalized, index, groupLoad, closing, tornGroups, outpaced>>

-----------------------------------------------------------------------------
(* Nothing is left to do: the rollouts that were begun are over. *)
Quiet(g) ==
  /\ caller[g] \in CallerOver
  /\ \A p \in Parties : at[g][p] = 0
  /\ \A r \in Roles : inbox[g][r] = <<>>

GroupsOver ==
  /\ closing = "down" /\ \A g \in Groups : caller[g] = "idle" \/ Quiet(g)
  /\ UNCHANGED groupvars

GroupNext ==
  \/ \E g \in Groups :
       \/ CreateGroup(g) \/ RoleCreated(g) \/ CreateRoleFails(g) \/ Unwound(g)
       \/ RunnerReturns(g) \/ RunnerRaises(g)
       \/ RoleFinalized(g) \/ FinalizeRoleFails(g) \/ SweepAfterFinalize(g)
       \/ SweepOfAbort(g) \/ SweepOfShutdown(g) \/ CancelCaller(g)
       \/ \E r \in Roles : Serve(g, r) \/ ServeFails(g, r)
  \/ BeginShutdown \/ StopActors \/ CancelShutdown \/ ShutDown
  \/ GroupsOver

GroupSpec == GroupInit /\ [][GroupNext]_groupvars

-----------------------------------------------------------------------------
(* Properties. *)

\* The type invariant.
GroupTypeOK ==
  /\ caller \in [Groups -> CallerOver \cup {"idle", "creating", "unwinding", "running",
                                            "finalizing", "sweeping", "aborting"}]
  /\ at \in [Groups -> [Parties -> 0..RoleCount]]
  /\ shielded \in [Groups -> BOOLEAN]
  /\ answer \in [Groups -> [Parties -> {"none", "ok", "raised"}]]
  /\ live \subseteq Groups \X Roles /\ finalized \subseteq Groups \X Roles
  /\ index \in [Groups -> Pool \cup {NoIndex}] /\ groupLoad \in [Pool -> Nat]
  /\ closing \in {"off", "sweeping", "stopping", "down"}
  /\ tornGroups \subseteq Groups /\ outpaced \subseteq Groups
  /\ troubles \in 0..GroupTroubles

\* The load of a gateway is the number of groups placed on it, whichever of the
\* caller, its shielded abort and finalize's own sweep drops a group, and in
\* whatever order (multi_agent_gateway_manager.py:246-251).
GroupLoadExact ==
  \A i \in Pool : groupLoad[i] = Cardinality({g \in Groups : index[g] = i})

\* A rollout that is over leaves no role session with an actor and no place in
\* the load, also when it was cancelled while a role was being created or
\* finalized, and again while it aborted.  Excluded by name: a sweep that was
\* itself cancelled or met an actor error (tornGroups), and a group that created
\* roles behind the sweep of a shutdown (outpaced).
GroupsReleased ==
  \A g \in Groups \ (tornGroups \cup outpaced) :
    Quiet(g) => index[g] = NoIndex /\ \A r \in Roles : <<g, r>> \notin live

\* A group is used for training with the trajectories of all its roles or not
\* at all, whatever aborts its sessions while it finalizes
\* (multi_agent_gateway_manager.py:187 "A partially finalized group cannot be
\* retried or used for training").
WholeGroups ==
  \A g \in Groups : caller[g] = "ok" => \A r \in Roles : <<g, r>> \in finalized

\* Each group is placed, served and released as a whole.
GroupsSound == GroupTypeOK /\ GroupLoadExact /\ GroupsReleased /\ WholeGroups

=============================================================================
