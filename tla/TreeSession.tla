---------------------------- MODULE TreeSession ----------------------------
(***************************************************************************)
(* One gateway session that keeps its trajectories as a tree of generations *)
(* ("Tree mode"): gateway/session/tree_session.py.                          *)
(*                                                                         *)
(* An action is the code between two awaits, as in GatewaySession.  There   *)
(* are no reservations: a generation mounts a pending node in the tree      *)
(* before the backend is called, completes it at the commit, or takes it    *)
(* out again.  A request mounts at most one node, so the node has its name. *)
(*                                                                         *)
(* A token is <<n, k>>: the k-th that was sampled for node n, or context    *)
(* that came with the node when k = 0.                                     *)
(***************************************************************************)
EXTENDS Integers, Sequences, FiniteSets, SequencesExt

CONSTANTS
  Requests,    \* the HTTP calls made to the session, one task each
  Messages,    \* every message, of any role
  Assistants,  \* the messages whose role is assistant
  Replies,     \* what decode_response can make of a generation
  Prompts,     \* the message lists a client may send
  Scopes,      \* records of the tools and the agent_context of a request
  GenLens,     \* the number of tokens a generation can have
  Trims,       \* tokens a context merge may remove from what it continues
  Capacity,    \* prompt_length + response_length
  Rollback,    \* enable_last_assistant_rollback
  Coalesce,    \* coalesce_reserved_exact_requests
  MaxFaults,   \* bound: failures and cancellations in one behaviour
  None         \* not a request: the root, no owner, no backup, lock free

ASSUME MessagesAssumption ==
  /\ Replies \subseteq Assistants
  /\ Assistants \subseteq Messages
  /\ Prompts \subseteq {m \in Seq(Messages) : Len(m) > 0}

\* A prompt never ends with an assistant message, as in GatewaySession.
ASSUME NoPrefillAssumption == \A m \in Prompts : m[Len(m)] \notin Assistants

ASSUME ParametersAssumption ==
  /\ {Capacity, MaxFaults} \subseteq Nat
  /\ GenLens \subseteq Nat
  /\ Trims \subseteq Nat
  /\ {Rollback, Coalesce} \subseteq BOOLEAN
  /\ None \notin Requests /\ IsFiniteSet(Requests)

VARIABLES
  phase,          \* SessionPhase of the session
  tree,           \* the nodes that are linked to the root
  node,           \* MessageNode of each request
  leaves,         \* the registry of chains, in its order
  inflight,       \* _inflight_exact_requests: the owner of each fingerprint
  next_chain_id,  \* _next_chain_id
  dropped,        \* _rollback_dropped_trainable_tokens_total
  result,         \* the trajectories that finalize returns
  lock,           \* the task that holds request_lock across an await
  closer,         \* finalize or abort, while it writes the tree to storage
  pc,             \* where each task is
  req,            \* the request of each task, which is also its fingerprint
  mounted,        \* _MountedGeneration of each task
  future,         \* InflightRequest.future of each owner
  waiters,        \* InflightRequest.waiter_count of each owner
  joined,         \* the owner a coalesced task joined
  faults          \* failures and cancellations so far, bounded by MaxFaults

session == <<phase, tree, node, leaves, next_chain_id, dropped, result>>
sharing == <<inflight, future, waiters, joined>>
vars    == <<session, sharing, lock, closer, pc, req, mounted, faults>>

NoChain == 0
Request == [msgs : Prompts, scope : Scopes]
Tokens == Requests \X Nat
Trajectory == [prompt : Seq(Tokens), resp : Seq(Tokens)]

NoTrajectory == [prompt |-> << >>, resp |-> << >>]
NoMount == [ctx |-> << >>, backup |-> None]
NoNode == [status |-> "ABSENT", path |-> << >>, hist |-> << >>, scope |-> None,
           prompt |-> 0, trim |-> 0, resp |-> 0, chain |-> NoChain,
           coalesced |-> 0, dropped |-> 0]

Prefix(s, n) == SubSeq(s, 1, n)
Monus(m, n) == IF m < n THEN 0 ELSE m - n

-----------------------------------------------------------------------------
(* The tree.                                                               *)

\* The nodes from the root's child to n, and the messages on that path: the
\* deltas of the code, put together.
Path(n) == IF n = None THEN << >> ELSE node[n].path
Hist(n) == IF n = None THEN << >> ELSE node[n].hist

Parent(n) == IF Len(Path(n)) = 1 THEN None ELSE Path(n)[Len(Path(n)) - 1]
Children(n) == {c \in tree : Parent(c) = n}
Subtree(n) == IF n = None THEN tree ELSE {m \in tree : n \in ToSet(Path(m))}

\* The place of a chain tip in the registry, 0 for another node.
OrderOf(n) ==
  IF \E i \in 1..Len(leaves) : leaves[i].tip = n
  THEN CHOOSE i \in 1..Len(leaves) : leaves[i].tip = n
  ELSE 0

IsTip(n) == n # None /\ OrderOf(n) > 0

\* leaves.pop(chain, None), and leaves[entry.chain] = entry after it.
Unregister(chain) ==
  IF \E i \in 1..Len(leaves) : leaves[i].chain = chain
  THEN RemoveAt(leaves, CHOOSE i \in 1..Len(leaves) : leaves[i].chain = chain)
  ELSE leaves

Register(entry) == Append(Unregister(entry.chain), entry)

PromptTokens(n) == [i \in 1..node[n].prompt |-> <<n, 0>>]
SampledTokens(n) == [i \in 1..node[n].resp |-> <<n, i>>]

\* The context a node passes on: what its merge removed, what it added.
Extended(ctx, n) ==
  Prefix(ctx, Monus(Len(ctx), node[n].trim)) \o PromptTokens(n) \o SampledTokens(n)

ContextOf(n) ==
  LET path == Path(n)
      ctx[i \in 0..Len(path)] == IF i = 0 THEN << >> ELSE Extended(ctx[i - 1], path[i])
  IN  ctx[Len(path)]

\* Mutant: the history of other chains is trained as well.
ChainStartAtRoot(path, chain) == 1

\* The first node of the path that belongs to the chain.
ChainStart(path, chain) ==
  CHOOSE i \in 1..Len(path) :
    /\ node[path[i]].chain = chain
    /\ \A j \in 1..(i - 1) : node[path[j]].chain # chain

\* The last n tokens go, of the response first.
Trimmed(t, n) ==
  [prompt |-> Prefix(t.prompt, Monus(Len(t.prompt), Monus(n, Len(t.resp)))),
   resp   |-> Prefix(t.resp, Monus(Len(t.resp), n))]

\* A node of the path: before the chain starts, and for its first node, all is
\* prompt; then the generations of the chain and what came between them.
Added(t, m, starts, generation) ==
  LET s == Trimmed(t, node[m].trim)
      own == IF starts THEN << >> ELSE s.resp \o PromptTokens(m)
  IN  [prompt |-> IF starts THEN s.prompt \o s.resp \o PromptTokens(m) ELSE s.prompt,
       resp   |-> IF generation THEN own \o SampledTokens(m) ELSE own]

\* _linearize_path of the chain that n belongs to, with the generation of n or
\* without it.
Linearize(n, generation) ==
  LET path == Path(n)
      start == ChainStart(path, node[n].chain)
      t[i \in 0..Len(path)] ==
        IF i = 0 THEN NoTrajectory
                 ELSE Added(t[i - 1], path[i], i = start, i < Len(path) \/ generation)
  IN  t[Len(path)]

-----------------------------------------------------------------------------
(* _mount_generation: where a request continues the tree.                   *)

Visible(n, q) == node[n].status = "COMPLETED" /\ node[n].scope = q.scope

\* The root, and the completed nodes whose whole history the request repeats.
Matching(q) ==
  {None} \cup {n \in tree : Visible(n, q) /\ IsPrefix(Hist(n), q.msgs)}

\* Children that differ from the request in their last message only.
Rewritten(p, q) ==
  {c \in Children(p) :
     /\ Visible(c, q)
     /\ Len(Hist(c)) <= Len(q.msgs)
     /\ Prefix(q.msgs, Len(Hist(c)) - 1) = Prefix(Hist(c), Len(Hist(c)) - 1)
     /\ q.msgs[Len(Hist(c))] # Hist(c)[Len(Hist(c))]}

\* assistant_candidates: the longest of them.
Candidates(p, q) ==
  {c \in Rewritten(p, q) :
     \A d \in Rewritten(p, q) : Len(Hist(d)) <= Len(Hist(c))}

Endpoints(q) ==
  {p \in Matching(q) :
     Candidates(p, q) # {} \/ Children(p) \cap Matching(q) = {}}

\* Messages that an endpoint agrees with.
MatchLength(p, q) ==
  IF Candidates(p, q) = {} THEN Len(Hist(p))
  ELSE Len(Hist(CHOOSE c \in Candidates(p, q) : TRUE)) - 1

\* Generations between n and the nearest node without children below it.
Depth(n) ==
  LET below == {m \in Subtree(n) \cup {n} : Children(m) = {}}
      distance(m) == Len(Path(m)) - Len(Path(n))
  IN  distance(CHOOSE m \in below : \A k \in below : distance(m) <= distance(k))

\* The latest commit at n or below it.
LatestCommit(n) ==
  LET orders == {OrderOf(m) : m \in (Subtree(n) \cup {n}) \ {None}} \cup {0}
  IN  CHOOSE o \in orders : \A k \in orders : k <= o

\* _select_from_multiple_matches
Preferred(p, s, q) ==
  \/ MatchLength(p, q) > MatchLength(s, q)
  \/ /\ MatchLength(p, q) = MatchLength(s, q)
     /\ \/ Candidates(p, q) = {} /\ Candidates(s, q) # {}
        \/ /\ Candidates(p, q) = {} <=> Candidates(s, q) = {}
           /\ \/ Depth(p) < Depth(s)
              \/ Depth(p) = Depth(s) /\ LatestCommit(p) > LatestCommit(s)

\* Endpoints that still tie have no committed chain below; the code takes the
\* first child.
Selected(q) ==
  {p \in Endpoints(q) : \A s \in Endpoints(q) : ~Preferred(s, p, q)}

\* merge_candidate: the chain tip whose generation the request replaces.
Backup(p, q) ==
  LET tips == {c \in Candidates(p, q) : IsTip(c)}
      pending == {c \in Children(p) : /\ node[c].status = "PENDING"
                                      /\ node[c].scope.agent = q.scope.agent}
  IN  IF /\ Rollback /\ Cardinality(tips) = 1 /\ pending = {}
         /\ \A c \in tips : Children(c) = {}
      THEN CHOOSE c \in tips : TRUE
      ELSE None

\* The chain the generation goes to, NoChain for a new one.
ContinuedChain(p, backup) ==
  IF backup # None THEN node[backup].chain
  ELSE IF IsTip(p) /\ Children(p) = {} THEN node[p].chain ELSE NoChain

\* The pending node of r: the request's unmatched messages and the generation
\* prompt, a token each.
MountedNode(r, p, trim) ==
  LET q == req[r] IN
  [status |-> "PENDING", path |-> Append(Path(p), r), hist |-> q.msgs,
   scope |-> q.scope, prompt |-> Len(q.msgs) - Len(Hist(p)) + 1, trim |-> trim,
   resp |-> 0, chain |-> ContinuedChain(p, Backup(p, q)), coalesced |-> 0,
   dropped |-> 0]

\* context_ids
MountedContext(r, p, trim) ==
  Prefix(ContextOf(p), Monus(Len(ContextOf(p)), trim))
    \o [i \in 1..(Len(req[r].msgs) - Len(Hist(p)) + 1) |-> <<r, 0>>]

-----------------------------------------------------------------------------
(* Committing and closing chains.                                          *)

\* The open chains: the tip of each is a node.
Open == {i \in 1..Len(leaves) : leaves[i].tip # None}

TipOf(chain) ==
  IF \E i \in Open : leaves[i].chain = chain
  THEN leaves[CHOOSE i \in Open : leaves[i].chain = chain].tip
  ELSE None

\* remaining_capacity, to which max_tokens is clamped.
Remaining(ctx) == Capacity - Len(ctx)

ChainOf(r) == IF node[r].chain = NoChain THEN next_chain_id ELSE node[r].chain

DroppedBy(backup) == IF backup = None THEN 0 ELSE node[backup].resp

\* The counters of a chain move with its tip.
CompletedNode(r, reply, n) ==
  LET tip == TipOf(node[r].chain) IN
  [node[r] EXCEPT
     !.status = "COMPLETED", !.hist = Append(@, reply), !.resp = n, !.chain = ChainOf(r),
     !.coalesced = waiters[r] + (IF tip = None THEN 0 ELSE node[tip].coalesced),
     !.dropped = DroppedBy(mounted[r].backup) + (IF tip = None THEN 0 ELSE node[tip].dropped)]

Entry(chain, tip, trajectory, coalesced) ==
  [chain |-> chain, tip |-> tip, traj |-> trajectory, coalesced |-> coalesced]

\* _linearize_path of an open chain, or the trajectory of a closed one.
Materialized(l) ==
  IF l.tip = None THEN l
  ELSE [l EXCEPT !.traj = Linearize(l.tip, TRUE), !.coalesced = node[l.tip].coalesced,
                 !.tip = None]

\* The rewritten generation is left out, and the generation prompt before it.
WithoutGeneration(n) ==
  LET t == Linearize(n, FALSE)
  IN  [t EXCEPT !.resp = Prefix(@, Len(@) - 1)]

\* _close_length_exhausted_chain.  A chain of which nothing is left is dropped.
CloseExhausted(chain, tip, backup) ==
  /\ leaves' =
       IF backup = None
       THEN Register(Entry(chain, None, Linearize(tip, TRUE), node[tip].coalesced))
       ELSE IF Linearize(backup, FALSE).resp = << >>
       THEN Unregister(chain)
       ELSE Register(Entry(chain, None, WithoutGeneration(backup), node[backup].coalesced))
  /\ dropped' = dropped + DroppedBy(backup)

-----------------------------------------------------------------------------
(* run_generation.                                                         *)

Init ==
  /\ phase = "ACTIVE"
  /\ tree = {}
  /\ node = [r \in Requests |-> NoNode]
  /\ leaves = << >>
  /\ inflight = [q \in Request |-> None]
  /\ next_chain_id = 1
  /\ dropped = 0
  /\ result = << >>
  /\ lock = None
  /\ closer = "idle"
  /\ pc = [r \in Requests |-> "queued"]
  /\ req \in [Requests -> Request]
  /\ mounted = [r \in Requests |-> NoMount]
  /\ future = [r \in Requests |-> [state |-> "none", chain |-> NoChain]]
  /\ waiters = [r \in Requests |-> 0]
  /\ joined = [r \in Requests |-> None]
  /\ faults = 0

Free == lock = None /\ closer = "idle"

GoTo(r, label) == pc' = [pc EXCEPT ![r] = label]

\* _resolve_inflight_exact_request
Resolve(r, state, chain) ==
  IF Coalesce /\ inflight[req[r]] = r
  THEN /\ inflight' = [inflight EXCEPT ![req[r]] = None]
       /\ future' = [future EXCEPT ![r] = [state |-> state, chain |-> chain]]
  ELSE UNCHANGED <<inflight, future>>

\* The session is closed: 409.
Reject(r) ==
  /\ pc[r] = "queued"
  /\ Free
  /\ phase # "ACTIVE"
  /\ GoTo(r, "failed")
  /\ UNCHANGED <<session, sharing, lock, closer, req, mounted, faults>>

\* An identical request is in flight: share its result.
Join(r) ==
  LET owner == inflight[req[r]] IN
  /\ pc[r] = "queued"
  /\ Free
  /\ phase = "ACTIVE"
  /\ Coalesce
  /\ owner # None
  /\ waiters' = [waiters EXCEPT ![owner] = @ + 1]
  /\ joined' = [joined EXCEPT ![r] = owner]
  /\ GoTo(r, "waiting")
  /\ UNCHANGED <<session, inflight, future, lock, closer, req, mounted, faults>>

\* Register as the owner of the fingerprint and start to mount: the media are
\* extracted with the lock held.
StartMount(r) ==
  /\ pc[r] = "queued"
  /\ Free
  /\ phase = "ACTIVE"
  /\ ~(Coalesce /\ inflight[req[r]] # None)
  /\ IF Coalesce
     THEN /\ inflight' = [inflight EXCEPT ![req[r]] = r]
          /\ future' = [future EXCEPT ![r].state = "pending"]
     ELSE UNCHANGED <<inflight, future>>
  /\ lock' = r
  /\ GoTo(r, "mounting")
  /\ UNCHANGED <<session, waiters, joined, closer, req, mounted, faults>>

\* Nothing but the lock holder changes the tree, so selecting at the end of the
\* extraction selects what its start would have.  A generation takes the place
\* of the one it rewrites.
Mount(r) ==
  /\ pc[r] = "mounting"
  /\ \E p \in Selected(req[r]) : \E trim \in IF p = None THEN {0} ELSE Trims :
      LET backup == Backup(p, req[r])
          ctx == MountedContext(r, p, trim)
      IN  /\ Remaining(ctx) > 0
          /\ node' = [node EXCEPT ![r] = MountedNode(r, p, trim)]
          /\ tree' = (tree \cup {r}) \ {backup}
          /\ mounted' = [mounted EXCEPT ![r] = [ctx |-> ctx, backup |-> backup]]
          /\ lock' = None
          /\ GoTo(r, "generating")
          /\ UNCHANGED <<phase, leaves, next_chain_id, dropped, result, sharing,
                         closer, req, faults>>

\* No generation fits: the chain it would go to is closed, the node is taken
\* out again and the client is told "length".
ExhaustCapacity(r) ==
  /\ pc[r] = "mounting"
  /\ \E p \in Selected(req[r]) : \E trim \in IF p = None THEN {0} ELSE Trims :
      LET backup == Backup(p, req[r])
          chain == ContinuedChain(p, backup)
      IN  /\ Remaining(MountedContext(r, p, trim)) <= 0
          /\ IF TipOf(chain) = None
             THEN UNCHANGED <<leaves, dropped>>
             ELSE CloseExhausted(chain, TipOf(chain), backup)
          /\ Resolve(r, "ok", chain)
          /\ lock' = None
          /\ GoTo(r, "length")
          /\ UNCHANGED <<phase, tree, node, next_chain_id, result, waiters, joined,
                         closer, req, mounted, faults>>

\* backend.generate, the only await outside the lock, has returned: take the lock
\* again and decode the response under it.
StartCommit(r) ==
  /\ pc[r] = "generating"
  /\ Free
  /\ phase = "ACTIVE"
  /\ lock' = r
  /\ GoTo(r, "decoding")
  /\ UNCHANGED <<session, sharing, closer, req, mounted, faults>>

\* Complete the node, register it as the tip of its chain and wake the waiters:
\* no await separates these.
Commit(r) ==
  \E reply \in Replies, n \in GenLens :
    /\ pc[r] = "decoding"
    /\ n <= Remaining(mounted[r].ctx)
    /\ node' = [node EXCEPT ![r] = CompletedNode(r, reply, n)]
    /\ next_chain_id' = IF node[r].chain = NoChain THEN next_chain_id + 1 ELSE next_chain_id
    /\ leaves' = Register(Entry(ChainOf(r), r, NoTrajectory, 0))
    /\ dropped' = dropped + DroppedBy(mounted[r].backup)
    /\ Resolve(r, "ok", ChainOf(r))
    /\ lock' = None
    /\ GoTo(r, "ok")
    /\ UNCHANGED <<phase, tree, result, waiters, joined, closer, req, mounted, faults>>

\* The session was closed while the backend generated: 409.
CommitTooLate(r) ==
  /\ pc[r] = "generating"
  /\ Free
  /\ phase # "ACTIVE"
  /\ GoTo(r, "unwinding")
  /\ UNCHANGED <<session, sharing, lock, closer, req, mounted, faults>>

\* A failure of the codec under the lock, or a cancellation, before a node is
\* mounted.  A waiter may be cancelled: its owner is shielded.
FailUnmounted(r) ==
  /\ pc[r] \in {"queued", "mounting", "waiting"}
  /\ faults < MaxFaults
  /\ faults' = faults + 1
  /\ lock' = IF lock = r THEN None ELSE lock
  /\ Resolve(r, "failed", NoChain)
  /\ GoTo(r, "failed")
  /\ UNCHANGED <<session, waiters, joined, closer, req, mounted>>

\* A failure of the backend, the merge or the decoder, or a cancellation.
FailMounted(r) ==
  /\ pc[r] \in {"generating", "decoding"}
  /\ faults < MaxFaults
  /\ faults' = faults + 1
  /\ lock' = IF lock = r THEN None ELSE lock
  /\ GoTo(r, "unwinding")
  /\ UNCHANGED <<session, sharing, closer, req, mounted>>

\* Mutant: the generation that was replaced is not put back.
RollbackTargetOnly(r) == IF phase = "ACTIVE" THEN tree \ {r} ELSE tree

\* _rollback_mounted_branch_locked; nothing is left of the tree after a close.
RolledBack(r) ==
  IF phase = "ACTIVE" THEN (tree \ {r}) \cup ({mounted[r].backup} \ {None}) ELSE tree

\* except BaseException: take the node out under the lock, then fail the waiters.
\* A cancellation that arrives while it waits for the lock only starts it again.
Unwind(r) ==
  /\ pc[r] = "unwinding"
  /\ Free
  /\ tree' = RolledBack(r)
  /\ Resolve(r, "failed", NoChain)
  /\ GoTo(r, "failed")
  /\ UNCHANGED <<phase, node, leaves, next_chain_id, dropped, result, waiters, joined,
                 lock, closer, req, mounted, faults>>

\* The future a coalesced request shields is done.
Wake(r) ==
  /\ pc[r] = "waiting"
  /\ future[joined[r]].state \in {"ok", "failed"}
  /\ GoTo(r, future[joined[r]].state)
  /\ UNCHANGED <<session, sharing, lock, closer, req, mounted, faults>>

-----------------------------------------------------------------------------
(* finalize and abort, which write the tree with the lock held.             *)

StartFinalize ==
  /\ Free
  /\ phase = "ACTIVE"
  /\ closer' = "FINALIZED"
  /\ result' = [i \in 1..Len(leaves) |-> Materialized(leaves[i])]
  /\ UNCHANGED <<phase, tree, node, leaves, next_chain_id, dropped, sharing, lock, pc,
                 req, mounted, faults>>

StartAbort ==
  /\ Free
  /\ phase = "ACTIVE"
  /\ closer' = "ABORTED"
  /\ UNCHANGED <<session, sharing, lock, pc, req, mounted, faults>>

\* The writer is done, or failed.
FinishClose ==
  /\ closer # "idle"
  /\ phase' = closer
  /\ closer' = "idle"
  /\ tree' = {}
  /\ leaves' = << >>
  /\ UNCHANGED <<node, next_chain_id, dropped, result, sharing, lock, pc, req, mounted,
                 faults>>

\* A cancellation while the writer ran: the session stays active.
CancelClose ==
  /\ closer # "idle"
  /\ faults < MaxFaults
  /\ faults' = faults + 1
  /\ closer' = "idle"
  /\ result' = << >>
  /\ UNCHANGED <<phase, tree, node, leaves, next_chain_id, dropped, sharing, lock, pc, req,
                 mounted>>

\* Every call has returned and the session is closed.
Terminated ==
  /\ phase # "ACTIVE"
  /\ \A r \in Requests : pc[r] \in {"ok", "length", "failed"}
  /\ UNCHANGED vars

Step(r) ==
  \/ Reject(r) \/ Join(r) \/ StartMount(r) \/ Mount(r) \/ ExhaustCapacity(r)
  \/ StartCommit(r) \/ Commit(r) \/ CommitTooLate(r) \/ Unwind(r) \/ Wake(r)

Next ==
  \/ \E r \in Requests : Step(r) \/ FailUnmounted(r) \/ FailMounted(r)
  \/ StartFinalize
  \/ StartAbort
  \/ FinishClose
  \/ CancelClose
  \/ Terminated

Spec == Init /\ [][Next]_vars

-----------------------------------------------------------------------------
(* Properties.                                                             *)

\* The node of r is mounted, and not committed.
Pending(r) == phase = "ACTIVE" /\ pc[r] \in {"generating", "decoding", "unwinding"}

\* Every variable has the type the code gives it.
TypeOK ==
  /\ phase \in {"ACTIVE", "FINALIZED", "ABORTED"}
  /\ tree \subseteq Requests
  /\ node \in [Requests ->
       [status : {"ABSENT", "PENDING", "COMPLETED"}, path : Seq(Requests),
        hist : Seq(Messages), scope : Scopes \cup {None}, prompt : Nat, trim : Nat,
        resp : Nat, chain : Nat, coalesced : Nat, dropped : Nat]]
  /\ \A s \in {leaves, result} :
       s \in Seq([chain : Nat \ {NoChain}, tip : Requests \cup {None},
                  traj : Trajectory, coalesced : Nat])
  /\ inflight \in [Request -> Requests \cup {None}]
  /\ next_chain_id \in Nat \ {NoChain}
  /\ dropped \in Nat
  /\ lock \in Requests \cup {None}
  /\ closer \in {"idle", "FINALIZED", "ABORTED"}
  /\ pc \in [Requests -> {"queued", "mounting", "waiting", "generating",
                          "decoding", "unwinding", "ok", "length", "failed"}]
  /\ req \in [Requests -> Request]
  /\ mounted \in [Requests -> [ctx : Seq(Tokens), backup : Requests \cup {None}]]
  /\ future \in [Requests -> [state : {"none", "pending", "ok", "failed"}, chain : Nat]]
  /\ waiters \in [Requests -> Nat]
  /\ joined \in [Requests -> Requests \cup {None}]
  /\ faults \in 0..MaxFaults

\* Without a reservation, one generation at a time still goes to a chain, and
\* the chain is not closed or moved meanwhile: its tip is what the pending node
\* continues or replaces ("Cannot commit to a closed chain" is never reached).
TipHeld ==
  \A r \in Requests : Pending(r) /\ node[r].chain # NoChain =>
    /\ TipOf(node[r].chain) =
         (IF mounted[r].backup = None THEN Parent(r) ELSE mounted[r].backup)
    /\ \A s \in Requests \ {r} : Pending(s) => node[s].chain # node[r].chain

\* "failed or cancelled generations remove their pending branch and restore any
\* temporarily replaced node": what is in the tree or held as a backup is, in
\* every state, each generation that was committed and not rewritten by a
\* committed one; and a pending node belongs to a running request.
CommittedTreeIntact ==
  phase = "ACTIVE" =>
    /\ \A n \in tree : node[n].status = "PENDING" => Pending(n)
    /\ \A n \in Requests : node[n].status = "COMPLETED" =>
         Cardinality({r \in Requests : mounted[r].backup = n
                        /\ (Pending(r) \/ node[r].status = "COMPLETED")})
           = (IF n \in tree THEN 0 ELSE 1)

\* Whatever is mounted, rolled back or closed, the tree holds the committed
\* generations and its chains the right tips.
TreeIntact == TypeOK /\ TipHeld /\ CommittedTreeIntact

\* The trajectories of the session so far, or those finalize returned.
Trajectories ==
  IF phase = "FINALIZED" THEN ToSet(result)
  ELSE {Materialized(leaves[i]) : i \in 1..Len(leaves)}

Trained(t) == {x \in ToSet(t.resp) : x[2] > 0}

CompletedNodes == {n \in Requests : node[n].status = "COMPLETED"}

\* "Each chain trains only its own generated tokens": no sampled token is
\* trained twice, and unless a merge trimmed it or a rewrite dropped (and
\* counted) it, it is trained, through forks, rollbacks and closed chains.
TokensTrainedOnce ==
  phase # "ABORTED" =>
    /\ \A l \in Trajectories :
         /\ \A x \in Trained(l.traj) : node[x[1]].chain = l.chain
         /\ Cardinality(Trained(l.traj))
              = Cardinality({i \in DOMAIN l.traj.resp : l.traj.resp[i][2] > 0})
    /\ (\A n \in Requests : node[n].trim = 0) =>
         Cardinality(UNION {Trained(l.traj) : l \in Trajectories}) + dropped
           = Cardinality(UNION {ToSet(SampledTokens(n)) : n \in CompletedNodes})

\* What a chain trains is what the backend was given for its last generation,
\* and the tokens it returned: no ancestor changes after a node is mounted.
TrainedAsSampled ==
  \A i \in Open :
    LET n == leaves[i].tip
        t == Linearize(n, TRUE)
    IN  t.prompt \o t.resp = mounted[n].ctx \o SampledTokens(n)

\* "Waiters are attributed to the owner's chain at successful commit": a chain
\* counts the requests its generations served, through its rewrites.
WaitersAttributed ==
  LET served(c) == Cardinality({w \in Requests : joined[w] # None
                                  /\ future[joined[w]] = [state |-> "ok", chain |-> c]})
  IN  \A l \in Trajectories : phase # "ABORTED" => l.coalesced = served(l.chain)

\* No trajectory is longer than prompt_length + response_length.
CapacityRespected ==
  \A l \in Trajectories : Len(l.traj.prompt) + Len(l.traj.resp) <= Capacity

\* Every sampled token is trained once, as it was sampled, in a chain that
\* counts the requests it served and fits.
TrainedOnce == TokensTrainedOnce /\ TrainedAsSampled /\ WaitersAttributed /\ CapacityRespected

=============================================================================
