# Verification of uni-agent

This directory holds TLA+ models of the parts of uni-agent whose correctness
depends on the order of events: the Gateway session that turns the HTTP calls of
an agent into training trajectories, in both its modes; the episode around it;
the books and the event streams of the agent-aware router; sandboxes and the
shell in them; agents, tasks and the kernel verifier; the logs of runs; and the
asynchronous multi-policy trainer with its checkpoints. The models are checked
with TLC on small instances; what matters most is also proved with TLAPS for
every value of the constants.

Everything is translated from the code under `src/`; `PROJECT.json` maps each
definition to the lines it stands for.

## The system

A trainer gives the **framework** (`framework/framework.py`) a batch of prompts.
Each prompt gets `rollout.n` *episodes*. An episode enters the semaphore of its
runner, asks the **manager** (`gateway/manager.py`) for a session, runs an agent
(as a Ray task or in the event loop), finalizes the session, scores its
trajectories and hands them to the TransferQueue. The manager places the session
on a **Gateway actor** (`gateway/gateway.py`), a process of its own, which
keeps a **session** object per session id. The agent talks to the actor over
HTTP in one of three wire formats; an **adapter** lowers each call to internal
messages, and a task runs `run_generation` of the session
(`gateway/session/session.py`, or `tree_session.py`). That prepares the token
sequence with the **codec**, calls the backend, and commits the generation. The
backend client asks the **router** (`agent_aware_router/`) for an inference
server for each call and tells it when the call is over; the router learns from
these calls and from the event streams of the engines.

What runs in an episode is a **task** (`tasks/`): it starts a **sandbox**
(`sandbox/`), lets an **agent** (`agents/`) work in it - a command-line program
or a loop of this library with **tools** (`tools/`) - and has the result tested.
A run's records go to its own **log** (`logging/`). The **multi-policy** example
(`examples/multi_policy`) trains several policies at once, with one Gateway
session per role, and saves and resumes.

| Part | State | Operations | What is hard |
|---|---|---|---|
| session, chain mode | active and closed chains, reservations, in-flight fingerprints, counters, a lock | run_generation, finalize, abort | calls of one session overlap; cancellation at each await; retries; rewrites; capacity |
| session, tree mode | a tree of messages with pending branches, leaves, a lock | the same | mounted branches roll back; a storage writer under the lock |
| codec, adapters | none across calls, but each request must extend the last | lower, respond, stream | blocks are split, merged and moved, yet histories must stay prefixes |
| Gateway actor | session table | create, finalize, abort, HTTP handlers | calls wait for the session lock; requests arrive late |
| manager | route of each session, load of each gateway | create, finalize, abort | counters across awaits, failures and cancellation |
| framework, episodes | semaphores, Ray tasks | run an episode, cancel a runner | time-out, cancellation and failure at each await |
| framework, batches | status of a uid and rows in the TransferQueue | run a batch, write | partial failure |
| router, balancer | pool, counters | acquire, release, add, remove, clear | calls outlive servers |
| router, stores and collectors | gauges, rows per request id, markers, references, resident blocks | callbacks of the balancer, engine events | two threads; lost releases; eviction; overlap of one id |
| router, strategy | hash checkpoint in the row | score and pick | stale inputs |
| router, event stream | sockets, hash map, rows | replay, subscribe, reconnect, stop | lost, repeated and reordered batches |
| sandbox lifecycle | startup slots | start with retries, stop | cancelled start and stop |
| agent_dx provider | Environment, lifecycle lock, creations in doubt, expiry | start, exec, stop | SDK threads outlive their callers |
| tools, shell | a tmux pane | type, poll, interrupt | what a command leaves in the pane |
| agents | turn and retry counters; a CLI in the sandbox | run | time-out, loss, reports of other runs |
| tasks | workspace, verdict | prepare, run, grade | what the agent left running |
| kernel task | best implementation and its metrics, hook state, device locks | verify, hooks, clean up, collect, score | kills between two files; processes that survive |
| logs | queue, files, root level | enter, emit, exit, fork | a full queue; overlapping runs |
| multi-policy trainer | prompts, weights, checkpoints, tracker | submit, sample, update, save, resume | crash between two files; prompts in flight at a save |
| session groups | a session per role, load | create, finalize, abort, shutdown | several tasks walk one group |

What makes them correct:

- *session*: a chain is continued by one call at a time; a commit overwrites
  what its call read; retries share one generation; waiters always learn the
  result; a token with mask 1 was sampled for the conversation it is recorded
  in; a closed session does not change; nothing exceeds the capacity. In short,
  calls take effect one at a time.
- *conversions*: what a client sends next extends what was committed; no text
  or call is lost; templates accept the result.
- *episodes, groups*: load equals routes; slots are conserved; the session
  outlives its runner; only finalized sessions are scored; in the end nothing is
  left.
- *router*: counters, gauges and references are those of the calls in flight;
  the capacity gate sees what is held; residency follows the engine and runs
  ahead of it by what was dispatched.
- *sandboxes, processes*: each environment that was created is deleted; each
  start ends; commands follow one another; a given-up program is gone.
- *tasks*: a reward was earned by the agent's own work in this episode; an
  episode that says "finished" did finish; devices are never shared.
- *training*: each prompt is trained once, through crashes and resumes; the
  tracker always names a whole checkpoint.

## Modules

| Module | Models |
|---|---|
| `GatewaySession` | one session in chain mode |
| `SessionPromise` | what such a session promises: the abstract specification |
| `GatewaySessionProofs` | types and reservations; what generations give and the trainer receives; the refinement: proved |
| `TreeSession` | one session in tree mode |
| `TreeSessionProofs` | the committed tree, and what the trainer receives of it, proved |
| `EpisodeLifecycle` | framework, manager and actor together |
| `EpisodeLifecycleProofs` | load, slots and sessions of episodes, proved |
| `ProviderTurns` | a conversation through the adapters and the codec |
| `RouterAccounting` | balancer, stores, callback collectors, routing decision |
| `EngineEvents` | engine, ZMQ transport, parser, residency, the marks of acquires |
| `RouterProofs` | of the two: counters, gauges and references; the sockets after a stop, and the router's view of the engine, proved |
| `SandboxLifecycle`, `AgentDxSandbox`, `ToolShell`, `MasProcess` | starts and stops; one provider in full; the shell; external applications |
| `Sandboxes` | composes these four |
| `SandboxesProofs` | the safety of each of the four, proved in the composition |
| `SessionGroups`, `PolicyTraining` | session groups; training loop, batches and checkpoints |
| `MultiPolicy` | composes these two |
| `MultiPolicyProofs` | groups, batches, prompts and the tracker, proved for each and in the composition |
| `AgentRun`, `TaskEpisode`, `AgentLoop`, `HarborTrial`, `KernelVerify`, `NpuLease`, `RunLogging` | CLI agents; the task around one (it EXTENDS `AgentRun`); agents that are loops; Harbor; kernel sessions; device leases; logs |
| `TaskRuns` | composes the seven |
| `TaskRunsProofs` | every part of `TaskRuns`, proved in the composition |
| `MC*` | messages, prompts, symmetry and scenarios for TLC |

The composing modules `Sandboxes`, `MultiPolicy` and `TaskRuns` join parts that
share no state with each other while they act; a variable (`part`, `half`) says
which one a behaviour follows, and the others stay in an initial state. They
state the properties that span parts. Parts that do interact - framework, manager and
actor; balancer, stores and strategy; agent, CLI, sandbox and grader; trainer, rollouts and
checkpoints; engine, transport, parser and store - are interleaved in one module.

Beside some definitions stands a *mutant* of them, an operator with the same
parameters and a plausible mistake. No specification uses it; it serves to see
that a property can fail. `PROJECT.json` says which property it breaks.

### GatewaySession

One action is the code between two awaits of `run_generation`. `pc[r]` says at
which await the task of `r` is: `queued` (for the lock, 279), `preparing`
(holds the lock, 291), `waiting` (a coalesced call, 336), `generating` (355),
`committing` (for the lock, 415), `decoding` (holds it, 424), `releasing` (481)
and `finally` (494); `ok`, `length` and `failed` are its ends. The actions carry
the names of what happens: `Join`, `Reserve`, `ExhaustCapacity`, `Commit`,
`Unwind`, `ReleaseReservation` (the shielded task), `Wake` and so on. `Fault`
covers the exceptions and cancellations that reach a task at an await.

Data are abstracted to what the properties tell apart. A message is an opaque
value; the chained hashes of the code are compared as the prefixes they stand
for. A context message costs one token and so does the generation prompt; a
generation costs as many as `GenLens` says. A sampled token *is* the
conversation it was sampled for, which makes "trained on what was sampled" a
statement about the buffers. The version mark of a generation is that same
conversation. `Scopes` stands for the pair of tools and agent_context. Sampling
parameters are part of the fingerprint in the code; calls that differ in them
are calls with different requests here.

Left out: prompts that end with an assistant message (prefill), generations of
no tokens, media, log-probabilities, routed experts, rollback statistics. The
abort of a session whose `finalize` raised while it materialized is in
`EpisodeLifecycle`.

`CleanupCancel` says whether a task may be cancelled *again* while it unwinds.
The code is wrong then (see Findings), so the runs and theorems about
reservations are stated without it, and the others with it.

`SessionPromise` has no lock, no reservation, no pending generation and no
tokens: a line of conversation is the sequence of the conversations its answers were
sampled in, and a call serves, shares, is exhausted or fails in one step. The
refinement mapping (`Promise` in `GatewaySession`) reads lines off the version
marks of the chains, so that `ImplementsPromise` says that a buffer never mixes
generations of two conversations, that concurrent calls do not lose a turn, that
an assistant the client rewrote is the only thing that disappears, that a call
leaves no trace unless it returns an answer or finds the capacity exhausted, and
that a closed session does not change.

### TreeSession

The same calls against a tree of generations. A request mounts at most one node,
so a node is named by its request; `node[r].path` holds the nodes from the root
to it, `hist` the messages on that path (the code keeps the difference in each
node), and `tree` says which nodes are linked to the root. `leaves` is the
registry of chains in its order: an entry has the tip of an open chain or the
trajectory of a closed one.

`pc[r]` is `mounting` (holds the lock while media are extracted, 626), `waiting`
(208), `generating` (218, and then for the lock, 242), `decoding` (244) or
`unwinding` (for the lock, 348). `Mount` matches the request against the tree
(`Matching`, `Endpoints`, `Preferred`), picks the chain it continues or the tip
it replaces (`ContinuedChain`, `Backup`) and links the pending node; `Unwind`
undoes that. `closer` is `finalize` or `abort` while the storage writer runs
with the lock held; a cancellation then leaves the session active.

A token is the node that brought it and its number among those sampled for the
node. A merge may trim the last token of what it continues (`Trims`), whosever it
is. Endpoints that tie in length, depth and commit order have no open chain below
them; the code takes the first, the model any.

Left out, besides what `GatewaySession` leaves out: merges that edit the
boundary before an assistant (`pre_assistant_prompt_ids`), the version range of a
trajectory, and the contents of the stored file.

### EpisodeLifecycle

The framework and the manager share an event loop, so an action is the code of
an episode between two awaits together with the manager's coroutine it is in. A
call to the actor is a record of `call[e]`: sent, waiting for the session lock
(`locked`), answered or raised; the actor handles the calls of a session in the
order they were sent, and waits for the lock first come, first served
(`asyncio.Lock`). A call that was sent is carried out even if its caller is
cancelled. HTTP requests of the runner are there for their use of the lock.

`Cancel` cancels the parent at any await in `Cancellable`. `TimeOut` needs no
clock: it may come at any time while the runner runs. A runner that was asked to
stop and not yet killed may still send requests, which `RequestStarts` allows.
Whether `_cancel_runner_task` ends by the grace period, by the answer or by the
kill makes no difference to anyone else, so it is one step. An episode cancelled
while it finalizes may leave its route behind (`CutShort`, see Known limits).

### ProviderTurns

A client keeps a history in its own wire format - chat completions, Responses or
Anthropic messages - and sends all of it with each request. `Request` lowers it
with the adapter's own passes (merging, moving and splitting of blocks, tool
results, reminders, system texts; `Flushed`, `FoldSystem`, `TakeResult`), the
session answers, and the adapter turns the answer into a response or a stream,
which the client echoes. Every text is a set of pieces that are made once, so
that a lost or repeated text shows. `chain` is the list of messages that the last
answer was committed to.

### RouterAccounting

The balancer handles one call at a time (a Ray actor), so `Acquire` is
`acquire_server` with the callbacks it fires; it is split in two, `Acquire` and
`Attach`, because the engine thread can clear a replica between the references
and the marker of one acquire. Engine events are actions of their own.

A prompt is the sequence of its block hashes and its length. A hash that belongs
to no prompt (`Foreign`) is what the checkpoint of `resolve_prefix_hashes`
yields when it is continued with blocks of another prompt.

`hazards` is a history variable: it notes what has happened that the books are
known not to follow - overlapping calls of one session, the eviction of the row
of a call in flight, a dropped release, a server that returns, a clear while
calls are in flight, a clear within an acquire. Each property names those it
excludes; the exclusions are hazards of `PROJECT.json`, not opinions about what
may happen.

Left out: calls without a request id, the random order after an exception in the
strategy, the least-inflight slow cut, layers other than the GPU. The size of the
per-request store is not fixed: a new row takes a place of its own or that of any
other row, as if other sessions had filled the store.

### EngineEvents

The engine stores, removes and clears blocks, publishes them in numbered batches
and keeps the last `Retained` for replay; the transport connects, asks for the
replay, subscribes, retries and reconnects, while frames are lost or malformed,
and `stop()` may come at any await. The parser keeps a map from the engine's
hashes to the router's, and folds a batch into one update (clear, remove, add).
A block is named by its chain of contents.

The rows have a second writer: each acquire marks the blocks of its prompt as resident
(`Dispatch`, `record_dispatch_blocks`), on the thread of the balancer, also between
the clear and the removals of an update, for which the collector takes the
lock anew (`Written`). `ahead` is a history variable: the blocks that
such marks alone have brought into the view, until an update adds, removes or
clears them. `ViewExact` says that the store holds what the engine caches and
`ahead`, and nothing else, when the loop is `CaughtUp`: it reads the sockets
that are registered, and nothing is under way. Blocks that the engine never stores stay
in `ahead`. `drift` notes what the update of a batch cannot follow - missed or
malformed batches, an order of events within a batch that the folding loses, an
unknown parent.

### Sandboxes: SandboxLifecycle, AgentDxSandbox, ToolShell, MasProcess

`SandboxLifecycle` is `sandbox/base.py` for several tasks that share startup
slots whose number may be reconfigured: attempts with time-outs and retries, the
shielded stop of a failed or cancelled start, `entered()`, the exit. The
providers differ in what `start()` and `stop()` remember of an environment whose
call failed or was cancelled; a call in a thread or subprocess goes on when its
caller is gone.

`AgentDxSandbox` has one provider in full: the lifecycle lock, the settled
creation threads, the poisoning of a sandbox by a command that timed out, the
timer of its lifetime, and the deletion protocol with its reconciliation of a
creation whose answer was lost.

`ToolShell` is the toolbox and its tmux pane. What is typed, what the pane shows
and what runs are separate, as in bash: what Ctrl-C discards and what Ctrl-Z lets
go on is modelled from how bash behaves (external in the map).

`MasProcess` is `run_local_process`: a leader and its helpers, which may hold the
pipes, ignore SIGTERM or leave the process group.

### PolicyTraining and SessionGroups

`PolicyTraining` is the `separate_async` loop: submit, sample, update each policy,
save, publish the tracker, prune; the rollouts with their rows and statuses; a
crash at any step, also between two files of a checkpoint, and a resume from the
tracker or from a directory the user names. Weights are the set of positions a
policy was trained on; a part of a checkpoint carries the number of the save that
wrote it, so that a mixture would show. Two history variables note what the code
does not guard against: `mixed`, that a life began from parts of several saves or
without some part, and `behind`, that a life began below as many committed
directories as are kept which its next save does not reach (see Known limits). The
batch properties exclude `mixed`, `TrackerLoadable` excludes `behind`.

`SessionGroups` has one Gateway session per role: the episode, a shielded
abort and `shutdown()` may each walk the roles of a group, one actor call at a
time. The actor takes the calls on one session in order.

### Tasks: AgentRun, TaskEpisode, AgentLoop, HarborTrial, KernelVerify, NpuLease, RunLogging

`TaskEpisode` extends `AgentRun`: the sandbox is prepared, the agent (or the gold
patch) changes the workspace, the same sandbox runs the tests. The CLI is a
process of the sandbox; whether an exec that timed out, was lost or was cancelled
leaves it running depends on the provider, so what a CLI still does interleaves
with grading. `AgentLoop` has the loops of the library and their model client, with
messages reduced to who says them and the calls they make or answer.

`KernelVerify` is a session of the kernel task: edits, verifications with their
two result files, hooks at each tool call, early stop, clean-up, collection
file by file and scoring. `NpuLease` is the wrapper that holds the lock of a device
for a verifier's process group, and the clean-up that signals what state files
name. `KernelVerify` takes over the effect of that clean-up.

`RunLogging` is `_LogFileDispatch`: threads of overlapping runs put operations in a
bounded queue, one writer owns the files, root's level is borrowed from the
first run to the last; forks, exits, files that do not open and changes of the
level by the host are its faults.

## Runs

| Run | Instance | Shows |
|---|---|---|
| session_reservations | 3 identical tasks with 3 possible requests (a first turn, its continuation, the continuation of a rewritten turn) and a rewrite of the second turn; capacity 6; generations of 1 or 2 tokens; 2 faults | `ReservationsSound` (exclusive chains, current snapshots), `NoLeakedReservation`, `CoordinationCleared`, `OneGeneration`, `OutcomesSound` (waiters counted, capacity kept, waiters woken after the release), `RequestsReturn` |
| session_sampling | 4 such tasks; capacity 8; 1 fault, also in an unwinding | `TrajectoriesSound` (order, on policy, marks), `ImplementsPromise` |
| session_cancel | 3 tasks, 2 faults, also in an unwinding | the finding: `CoordinationCleared` fails |
| tree_session | 4 tasks, 5 possible requests (one never fits), merges that trim 0 or 1 token, capacity 7, 1 fault | `TreeIntact` (tips, committed tree), `TrainedOnce` |
| episodes | 3 episodes, 2 gateways, 2 slots, both modes, 1 cancellation or failure at any await | `EpisodesAccounted` (load, slots, scores), `SessionFollowsEpisode` |
| episodes_end | 3 Ray episodes, 1 slot, 3 faults, runners that may hang | `EpisodesEnd` |
| router_accounting | 3 calls of up to 2 sessions, 2 servers, a shared first block, 1 event | `LoadExact`, `PinBookExact`, `GateSeesHolders` |
| engine_events | prefix chains of 1 or 2 blocks; up to 4 engine events, batches of up to 2, the last 3 retained, 1 or 2 faults, with and without replay; with up to 3 events, also acquires for 1 or 2 prompts at any point; `stop()` at any await after one event | `EventsFollowed` (the router's view is the engine's cache and the marks of acquires), `SocketsClosed` |
| provider_turns | up to 2 answers and 4 inputs in each format; plain, dumped, custom, namespaced and invented tool calls; late tools, system texts, images and reminders | `TurnsRendered`, `TurnContinuesChain`, `TextsKept`, `CallsAddressed` |
| sandbox | 2 tasks, 5 providers, 2 attempts, slot limits 0 to 2 with one change, 2 faults; agent_dx with 2 commands and 3 troubles; 3 shell calls, 2 starts; a leader and 2 helpers, 2 cancellations | `LifecycleSound`, `AgentDxSound`, `ShellSound`, `ProcessSound`, `PartsEnd` |
| multi_policy | 2 policies, 2 steps that save every time and keep one, one prompt warmed up, 1 crash, 1 faulty rollout; 2 groups of 2 roles on 2 gateways with 3 troubles | `GroupsSound`, `BatchesSound`, `PromptsSound`, `TrackerLoadable` |
| tasks | every family and agent; 2 steps of a CLI; 3 turns of a loop; a Harbor trial; 2 implementations, 3 verifier events; 3 wrappers on a device; 2 runs, a queue of 2, 2 records and 1 trouble | `LeaseExclusive`, `NothingLeft`, `ScoreSound`, `HonestEnd`, `AgentsOwnWork`, `RewardEarned`, `TurnsKept`, `LogsKept` |

Several properties are conjunctions of named parts, each with a comment of its
own in its module; the type invariant of a module is a part of one of them.

Why the bounds are enough for what they are meant to show.
*Session*: three tasks are the fewest with an owner that continues a chain, its
waiter and a competitor for the same chain; the fourth of session_sampling comes
after. Two of the three user turns can be rewritten, so that a rewrite meets a
chain that was continued, rewritten and forked. Capacity 6 is exhausted before,
within and after the merge, 8 only by the longest conversations. In the tree,
capacity 7 lets the rewrite of the second turn fit only when its merge trims, so
that it replaces a tip, or closes the chain without it; the request that never
fits drops a chain of which nothing else is left.
*Episodes*: three on two gateways make placement depend on creates in flight;
two slots make one wait.
*Router*: two blocks, one shared, and three holders on two servers let a block
have several holders, lose one and move. One event puts each disturbance at
every point of the behaviour.
*Engine events*: four events fill a batch and go beyond what is retained; one
is enough for every await of `stop()`.
*Conversations*: two answers put an echoed answer before another one, and four
inputs reach every pair of neighbours that the lowering merges or moves.
*Sandboxes*: two tasks contend for one slot; the second attempt is the last; two
commands are one that poisons and one that is under way; three shell calls are one
that leaves something in the pane, its victim and one after that.
*Training*: two steps are the fewest with a checkpoint to prune and a prompt in
flight at a save; one crash falls at every step of both, also into the resumed
save's predecessors on disk.
*Tasks*: two implementations are one that replaces the other; three wrappers are
one of the workspace that is cleaned up, its competitor and a third one after
a release; two runs with one or two log ids overlap or reuse.

`MaxFaults`, `MaxEvents`, `MaxTrouble` and the like bound failures and events,
and `MaxAnswers`, `MaxTurns`, `MaxRecords` and so on the length of conversations; each
is named at its declaration.

Deadlock is checked wherever every state in which nothing more happens is meant:
each specification has a step for the state in which all is done. It is not
checked in session_sampling and session_cancel, where a task cancelled in its
unwinding leaves its waiters waiting (the finding), nor in engine_events, where
the router may wait for an engine that has nothing more to say.

### Fairness

*Session*: weak fairness of the steps of each task. The event loop runs what is
ready, the codec and the backend return or raise; the lock is enough of a queue
because the tasks are finitely many. Nothing forces a failure, a cancellation,
`finalize` or `abort`.

*Episodes*: weak fairness of the steps of each episode and of the actor's
handling of its calls, strong fairness of entering the semaphore (`asyncio`
wakes waiters in turn), weak fairness of the backend. Runners are *not*
fair: they may hang, and `EpisodesEnd` holds only thanks to the time-out. It
therefore speaks of Ray tasks with `session_timeout_seconds`; an inline runner
that hangs holds its slot for ever, by design of the code.

*Sandboxes*: weak fairness of the owner of an agent_dx sandbox and of its SDK
calls (they return or raise), strong fairness of what waits for its lifecycle
lock (`asyncio.Lock` hands it on in turn); weak fairness of the caller of an
external application and of the end of its output. The application itself is not
fair: it may run on for ever, which is what `ProcessEnds` is about.

## Proofs

About `GatewaySession`, for every finite set of requests, every set of messages,
prompts, replies and scopes, every capacity and both settings of rollback and
coalescing:

1. `TypeCorrect`, from the inductive `TypeInv`. The types are not inductive
   alone: that a rollback leaves a buffer needs `ChainsOK`, that the
   offsets recorded before the latest assistant lie within the chain - what the
   code asserts at 591 and 605. `SnapshotsWithinChain` states it.
2. `GenerationIsUnique`, from `LockInv` (the lock is held by exactly the
   task that prepares or decodes) and `OwnerInv` (a task that generates is
   registered under its own fingerprint; one that prepares found it free, and the
   lock keeps it free).
3. `ReservationsHold`, `NoLostUpdate`, together `OverlapIsSafe`, and
   `ReservationsReturn`, from `ReservationInv`. It has three parts that need each
   other: at most one release of a task is pending and the task waits for it
   (`ReleaseInv`); the reserved chains are those claimed by a generation or a
   pending release, one claim each (`ClaimInv`); and what a claimed chain holds is
   what its claimant read (`SnapshotCurrent`). A commit needs the claim to know
   that the chain still exists, a release needs uniqueness to know that it frees
   nobody else's, and closing a chain needs both to know that nobody continues it.
4. `CoordinationIsCleared`, from `OwnerInv` and the steps of `pc`.
5. `OutcomesAreSound`: a chain and its trajectory count exactly the requests whose
   generations they hold, waiters included, none is longer than the capacity, and
   a failure wakes its waiters only after its reservation is on its way back. From
   `WaiterInv` (each waiter is counted by the generation it waits for) and `WakeInv`
   (what a task that has ended left behind). Counting needs the requests to be
   finite.
6. `TrajectoriesAreSound`, from `OrderInv` (chains and trajectories stand in the
   order of their creation, each at a place of its own) and `RecordsInv` (every
   token of a buffer with mask 1 was sampled for a prefix of the history beside it,
   and a mark is such a prefix). These are kept by rollbacks and forks because both
   cut the buffer and the history at the same recorded offset.
7. `SessionImplementsPromise`: `Spec => ImplementsPromise`. The steps that do not
   show map to stutters (`SilentStep`); a commit, an exhausted capacity, a shared
   answer, a failure and the two ways to close a session map to one step each
   (`ServeStep` and so on). What makes a commit one abstract step are `MarksInv`
   (the marks of a chain end with its history), `BuildsInv` (what a generation
   was prepared from still is what its chain holds, kept by `ReservationInv`) and
   `SharingInv` (who waits, waits for an identical request).

Theorems 3, 4 and 7 assume `~CleanupCancel`; the run session_cancel shows that 4
needs it, and of the invariants exactly `ReleaseInv` and `CoordinationCleared`
fail without. 5 and 6 hold with it as well. The refinement itself is model-checked
with it too (session_sampling), for one fault.

About `EpisodeLifecycle`, for every finite set of episodes and any number of
gateways, slots and faults: `AccountsBalance` and `SessionsFollow`, which are the
two safety properties of the run. Both follow from `LifeInv`, which relates what
three parties know of one episode: where its coroutine is, what the manager has
(`route`, the load it reserved, the abort it shields) and what the actor has (the
session, its lock, the call it handles). The load of a gateway is the cardinality
of the episodes it counts, so each action changes it by one or not at all.

About `RouterAccounting`, for all finite sets of calls and sessions and any pool:
`LoadsAgree`, `PinsAgree` and `AcquiresSeeHolders`, from `RouterInv`. It says of
each call in flight which counter, which row and which references are its own,
under the negation of the hazards each property excludes, and `RouterKeeps` shows
that each action keeps it. The gauges are sums over the calls in flight. That
such a sum changes by one term is shown by a minimal counterexample
(`WFMin`) instead of an induction on sets.

About `TreeSession`, for every finite set of requests, any messages, scopes, trims
and capacity:

- `TreeIsIntact`, from `TreeInv`: a path is that of the parent and the node itself, it
  goes through completed nodes, and the tree is closed under parents (`Paths`, `Linked`); a
  completed node is in the tree unless a running or completed generation replaces it, which
  one sibling of the same chain does at most (`Replaced`); each chain has one entry in the
  registry, whose tip is a completed node of that chain (`Chains`); and the tip of a
  chain is held, to be continued or replaced, by one running generation alone
  (`Held`). Unwinding needs the last two: what it puts back still has its place.
- `TreeTrainsOnce`, from `TreeInv` and what it adds about data: a completed node
  never changes, the context of a node is what the engine was fed, each trajectory
  is one stretch of a path whose tokens were trained by no other chain, an owner of a
  fingerprint and those that joined it know of each other, and the counts of a chain
  are the requests that ended in it. The trained tokens are kept apart by the stretch
  of the path each chain owns, and not by the tokens themselves: two chains
  share a prefix, and only one of them trains it.

About `EngineEvents`, for any chains, prompts, batches, retention, retries and faults, with and
without a replay socket:

- `StopClosesSockets`, from an invariant about which sockets each step of a
  connection, replay or reconnection has opened and who still closes them.
- `RouterFollowsEngine`, from an invariant over blocks: *of each block, the last thing
  that was published about it is right*. Last means, in the order in which the router
  will handle them, the events that the engine has not published yet, the frames of the
  subscription, the frames of the replay that are still to come, the batch
  being folded, and then the books. From this follows that the books
  are right once nothing of these is left. The books are the map and what was reported,
  the view without `ahead`: an acquire changes neither, whenever it comes, and
  `Marked` says that `ahead` is in the view. A batch replaces what the books say of exactly the
  blocks it mentions; that the folding of a batch in clear, remove, add agrees with
  its order is a lemma about sums of events, with the exceptions `drift` names.

About the parts of `Sandboxes`:

- `SandboxesCleanUp`, for every finite set of tasks, from `LifeInv`: what the
  pc of a task says of its slot, of its environments and of the stop it shields.
- `CancelledEnds`, an action property: a task that was cancelled as it entered its
  sandbox never starts it again, also through its retries.
- `EnvironmentsDeleted`, for every set of commands, from `DxInv`: who holds the
  lifecycle lock, which creation thread may still answer, and which deletion is
  owed by whom. It needs the commands to differ from the other names of holders
  of the lock.
- `ShellEnds`, from `ShellInv`, and `ProcessesEnd`, from `MasInv`.

About `SessionGroups`, for every finite set of groups and any number of roles
and gateways: `LoadCountsGroups`, from `LoadInv` (a group has an index exactly
as long as it counts), by cardinalities; `GroupsAreWhole`, from `WholeInv` (the
calls a group waits for are those of its current role, and the roles before it
are done); and `GroupsAreSound`, the property of the run as a whole, which adds
`ReleaseInv`: each session that an actor holds for a group is still to be
released by the episode, by its shielded abort or by `shutdown()`, or was left
by a sweep that was itself torn or outpaced.

About `PolicyTraining`, for any finite set of policies, any number of sessions, steps,
crashes and faults, any warm-up, save interval and number of kept directories:
`TrainsOnce`, `AccountsForPrompts` and `TrackerNamesWhole`, from one `TrainInv`. Its
parts:

- `Known`: what is in the queue, in the trainer or on disk was handed out by a
  dataloader of this life or of one before; this is what makes the uids of a resumed life new.
- `Recorded`, `Counted`: a prompt that finished has records, those of a prompt in
  flight stem from this life, and the queue holds the prompts that were warmed up,
  once per life, also on disk. Only rollouts of the first life may end without a status,
  which bounds the prompts that nobody works on.
- `Fitting`: weights, dataloader and queue fit together - no position is both
  trained on and waiting, none is missing unless a failure is charged for it, and each
  failure is charged once. The same holds of every directory on disk whose parts stem
  from one save, so that a resume finds what a save of that moment had.
- `Saved`: during a save, a part that carries its number holds what the trainer holds.
  A directory whose parts carry one number is therefore a snapshot, although it was written in
  four steps that rollouts interleave.
- `Tracked`: a committed directory has every part, the tracker names a committed one,
  and fewer than `Keep` committed directories lie beyond the save a life will do next. That
  last conjunct is what keeps pruning from the directory just published.

`MultiPolicyIsSound` carries these, and `GroupsAreSound`, to the composition that the
run checks. Three places of `PolicyTraining` were changed to be reasoned about: positions
are all naturals instead of those the bounds allow, the decision to save is an
operator of the step (`SavesAt`), and `behind` was added. `TrainerServed` speaks of
runs in which no more rollouts raised than were warmed up: with more of them the
trainer may wait for ever, which the bounds of the run had hidden. `InFlightBounded` turned out to hold for mixed
checkpoints too.

About the parts of `TaskRuns`, for all values of the constants (any number of
steps of a CLI, turns, calls, retries, chunks, time-outs and budgets; any sets of
wrappers and devices):

- `LeasesAreExclusive`, from `LeaseInv` (who has processes has a device, and a
  device whose lock is open in some process has one wrapper), and
  `CleanupIsComplete`, from `CleanupInv` (a state file names the process group of
  whatever runs, but for the wrappers that were killed before they wrote it).
- `WorkIsTheAgents` and `RewardIsEarned`, from `EpisodeInv`: what the tests ran on is the
  tree at that moment, the history is hidden before the agent can look, and an
  outcome follows from the tests of this episode. Below it, `AgentInv` says what the
  host knows of a CLI that may outlive its exec: exit status 0 comes only of a CLI
  that ended by itself, and the report that is read is the one it wrote.
- `EndsAreHonest`, from `AgentInv` for the command-line agents and `LoopInv` for the
  loops of the library: a loop that says "finished" has a last answer that asks for
  nothing and was not cut.
- `TurnsAreKept`, from `LoopInv`: at each place of the loop, the calls asked and the
  calls answered so far differ by exactly the calls still queued, and the contexts of mem_agent
  joined are its whole conversation. Joining is a recursive function; that it
  has one value, and how it changes when a context or a turn is added
  (`FlattenIsFlat`, `FlattenLonger`, `TurnAdds`), is shown by a minimal
  counterexample (`LeastNatural`) instead of an induction.
- `LogsAreKept`, from `LogInv`: as long as the opening of a run's file was not dropped,
  the file is open before each of its records that are still queued (`FilesOpen`, over the
  operations in the order the writer takes them), every open file has its closing ahead
  of it (`FilesEnd`), and the root logger is borrowed once for each block inside
  (`RootBorrowed`, a cardinality). That the records of a run do not change when
  the writer moves an operation from the queue to a file is `OwnRecords` of an
  `Append` and of a `Tail`.
- `ScoresAreSound`, from `KInv`. Its core: a verifier that none overlaps holds the metrics
  of what it staged (`KMeasured`) and ranks above the best it is about to replace
  (`KHigher`); the best implementation and its metrics are a pair, but for a verifier
  between the two replacements (`KPaired`); what was collected and not written since
  is what is there (`KFresh`); the highest rank reached is at most that of the best, from the
  agent's turn to the recheck (`KReached`); and the count of a patience is at most the
  calls since the best changed (`KPatience`). The theorem is about every session;
  the parts of `ScoreSound` exclude by name what they need to: `overlapped` verifiers,
  and for `BestScored` also a verifier killed between its files (`torn`; see Known limits).
- `NothingIsLeft`, from the lease, `AgentInv` and `HarborInv` (what is on the host and
  what is on the disk at each stage of a trial, also of a cancelled one).

`PartsRun` carries what holds of a part to `TaskRuns`. Three places of the model had to
be changed to be reasoned about: the records of a log are picked by a fold instead of
a filter, alternatives that overlapped in a CASE became chains of IF, and giving up a
CLI that was never launched leaves it absent (it became "exited", which the code cannot
tell but the model could).

Assumptions on constants are those the modules declare: that the sets of
requests, episodes, tasks, calls, sessions, groups and logged runs are finite, that
capacities, patience and limits are naturals, and that names of different things
differ; that the policies are finite and not none; and that the chains the
engine may store are sequences that are not empty and closed under their prefixes
(`ChainsAssumption`). No theorem bounds faults, cancellations or crashes; where a bound
of a run appears as a constant, it is any natural.

Only model-checked: conversations (`TurnsRendered`, `TurnContinuesChain`, `TextsKept`,
`CallsAddressed`). They are about what the adapters compute from a whole history;
the model follows the code and lowers it message by message with folds and
filters, and what such a definition computes for every history is an
induction over data, pass by pass. Every other safety property of the runs is a theorem.

Out of the prover's reach: liveness under fairness (`RequestsReturn`,
`EpisodesEnd`, `PartsEnd`), `ENABLED`, and induction over data, that is what
the recursive lowering of a conversation or a fold over its history computes.
Where only the existence of a value or one step of a recursion was needed, a minimal
counterexample replaced the induction: the trajectory of a path
in `TreeSession` and the parsing of a batch in `EngineEvents` are recursive
functions on naturals for that reason.

## Finding

A task cancelled while it awaits its shielded release never clears its
fingerprint nor wakes its waiters (`session.py:481`); the run session_cancel has
the behaviour, and `PROJECT.json` quotes what the documentation says.

## Known limits of the code

Met while modelling. The properties exclude these cases by name, or the model
shows them without a property; none is a run of its own.

*Session and episodes.* The cancellation of the finding also starts a second
release, which can free another call's reservation (`session.py:494`). An episode
cancelled while it is finalizing can keep its route and its place in the load
(`manager.py:107`, `CutShort`).

*Router.* Overlapping calls of one session take each other's blocks out of the
book (`inflight.py:104`); a second chain of a session is ranked by the prefix
hashes of the first (`prefix_cache.py:42`). The blocks of a prompt that its server
never stores stay in the view, and attract calls, until a clear
(`kv_cache_store.py:103`). After a reconnection the subscribe
loop goes on with the sockets it had fetched before (`zmq.py:230`).

*Conversations.* A reminder right after the assistant, a late system or
developer message in Responses, and answers whose echo is lossy change the
history (`openai_response.py:183`, `:554`, `anthropic.py:64`), so that the
session forks. An image in a tool result that a text follows gives two user
messages in a row.

*Sandboxes and shell.* A command that ignores Ctrl-C and Ctrl-Z stays in the pane,
and the next one is typed to it (`shell.py:317-332`); a toolbox start that is cut off after `tmux new-session`
leaks that session (`tools/base.py:300`). `stop()` of openyuanrong given up keeps its
handle (`openyuanrong.py:173`). Where create runs in a thread, a cancelled start
may create after it was given up (`sandbox/base.py:456`). A second cancellation of
the clean-up of an external application skips SIGKILL, and a normal exit leaves
helpers (`process_backend.py:152`).

*Multi-policy.* A group whose sweep is cut short stays in part on its gateways
(`multi_agent_gateway_manager.py:182`). A directory that the user names may hold parts of several saves, when it was
being overwritten as the trainer died; a life resumed from it (`mixed`) may train
prompts twice or miss some (`multi_policy_checkpoint_manager.py:45` calls the
lifecycle atomic). Each resume warms up again, so more prompts are in flight in each life.
Pruning goes by step numbers alone (`:354`): when two lives died, the second
one started from an earlier step than the first had committed without
publishing it, a save of the lower step is pruned right after the tracker
names it, as the directory of the higher step counts as newer (`behind`). The run has
one crash, for which this cannot happen; the theorem holds for any number of them. A
rollout that raises leaves its uid "running" (`framework.py:697`).

*Tasks.* Providers whose exec does not end the command it gives up leave a CLI
running that can write while the tests run (`docker.py:84`,
`terminal_bench/task.py:151`). The multilingual family lets the agent see the
upstream history (`swe_bench_multilingual/task.py:50`) and grades output that was cut off. A verifier
killed between its two files leaves a pair of different implementations: digests keep
it from being scored, but the best is lost (`snapshot_verify_best.py:143`). Verifiers
that their tool calls left behind share `output/verify` with the next and can be given its
numbers (`snapshot_verify_best.py:116`). A wrapper killed
before its state file names the child, or one that begins during the clean-up, keeps its
device (`task.py:158`). The dsh watchdog counts the lines of every session under
its fixed home directory.

*Logs.* A full queue drops operations, also the opening of a file (a run then
has no log, and its records may go to the file of an earlier run of the same
id) or its closing. A host that changes root's level during a run does not keep its value
if a run is entered later, or if it picks the level in force (the comment at
`handlers.py:139` promises it); `docs/source/concepts/logging.md` says that the host's root
logging configuration is never written, which borrowing it does.

## Plan

In this order:

1. `ProviderTurns` with the passes of the lowering as functions of one position of the
   history each, so that the addressing of calls (`CallsAddressed`) can be proved
   from one position to the next.
2. `TreeSession` as an implementation of `SessionPromise`: its lines are the open
   leaves. Mounted nodes must not show, and the tie among endpoints needs the
   promise to leave the choice open.
3. A liveness run of `TreeSession`, with the storage writer, and of training with
   rollouts that may hang.
4. The session and the episodes in one module, so that late requests of a
   cancelled runner meet a real session.
5. The synchronous mode of the trainer, and batches of more than one prompt.

## Not modelled

Configuration, metric types and insight of the router, tracing and utilities: no
protocol. Dataset preprocessing, launchers, training scripts and plotting under
`examples/` and `tasks/*/preprocess.py`: straight-line programs. Chat templates,
parsers, tokenizers, media and the tensor work of postprocessing: libraries and data.
Pure reward functions (hotpotqa, deepeyes) and parsing of reports: no state. Of
modelled parts, `PROJECT.json` names at each component what is left out: server
start and shutdown, error bodies, usage figures, the HTTP metrics poller, slow
cut-over, validation, file transfer to sandboxes, the stateless tools, the
console filter and redaction.
