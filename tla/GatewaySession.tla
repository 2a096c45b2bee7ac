--------------------------- MODULE GatewaySession ---------------------------
(***************************************************************************)
(* One linear ("Chain mode") gateway session: gateway/session/session.py.  *)
(*                                                                         *)
(* Every HTTP call is an asyncio task that runs run_generation.  A task is *)
(* interrupted only at an await, so an action is the code between two      *)
(* awaits: the request lock, the codec work done under the lock, the       *)
(* backend call, the shielded release of a reservation and the future a    *)
(* coalesced request waits for.                                            *)
(*                                                                         *)
(* Messages are opaque values; the prefix hashes of the code are compared  *)
(* as the prefixes they stand for.  A token is abstracted to the           *)
(* conversation it was sampled for (mask 1), or to Context (mask 0).       *)
(***************************************************************************)
EXTENDS Integers, Sequences, FiniteSets

CONSTANTS
  Requests,       \* the HTTP calls made to the session, one task each
  Messages,       \* every message, of any role
  Assistants,     \* the messages whose role is assistant
  Replies,        \* what decode_response can make of a generation
  Prompts,        \* the message lists a client may send
  Scopes,         \* the (tools, agent_context) pairs of the requests
  GenLens,        \* the number of tokens a generation can have
  Capacity,       \* prompt_length + response_length
  Rollback,       \* enable_last_assistant_rollback
  Coalesce,       \* coalesce_reserved_exact_requests
  CleanupCancel,  \* may a task be cancelled while it unwinds?
  MaxFaults,      \* bound: failures and cancellations in one behaviour
  NoOwner         \* not a request: lock free, no owner

ASSUME RequestsAssumption == IsFiniteSet(Requests)

ASSUME MessagesAssumption ==
  /\ Replies \subseteq Assistants
  /\ Assistants \subseteq Messages
  /\ Prompts \subseteq {m \in Seq(Messages) : Len(m) > 0}

\* A prompt never ends with an assistant message: the prefill form of the
\* providers, which extends an assistant in place, is left out.
ASSUME NoPrefillAssumption == \A m \in Prompts : m[Len(m)] \notin Assistants

ASSUME ParametersAssumption ==
  /\ Capacity \in Nat
  /\ MaxFaults \in Nat
  /\ GenLens \subseteq Nat \ {0}
  /\ Rollback \in BOOLEAN
  /\ Coalesce \in BOOLEAN
  /\ CleanupCancel \in BOOLEAN
  /\ NoOwner \notin Requests

VARIABLES
  phase,          \* SessionPhase of the session
  chains,         \* active_chains, by chain_id
  materialized,   \* materialized_chains
  reserved,       \* reserved_chain_ids
  inflight,       \* _inflight_exact_requests: the owner of each fingerprint
  next_chain_id,  \* _next_chain_id
  order_seq,      \* _order_seq
  coalesced,      \* _coalesced_request_count
  lock,           \* the task that holds request_lock across an await
  pc,             \* where each task is
  req,            \* the request of each task, which is also its fingerprint
  enc,            \* EncodedData of each task
  future,         \* InflightRequest.future of each owner
  waiters,        \* InflightRequest.waiter_count of each owner
  joined,         \* the owner a coalesced task joined
  releases,       \* shielded _release_chain_reservation tasks not yet run
  faults          \* failures and cancellations so far, bounded by MaxFaults

session == <<phase, chains, materialized, reserved, inflight, next_chain_id,
             order_seq, coalesced>>
tasks   == <<lock, pc, req, enc, future, waiters, joined, releases, faults>>
vars    == <<session, tasks>>

NoChain == 0
Context == << >>

-----------------------------------------------------------------------------
(* Data.                                                                   *)

Request == [msgs : Prompts, scope : Scopes]
Conversations == Seq(Messages)

\* prompt: number of prompt_ids; resp: response_ids and response_mask, one
\* conversation (or Context) per token; marks: generation_versions.
Buffer == [prompt : Int, resp : Seq(Conversations), marks : Seq(Conversations)]

\* Lengths captured immediately before the latest assistant.
LastAssistantStart == [resp : Nat, hist : Nat]

Chain == [hist : Conversations, scope : Scopes, buf : Buffer,
          start : LastAssistantStart, updated : Nat, coalesced : Nat]

Encoded == [chain : Nat, rolled : BOOLEAN, buf : Buffer, seen : Nat]

Trajectory == [chain : Nat, hist : Conversations, buf : Buffer, order : Nat,
               coalesced : Nat]

\* What the future of an owner holds: the chain its generation went to.
Outcome == [state : {"none", "pending", "ok", "failed"}, chain : Nat]

\* seen = 0: nothing was read from a chain.
NoEncoding == [chain |-> NoChain, rolled |-> FALSE, seen |-> 0,
               buf |-> [prompt |-> 0, resp |-> << >>, marks |-> << >>]]

Prefix(s, n) == SubSeq(s, 1, n)
AssistantCount(m) == Cardinality({i \in 1..Len(m) : m[i] \in Assistants})
Size(buf) == buf.prompt + Len(buf.resp)

-----------------------------------------------------------------------------
(* _select_chain                                                           *)

\* The chain agrees with the request up to its latest assistant.
Agrees(c, q) ==
  /\ c.scope = q.scope
  /\ c.start.hist < Len(q.msgs)
  /\ Prefix(q.msgs, c.start.hist) = Prefix(c.hist, c.start.hist)
  /\ AssistantCount(q.msgs) <= AssistantCount(c.hist)

\* Mutant: a reserved chain may be selected again.
CandidatesWithReserved(q) == {i \in DOMAIN chains : Agrees(chains[i], q)}

Candidates(q) == {i \in DOMAIN chains \ reserved : Agrees(chains[i], q)}

\* The whole history of the chain is a prefix of the request.
ExactMatches(q) ==
  {i \in Candidates(q) :
     /\ Len(chains[i].hist) <= Len(q.msgs)
     /\ Prefix(q.msgs, Len(chains[i].hist)) = chains[i].hist}

\* The request rewrites the latest assistant of the chain.
Rewrites(q) == IF Rollback THEN Candidates(q) \ ExactMatches(q) ELSE {}

DeepestRewrites(q) ==
  {i \in Rewrites(q) :
     \A j \in Rewrites(q) : chains[j].start.hist <= chains[i].start.hist}

\* Several chains could be the rewritten one, and no exact match is as deep.
Ambiguous(q) ==
  /\ Cardinality(DeepestRewrites(q)) > 1
  /\ \A i \in DeepestRewrites(q), j \in ExactMatches(q) :
        Len(chains[j].hist) < chains[i].start.hist

Ranked(q) ==
  ExactMatches(q) \cup
    (IF Cardinality(DeepestRewrites(q)) = 1 THEN DeepestRewrites(q) ELSE {})

\* How much of the history a chain lets the request reuse.
ServiceValue(i, q) ==
  IF i \in ExactMatches(q) THEN Len(chains[i].hist) ELSE chains[i].start.hist

\* updated_seq is unique, so the code's last tie-break, chain_id, never decides.
Outranks(i, j, q) ==
  \/ ServiceValue(i, q) > ServiceValue(j, q)
  \/ /\ ServiceValue(i, q) = ServiceValue(j, q)
     /\ \/ i \in ExactMatches(q) /\ j \notin ExactMatches(q)
        \/ /\ i \in ExactMatches(q) <=> j \in ExactMatches(q)
           /\ chains[i].updated > chains[j].updated

\* The chain the request continues: one chain id, or NoChain.
SelectChain(q) ==
  IF Ambiguous(q) \/ Ranked(q) = {}
  THEN {NoChain}
  ELSE {i \in Ranked(q) : \A j \in Ranked(q) \ {i} : Outranks(i, j, q)}

-----------------------------------------------------------------------------
(* _prepare_generation_inputs                                              *)

\* build_initial_tokens: a token per message and the generation prompt.
InitialBuffer(m) == [prompt |-> Len(m) + 1, resp |-> << >>, marks |-> << >>]

\* Mutant: a rollback that leaves the rewritten tokens.
DropLastAssistantKeepingTokens(c) ==
  [c.buf EXCEPT !.marks = Prefix(@, Len(@) - 1)]

\* The rewritten assistant, its mark and the generation prompt it was sampled
\* after are removed; the latter ends the prompt when the chain has no turn
\* before that assistant.
DropLastAssistant(c) ==
  LET first == c.start.resp = 0
  IN  [prompt |-> IF first THEN c.buf.prompt - 1 ELSE c.buf.prompt,
       resp   |-> IF first THEN << >> ELSE Prefix(c.buf.resp, c.start.resp - 1),
       marks  |-> Prefix(c.buf.marks, Len(c.buf.marks) - 1)]

\* merge_context_tokens: n messages and a generation prompt, all masked out.
AppendContext(buf, n) ==
  [buf EXCEPT !.resp = @ \o [i \in 1..(n + 1) |-> Context]]

\* What is left of the chain, before the request's own messages.
KeptBuffer(i, q) ==
  IF i \in ExactMatches(q) THEN chains[i].buf ELSE DropLastAssistant(chains[i])

NewMessages(i, q) ==
  IF i \in ExactMatches(q) THEN Len(q.msgs) - Len(chains[i].hist)
                           ELSE Len(q.msgs) - chains[i].start.hist

MergedBuffer(i, q) ==
  IF i = NoChain THEN InitialBuffer(q.msgs)
                 ELSE AppendContext(KeptBuffer(i, q), NewMessages(i, q))

\* Capacity is tested before the merge and after it.
CapacityExhausted(i, q) ==
  \/ i # NoChain /\ Size(KeptBuffer(i, q)) >= Capacity
  \/ Size(MergedBuffer(i, q)) >= Capacity

Encode(i, q) ==
  [chain  |-> i,
   rolled |-> i # NoChain /\ i \notin ExactMatches(q),
   buf    |-> IF CapacityExhausted(i, q) /\ i # NoChain
              THEN KeptBuffer(i, q) ELSE MergedBuffer(i, q),
   seen   |-> IF i = NoChain THEN 0 ELSE chains[i].updated]

-----------------------------------------------------------------------------
(* Committing, closing and materializing chains.                           *)

With(f, k, v) == [i \in DOMAIN f \cup {k} |-> IF i = k THEN v ELSE f[i]]
Without(f, k) == [i \in DOMAIN f \ {k} |-> f[i]]

\* _build_materialized_trajectory
Materialize(i, c, order) ==
  [chain |-> i, hist |-> c.hist, buf |-> c.buf, order |-> order,
   coalesced |-> c.coalesced]

\* merge_assistant_tokens and the generation's version mark.
AppendGeneration(buf, conversation, n) ==
  [prompt |-> buf.prompt,
   resp   |-> buf.resp \o [i \in 1..n |-> conversation],
   marks  |-> Append(buf.marks, conversation)]

\* max_tokens is clamped to what is left of the capacity.
MaxTokens(e) == Capacity - Size(e.buf)

\* The chain _commit_generation_to_chain stores for a generation of r, with
\* the waiters that were coalesced into it.
CommittedChain(r, reply, n) ==
  LET m == req[r].msgs IN
  [hist      |-> Append(m, reply),
   scope     |-> req[r].scope,
   buf       |-> AppendGeneration(enc[r].buf, Append(m, reply), n),
   start     |-> [resp |-> Len(enc[r].buf.resp), hist |-> Len(m)],
   updated   |-> order_seq + 1,
   coalesced |-> waiters[r] +
                   (IF enc[r].chain = NoChain THEN 0
                    ELSE chains[enc[r].chain].coalesced)]

\* _close_length_exhausted_chain: a rollback that leaves no response deletes
\* the chain, otherwise what is left of it is materialized.
CloseExhausted(i, q) ==
  LET e == Encode(i, q)
      c == chains[i]
      kept == IF e.rolled
              THEN [c EXCEPT !.hist = Prefix(q.msgs, c.start.hist), !.buf = e.buf]
              ELSE c
  IN  /\ chains' = Without(chains, i)
      /\ IF e.rolled /\ c.start.resp = 0
         THEN UNCHANGED <<materialized, order_seq>>
         ELSE /\ order_seq' = order_seq + 1
              /\ materialized' = materialized \cup
                                   {Materialize(i, kept, order_seq + 1)}

-----------------------------------------------------------------------------
(* run_generation: admission, under request_lock.                          *)

Init ==
  /\ phase = "ACTIVE"
  /\ chains = [i \in {} |-> NoChain]
  /\ materialized = {}
  /\ reserved = {}
  /\ inflight = [q \in Request |-> NoOwner]
  /\ next_chain_id = 1
  /\ order_seq = 0
  /\ coalesced = 0
  /\ lock = NoOwner
  /\ pc = [r \in Requests |-> "queued"]
  /\ req \in [Requests -> Request]
  /\ enc = [r \in Requests |-> NoEncoding]
  /\ future = [r \in Requests |-> [state |-> "none", chain |-> NoChain]]
  /\ waiters = [r \in Requests |-> 0]
  /\ joined = [r \in Requests |-> NoOwner]
  /\ releases = [r \in Requests |-> 0]
  /\ faults = 0

GoTo(r, label) == pc' = [pc EXCEPT ![r] = label]

\* The session is closed: 409.
Reject(r) ==
  /\ pc[r] = "queued"
  /\ lock = NoOwner
  /\ phase # "ACTIVE"
  /\ GoTo(r, "failed")
  /\ UNCHANGED <<session, lock, req, enc, future, waiters, joined, releases, faults>>

\* An identical request is in flight: share its result.
Join(r) ==
  LET owner == inflight[req[r]] IN
  /\ pc[r] = "queued"
  /\ lock = NoOwner
  /\ phase = "ACTIVE"
  /\ Coalesce
  /\ owner # NoOwner
  /\ waiters' = [waiters EXCEPT ![owner] = @ + 1]
  /\ joined' = [joined EXCEPT ![r] = owner]
  /\ coalesced' = coalesced + 1
  /\ GoTo(r, "waiting")
  /\ UNCHANGED <<phase, chains, materialized, reserved, inflight, next_chain_id,
                 order_seq, lock, req, enc, future, releases, faults>>

\* Mutant: a retry never joins.
StartPrepareAlone(r) ==
  /\ pc[r] = "queued"
  /\ lock = NoOwner
  /\ phase = "ACTIVE"
  /\ lock' = r
  /\ GoTo(r, "preparing")
  /\ UNCHANGED <<session, req, enc, future, waiters, joined, releases, faults>>

\* The lock is kept across the awaits of the preparation.
StartPrepare(r) ==
  /\ pc[r] = "queued"
  /\ lock = NoOwner
  /\ phase = "ACTIVE"
  /\ ~(Coalesce /\ inflight[req[r]] # NoOwner)
  /\ lock' = r
  /\ GoTo(r, "preparing")
  /\ UNCHANGED <<session, req, enc, future, waiters, joined, releases, faults>>

\* Reserve the selected chain and register as the owner of the fingerprint.
\* Nothing but the lock holder changes chains or reservations, so selecting
\* at the end of the preparation selects what its start would have.
Reserve(r) ==
  /\ pc[r] = "preparing"
  /\ \E i \in SelectChain(req[r]) :
       /\ ~CapacityExhausted(i, req[r])
       /\ enc' = [enc EXCEPT ![r] = Encode(i, req[r])]
       /\ reserved' = reserved \cup ({i} \ {NoChain})
       /\ IF Coalesce
          THEN /\ inflight' = [inflight EXCEPT ![req[r]] = r]
               /\ future' = [future EXCEPT ![r] = [state |-> "pending", chain |-> NoChain]]
          ELSE UNCHANGED <<inflight, future>>
       /\ lock' = NoOwner
       /\ GoTo(r, "generating")
       /\ UNCHANGED <<phase, chains, materialized, next_chain_id, order_seq, coalesced,
                      req, waiters, joined, releases, faults>>

\* No generation fits: the selected chain is closed and the client is told
\* "length".  The request never owned its fingerprint.
ExhaustCapacity(r) ==
  /\ pc[r] = "preparing"
  /\ \E i \in SelectChain(req[r]) :
       /\ CapacityExhausted(i, req[r])
       /\ IF i = NoChain
          THEN UNCHANGED <<chains, materialized, order_seq>>
          ELSE CloseExhausted(i, req[r])
       /\ lock' = NoOwner
       /\ GoTo(r, "length")
       /\ UNCHANGED <<phase, reserved, inflight, next_chain_id, coalesced,
                      req, enc, future, waiters, joined, releases, faults>>

-----------------------------------------------------------------------------
(* run_generation: backend call, commit and unwinding.                     *)

\* backend.generate returns; only this await is outside the lock.
Generated(r) ==
  /\ pc[r] = "generating"
  /\ GoTo(r, "committing")
  /\ UNCHANGED <<session, lock, req, enc, future, waiters, joined, releases, faults>>

\* Take the lock again and decode the response under it.
StartCommit(r) ==
  /\ pc[r] = "committing"
  /\ lock = NoOwner
  /\ phase = "ACTIVE"
  /\ lock' = r
  /\ GoTo(r, "decoding")
  /\ UNCHANGED <<session, req, enc, future, waiters, joined, releases, faults>>

\* Store the generation, attribute the waiters, release the reservation and
\* resolve the fingerprint: no await separates these.  A chain that is gone
\* (_find_active_chain raises) leaves FailOwned as the only step.
Commit(r) ==
  \E reply \in Replies, n \in GenLens :
    LET i == IF enc[r].chain = NoChain THEN next_chain_id ELSE enc[r].chain IN
    /\ pc[r] = "decoding"
    /\ enc[r].chain \in DOMAIN chains \cup {NoChain}
    /\ n <= MaxTokens(enc[r])
    /\ chains' = With(chains, i, CommittedChain(r, reply, n))
    /\ order_seq' = order_seq + 1
    /\ next_chain_id' = IF enc[r].chain = NoChain THEN i + 1 ELSE next_chain_id
    /\ reserved' = reserved \ {enc[r].chain}
    /\ IF Coalesce /\ inflight[req[r]] = r
       THEN /\ inflight' = [inflight EXCEPT ![req[r]] = NoOwner]
            /\ future' = [future EXCEPT ![r] = [state |-> "ok", chain |-> i]]
       ELSE UNCHANGED <<inflight, future>>
    /\ lock' = NoOwner
    /\ GoTo(r, "ok")
    /\ UNCHANGED <<phase, materialized, coalesced, req, enc, waiters, joined,
                   releases, faults>>

\* Mutants: the registry keeps the entry, or the waiters are not woken.
ResolveFailedKeepingEntry(r) ==
  /\ UNCHANGED inflight
  /\ IF Coalesce /\ inflight[req[r]] = r
     THEN future' = [future EXCEPT ![r] = [state |-> "failed", chain |-> NoChain]]
     ELSE UNCHANGED future
ResolveFailedSilently(r) ==
  /\ UNCHANGED future
  /\ IF Coalesce /\ inflight[req[r]] = r
     THEN inflight' = [inflight EXCEPT ![req[r]] = NoOwner]
     ELSE UNCHANGED inflight

\* _resolve_inflight_exact_request with the owner's exception.
ResolveFailed(r) ==
  IF Coalesce /\ inflight[req[r]] = r
  THEN /\ inflight' = [inflight EXCEPT ![req[r]] = NoOwner]
       /\ future' = [future EXCEPT ![r] = [state |-> "failed", chain |-> NoChain]]
  ELSE UNCHANGED <<inflight, future>>

\* Mutant: a failed owner keeps its reservation.
UnwindWithoutRelease(r) ==
  /\ ResolveFailed(r)
  /\ GoTo(r, "failed")
  /\ UNCHANGED releases

\* except BaseException: an owner that reserved a chain releases it first, in
\* a shielded task that needs the lock; with nothing to release it resolves at
\* once.  Without coalescing the finally clause does the release.
Unwind(r) ==
  IF enc[r].chain = NoChain
  THEN /\ ResolveFailed(r)
       /\ GoTo(r, "failed")
       /\ UNCHANGED releases
  ELSE /\ releases' = [releases EXCEPT ![r] = @ + 1]
       /\ GoTo(r, IF Coalesce THEN "releasing" ELSE "finally")
       /\ UNCHANGED <<inflight, future>>

\* The session was closed while the backend generated: 409.
CommitTooLate(r) ==
  /\ pc[r] = "committing"
  /\ lock = NoOwner
  /\ phase # "ACTIVE"
  /\ Unwind(r)
  /\ UNCHANGED <<phase, chains, materialized, reserved, next_chain_id, order_seq,
                 coalesced, lock, req, enc, waiters, joined, faults>>

\* A failure of the codec under the lock or a cancellation, before the request
\* owns anything.  A waiter may be cancelled: its owner is shielded.
FailUnowned(r) ==
  /\ pc[r] \in {"queued", "preparing", "waiting"}
  /\ faults < MaxFaults
  /\ faults' = faults + 1
  /\ lock' = IF lock = r THEN NoOwner ELSE lock
  /\ GoTo(r, "failed")
  /\ UNCHANGED <<session, req, enc, future, waiters, joined, releases>>

\* A failure of the backend, the merge or the decoder, or a cancellation.
FailOwned(r) ==
  /\ pc[r] \in {"generating", "committing", "decoding"}
  /\ faults < MaxFaults
  /\ faults' = faults + 1
  /\ lock' = IF lock = r THEN NoOwner ELSE lock
  /\ Unwind(r)
  /\ UNCHANGED <<phase, chains, materialized, reserved, next_chain_id, order_seq,
                 coalesced, req, enc, waiters, joined>>

\* Mutant: a release that was never started.
ReleaseReservationAnytime(r) ==
  /\ lock = NoOwner
  /\ reserved' = reserved \ {enc[r].chain}
  /\ releases' = [releases EXCEPT ![r] = @ - 1]
  /\ UNCHANGED <<phase, chains, materialized, inflight, next_chain_id, order_seq,
                 coalesced, lock, pc, req, enc, future, waiters, joined, faults>>

\* _release_chain_reservation, one run of it.
ReleaseReservation(r) ==
  /\ releases[r] > 0
  /\ lock = NoOwner
  /\ reserved' = reserved \ {enc[r].chain}
  /\ releases' = [releases EXCEPT ![r] = @ - 1]
  /\ UNCHANGED <<phase, chains, materialized, inflight, next_chain_id, order_seq,
                 coalesced, lock, pc, req, enc, future, waiters, joined, faults>>

\* Mutant: the release is started, not awaited.
FinishUnwindEarly(r) ==
  /\ pc[r] \in {"releasing", "finally"}
  /\ IF pc[r] = "releasing" THEN ResolveFailed(r) ELSE UNCHANGED <<inflight, future>>
  /\ GoTo(r, "failed")
  /\ UNCHANGED <<phase, chains, materialized, reserved, next_chain_id, order_seq,
                 coalesced, lock, req, enc, waiters, joined, releases, faults>>

\* The shielded release has run: wake the waiters with the failure.
FinishUnwind(r) ==
  /\ pc[r] \in {"releasing", "finally"}
  /\ releases[r] = 0
  /\ IF pc[r] = "releasing" THEN ResolveFailed(r) ELSE UNCHANGED <<inflight, future>>
  /\ GoTo(r, "failed")
  /\ UNCHANGED <<phase, chains, materialized, reserved, next_chain_id, order_seq,
                 coalesced, lock, req, enc, waiters, joined, releases, faults>>

\* A cancellation that arrives while the task awaits its shielded release
\* leaves the except clause; the finally clause, which still sees the
\* reservation, starts a second release.  One more ends the task.
CancelUnwind(r) ==
  /\ CleanupCancel
  /\ pc[r] \in {"releasing", "finally"}
  /\ faults < MaxFaults
  /\ faults' = faults + 1
  /\ IF pc[r] = "releasing"
     THEN /\ releases' = [releases EXCEPT ![r] = @ + 1]
          /\ GoTo(r, "finally")
     ELSE /\ UNCHANGED releases
          /\ GoTo(r, "failed")
  /\ UNCHANGED <<session, lock, req, enc, future, waiters, joined>>

\* The future a coalesced request shields is done.
Wake(r) ==
  /\ pc[r] = "waiting"
  /\ future[joined[r]].state \in {"ok", "failed"}
  /\ GoTo(r, future[joined[r]].state)
  /\ UNCHANGED <<session, lock, req, enc, future, waiters, joined, releases, faults>>

-----------------------------------------------------------------------------
(* finalize and abort, called by the actor.  Repeating either changes       *)
(* nothing: it returns or raises.                                          *)

\* Mutant: a chain that is being continued is left out.
FinalizeUnreserved ==
  /\ lock = NoOwner
  /\ phase = "ACTIVE"
  /\ phase' = "FINALIZED"
  /\ materialized' = materialized \cup
       {Materialize(i, chains[i], chains[i].updated) : i \in DOMAIN chains \ reserved}
  /\ chains' = [i \in {} |-> NoChain]
  /\ reserved' = {}
  /\ UNCHANGED <<inflight, next_chain_id, order_seq, coalesced, tasks>>

Finalize ==
  /\ lock = NoOwner
  /\ phase = "ACTIVE"
  /\ phase' = "FINALIZED"
  /\ materialized' = materialized \cup
       {Materialize(i, chains[i], chains[i].updated) : i \in DOMAIN chains}
  /\ chains' = [i \in {} |-> NoChain]
  /\ reserved' = {}
  /\ UNCHANGED <<inflight, next_chain_id, order_seq, coalesced, tasks>>

Abort ==
  /\ lock = NoOwner
  /\ phase = "ACTIVE"
  /\ phase' = "ABORTED"
  /\ materialized' = {}
  /\ chains' = [i \in {} |-> NoChain]
  /\ reserved' = {}
  /\ UNCHANGED <<inflight, next_chain_id, order_seq, coalesced, tasks>>

\* Every call has returned and the session is closed.
Terminated ==
  /\ phase # "ACTIVE"
  /\ \A r \in Requests : pc[r] \in {"ok", "length", "failed"} /\ releases[r] = 0
  /\ UNCHANGED vars

\* The steps the event loop takes on behalf of one request; failures and
\* cancellations come from outside.
Step(r) ==
  \/ Reject(r) \/ Join(r) \/ StartPrepare(r) \/ Reserve(r) \/ ExhaustCapacity(r)
  \/ Generated(r) \/ StartCommit(r) \/ Commit(r) \/ CommitTooLate(r)
  \/ ReleaseReservation(r) \/ FinishUnwind(r) \/ Wake(r)

Fault(r) == FailUnowned(r) \/ FailOwned(r) \/ CancelUnwind(r)

Next ==
  \/ \E r \in Requests : Step(r) \/ Fault(r)
  \/ Finalize
  \/ Abort
  \/ Terminated

Spec == Init /\ [][Next]_vars

\* Ready callbacks run; the codec and the backend return or raise.
Fairness == \A r \in Requests : WF_vars(Step(r))

FairSpec == Spec /\ Fairness

-----------------------------------------------------------------------------
(* Properties.                                                             *)

Owning == {"generating", "committing", "decoding"}
Labels == Owning \cup {"queued", "preparing", "waiting", "releasing", "finally",
                       "ok", "length", "failed"}

\* Every variable has the type the code gives it.
TypeOK ==
  /\ phase \in {"ACTIVE", "FINALIZED", "ABORTED"}
  /\ DOMAIN chains \subseteq Nat \ {NoChain}
  /\ chains \in [DOMAIN chains -> Chain]
  /\ materialized \subseteq Trajectory
  /\ reserved \subseteq Nat
  /\ inflight \in [Request -> Requests \cup {NoOwner}]
  /\ next_chain_id \in Nat \ {NoChain}
  /\ order_seq \in Nat
  /\ coalesced \in Nat
  /\ lock \in Requests \cup {NoOwner}
  /\ pc \in [Requests -> Labels]
  /\ req \in [Requests -> Request]
  /\ enc \in [Requests -> Encoded]
  /\ future \in [Requests -> Outcome]
  /\ waiters \in [Requests -> Nat]
  /\ joined \in [Requests -> Requests \cup {NoOwner}]
  /\ releases \in [Requests -> Nat]
  /\ faults \in 0..MaxFaults

\* r generates a continuation of a chain of the live session.
Holds(r) == phase = "ACTIVE" /\ pc[r] \in Owning /\ enc[r].chain # NoChain

\* A chain that a generation continues stays active and reserved for that one
\* request until it commits or fails, whatever finishes, fails or is cancelled
\* meanwhile (reserved_chain_ids).
ReservationExclusive ==
  \A r \in Requests : Holds(r) =>
    /\ enc[r].chain \in reserved \cap DOMAIN chains
    /\ \A s \in Requests \ {r} : Holds(s) => enc[s].chain # enc[r].chain

\* No update is lost: what a generation will overwrite at its commit is still
\* the version of the chain it read when it was prepared.
SnapshotCurrent ==
  \A r \in Requests :
    Holds(r) => enc[r].chain \in DOMAIN chains /\ chains[enc[r].chain].updated = enc[r].seen

\* Requests that overlap never share a chain, nor overwrite each other's turn.
ReservationsSound == ReservationExclusive /\ SnapshotCurrent

\* No reservation outlives its request: each is held by a generation, or a
\* release of it is still to run.
NoLeakedReservation ==
  reserved \subseteq {enc[r].chain : r \in {s \in Requests : Holds(s) \/ releases[s] > 0}}

\* "the coordination state is cleared so a later retry can try again": a
\* fingerprint is never registered to a request that is no longer running.
CoordinationCleared ==
  \A q \in Request :
    inflight[q] # NoOwner => pc[inflight[q]] \in Owning \cup {"releasing"}

\* With coalescing, "the backend generation and trajectory commit happen once":
\* two identical requests are never both at the backend or committing.
OneGeneration ==
  Coalesce => \A r, s \in Requests :
    pc[r] \in Owning /\ pc[s] \in Owning /\ req[r] = req[s] => r = s

\* The chain is released before waking retry waiters: a failed future is that
\* of a request with no release left to run.
WokenAfterRelease ==
  \A r \in Requests : future[r].state = "failed" => releases[r] = 0

\* "Attribute at commit, even if waiters cancel or resume after finalize": a
\* chain and its trajectory count exactly the waiters its generations served.
WaitersAttributed ==
  LET served(i) == Cardinality({w \in Requests : joined[w] # NoOwner
                                  /\ future[joined[w]] = [state |-> "ok", chain |-> i]})
  IN  /\ \A i \in DOMAIN chains : chains[i].coalesced = served(i)
      /\ \A t \in materialized : t.coalesced = served(t.chain)

\* Trajectories are ordered by order_seq at finalize: no two of the session
\* share a place, and no chain is both active and closed, or closed twice.
TrajectoryOrder ==
  /\ \A i, j \in DOMAIN chains : chains[i].updated = chains[j].updated => i = j
  /\ \A s, t \in materialized : s.order = t.order \/ s.chain = t.chain => s = t
  /\ \A i \in DOMAIN chains, t \in materialized :
        i # t.chain /\ chains[i].updated # t.order

\* The conversation and token buffer of everything the trainer may receive.
Records == {[hist |-> chains[i].hist, buf |-> chains[i].buf] : i \in DOMAIN chains}
             \cup {[hist |-> t.hist, buf |-> t.buf] : t \in materialized}

Trained(buf) == {buf.resp[k] : k \in 1..Len(buf.resp)} \ {Context}

\* A token with mask 1 was sampled by the backend for a prefix of the very
\* conversation its trajectory records, through rollbacks and forks.
TrainedOnPolicy ==
  \A x \in Records : \A t \in Trained(x.buf) :
    Len(t) <= Len(x.hist) /\ Prefix(x.hist, Len(t)) = t

\* "Rollback drops the last mark with the tokens it describes": the version
\* marks of a buffer are those of the generations whose tokens it has.
MarksDescribeTokens ==
  \A x \in Records : {x.buf.marks[k] : k \in 1..Len(x.buf.marks)} = Trained(x.buf)

\* No trajectory is longer than prompt_length + response_length.
CapacityRespected == \A x \in Records : Size(x.buf) <= Capacity

\* What a generation gives to others is right, however the requests end: the
\* waiters are counted, the capacity is kept, and waiters of a failed request
\* are woken only when they can have its chain.
OutcomesSound == WaitersAttributed /\ CapacityRespected /\ WokenAfterRelease

\* What the trainer may receive is in order, on policy and rightly marked.
TrajectoriesSound == TrajectoryOrder /\ TrainedOnPolicy /\ MarksDescribeTokens

\* The session is one whose calls take effect one at a time (SessionPromise):
\* no interleaving loses, repeats or reorders a generation, a token leaves only
\* with an answer that a client rewrites or an abort, a failed call leaves no
\* trace, and nothing changes once the session is closed.
Promise == INSTANCE SessionPromise WITH
  Asked   <- Request,
  status  <- phase,
  open    <- [i \in DOMAIN chains |->
                [scope |-> chains[i].scope, turns |-> chains[i].buf.marks,
                 last |-> chains[i].updated]],
  closed  <- {[line |-> t.chain, hist |-> t.hist, turns |-> t.buf.marks,
               place |-> t.order] : t \in materialized},
  fresh   <- next_chain_id,
  clock   <- order_seq,
  request <- req,
  outcome <- [r \in Requests |->
                IF pc[r] \in {"ok", "length", "failed"} THEN pc[r] ELSE "none"]

ImplementsPromise == Promise!Spec

\* Every call returns: neither the lock, nor a shielded release, nor the future
\* of another request keeps it forever.
RequestsReturn ==
  \A r \in Requests : <>(pc[r] \in {"ok", "length", "failed"})

=============================================================================
