---------------------------- MODULE EngineEvents ----------------------------
(***************************************************************************)
(* How the router learns what an engine caches: the publisher of the engine *)
(* (external), the ZMQ transport with its replay, reconnection and stop     *)
(* (collectors/transport/zmq.py, collectors/collector.py), the parser that  *)
(* translates the hashes of the engine (collectors/parse/vllm/kv.py), and    *)
(* the residency (store/kv_cache_store.py), which that task writes and also  *)
(* each acquire, on the thread of the balancer.                              *)
(*                                                                         *)
(* One endpoint; each has its own task, hash map and rows.  A block *)
(* is named by the contents of the blocks before it and its own: the engine *)
(* and the router both hash that chain, so their hashes of a block differ    *)
(* only if the router begins the chain at another place.                    *)
(***************************************************************************)
EXTENDS Integers, Sequences, FiniteSets, SequencesExt

CONSTANTS
  EngineChains, \* the blocks an engine may cache, closed under prefix
  Retained,     \* batches that the publisher keeps for a replay
  MaxRetries,   \* max_retry_attempts
  Scenarios,    \* which endpoint, and bounds: whether it has a replay socket, how
                \* many events its engine has, how many faults (socket errors, cut
                \* replays, failed connections, malformed events) may occur, whether
                \* its collector may stop, and the prompts that calls acquire it for
  MaxBatch,     \* bound: events of a batch
  Unmapped      \* not a chain

\* A block that the router names from another place in the chain on.
Ends(c) == {SubSeq(c, i, Len(c)) : i \in 1..Len(c)}

ChainBlocks == UNION {Ends(c) : c \in EngineChains}

\* The blocks that acquires for some prompts mark.
Marks(cs) == UNION {{SubSeq(c, 1, i) : i \in 1..Len(c)} : c \in cs}

ASSUME ChainsAssumption ==
  /\ EngineChains \subseteq Seq(UNION {ToSet(c) : c \in EngineChains})
  /\ \A c \in EngineChains : c # << >> /\ (Len(c) > 1 => Front(c) \in EngineChains)
  /\ Unmapped \notin ChainBlocks
  /\ {Retained, MaxRetries, MaxBatch} \subseteq Nat
  /\ Scenarios \subseteq [replay : BOOLEAN, events : Nat, faults : Nat, stops : BOOLEAN,
                           prompts : SUBSET EngineChains]

VARIABLES
  scenario,   \* the one chosen
  cached,     \* what the engine caches
  pending,    \* its events that are not published yet
  published,  \* the batches published
  queue,      \* batches in the queue of the registered SUB socket
  pc,         \* where the task of the endpoint is
  retries,    \* retry_count
  registered, \* the sockets in _endpoint_0 for none
  held,       \* the sockets the subscribe loop has fetched, 0 for none
  open,       \* the sockets that are open
  frames,     \* frames of the replay still to come
  cancelled,  \* a cancellation of the task is pending
  stopper,    \* how far Collector.stop has come, on another thread
  map,        \* remote_to_local_block_hash
  view,       \* replicas_by_block, of this replica
  ahead,      \* history: the blocks of view that an acquire marked and that no
              \* event has been about since
  drift,      \* history: what has happened that the view does not follow
  emitted, faults

engine    == <<scenario, cached, pending, published, emitted>>
transport == <<pc, retries, registered, held, open, frames>>
books     == <<map, view, ahead>>
eventsVars == <<engine, queue, transport, cancelled, stopper, books, drift, faults>>

EventsInit ==
  /\ scenario \in Scenarios
  /\ cached = {} /\ pending = << >> /\ published = << >> /\ queue = << >>
  /\ pc = "new" /\ retries = 0
  /\ registered = 0 /\ held = 0 /\ open = {} /\ frames = << >>
  /\ cancelled = FALSE /\ stopper = "running"
  /\ map = [c \in EngineChains |-> Unmapped] /\ view = {} /\ ahead = {}
  /\ drift = {}
  /\ emitted = 0 /\ faults = 0

-----------------------------------------------------------------------------
(* The parser and the store.                                               *)

NoUpdate == [map |-> map, add |-> {}, remove |-> {}, clear |-> FALSE, lost |-> FALSE]

\* _on_block_stored: the chain goes on from the hash of the parent, or from
\* the seed if the parent is not known.
Stored(u, e) ==
  LET parent == Front(e.blocks[1])
      known  == parent = << >> \/ u.map[parent] # Unmapped
      start  == IF parent = << >> \/ ~known THEN << >> ELSE u.map[parent]
      local(c) == start \o SubSeq(c, Len(parent) + 1, Len(c))
      new    == ToSet(e.blocks)
  IN  [u EXCEPT !.map  = [c \in EngineChains |-> IF c \in new THEN local(c) ELSE @[c]],
                !.add  = @ \cup {local(c) : c \in new},
                !.lost = @ \/ ~known]

\* _on_block_removed: a hash without a mapping is skipped.
Removed(u, e) ==
  LET gone == ToSet(e.blocks)
  IN  [u EXCEPT !.map    = [c \in EngineChains |-> IF c \in gone THEN Unmapped ELSE @[c]],
                !.remove = @ \cup ({u.map[c] : c \in gone} \ {Unmapped})]

\* parse, with KVCacheEvent.from_raw: events of another medium and malformed
\* ones are left out; a clear does not touch the map.
Fold(u, e) ==
  CASE e.kind = "stored"  -> Stored(u, e)
    [] e.kind = "removed" -> Removed(u, e)
    [] e.kind = "cleared" -> [u EXCEPT !.clear = TRUE]
    [] OTHER              -> u

Parsed(batch) ==
  LET u[i \in 0..Len(batch)] == IF i = 0 THEN NoUpdate ELSE Fold(u[i - 1], batch[i])
  IN  u[Len(batch)]

Kept(u, rows) == IF u.clear THEN {} ELSE rows

\* Mutant: additions are written before removals.
AddedFirst(u, amid) == (Kept(u, view) \cup amid \cup u.add) \ u.remove

\* _write_kv_update: clear, then removals, then additions. The lock is given
\* back in between, so acquires may mark blocks amid the write; between the
\* removals and the additions is as good as after it.
Written(u, amid) == ((Kept(u, view) \cup amid) \ u.remove) \cup u.add

\* The update of a batch tells less than its events: a block is stored before
\* it is removed or before a clear.
Folded(batch) ==
  \E i, j \in 1..Len(batch) :
    /\ i < j /\ batch[i].kind = "stored"
    /\ \/ batch[j].kind = "cleared"
       \/ batch[j].kind = "removed" /\ ToSet(batch[i].blocks) \cap ToSet(batch[j].blocks) # {}

\* The handler of the collector, for one payload.
Handle(batch) ==
  LET u == Parsed(batch)
  IN  /\ map' = u.map
      /\ \E cs \in SUBSET scenario.prompts :
           /\ view' = Written(u, Marks(cs))
           /\ ahead' = (Kept(u, ahead) \cup (Marks(cs) \ Kept(u, view)))
                         \ (u.remove \cup u.add)
      /\ drift' = drift \cup (IF u.lost THEN {"parent unresolved"} ELSE {})
                        \cup (IF Folded(batch) THEN {"folded"} ELSE {})
                        \cup (IF \E i \in 1..Len(batch) : batch[i].kind = "malformed"
                              THEN {"malformed"} ELSE {})
                        \cup (IF \E i \in 1..Len(batch) : batch[i].kind = "cleared"
                              THEN {"cleared"} ELSE {})

\* record_dispatch_blocks: an acquire of a call with the prompt c, on the thread
\* of the balancer. The size of a block may be known from another endpoint.
Dispatch(c) ==
  /\ c \in scenario.prompts
  /\ view' = view \cup Marks({c})
  /\ ahead' = ahead \cup (Marks({c}) \ view)
  /\ UNCHANGED <<engine, queue, transport, cancelled, stopper, map, drift, faults>>

-----------------------------------------------------------------------------
(* The engine and its publisher.                                           *)

Emit(e) ==
  /\ emitted < scenario.events /\ Len(pending) < MaxBatch
  /\ emitted' = emitted + 1
  /\ pending' = Append(pending, e)
  /\ UNCHANGED <<scenario, published, queue, transport, cancelled, stopper, books, drift, faults>>

\* The blocks of a chain that are missing are computed, in one event.
EngineStores(c) ==
  \E n \in 0..(Len(c) - 1), kind \in {"stored", "malformed"} :
    LET missing == [i \in 1..(Len(c) - n) |-> SubSeq(c, 1, n + i)]
    IN  /\ \A i \in 1..Len(c) : SubSeq(c, 1, i) \in cached <=> i <= n
        /\ cached' = cached \cup ToSet(missing)
        /\ kind = "malformed" => faults < scenario.faults /\ Len(missing) = 1
        /\ Emit([kind |-> kind, blocks |-> missing])

\* A block that no cached block extends is evicted.
EngineEvicts(c) ==
  /\ c \in cached
  /\ \A d \in cached : IsPrefix(c, d) => d = c
  /\ cached' = cached \ {c}
  /\ Emit([kind |-> "removed", blocks |-> <<c>>])

EngineResets ==
  /\ cached # {}
  /\ cached' = {}
  /\ Emit([kind |-> "cleared", blocks |-> << >>])

\* An event of another medium.
EngineOffloads(c) ==
  /\ UNCHANGED cached
  /\ c \in cached
  /\ pending = << >>
  /\ Emit([kind |-> "other medium", blocks |-> <<c>>])

\* A batch goes to the replay buffer and to whoever is connected.
Publish ==
  /\ pending # << >>
  /\ published' = Append(published, pending)
  /\ pending' = << >>
  /\ queue' = IF registered \in open THEN Append(queue, pending) ELSE queue
  /\ UNCHANGED <<scenario, cached, emitted, transport, cancelled, stopper, books, drift, faults>>

-----------------------------------------------------------------------------
(* The task of the endpoint.                                               *)

\* _close_zmq_sockets_for
CloseSockets ==
  /\ open' = open \ {registered}
  /\ registered' = 0
  /\ queue' = << >>

Fault == faults < scenario.faults /\ faults' = faults + 1

TaskKeeps == UNCHANGED <<engine, cancelled, stopper>>

\* subscribe starts the task.
Spawn ==
  /\ pc = "new"
  /\ pc' = "connect"
  /\ TaskKeeps
  /\ UNCHANGED <<queue, retries, registered, held, open, frames,
                 books, drift, faults>>

\* _connect_zmq_for succeeds. It counts the attempts anew.
Connect ==
  /\ pc = "connect"
  /\ registered' = CHOOSE s \in 1..3 : s \notin open \cup {held}
  /\ open' = open \cup {registered'}
  /\ queue' = << >>
  /\ retries' = 0
  /\ drift' = IF ~scenario.replay /\ published # << >> THEN drift \cup {"missed"} ELSE drift
  /\ pc' = IF scenario.replay THEN "ask" ELSE "enter"
  /\ TaskKeeps
  /\ UNCHANGED <<held, frames, books, faults>>

\* It fails: _reconnect_with_backoff_for goes on until it has no attempts left.
ConnectFails ==
  /\ pc = "connect"
  /\ Fault
  /\ CloseSockets
  /\ pc' = IF retries < MaxRetries THEN "backoff" ELSE "closing"
  /\ TaskKeeps
  /\ UNCHANGED <<retries, held, frames, books, drift>>

Retry ==
  /\ pc = "backoff" /\ ~cancelled
  /\ retries' = retries + 1
  /\ pc' = "connect"
  /\ TaskKeeps
  /\ UNCHANGED <<queue, registered, held, open, frames, books, drift, faults>>

\* _replay_historical_data_for: everything that is retained, from the first.
AskReplay ==
  /\ pc = "ask" /\ ~cancelled
  /\ registered \in open
  /\ frames' = SubSeq(published, 1 + (IF Len(published) > Retained
                                      THEN Len(published) - Retained ELSE 0), Len(published))
  /\ drift' = IF Len(published) > Retained THEN drift \cup {"missed"} ELSE drift
  /\ pc' = "replay"
  /\ TaskKeeps
  /\ UNCHANGED <<queue, retries, registered, held, open, books, faults>>

ReplayFrame ==
  /\ pc = "replay" /\ ~cancelled
  /\ frames # << >>
  /\ registered \in open
  /\ Handle(Head(frames))
  /\ frames' = Tail(frames)
  /\ TaskKeeps
  /\ UNCHANGED <<queue, pc, retries, registered, held, open, faults>>

ReplayEnds ==
  /\ pc = "replay" /\ ~cancelled
  /\ frames = << >>
  /\ pc' = "enter"
  /\ TaskKeeps
  /\ UNCHANGED <<queue, retries, registered, held, open, frames,
                 books, drift, faults>>

\* A timeout or a socket error ends the replay: subscription only.
ReplayCut ==
  /\ pc \in {"ask", "replay"} /\ ~cancelled
  /\ IF registered \in open THEN Fault ELSE UNCHANGED faults
  /\ frames' = << >>
  /\ drift' = drift \cup (IF published = << >> THEN {} ELSE {"missed"})
  /\ pc' = "enter"
  /\ TaskKeeps
  /\ UNCHANGED <<queue, retries, registered, held, open, books>>

\* The loop fetches its sockets once; it ends when they are gone or when the
\* transport is stopped.
EnterLoop ==
  /\ pc = "enter"
  /\ held' = IF held = 0 THEN registered ELSE held
  /\ pc' = IF held' = 0 \/ stopper # "running" THEN "closing" ELSE "receive"
  /\ TaskKeeps
  /\ UNCHANGED <<queue, retries, registered, open, frames, books, drift, faults>>

Receive ==
  /\ pc = "receive" /\ ~cancelled
  /\ held \in open
  /\ queue # << >>
  /\ Handle(Head(queue))
  /\ queue' = Tail(queue)
  /\ pc' = IF stopper # "running" THEN "closing" ELSE "receive"
  /\ TaskKeeps
  /\ UNCHANGED <<retries, registered, held, open, frames, faults>>

\* recv_multipart raises, always so on a socket that is closed.
ReceiveFails ==
  /\ pc = "receive" /\ ~cancelled
  /\ IF held \in open THEN Fault ELSE UNCHANGED faults
  /\ CloseSockets
  /\ pc' = IF retries < MaxRetries THEN "backoff" ELSE "closing"
  /\ TaskKeeps
  /\ UNCHANGED <<retries, held, frames, books, drift>>

\* A cancellation is delivered at an await.
Cancelled ==
  /\ cancelled
  /\ pc \in {"new", "backoff", "ask", "replay", "receive"}
  /\ pc' = IF pc = "new" THEN "done" ELSE "closing"
  /\ cancelled' = FALSE
  /\ UNCHANGED <<engine, queue, retries, registered, held, open, frames,
                 stopper, books, drift, faults>>

\* Mutant: the finally clause leaves the sockets to stop, which has closed
\* those that it saw.
FinishLeavingSockets ==
  /\ pc = "closing"
  /\ pc' = "done"
  /\ TaskKeeps
  /\ UNCHANGED <<queue, retries, registered, held, open, frames, books, drift, faults>>

\* The finally clause.
Finish ==
  /\ pc = "closing"
  /\ CloseSockets
  /\ pc' = "done"
  /\ TaskKeeps
  /\ UNCHANGED <<retries, held, frames, books, drift, faults>>

-----------------------------------------------------------------------------
(* Collector.stop, on another thread.                                      *)

StopKeeps ==
  UNCHANGED <<engine, pc, retries, held, frames, books, drift, faults>>

\* ZMQTransport.stop sets the flag,
StopFlags ==
  /\ scenario.stops /\ stopper = "running"
  /\ stopper' = "flagged"
  /\ StopKeeps
  /\ UNCHANGED <<queue, registered, open, cancelled>>

\* cancels the tasks that subscribe has started,
StopCancels ==
  /\ stopper = "flagged"
  /\ stopper' = "cancelled"
  /\ cancelled' = (pc \notin {"new", "done"})
  /\ StopKeeps
  /\ UNCHANGED <<queue, registered, open>>

\* and closes the sockets.
StopCloses ==
  /\ stopper = "cancelled"
  /\ stopper' = "closed"
  /\ CloseSockets
  /\ StopKeeps
  /\ UNCHANGED cancelled

\* _cancel_and_drain cancels all tasks of the loop
StopDrains ==
  /\ stopper = "closed"
  /\ stopper' = "draining"
  /\ cancelled' = (pc # "done")
  /\ StopKeeps
  /\ UNCHANGED <<queue, registered, open>>

\* and waits for them.
StopEnds ==
  /\ stopper = "draining"
  /\ pc = "done"
  /\ stopper' = "stopped"
  /\ StopKeeps
  /\ UNCHANGED <<queue, registered, open, cancelled>>

EventsNext ==
  \/ \E c \in EngineChains : EngineStores(c) \/ EngineEvicts(c) \/ EngineOffloads(c)
                             \/ Dispatch(c)
  \/ EngineResets \/ Publish
  \/ Spawn \/ Connect \/ ConnectFails \/ Retry \/ AskReplay \/ ReplayFrame \/ ReplayEnds
  \/ ReplayCut \/ EnterLoop \/ Receive \/ ReceiveFails \/ Cancelled \/ Finish
  \/ StopFlags \/ StopCancels \/ StopCloses \/ StopDrains \/ StopEnds

EventsSpec == EventsInit /\ [][EventsNext]_eventsVars

-----------------------------------------------------------------------------
EventsTypeOK ==
  /\ cached \subseteq EngineChains
  /\ ahead \subseteq view /\ view \subseteq ChainBlocks
  /\ map \in [EngineChains -> ChainBlocks \cup {Unmapped}]
  /\ retries \in 0..MaxRetries
  /\ registered \in 0..3 /\ held \in 0..3
  /\ open \subseteq 1..3

\* Everything the engine has published has been handled, on the sockets that
\* the loop has.
CaughtUp ==
  /\ pc = "receive" /\ held = registered
  /\ pending = << >> /\ queue = << >>

\* Once caught up, the router ranks by what the engine caches and, ahead of it,
\* by the prompts dispatched since the last event about their blocks, and by
\* nothing else, however the replay, the subscription and the acquires overlap,
\* unless batches were missed, an event was malformed, the update of a batch
\* was not faithful to its order, or the parent of a stored block was unknown
\* (zmq.py, kv.py, collector.py:174, kv_cache_store.py:103). A block that the
\* engine never stores stays ahead: no removal will name it.
ViewExact ==
  CaughtUp /\ drift \subseteq {"cleared"} => view = cached \cup ahead

\* The hash map is bounded by what the engine caches (kv.py, "the pop keeps the
\* map bounded by the resident set"), unless a clear, which leaves it as it is.
MapBounded ==
  CaughtUp /\ drift \subseteq {"folded", "parent unresolved", "malformed"}
    => \A c \in EngineChains : map[c] # Unmapped => c \in cached

\* A collector that was stopped leaves no socket open, whichever step of a
\* reconnection the stop overlapped (zmq.py:117, collector.py:435).
SocketsClosed == stopper = "stopped" => open = {}

\* The store follows the engine, through batches, replays, reconnections and
\* acquires.
EventsFollowed == EventsTypeOK /\ ViewExact /\ MapBounded

=============================================================================
