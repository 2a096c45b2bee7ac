-------------------------- MODULE RouterAccounting --------------------------
(***************************************************************************)
(* What the agent-aware router knows of the calls in flight: the counters   *)
(* of the balancer (balancer.py), the load gauges and the book of held KV   *)
(* blocks that its callbacks keep (collectors/, store/), and the routing    *)
(* decision made from them (strategies/kvc_aware.py).                       *)
(*                                                                         *)
(* The balancer is one actor and handles one call at a time.  The events of *)
(* the engines arrive on another thread; each operation of a store holds    *)
(* its lock, so they fall between the operations of the actor.  A block is  *)
(* named by its chained prefix hash, a prompt by its full blocks and its    *)
(* length in tokens.                                                       *)
(***************************************************************************)
EXTENDS Integers, Sequences, FiniteSets, Functions

CONSTANTS
  Servers,     \* the replicas the pool may have
  Sessions,    \* request ids: the Gateway sends the id of its session
  Calls,       \* calls to the backend, each acquired once
  Blocks,      \* prefix hashes
  Prompts,     \* records of the full blocks and the length of a prompt
  BlockSize,   \* tokens of a block
  Capacity,    \* num_gpu_blocks * block_size, in tokens
  MinFree,     \* Capacity * (1 - load_threshold)
  Tolerance,   \* tie_tolerance, in percent
  Shortcut,    \* do_shortcut
  MaxEvents,   \* bound: removals, clears, dropped releases, engine events
  NoServer,    \* not a server
  Foreign      \* a hash that no prompt has

ASSUME FiniteAssumption == IsFiniteSet(Calls) /\ IsFiniteSet(Sessions)

ASSUME PromptsAssumption ==
  Prompts \subseteq [chain : Seq(Blocks), len : Nat]

ASSUME SizesAssumption ==
  /\ {BlockSize, Capacity, MinFree, Tolerance, MaxEvents} \subseteq Nat
  /\ Shortcut \in BOOLEAN
  /\ NoServer \notin Servers
  /\ Foreign \notin Blocks

VARIABLES
  pool,      \* _servers
  inflight,  \* _inflight; 0 for an absent server
  gauge,     \* INFLIGHT_COUNT, INFLIGHT_TOKENS and INFLIGHT_TURN_SUM
  row,       \* the per-request store; the row of turn 0 is absent
  marker,    \* _inflight_pins
  refs,      \* _inflight_blocks
  resident,  \* replicas_by_block, by replica
  learned,   \* a BlockStored has taught the block size
  polled,    \* the number of GPU blocks has been polled
  call,      \* the calls
  hazards,   \* history: what has happened that the books do not follow
  events     \* bounded by MaxEvents

balancer == <<pool, inflight>>
stores   == <<gauge, row, marker, refs, resident, learned, polled>>
vars     == <<balancer, stores, call, hazards, events>>

NoRow == [turn |-> 0, booked |-> 0, sticky |-> NoServer, memo |-> << >>]
NoMarker == [server |-> NoServer, chain |-> << >>]

Idle(state) == [state |-> state, session |-> NoServer, len |-> 0,
                server |-> NoServer, chain |-> << >>, turn |-> 0]

Elements(chain) == {chain[i] : i \in 1..Len(chain)}
InFlight(c) == call[c].state \in {"counted", "inflight"}
CallsAt(s) == {c \in Calls : InFlight(c) /\ call[c].server = s}
CallsOf(x) == {c \in Calls : InFlight(c) /\ call[c].session = x}

\* The actor is not in the middle of an acquire.
Ready == \A c \in Calls : call[c].state # "counted"

Event == events < MaxEvents /\ events' = events + 1

Init ==
  /\ pool = Servers
  /\ inflight = [s \in Servers |-> 0]
  /\ gauge = [s \in Servers |-> [count |-> 0, tokens |-> 0, turns |-> 0]]
  /\ row = [x \in Sessions |-> NoRow]
  /\ marker = [x \in Sessions |-> NoMarker]
  /\ refs = [s \in Servers |-> [b \in Blocks |-> 0]]
  /\ resident = [s \in Servers |-> {}]
  /\ learned = FALSE
  /\ polled = FALSE
  /\ call = [c \in Calls |-> Idle("new")]
  /\ hazards = {}
  /\ events = 0

-----------------------------------------------------------------------------
(* The routing decision.                                                   *)

\* inflight_block_count: each block is counted once, however many hold it.
Held(s) == {b \in Blocks : refs[s][b] > 0}

\* Mutant: what the engine caches is counted instead of what is held.
FreeOfCached(s) == Capacity - BlockSize * Cardinality(resident[s])

\* avail of a replica.
Free(s) == Capacity - BlockSize * Cardinality(Held(s))
UnderWater(s) == polled /\ Free(s) < MinFree

\* The prefix hashes of a prompt: none before the block size is known.
Chain(p) == IF learned THEN p.chain ELSE << >>

Extends(chain, memo) ==
  Len(memo) <= Len(chain) /\ SubSeq(chain, 1, Len(memo)) = memo

\* resolve_prefix_hashes: the checkpoint of the session, which the prompt is
\* taken to extend unless it is shorter, continued to the length of the prompt.
RankedChain(x, p) ==
  LET memo == row[x].memo
  IN  IF Len(Chain(p)) < Len(memo) \/ Extends(Chain(p), memo)
      THEN Chain(p)
      ELSE memo \o [i \in 1..(Len(Chain(p)) - Len(memo)) |-> Foreign]

\* Blocks of the chain that the replica has, up to the first one it misses.
Matched(s, chain) ==
  CHOOSE n \in 0..Len(chain) :
    /\ \A i \in 1..n : chain[i] \in resident[s]
    /\ n < Len(chain) => chain[n + 1] \notin resident[s]

\* Capacity left after the prefill of n tokens, times the length of the chain.
Remaining(s, chain, n) ==
  LET l == Len(chain)
  IN  IF l = 0 THEN Free(s) - n ELSE Free(s) * l - n * (l - Matched(s, chain))

Abs(n) == IF n < 0 THEN -n ELSE n

Eligible == {s \in pool : Free(s) >= MinFree}

\* _soft_pick, in the tolerance band of the best.
NearBest(chain, n) ==
  {s \in Eligible : \A t \in Eligible :
     (Remaining(t, chain, n) - Remaining(s, chain, n)) * 100
       <= Tolerance * Abs(Remaining(t, chain, n))}

\* _sticky_shortcut
BoundTo(x) ==
  IF Shortcut /\ row[x].sticky \in pool /\ ~UnderWater(row[x].sticky)
  THEN {row[x].sticky} ELSE {}

\* Where a call of session x may go.
Route(x, p) ==
  LET chain == RankedChain(x, p)
  IN  IF BoundTo(x) # {}
      THEN BoundTo(x)
      ELSE IF ~polled
      THEN {s \in pool : \A t \in pool : gauge[s].count <= gauge[t].count}
      ELSE IF Eligible # {}
      THEN NearBest(chain, p.len)
      ELSE {s \in pool : \A t \in pool : Matched(t, chain) <= Matched(s, chain)}

-----------------------------------------------------------------------------
(* The books.                                                              *)

\* incr_block_refs and decr_block_refs.
Ref(book, s, chain) ==
  [book EXCEPT ![s] = [b \in Blocks |-> IF b \in Elements(chain) THEN @[b] + 1 ELSE @[b]]]

\* Mutant: the first release takes the block out of the book.
UnrefAll(book, m) ==
  [s \in Servers |-> [b \in Blocks |->
     IF s = m.server /\ b \in Elements(m.chain) THEN 0 ELSE book[s][b]]]

Unref(book, m) ==
  [s \in Servers |-> [b \in Blocks |->
     IF s = m.server /\ b \in Elements(m.chain) /\ book[s][b] > 0
     THEN book[s][b] - 1 ELSE book[s][b]]]

\* Mutant: the deltas overwrite the gauges.
Overwrite(s, count, tokens, turns) ==
  gauge' = [gauge EXCEPT ![s] = [count |-> count, tokens |-> tokens, turns |-> turns]]

Add(s, count, tokens, turns) ==
  gauge' = [gauge EXCEPT ![s] = [count  |-> @.count + count,
                                 tokens |-> @.tokens + tokens,
                                 turns  |-> @.turns + turns]]

\* The row that a new row of x takes the place of, its own if there is place:
\* sessions other than these may have filled the store.
Victims(x) ==
  {x} \cup {y \in Sessions : row[x].turn = 0 /\ row[y].turn > 0}

-----------------------------------------------------------------------------
(* The calls of the actor.                                                 *)

\* acquire_server and the on_acquire callback of the inflight collector, up to
\* the references of the blocks.  A marker that is still there is taken for a
\* dropped release: its blocks are unpinned, its call and tokens netted out.
Acquire(c, x, p) ==
  /\ Ready
  /\ call[c].state = "new"
  /\ pool # {}
  /\ \E s \in Route(x, p), y \in Victims(x) :
       LET r == row[x]
           stale == marker[x] # NoMarker
       IN  /\ inflight' = [inflight EXCEPT ![s] = @ + 1]
           /\ row' = [row EXCEPT ![y] = NoRow,
                                 ![x] = [r EXCEPT
                                   !.turn = @ + 1,
                                   !.booked = p.len,
                                   !.memo = IF BoundTo(x) # {} THEN @ ELSE RankedChain(x, p)]]
           /\ marker' = [marker EXCEPT ![x] = NoMarker]
           /\ refs' = Ref(Unref(refs, marker[x]), s, Chain(p))
           /\ call' = [call EXCEPT ![c] = [state |-> "counted", session |-> x, server |-> s,
                                           len |-> p.len, chain |-> Chain(p),
                                           turn |-> r.turn + 1]]
           /\ IF stale THEN Add(s, 0, p.len - r.booked, r.turn + 1)
                       ELSE Add(s, 1, p.len, r.turn + 1)
           /\ hazards' = hazards \cup {h \in {"overlap", "evicted"} :
                                        CASE h = "overlap" -> CallsOf(x) # {}
                                          [] h = "evicted" -> y # x /\ CallsOf(y) # {}}
           /\ UNCHANGED <<pool, resident, learned, polled, events>>

\* record_dispatch_blocks (the blocks count as resident before the engine says
\* so), put_marker, and the on_acquire callback of the sticky collector.
Attach(c) ==
  LET x == call[c].session
      s == call[c].server
      chain == call[c].chain
  IN  /\ call[c].state = "counted"
      /\ resident' = [resident EXCEPT ![s] = @ \cup Elements(chain)]
      /\ marker' = IF chain = << >> THEN marker
                   ELSE [marker EXCEPT ![x] = [server |-> s, chain |-> chain]]
      /\ row' = [row EXCEPT ![x].sticky = s]
      /\ call' = [call EXCEPT ![c].state = "inflight"]
      /\ UNCHANGED <<balancer, gauge, refs, learned, polled, hazards, events>>

\* release_server: what is subtracted comes from the row and the marker of the
\* session.
Release(c) ==
  LET x == call[c].session
      s == call[c].server
  IN  /\ Ready
      /\ call[c].state = "inflight"
      /\ inflight' = [inflight EXCEPT ![s] = IF @ > 0 THEN @ - 1 ELSE @]
      /\ marker' = [marker EXCEPT ![x] = NoMarker]
      /\ refs' = Unref(refs, marker[x])
      /\ Add(s, -1, -row[x].booked, -row[x].turn)
      /\ call' = [call EXCEPT ![c] = Idle("done")]
      /\ UNCHANGED <<pool, row, resident, learned, polled, hazards, events>>

\* The release of a call never arrives.
Drop(c) ==
  /\ call[c].state = "inflight"
  /\ Event
  /\ call' = [call EXCEPT ![c] = Idle("lost")]
  /\ hazards' = hazards \cup {"dropped"}
  /\ UNCHANGED <<balancer, stores>>

\* remove_servers, whose callback drops the bindings to the server.  Its calls
\* are still in flight.
RemoveServer(s) ==
  /\ Ready
  /\ s \in pool
  /\ Event
  /\ pool' = pool \ {s}
  /\ inflight' = [inflight EXCEPT ![s] = 0]
  /\ row' = [x \in Sessions |-> IF row[x].sticky = s
                                THEN [row[x] EXCEPT !.sticky = NoServer] ELSE row[x]]
  /\ UNCHANGED <<gauge, marker, refs, resident, learned, polled, call, hazards>>

\* add_servers, here of a server that was removed before.
AddServer(s) ==
  /\ Ready
  /\ s \notin pool
  /\ pool' = pool \cup {s}
  /\ hazards' = IF CallsAt(s) = {} THEN hazards ELSE hazards \cup {"rejoined"}
  /\ UNCHANGED <<inflight, stores, call, events>>

\* clear_sticky_cache
ClearSticky ==
  /\ Ready
  /\ Event
  /\ row' = [x \in Sessions |-> [row[x] EXCEPT !.sticky = NoServer]]
  /\ UNCHANGED <<balancer, gauge, marker, refs, resident, learned, polled, call, hazards>>

-----------------------------------------------------------------------------
(* The collectors of the engines, on their own thread.                      *)

BlockStored(s, b) ==
  /\ IF learned THEN Event ELSE UNCHANGED events
  /\ learned' = TRUE
  /\ resident' = [resident EXCEPT ![s] = @ \cup {b}]
  /\ UNCHANGED <<balancer, gauge, row, marker, refs, polled, call, hazards>>

BlockRemoved(s, b) ==
  /\ Event
  /\ resident' = [resident EXCEPT ![s] = @ \ {b}]
  /\ UNCHANGED <<balancer, gauge, row, marker, refs, learned, polled, call, hazards>>

\* clear_replica forgets the blocks, the references and the markers of the
\* replica, even between two operations of an acquire.
AllBlocksCleared(s) ==
  /\ Event
  /\ resident' = [resident EXCEPT ![s] = {}]
  /\ refs' = [refs EXCEPT ![s] = [b \in Blocks |-> 0]]
  /\ marker' = [x \in Sessions |-> IF marker[x].server = s THEN NoMarker ELSE marker[x]]
  /\ hazards' = hazards \cup {h \in {"cleared", "torn"} :
                  \E c \in CallsAt(s) : h = "torn" => call[c].state # "inflight"}
  /\ UNCHANGED <<balancer, gauge, row, learned, polled, call>>

\* The first poll of the number of GPU blocks.
CapacityPolled ==
  /\ polled' = TRUE
  /\ UNCHANGED <<balancer, gauge, row, marker, refs, resident, learned, call, hazards, events>>

-----------------------------------------------------------------------------
\* No call is left to be made or released.
Terminated ==
  /\ \A c \in Calls : call[c].state \in {"done", "lost"} \/ (call[c].state = "new" /\ pool = {})
  /\ UNCHANGED vars

Next ==
  \/ \E c \in Calls :
       \/ \E x \in Sessions, p \in Prompts : Acquire(c, x, p)
       \/ Attach(c) \/ Release(c) \/ Drop(c)
  \/ \E s \in Servers : RemoveServer(s) \/ AddServer(s) \/ AllBlocksCleared(s)
  \/ \E s \in Servers, b \in Blocks : BlockStored(s, b) \/ BlockRemoved(s, b)
  \/ ClearSticky
  \/ CapacityPolled
  \/ Terminated

Spec == Init /\ [][Next]_vars

-----------------------------------------------------------------------------
(* Properties.  What the books cannot follow is excluded by name.           *)

Undisturbed(names) == hazards \cap names = {}

TokenCounts == {p.len : p \in Prompts} \cup {0}
Chains == {p.chain : p \in Prompts} \cup {<< >>}

\* Every variable has the type the code gives it.
TypeOK ==
  /\ pool \subseteq Servers
  /\ inflight \in [Servers -> Nat]
  /\ gauge \in [Servers -> [count : Int, tokens : Int, turns : Int]]
  /\ row \in [Sessions -> [turn : Nat, booked : TokenCounts,
                           sticky : Servers \cup {NoServer},
                           memo : Seq(Blocks \cup {Foreign})]]
  /\ marker \in [Sessions -> [server : Servers \cup {NoServer}, chain : Chains]]
  /\ refs \in [Servers -> [Blocks -> Nat]]
  /\ resident \in [Servers -> SUBSET Blocks]
  /\ learned \in BOOLEAN
  /\ polled \in BOOLEAN
  /\ call \in [Calls -> [state : {"new", "counted", "inflight", "done", "lost"},
                         session : Sessions \cup {NoServer}, len : TokenCounts,
                         server : Servers \cup {NoServer}, chain : Chains, turn : Nat]]
  /\ hazards \subseteq {"overlap", "evicted", "dropped", "rejoined", "cleared", "torn"}
  /\ events \in 0..MaxEvents

\* No binding names a server outside the pool, through removals, returns under
\* the same id and bindings cleared while calls are in flight.
StickyInPool == \A x \in Sessions : row[x].sticky \in pool \cup {NoServer}

\* get_total_inflight, which the trainer polls to drain the pool: the calls in
\* flight at the servers of the pool, those of removed servers no longer.
DrainExact ==
  Undisturbed({"dropped", "rejoined"}) =>
    \A s \in Servers :
      inflight[s] = IF s \in pool THEN Cardinality(CallsAt(s)) ELSE 0

\* The load gauges of a server are what its calls in flight add up to: what a
\* release subtracts, read when it arrives, is what the acquire added.
GaugeExact ==
  Undisturbed({"overlap", "evicted", "dropped"}) =>
    \A s \in Servers :
      gauge[s] = [count  |-> Cardinality(CallsAt(s)),
                  tokens |-> SumFunctionOnSet([c \in Calls |-> call[c].len], CallsAt(s)),
                  turns  |-> SumFunctionOnSet([c \in Calls |-> call[c].turn], CallsAt(s))]

\* "a shared prefix block leaves the book when its last holder releases": a
\* block has one reference for each call in flight that pinned it.
BookExact ==
  Undisturbed({"overlap", "dropped", "cleared", "torn"}) =>
    \A s \in Servers, b \in Blocks :
      refs[s][b] = Cardinality({c \in CallsAt(s) : b \in Elements(call[c].chain)})

\* The markers say what the book holds, also when sessions overlap, releases
\* are dropped and the engine clears its cache.
MarkersMirrorBook ==
  Ready /\ Undisturbed({"torn"}) =>
    \A s \in Servers, b \in Blocks :
      refs[s][b] = Cardinality({x \in Sessions :
                     marker[x].server = s /\ b \in Elements(marker[x].chain)})

\* Once every call has been released nothing is held: a lost reference would
\* take capacity from the server for good.
NothingHeldAtRest ==
  Undisturbed({"dropped", "torn"}) /\ (\A c \in Calls : ~InFlight(c)) =>
    /\ \A s \in Servers : Held(s) = {}
    /\ \A x \in Sessions : marker[x] = NoMarker

\* Tokens that the calls in flight leave free at a server.
TrulyFree(s) ==
  Capacity - BlockSize * Cardinality(UNION {Elements(call[c].chain) : c \in CallsAt(s)})

\* Back-to-back acquires see each other: a call goes to a server below the
\* capacity gate only when no server of the pool is above it.
GateSeesHolders ==
  [][polled /\ Undisturbed({"overlap", "dropped", "cleared", "torn"}) =>
       \A c \in Calls :
         call[c].state = "new" /\ call'[c].state = "counted" =>
           \/ TrulyFree(call'[c].server) >= MinFree
           \/ \A t \in pool : TrulyFree(t) < MinFree]_vars

\* The counters, the gauges and the bindings agree with the calls in flight.
LoadExact == TypeOK /\ StickyInPool /\ DrainExact /\ GaugeExact

\* "a per-replica pin book of the KV blocks held by in-flight requests".
PinBookExact == BookExact /\ MarkersMirrorBook /\ NothingHeldAtRest

=============================================================================
