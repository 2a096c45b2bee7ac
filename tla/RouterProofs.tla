----------------------------- MODULE RouterProofs -----------------------------
(***************************************************************************)
(* Proofs about the router.                                                *)
(*                                                                         *)
(* RouterAccounting: the counters, the gauges and the book of held blocks  *)
(* agree with the calls in flight, and so does the capacity gate that is   *)
(* read from them.  The gauges are sums over the calls in flight; what the *)
(* fold of the library computes is proved first, from a minimal            *)
(* counterexample.                                                         *)
(*                                                                         *)
(* EngineEvents: a stopped collector leaves no socket open (SocketsClosed),*)
(* and the router follows what the engine caches (EventsFollowed).         *)
(***************************************************************************)
EXTENDS RouterAccounting, EngineEvents, FiniteSetTheorems, SequenceTheorems,
        WellFoundedInduction, TLAPS

-----------------------------------------------------------------------------
(* RouterAccounting.                                                       *)

-----------------------------------------------------------------------------
(* The invariant.                                                          *)

\* A call in flight has a session and a server; the one call that is between
\* the two halves of an acquire has a server of the pool and no marker yet.
CallsPlaced ==
  /\ \A c \in Calls : InFlight(c) => call[c].session \in Sessions /\ call[c].server \in Servers
  /\ \A c \in Calls : call[c].state = "counted" =>
       call[c].server \in pool /\ marker[call[c].session] = NoMarker
  /\ \A c, d \in Calls : call[c].state = "counted" /\ call[d].state = "counted" => c = d
  /\ \A x \in Sessions : marker[x].server = NoServer => marker[x] = NoMarker

\* A marker is that of a call in flight, while every release arrives.
MarkersHeld ==
  Undisturbed({"dropped"}) =>
    \A x \in Sessions : marker[x] # NoMarker =>
      \E c \in Calls : call[c].state = "inflight" /\ call[c].session = x

\* A session that never overlaps has one call in flight.
OnePerSession ==
  Undisturbed({"overlap"}) =>
    \A c, d \in Calls :
      InFlight(c) /\ InFlight(d) /\ call[c].session = call[d].session => c = d

\* The row of a session says what its call in flight added to the gauges.
RowsFollow ==
  Undisturbed({"overlap", "evicted", "dropped"}) =>
    \A c \in Calls : InFlight(c) =>
      /\ row[call[c].session].booked = call[c].len
      /\ row[call[c].session].turn = call[c].turn

\* The marker of a session says what its call in flight pinned.
MarkersFollow ==
  Undisturbed({"overlap", "dropped", "cleared", "torn"}) =>
    \A c \in Calls : call[c].state = "inflight" =>
      marker[call[c].session] =
        IF call[c].chain = << >> THEN NoMarker
        ELSE [server |-> call[c].server, chain |-> call[c].chain]

\* The sessions whose marker holds b at s, and the call that has its references
\* but not yet its marker.
Holders(s, b) == {x \in Sessions : marker[x].server = s /\ b \in Elements(marker[x].chain)}
CountedCalls(s, b) == {c \in Calls : /\ call[c].state = "counted"
                                     /\ call[c].server = s
                                     /\ b \in Elements(call[c].chain)}

\* MarkersMirrorBook, in the middle of an acquire as well.
BookMirrored ==
  Undisturbed({"torn"}) =>
    \A s \in Servers, b \in Blocks :
      refs[s][b] = Cardinality(Holders(s, b)) + Cardinality(CountedCalls(s, b))

RouterInv ==
  /\ TypeOK
  /\ CallsPlaced
  /\ StickyInPool
  /\ DrainExact
  /\ OnePerSession
  /\ MarkersHeld
  /\ RowsFollow
  /\ GaugeExact
  /\ MarkersFollow
  /\ BookExact
  /\ BookMirrored

-----------------------------------------------------------------------------
(* Sums over a finite set.                                                 *)

\* The element that the fold of the library takes first.
Pick(s) == CHOOSE x \in s : TRUE

\* The function that the fold of the library defines on the subsets of S.
IsSum(g, f, S) ==
  g = [s \in SUBSET S |-> IF s = {} THEN 0 ELSE f[Pick(s)] + g[s \ {Pick(s)}]]
SumOf(f, S) == CHOOSE g : IsSum(g, f, S)

LEMMA SumUnfolds == ASSUME NEW f, NEW S PROVE SumFunctionOnSet(f, S) = SumOf(f, S)[S]
BY DEF SumFunctionOnSet, FoldFunctionOnSet, MapThenFoldSet, SumOf, IsSum, Pick

\* A set of subsets of a finite set that is not empty has a minimal member.
LEMMA LeastSubset ==
  ASSUME NEW S, IsFiniteSet(S), NEW B \in SUBSET (SUBSET S), B # {}
  PROVE  \E T \in B : \A R \in SUBSET T : R # T => R \notin B
<1>1. IsWellFoundedOn(StrictSubsetOrdering(S), FiniteSubsetsOf(S))
  BY FS_StrictSubsetOrderingWellFounded
<1>2. B \subseteq FiniteSubsetsOf(S)
  <2> SUFFICES ASSUME NEW T \in B PROVE T \in FiniteSubsetsOf(S)
    OBVIOUS
  <2>1. IsFiniteSet(T)
    BY FS_Subset
  <2>2. QED BY <2>1 DEF FiniteSubsetsOf
<1>3. PICK T \in B : \A R \in B : ~ (<<R, T>> \in StrictSubsetOrdering(S))
  BY <1>1, <1>2, WFMin
<1>4. ASSUME NEW R \in SUBSET T, R # T, R \in B PROVE FALSE
  <2>1. <<R, T>> \in StrictSubsetOrdering(S)
    BY <1>4 DEF StrictSubsetOrdering
  <2>2. QED BY <1>3, <1>4, <2>1
<1>5. QED BY <1>4

LEMMA PickIn == ASSUME NEW s, s # {} PROVE Pick(s) \in s
BY DEF Pick

LEMMA SumUnique ==
  ASSUME NEW f, NEW S, NEW T, IsFiniteSet(S), NEW g, NEW h, IsSum(g, f, S), IsSum(h, f, T),
         NEW r, r \subseteq S, r \subseteq T
  PROVE  g[r] = h[r]
<1> DEFINE Bad == {q \in SUBSET S : q \subseteq T /\ g[q] # h[q]}
<1>1. ASSUME Bad # {} PROVE FALSE
  <2>1. PICK q \in Bad : \A p \in SUBSET q : p # q => p \notin Bad
    <3>1. Bad \in SUBSET (SUBSET S)
      OBVIOUS
    <3> HIDE DEF Bad
    <3>2. QED BY <1>1, <3>1, LeastSubset
  <2>2. /\ g[q] = IF q = {} THEN 0 ELSE f[Pick(q)] + g[q \ {Pick(q)}]
        /\ h[q] = IF q = {} THEN 0 ELSE f[Pick(q)] + h[q \ {Pick(q)}]
    BY DEF IsSum
  <2>3. q # {}
    BY <2>2
  <2>4. q \ {Pick(q)} \in SUBSET q /\ q \ {Pick(q)} # q
    BY <2>3, PickIn
  <2>5. g[q \ {Pick(q)}] = h[q \ {Pick(q)}]
    BY <2>1, <2>4
  <2>6. QED BY <2>2, <2>3, <2>5
<1>2. QED BY <1>1

LEMMA SumExists ==
  ASSUME NEW f, NEW S, IsFiniteSet(S)
  PROVE  IsSum(SumOf(f, S), f, S)
<1> DEFINE Bad == {T \in SUBSET S : ~ IsSum(SumOf(f, T), f, T)}
<1>1. ASSUME Bad # {} PROVE FALSE
  <2>1. PICK T \in Bad : \A R \in SUBSET T : R # T => R \notin Bad
    <3>1. Bad \in SUBSET (SUBSET S)
      OBVIOUS
    <3> HIDE DEF Bad
    <3>2. QED BY <1>1, <3>1, LeastSubset
  <2>2. \A R \in SUBSET T : R # T => IsSum(SumOf(f, R), f, R)
    BY <2>1
  <2> DEFINE At(R) == SumOf(f, R)[R]
             G == [s \in SUBSET T |->
                     IF s = {} THEN 0 ELSE f[Pick(s)] + At(s \ {Pick(s)})]
  <2>3. ASSUME NEW R \in SUBSET T, R # T
        PROVE  At(R) = G[R]
    <3>1. At(R) = IF R = {} THEN 0 ELSE f[Pick(R)] + SumOf(f, R)[R \ {Pick(R)}]
      BY <2>2, <2>3 DEF IsSum
    <3>2. CASE R # {}
      <4> DEFINE P == R \ {Pick(R)}
      <4>1. P \in SUBSET T /\ P # T /\ P \subseteq R
        BY <2>3
      <4>2. IsFiniteSet(R)
        BY FS_Subset
      <4>3. IsSum(SumOf(f, P), f, P) /\ IsSum(SumOf(f, R), f, R)
        BY <2>2, <2>3, <4>1
      <4>4. SumOf(f, R)[P] = SumOf(f, P)[P]
        BY <4>1, <4>2, <4>3, SumUnique
      <4>5. QED BY <3>1, <3>2, <4>4
    <3>3. QED BY <3>1, <3>2
  <2>4. \A s \in SUBSET T : s # {} => s \ {Pick(s)} \in SUBSET T /\ s \ {Pick(s)} # T
    BY PickIn
  <2>5. G = [s \in SUBSET T |-> IF s = {} THEN 0 ELSE f[Pick(s)] + G[s \ {Pick(s)}]]
    <3> HIDE DEF At
    <3>1. \A s \in SUBSET T : s # {} => At(s \ {Pick(s)}) = G[s \ {Pick(s)}]
      BY <2>3, <2>4
    <3>2. QED BY <3>1
  <2>6. IsSum(G, f, T)
    BY <2>5 DEF IsSum
  <2>7. IsSum(SumOf(f, T), f, T)
    <3> HIDE DEF G
    <3>1. QED BY <2>6 DEF SumOf
  <2>8. QED BY <2>7
<1>2. QED BY <1>1

LEMMA SumStep ==
  ASSUME NEW f, NEW S, IsFiniteSet(S)
  PROVE  SumFunctionOnSet(f, S) =
           IF S = {} THEN 0 ELSE f[Pick(S)] + SumFunctionOnSet(f, S \ {Pick(S)})
<1>1. SumOf(f, S)[S] = IF S = {} THEN 0 ELSE f[Pick(S)] + SumOf(f, S)[S \ {Pick(S)}]
  <2>1. SumOf(f, S) = [s \in SUBSET S |->
                         IF s = {} THEN 0 ELSE f[Pick(s)] + SumOf(f, S)[s \ {Pick(s)}]]
    BY SumExists DEF IsSum
  <2> HIDE DEF SumOf
  <2>2. S \in SUBSET S
    OBVIOUS
  <2>3. QED BY <2>1, <2>2
<1>2. SumOf(f, S)[S \ {Pick(S)}] = SumOf(f, S \ {Pick(S)})[S \ {Pick(S)}]
  <2>1. IsFiniteSet(S \ {Pick(S)})
    BY FS_Subset
  <2>2. QED BY <2>1, SumExists, SumUnique
<1>3. QED BY <1>1, <1>2, SumUnfolds

LEMMA SumType ==
  ASSUME NEW C, IsFiniteSet(C), NEW f \in [C -> Int], NEW S \in SUBSET C
  PROVE  SumFunctionOnSet(f, S) \in Int
<1> DEFINE Bad == {T \in SUBSET C : SumFunctionOnSet(f, T) \notin Int}
<1>1. ASSUME Bad # {} PROVE FALSE
  <2>1. PICK T \in Bad : \A R \in SUBSET T : R # T => R \notin Bad
    <3>1. Bad \in SUBSET (SUBSET C)
      OBVIOUS
    <3> HIDE DEF Bad
    <3>2. QED BY <1>1, <3>1, LeastSubset
  <2>2. IsFiniteSet(T)
    BY FS_Subset
  <2>3. SumFunctionOnSet(f, T) =
           IF T = {} THEN 0 ELSE f[Pick(T)] + SumFunctionOnSet(f, T \ {Pick(T)})
    BY <2>2, SumStep
  <2>4. T # {}
    BY <2>3
  <2>5. SumFunctionOnSet(f, T \ {Pick(T)}) \in Int /\ f[Pick(T)] \in Int
    BY <2>1, <2>4, PickIn
  <2>6. QED BY <2>3, <2>4, <2>5
<1>2. QED BY <1>1

\* Which element is taken first does not matter.
LEMMA SumAdds ==
  ASSUME NEW C, IsFiniteSet(C), NEW f \in [C -> Int], NEW S \in SUBSET C, NEW x \in S
  PROVE  SumFunctionOnSet(f, S) = f[x] + SumFunctionOnSet(f, S \ {x})
<1> DEFINE Sum(T) == SumFunctionOnSet(f, T)
           Bad == {T \in SUBSET C : \E z \in T : Sum(T) # f[z] + Sum(T \ {z})}
<1>1. ASSUME NEW T \in SUBSET C PROVE Sum(T) \in Int
  BY SumType
<1>2. \A T \in SUBSET C : T # {} => Sum(T) = f[Pick(T)] + Sum(T \ {Pick(T)})
  BY SumStep, FS_Subset
<1>3. ASSUME Bad # {} PROVE FALSE
  <2>1. PICK T \in Bad : \A R \in SUBSET T : R # T => R \notin Bad
    BY <1>3, LeastSubset
  <2>2. PICK z \in T : Sum(T) # f[z] + Sum(T \ {z})
    OBVIOUS
  <2> DEFINE y == Pick(T)
  <2> HIDE DEF Sum
  <2>3. y \in T /\ Sum(T) = f[y] + Sum(T \ {y})
    BY <1>2, <2>2, PickIn
  <2>4. y # z
    BY <2>2, <2>3
  <2> HIDE DEF y
  <2>5. Sum(T \ {y}) = f[z] + Sum((T \ {y}) \ {z})
    <3>1. T \ {y} \in SUBSET T /\ T \ {y} # T /\ z \in T \ {y}
      BY <2>3, <2>4
    <3>2. QED BY <2>1, <3>1
  <2>6. Sum(T \ {z}) = f[y] + Sum((T \ {z}) \ {y})
    <3>1. T \ {z} \in SUBSET T /\ T \ {z} # T /\ y \in T \ {z}
      BY <2>2, <2>3, <2>4
    <3>2. QED BY <2>1, <3>1
  <2>7. (T \ {y}) \ {z} = (T \ {z}) \ {y}
    OBVIOUS
  <2>8. f[y] \in Int /\ f[z] \in Int /\ Sum((T \ {z}) \ {y}) \in Int
    BY <1>1, <2>2, <2>3
  <2>9. Sum(T) = f[y] + (f[z] + Sum((T \ {z}) \ {y}))
    BY <2>3, <2>5, <2>7
  <2>10. f[z] + Sum(T \ {z}) = f[z] + (f[y] + Sum((T \ {z}) \ {y}))
    BY <2>6
  <2>11. f[y] + (f[z] + Sum((T \ {z}) \ {y})) = f[z] + (f[y] + Sum((T \ {z}) \ {y}))
    BY <2>8
  <2>12. QED BY <2>2, <2>9, <2>10, <2>11
<1>4. QED BY <1>3

\* Only the values of the elements matter.
LEMMA SumSame ==
  ASSUME NEW S, IsFiniteSet(S), NEW f, NEW g, \A x \in S : f[x] = g[x]
  PROVE  SumFunctionOnSet(f, S) = SumFunctionOnSet(g, S)
<1> DEFINE Bad == {T \in SUBSET S : SumFunctionOnSet(f, T) # SumFunctionOnSet(g, T)}
<1>1. ASSUME Bad # {} PROVE FALSE
  <2>1. PICK T \in Bad : \A R \in SUBSET T : R # T => R \notin Bad
    <3>1. Bad \in SUBSET (SUBSET S)
      OBVIOUS
    <3> HIDE DEF Bad
    <3>2. QED BY <1>1, <3>1, LeastSubset
  <2>2. IsFiniteSet(T)
    BY FS_Subset
  <2>3. /\ SumFunctionOnSet(f, T) =
             IF T = {} THEN 0 ELSE f[Pick(T)] + SumFunctionOnSet(f, T \ {Pick(T)})
        /\ SumFunctionOnSet(g, T) =
             IF T = {} THEN 0 ELSE g[Pick(T)] + SumFunctionOnSet(g, T \ {Pick(T)})
    BY <2>2, SumStep
  <2>4. T # {}
    BY <2>3
  <2>5. SumFunctionOnSet(f, T \ {Pick(T)}) = SumFunctionOnSet(g, T \ {Pick(T)})
        /\ f[Pick(T)] = g[Pick(T)]
    BY <2>1, <2>4, PickIn
  <2>6. QED BY <2>3, <2>4, <2>5
<1>2. QED BY <1>1
-----------------------------------------------------------------------------
(* The steps.                                                              *)

RowRecord == [turn : Nat, booked : TokenCounts, sticky : Servers \cup {NoServer},
              memo : Seq(Blocks \cup {Foreign})]
MarkerRecord == [server : Servers \cup {NoServer}, chain : Chains]
GaugeRecord == [count : Int, tokens : Int, turns : Int]
CallRecord == [state : {"new", "counted", "inflight", "done", "lost"},
               session : Sessions \cup {NoServer}, len : TokenCounts,
               server : Servers \cup {NoServer}, chain : Chains, turn : Nat]

LEMMA TypeParts ==
  TypeOK <=>
    /\ pool \subseteq Servers
    /\ inflight \in [Servers -> Nat]
    /\ gauge \in [Servers -> GaugeRecord]
    /\ row \in [Sessions -> RowRecord]
    /\ marker \in [Sessions -> MarkerRecord]
    /\ refs \in [Servers -> [Blocks -> Nat]]
    /\ resident \in [Servers -> SUBSET Blocks]
    /\ learned \in BOOLEAN
    /\ polled \in BOOLEAN
    /\ call \in [Calls -> CallRecord]
    /\ hazards \subseteq {"overlap", "evicted", "dropped", "rejoined", "cleared", "torn"}
    /\ events \in 0..MaxEvents
BY DEF TypeOK, GaugeRecord, RowRecord, MarkerRecord, CallRecord

LEMMA PromptTypes ==
  ASSUME NEW p \in Prompts
  PROVE  /\ p.chain \in Seq(Blocks) /\ p.chain \in Chains
         /\ p.len \in Nat /\ p.len \in TokenCounts
BY PromptsAssumption DEF Chains, TokenCounts

LEMMA CountsAreNaturals == TokenCounts \subseteq Nat
BY PromptTypes DEF TokenCounts

LEMMA ChainTypes ==
  /\ Chains \subseteq Seq(Blocks)
  /\ \A p \in Prompts : Chain(p) \in Chains
  /\ << >> \in Chains
<1>1. << >> \in Seq(Blocks)
  OBVIOUS
<1>2. Chains \subseteq Seq(Blocks) /\ << >> \in Chains
  BY <1>1, PromptTypes DEF Chains
<1>3. \A p \in Prompts : Chain(p) \in Chains
  BY <1>2, PromptTypes DEF Chain
<1>4. QED BY <1>2, <1>3

LEMMA ElementsOf ==
  ASSUME NEW chain \in Seq(Blocks)
  PROVE  Elements(chain) \subseteq Blocks /\ IsFiniteSet(Elements(chain))
<1>1. Elements(chain) \subseteq Blocks
  BY DEF Elements
<1>2. IsFiniteSet(1..Len(chain))
  BY FS_Interval
<1>3. IsFiniteSet({chain[i] : i \in 1..Len(chain)})
  <2> DEFINE I == 1..Len(chain)
             T == {chain[i] : i \in I}
             f == [i \in I |-> chain[i]]
  <2> HIDE DEF I
  <2>1. f \in Surjection(I, T)
    BY DEF Surjection
  <2>2. IsFiniteSet(I)
    BY <1>2 DEF I
  <2> HIDE DEF T, f
  <2>3. IsFiniteSet(T)
    BY <2>1, <2>2, FS_Surjection
  <2>4. QED BY <2>3 DEF I, T
<1>4. QED BY <1>1, <1>3 DEF Elements

LEMMA ElementsOfNone == Elements(<< >>) = {}
BY DEF Elements

LEMMA RouteInPool ==
  ASSUME NEW x, NEW p
  PROVE  Route(x, p) \subseteq pool
<1>1. BoundTo(x) \subseteq pool
  BY DEF BoundTo
<1>2. NearBest(RankedChain(x, p), p.len) \subseteq pool
  BY DEF NearBest, Eligible
<1>3. QED BY <1>1, <1>2, Zenon DEF Route

LEMMA RankedChainType ==
  ASSUME TypeOK, NEW x \in Sessions, NEW p \in Prompts
  PROVE  RankedChain(x, p) \in Seq(Blocks \cup {Foreign})
<1> DEFINE S == Blocks \cup {Foreign}
           memo == row[x].memo
           ch == Chain(p)
           rest == [i \in 1..(Len(ch) - Len(memo)) |-> Foreign]
<1>1. memo \in Seq(S)
  BY TypeParts DEF RowRecord
<1>2. ch \in Seq(S)
  <2>1. ch \in Seq(Blocks)
    BY ChainTypes
  <2> HIDE DEF ch
  <2>2. QED BY <2>1
<1>3. ASSUME ~(Len(ch) < Len(memo)) PROVE memo \o rest \in Seq(S)
  <2>1. Len(ch) - Len(memo) \in Nat
    BY <1>1, <1>2, <1>3
  <2>2. rest \in Seq(S)
    <3> HIDE DEF ch, memo
    <3>1. QED BY <2>1
  <2> HIDE DEF rest, ch, memo, S
  <2>3. QED BY <1>1, <2>2
<1>4. RankedChain(x, p) = IF Len(ch) < Len(memo) \/ Extends(ch, memo) THEN ch ELSE memo \o rest
  BY DEF RankedChain
<1> HIDE DEF rest, ch, memo
<1>5. QED BY <1>2, <1>3, <1>4

\* What an acquire of c for session x does once it has gone to s and its row has
\* taken the place of that of y.
Acquired(c, x, p, s, y) ==
  /\ Ready
  /\ call[c].state = "new"
  /\ s \in pool
  /\ inflight' = [inflight EXCEPT ![s] = @ + 1]
  /\ row' \in [Sessions -> RowRecord]
  /\ row'[x].turn = row[x].turn + 1
  /\ row'[x].booked = p.len
  /\ row'[x].sticky = row[x].sticky
  /\ \A z \in Sessions : z # x => row'[z] = IF z = y THEN NoRow ELSE row[z]
  /\ marker' = [marker EXCEPT ![x] = NoMarker]
  /\ refs' = Ref(Unref(refs, marker[x]), s, Chain(p))
  /\ call' = [call EXCEPT ![c] = [state |-> "counted", session |-> x, server |-> s,
                                  len |-> p.len, chain |-> Chain(p),
                                  turn |-> row[x].turn + 1]]
  /\ IF marker[x] # NoMarker THEN Add(s, 0, p.len - row[x].booked, row[x].turn + 1)
                             ELSE Add(s, 1, p.len, row[x].turn + 1)
  /\ hazards' = hazards \cup {h \in {"overlap", "evicted"} :
                                CASE h = "overlap" -> CallsOf(x) # {}
                                  [] h = "evicted" -> y # x /\ CallsOf(y) # {}}
  /\ pool' = pool /\ resident' = resident /\ learned' = learned
  /\ polled' = polled /\ events' = events

LEMMA NoRowType == NoRow \in RowRecord /\ NoMarker \in MarkerRecord
BY DEF NoRow, RowRecord, TokenCounts, NoMarker, MarkerRecord, Chains

LEMMA AcquireTakes ==
  ASSUME TypeOK, NEW c \in Calls, NEW x \in Sessions, NEW p \in Prompts, Acquire(c, x, p)
  PROVE  \E s \in Route(x, p), y \in Sessions : Acquired(c, x, p, s, y)
<1>1. PICK s \in Route(x, p), y \in Victims(x) :
        /\ inflight' = [inflight EXCEPT ![s] = @ + 1]
        /\ row' = [row EXCEPT ![y] = NoRow,
                              ![x] = [row[x] EXCEPT
                                !.turn = @ + 1,
                                !.booked = p.len,
                                !.memo = IF BoundTo(x) # {} THEN @ ELSE RankedChain(x, p)]]
        /\ marker' = [marker EXCEPT ![x] = NoMarker]
        /\ refs' = Ref(Unref(refs, marker[x]), s, Chain(p))
        /\ call' = [call EXCEPT ![c] = [state |-> "counted", session |-> x, server |-> s,
                                        len |-> p.len, chain |-> Chain(p),
                                        turn |-> row[x].turn + 1]]
        /\ IF marker[x] # NoMarker THEN Add(s, 0, p.len - row[x].booked, row[x].turn + 1)
                                   ELSE Add(s, 1, p.len, row[x].turn + 1)
        /\ hazards' = hazards \cup {h \in {"overlap", "evicted"} :
                                     CASE h = "overlap" -> CallsOf(x) # {}
                                       [] h = "evicted" -> y # x /\ CallsOf(y) # {}}
        /\ UNCHANGED <<pool, resident, learned, polled, events>>
  BY Zenon DEF Acquire
<1>2. y \in Sessions /\ s \in pool
  BY RouteInPool DEF Victims
<1> DEFINE m == IF BoundTo(x) # {} THEN row[x].memo ELSE RankedChain(x, p)
           r == [row[x] EXCEPT !.turn = @ + 1, !.booked = p.len, !.memo = m]
<1>3. row[x] \in RowRecord /\ row \in [Sessions -> RowRecord]
  BY TypeParts
<1>4. m \in Seq(Blocks \cup {Foreign})
  <2>1. row[x].memo \in Seq(Blocks \cup {Foreign})
    BY <1>3 DEF RowRecord
  <2>2. QED BY <2>1, RankedChainType
<1> HIDE DEF m
<1>5. /\ r \in RowRecord /\ r.turn = row[x].turn + 1 /\ r.booked = p.len
      /\ r.sticky = row[x].sticky
  <2> DEFINE N == row[x].turn + 1
  <2>1. N \in Nat /\ p.len \in TokenCounts
    BY <1>3, PromptTypes DEF RowRecord
  <2>2. r = [turn |-> N, booked |-> p.len, sticky |-> row[x].sticky, memo |-> m]
    <3> DEFINE q == row[x]
    <3>1. q = [turn |-> q.turn, booked |-> q.booked, sticky |-> q.sticky, memo |-> q.memo]
      BY <1>3 DEF RowRecord
    <3>2. r = [q EXCEPT !.turn = q.turn + 1, !.booked = p.len, !.memo = m]
      OBVIOUS
    <3> HIDE DEF q, r
    <3>3. r = [turn |-> q.turn + 1, booked |-> p.len, sticky |-> q.sticky, memo |-> m]
      BY <3>1, <3>2
    <3>4. QED BY <3>3 DEF q
  <2> HIDE DEF N, r
  <2>3. row[x].sticky \in Servers \cup {NoServer}
    BY <1>3 DEF RowRecord
  <2>4. r \in RowRecord /\ r.turn = N /\ r.booked = p.len /\ r.sticky = row[x].sticky
    BY <1>4, <2>1, <2>2, <2>3 DEF RowRecord
  <2>5. QED BY <2>4 DEF N
<1>6. row' = [row EXCEPT ![y] = NoRow, ![x] = r]
  BY <1>1 DEF m
<1> HIDE DEF r
<1>7. /\ row' \in [Sessions -> RowRecord]
      /\ row'[x] = r
      /\ \A z \in Sessions : z # x => row'[z] = IF z = y THEN NoRow ELSE row[z]
  <2> HIDE DEF RowRecord
  <2>1. QED BY <1>2, <1>3, <1>5, <1>6, NoRowType
<1>8. Ready /\ call[c].state = "new"
  BY DEF Acquire
<1>9. Acquired(c, x, p, s, y)
  BY <1>1, <1>2, <1>5, <1>7, <1>8, Zenon DEF Acquired
<1>10. QED BY <1>2, <1>9

-----------------------------------------------------------------------------
(* Types.                                                                  *)

LEMMA UnrefType ==
  ASSUME NEW book \in [Servers -> [Blocks -> Nat]], NEW m
  PROVE  Unref(book, m) \in [Servers -> [Blocks -> Nat]]
<1>1. \A t \in Servers, b \in Blocks :
        book[t][b] \in Nat /\ (book[t][b] > 0 => book[t][b] - 1 \in Nat)
  OBVIOUS
<1>2. QED BY <1>1 DEF Unref

LEMMA UnrefAt ==
  ASSUME NEW book, NEW m, NEW t \in Servers, NEW b \in Blocks
  PROVE  Unref(book, m)[t][b] =
           IF t = m.server /\ b \in Elements(m.chain) /\ book[t][b] > 0
           THEN book[t][b] - 1 ELSE book[t][b]
BY DEF Unref

LEMMA RefAt ==
  ASSUME NEW book \in [Servers -> [Blocks -> Nat]], NEW s \in Servers, NEW chain
  PROVE  /\ Ref(book, s, chain) \in [Servers -> [Blocks -> Nat]]
         /\ \A t \in Servers, b \in Blocks :
              Ref(book, s, chain)[t][b] =
                IF t = s /\ b \in Elements(chain) THEN book[t][b] + 1 ELSE book[t][b]
<1> DEFINE new == [b \in Blocks |-> IF b \in Elements(chain) THEN book[s][b] + 1 ELSE book[s][b]]
<1>1. new \in [Blocks -> Nat]
  <2>1. \A b \in Blocks : book[s][b] \in Nat
    OBVIOUS
  <2>2. QED BY <2>1
<1>2. Ref(book, s, chain) = [book EXCEPT ![s] = new]
  BY DEF Ref
<1>3. \A b \in Blocks :
        new[b] = IF b \in Elements(chain) THEN book[s][b] + 1 ELSE book[s][b]
  OBVIOUS
<1> HIDE DEF new
<1>4. QED BY <1>1, <1>2, <1>3

LEMMA AddAt ==
  ASSUME gauge \in [Servers -> GaugeRecord], NEW s \in Servers,
         NEW count \in Int, NEW tokens \in Int, NEW turns \in Int, Add(s, count, tokens, turns)
  PROVE  /\ gauge' \in [Servers -> GaugeRecord]
         /\ gauge'[s] = [count |-> gauge[s].count + count,
                         tokens |-> gauge[s].tokens + tokens,
                         turns |-> gauge[s].turns + turns]
         /\ \A t \in Servers : t # s => gauge'[t] = gauge[t]
<1> DEFINE q == gauge[s]
           new == [count |-> q.count + count, tokens |-> q.tokens + tokens,
                   turns |-> q.turns + turns]
<1>1. new \in GaugeRecord
  <2>1. q.count \in Int /\ q.tokens \in Int /\ q.turns \in Int
    BY DEF GaugeRecord
  <2> HIDE DEF q
  <2>2. QED BY <2>1 DEF GaugeRecord
<1>2. gauge' = [gauge EXCEPT ![s] = new]
  BY DEF Add
<1> HIDE DEF new
<1>3. /\ gauge' \in [Servers -> GaugeRecord] /\ gauge'[s] = new
      /\ \A t \in Servers : t # s => gauge'[t] = gauge[t]
  <2> HIDE DEF GaugeRecord
  <2>1. QED BY <1>1, <1>2
<1>4. QED BY <1>3 DEF new, GaugeRecord

\* The facts about a record that the steps use.
LEMMA RecordTypes ==
  ASSUME TypeOK
  PROVE  /\ \A x \in Sessions : /\ row[x].turn \in Nat /\ row[x].booked \in Nat
                                /\ row[x].sticky \in Servers \cup {NoServer}
                                /\ marker[x].server \in Servers \cup {NoServer}
                                /\ marker[x].chain \in Seq(Blocks)
         /\ \A c \in Calls : /\ call[c].len \in Nat /\ call[c].len \in TokenCounts
                             /\ call[c].turn \in Nat
                             /\ call[c].chain \in Chains /\ call[c].chain \in Seq(Blocks)
                             /\ call[c].server \in Servers \cup {NoServer}
                             /\ call[c].session \in Sessions \cup {NoServer}
<1>1. ASSUME NEW x \in Sessions
      PROVE  /\ row[x].turn \in Nat /\ row[x].booked \in Nat
             /\ row[x].sticky \in Servers \cup {NoServer}
             /\ marker[x].server \in Servers \cup {NoServer}
             /\ marker[x].chain \in Seq(Blocks)
  <2>1. row[x] \in RowRecord /\ marker[x] \in MarkerRecord
    BY TypeParts
  <2>2. row[x].booked \in TokenCounts /\ marker[x].chain \in Chains
    BY <2>1 DEF RowRecord, MarkerRecord
  <2>3. QED BY <2>1, <2>2, CountsAreNaturals, ChainTypes DEF RowRecord, MarkerRecord
<1>2. ASSUME NEW c \in Calls
      PROVE  /\ call[c].len \in Nat /\ call[c].len \in TokenCounts
             /\ call[c].turn \in Nat
             /\ call[c].chain \in Chains /\ call[c].chain \in Seq(Blocks)
             /\ call[c].server \in Servers \cup {NoServer}
             /\ call[c].session \in Sessions \cup {NoServer}
  <2>1. call[c] \in CallRecord
    BY TypeParts
  <2>2. call[c].len \in TokenCounts /\ call[c].chain \in Chains
    BY <2>1 DEF CallRecord
  <2>3. QED BY <2>1, <2>2, CountsAreNaturals, ChainTypes DEF CallRecord
<1>3. QED BY <1>1, <1>2

\* What each step does to the calls.
LEMMA CallsMove ==
  ASSUME TypeOK, NEW c \in Calls
  PROVE  /\ \A x \in Sessions, p \in Prompts, s \in pool, y \in Sessions :
              Acquired(c, x, p, s, y) =>
                /\ call' \in [Calls -> CallRecord]
                /\ call'[c] = [state |-> "counted", session |-> x, server |-> s,
                               len |-> p.len, chain |-> Chain(p), turn |-> row[x].turn + 1]
                /\ \A d \in Calls : d # c => call'[d] = call[d]
         /\ Attach(c) =>
              /\ call' \in [Calls -> CallRecord]
              /\ call'[c] = [state |-> "inflight", session |-> call[c].session,
                             server |-> call[c].server, len |-> call[c].len,
                             chain |-> call[c].chain, turn |-> call[c].turn]
              /\ \A d \in Calls : d # c => call'[d] = call[d]
         /\ Release(c) \/ Drop(c) =>
              /\ call' \in [Calls -> CallRecord]
              /\ call'[c].state \in {"done", "lost"}
              /\ \A d \in Calls : d # c => call'[d] = call[d]
<1>1. call \in [Calls -> CallRecord] /\ call[c] \in CallRecord
  BY TypeParts
<1>2. ASSUME NEW new \in CallRecord, call' = [call EXCEPT ![c] = new]
      PROVE  /\ call' \in [Calls -> CallRecord] /\ call'[c] = new
             /\ \A d \in Calls : d # c => call'[d] = call[d]
  <2> HIDE DEF CallRecord
  <2>1. QED BY <1>1, <1>2
<1>3. ASSUME NEW x \in Sessions, NEW p \in Prompts, NEW s \in pool, NEW y \in Sessions,
             Acquired(c, x, p, s, y)
      PROVE  /\ call' \in [Calls -> CallRecord]
             /\ call'[c] = [state |-> "counted", session |-> x, server |-> s,
                            len |-> p.len, chain |-> Chain(p), turn |-> row[x].turn + 1]
             /\ \A d \in Calls : d # c => call'[d] = call[d]
  <2> DEFINE N == row[x].turn + 1
             new == [state |-> "counted", session |-> x, server |-> s,
                     len |-> p.len, chain |-> Chain(p), turn |-> N]
  <2>1. N \in Nat /\ p.len \in TokenCounts /\ Chain(p) \in Chains /\ s \in Servers
    BY RecordTypes, PromptTypes, ChainTypes, TypeParts
  <2> HIDE DEF N
  <2>2. new \in CallRecord
    BY <2>1 DEF CallRecord
  <2>3. call' = [call EXCEPT ![c] = new]
    BY <1>3 DEF Acquired, N
  <2> HIDE DEF new
  <2>4. QED BY <1>2, <2>2, <2>3 DEF new, N
<1>4. ASSUME Attach(c)
      PROVE  /\ call' \in [Calls -> CallRecord]
             /\ call'[c] = [state |-> "inflight", session |-> call[c].session,
                            server |-> call[c].server, len |-> call[c].len,
                            chain |-> call[c].chain, turn |-> call[c].turn]
             /\ \A d \in Calls : d # c => call'[d] = call[d]
  <2> DEFINE q == call[c]
             new == [state |-> "inflight", session |-> q.session, server |-> q.server,
                     len |-> q.len, chain |-> q.chain, turn |-> q.turn]
  <2>1. call' = [call EXCEPT ![c] = [q EXCEPT !.state = "inflight"]]
    BY <1>4 DEF Attach
  <2>2. [q EXCEPT !.state = "inflight"] = new /\ new \in CallRecord
    BY <1>1 DEF CallRecord
  <2>3. call' = [call EXCEPT ![c] = new]
    BY <2>1, <2>2
  <2> HIDE DEF new
  <2>4. QED BY <1>2, <2>2, <2>3 DEF new
<1>5. ASSUME Release(c) \/ Drop(c)
      PROVE  /\ call' \in [Calls -> CallRecord]
             /\ call'[c].state \in {"done", "lost"}
             /\ \A d \in Calls : d # c => call'[d] = call[d]
  <2>1. PICK state \in {"done", "lost"} : call' = [call EXCEPT ![c] = Idle(state)]
    BY <1>5 DEF Release, Drop
  <2>2. Idle(state) \in CallRecord /\ Idle(state).state = state
    BY ChainTypes DEF Idle, CallRecord, TokenCounts
  <2> HIDE DEF Idle
  <2>3. QED BY <1>2, <2>1, <2>2
<1>6. QED BY <1>3, <1>4, <1>5

\* A step that none of the relations below speaks of.
Quiet == UNCHANGED <<balancer, gauge, row, marker, refs, call, hazards>>

LEMMA StepCases ==
  ASSUME TypeOK, [Next]_vars
  PROVE  \/ \E c \in Calls, x \in Sessions, p \in Prompts, s \in pool, y \in Sessions :
              Acquired(c, x, p, s, y)
         \/ \E c \in Calls : Attach(c)
         \/ \E c \in Calls : Release(c)
         \/ \E c \in Calls : Drop(c)
         \/ \E s \in Servers : RemoveServer(s)
         \/ \E s \in Servers : AddServer(s)
         \/ \E s \in Servers : AllBlocksCleared(s)
         \/ ClearSticky
         \/ Quiet
<1>1. ASSUME NEW c \in Calls, NEW x \in Sessions, NEW p \in Prompts, Acquire(c, x, p)
      PROVE  \E s \in pool, y \in Sessions : Acquired(c, x, p, s, y)
  BY <1>1, AcquireTakes, RouteInPool
<1>2. ASSUME \/ \E s \in Servers, b \in Blocks : BlockStored(s, b) \/ BlockRemoved(s, b)
             \/ CapacityPolled \/ Terminated \/ UNCHANGED vars
      PROVE  Quiet
  BY <1>2 DEF BlockStored, BlockRemoved, CapacityPolled, Terminated, Quiet, vars, stores, balancer
<1>3. QED BY <1>1, <1>2, Zenon DEF Next

LEMMA OtherTypes ==
  ASSUME TypeOK, [Next]_vars
  PROVE  /\ learned' \in BOOLEAN /\ polled' \in BOOLEAN
         /\ hazards' \subseteq {"overlap", "evicted", "dropped", "rejoined", "cleared", "torn"}
         /\ events' \in 0..MaxEvents
<1> USE DEF TypeOK
<1>1. ASSUME NEW c \in Calls, NEW x \in Sessions, NEW p \in Prompts, Acquire(c, x, p)
      PROVE  /\ UNCHANGED <<learned, polled, events>>
             /\ hazards' \subseteq {"overlap", "evicted", "dropped", "rejoined", "cleared", "torn"}
  <2>1. PICK s \in Route(x, p), y \in Sessions : Acquired(c, x, p, s, y)
    BY <1>1, AcquireTakes
  <2> DEFINE H == {h \in {"overlap", "evicted"} :
                     CASE h = "overlap" -> CallsOf(x) # {}
                       [] h = "evicted" -> y # x /\ CallsOf(y) # {}}
  <2>2. hazards' = hazards \cup H /\ UNCHANGED <<learned, polled, events>>
    BY <2>1 DEF Acquired
  <2>3. H \subseteq {"overlap", "evicted"}
    OBVIOUS
  <2> HIDE DEF H
  <2>4. QED BY <2>2, <2>3
<1>2. ASSUME Event PROVE events' \in 0..MaxEvents
  BY <1>2, SizesAssumption DEF Event
<1>3. ASSUME NEW s \in Servers, AllBlocksCleared(s)
      PROVE  /\ UNCHANGED <<learned, polled>> /\ Event
             /\ hazards' \subseteq {"overlap", "evicted", "dropped", "rejoined", "cleared", "torn"}
  BY <1>3 DEF AllBlocksCleared
<1>4. learned' \in BOOLEAN /\ polled' \in BOOLEAN
  BY <1>1, <1>3 DEF Next, Attach, Release, Drop, RemoveServer, AddServer, BlockStored, BlockRemoved,
     ClearSticky, CapacityPolled, Terminated, vars, stores, balancer
<1>5. hazards' \subseteq {"overlap", "evicted", "dropped", "rejoined", "cleared", "torn"}
  BY <1>1, <1>3 DEF Next, Attach, Release, Drop, RemoveServer, AddServer, BlockStored, BlockRemoved,
     ClearSticky, CapacityPolled, Terminated, vars, stores, balancer
<1>6. events' \in 0..MaxEvents
  BY <1>1, <1>2, <1>3 DEF Next, Attach, Release, Drop, RemoveServer, AddServer, BlockStored, BlockRemoved,
     ClearSticky, CapacityPolled, Terminated, vars, stores, balancer
<1>7. QED BY <1>4, <1>5, <1>6

LEMMA ResidentType ==
  ASSUME TypeOK, CallsPlaced, [Next]_vars
  PROVE  resident' \in [Servers -> SUBSET Blocks]
<1>1. resident \in [Servers -> SUBSET Blocks]
  BY TypeParts
<1>2. ASSUME NEW c \in Calls, NEW x \in Sessions, NEW p \in Prompts, Acquire(c, x, p)
      PROVE  resident' = resident
  BY <1>2, AcquireTakes DEF Acquired
<1>3. ASSUME NEW c \in Calls, Attach(c) PROVE resident' \in [Servers -> SUBSET Blocks]
  <2>1. Elements(call[c].chain) \subseteq Blocks
    BY RecordTypes, ElementsOf
  <2>2. QED BY <1>1, <1>3, <2>1 DEF Attach
<1>4. ASSUME NEW s \in Servers, NEW b \in Blocks, BlockStored(s, b) \/ BlockRemoved(s, b)
      PROVE  resident' \in [Servers -> SUBSET Blocks]
  BY <1>1, <1>4 DEF BlockStored, BlockRemoved
<1>5. ASSUME NEW s \in Servers, AllBlocksCleared(s)
      PROVE  resident' \in [Servers -> SUBSET Blocks]
  BY <1>1, <1>5 DEF AllBlocksCleared
<1>6. QED BY <1>1, <1>2, <1>3, <1>4, <1>5 DEF Next, Release, Drop, RemoveServer, AddServer,
        ClearSticky, CapacityPolled, Terminated, vars, stores, balancer

LEMMA TypeStep ==
  ASSUME TypeOK, CallsPlaced, [Next]_vars
  PROVE  TypeOK'
<1> DEFINE Moved == /\ pool' \subseteq Servers
                    /\ inflight' \in [Servers -> Nat]
                    /\ gauge' \in [Servers -> GaugeRecord]
                    /\ row' \in [Sessions -> RowRecord]
                    /\ marker' \in [Sessions -> MarkerRecord]
                    /\ refs' \in [Servers -> [Blocks -> Nat]]
                    /\ call' \in [Calls -> CallRecord]
<1>0. /\ pool \subseteq Servers /\ inflight \in [Servers -> Nat]
      /\ gauge \in [Servers -> GaugeRecord] /\ row \in [Sessions -> RowRecord]
      /\ marker \in [Sessions -> MarkerRecord] /\ refs \in [Servers -> [Blocks -> Nat]]
      /\ call \in [Calls -> CallRecord]
  BY TypeParts
<1>1. ASSUME NEW c \in Calls, NEW x \in Sessions, NEW p \in Prompts, NEW s \in pool,
             NEW y \in Sessions, Acquired(c, x, p, s, y)
      PROVE  Moved
  <2>1. pool' \subseteq Servers /\ inflight' \in [Servers -> Nat]
    BY <1>0, <1>1 DEF Acquired
  <2>2. gauge' \in [Servers -> GaugeRecord]
    <3>1. /\ p.len - row[x].booked \in Int /\ row[x].turn + 1 \in Int /\ p.len \in Int
          /\ 0 \in Int /\ 1 \in Int /\ s \in Servers
      BY <1>0, RecordTypes, PromptTypes
    <3>2. \/ Add(s, 0, p.len - row[x].booked, row[x].turn + 1)
          \/ Add(s, 1, p.len, row[x].turn + 1)
      BY <1>1 DEF Acquired
    <3>3. QED BY <1>0, <3>1, <3>2, AddAt
  <2>3. row' \in [Sessions -> RowRecord] /\ call' \in [Calls -> CallRecord]
    BY <1>1, CallsMove DEF Acquired
  <2>4. marker' \in [Sessions -> MarkerRecord]
    <3>1. marker' = [marker EXCEPT ![x] = NoMarker]
      BY <1>1 DEF Acquired
    <3>2. QED BY <1>0, <3>1, NoRowType
  <2>5. refs' \in [Servers -> [Blocks -> Nat]]
    <3>1. refs' = Ref(Unref(refs, marker[x]), s, Chain(p)) /\ s \in Servers
      BY <1>0, <1>1 DEF Acquired
    <3>2. QED BY <1>0, <3>1, UnrefType, RefAt
  <2>6. QED BY <2>1, <2>2, <2>3, <2>4, <2>5
<1>2. ASSUME NEW c \in Calls, Attach(c) PROVE Moved
  <2> DEFINE x == call[c].session
             s == call[c].server
  <2>1. x \in Sessions /\ s \in Servers
    BY <1>2 DEF CallsPlaced, InFlight, Attach
  <2>2. pool' = pool /\ inflight' = inflight /\ gauge' = gauge /\ refs' = refs
    BY <1>2 DEF Attach, balancer
  <2>3. call' \in [Calls -> CallRecord]
    BY <1>2, CallsMove
  <2>4. row' \in [Sessions -> RowRecord]
    <3>1. row' = [row EXCEPT ![x] = [row[x] EXCEPT !.sticky = s]]
      BY <1>2 DEF Attach
    <3>2. [row[x] EXCEPT !.sticky = s] \in RowRecord
      <4>1. row[x] \in RowRecord
        BY <1>0, <2>1
      <4> HIDE DEF x, s
      <4>2. QED BY <2>1, <4>1 DEF RowRecord
    <3> HIDE DEF RowRecord, x, s
    <3>3. QED BY <1>0, <3>1, <3>2
  <2>5. marker' \in [Sessions -> MarkerRecord]
    <3>1. marker' = marker \/ marker' = [marker EXCEPT ![x] = [server |-> s, chain |-> call[c].chain]]
      BY <1>2 DEF Attach
    <3>2. [server |-> s, chain |-> call[c].chain] \in MarkerRecord
      BY <2>1, RecordTypes DEF MarkerRecord
    <3>3. QED BY <1>0, <3>1, <3>2
  <2>6. QED BY <1>0, <2>2, <2>3, <2>4, <2>5
<1>3. ASSUME NEW c \in Calls, Release(c) PROVE Moved
  <2> DEFINE x == call[c].session
             s == call[c].server
  <2>1. x \in Sessions /\ s \in Servers
    BY <1>3 DEF CallsPlaced, InFlight, Release
  <2>2. pool' = pool /\ row' = row
    BY <1>3 DEF Release
  <2>3. call' \in [Calls -> CallRecord]
    BY <1>3, CallsMove
  <2>4. inflight' \in [Servers -> Nat]
    <3>1. inflight' = [inflight EXCEPT ![s] = IF inflight[s] > 0 THEN inflight[s] - 1 ELSE inflight[s]]
      BY <1>3 DEF Release
    <3>2. (IF inflight[s] > 0 THEN inflight[s] - 1 ELSE inflight[s]) \in Nat
      BY <1>0, <2>1
    <3>3. QED BY <1>0, <3>1, <3>2
  <2>5. gauge' \in [Servers -> GaugeRecord]
    <3>1. -1 \in Int /\ -row[x].booked \in Int /\ -row[x].turn \in Int
      BY <2>1, RecordTypes
    <3>2. Add(s, -1, -row[x].booked, -row[x].turn)
      BY <1>3 DEF Release
    <3>3. QED BY <1>0, <2>1, <3>1, <3>2, AddAt
  <2>6. marker' \in [Sessions -> MarkerRecord]
    <3>1. marker' = [marker EXCEPT ![x] = NoMarker]
      BY <1>3 DEF Release
    <3>2. QED BY <1>0, <3>1, NoRowType
  <2>7. refs' \in [Servers -> [Blocks -> Nat]]
    BY <1>0, <1>3, UnrefType DEF Release
  <2>8. QED BY <1>0, <2>2, <2>3, <2>4, <2>5, <2>6, <2>7
<1>4. ASSUME NEW c \in Calls, Drop(c) PROVE Moved
  <2>1. call' \in [Calls -> CallRecord]
    BY <1>4, CallsMove
  <2>2. QED BY <1>0, <1>4, <2>1 DEF Drop, balancer, stores
<1>5. ASSUME \A x \in Sessions : row'[x] = row[x] \/ row'[x] = [row[x] EXCEPT !.sticky = NoServer],
             DOMAIN row' = Sessions, row' = [x \in Sessions |-> row'[x]]
      PROVE  row' \in [Sessions -> RowRecord]
  <2>1. ASSUME NEW x \in Sessions PROVE [row[x] EXCEPT !.sticky = NoServer] \in RowRecord
    <3>1. row[x] \in RowRecord
      BY <1>0
    <3>2. QED BY <3>1 DEF RowRecord
  <2> HIDE DEF RowRecord
  <2>2. QED BY <1>0, <1>5, <2>1
<1>6. ASSUME NEW s \in Servers, RemoveServer(s) PROVE Moved
  <2>1. row' \in [Sessions -> RowRecord]
    <3>1. row' = [x \in Sessions |-> IF row[x].sticky = s
                                     THEN [row[x] EXCEPT !.sticky = NoServer] ELSE row[x]]
      BY <1>6 DEF RemoveServer
    <3>2. QED BY <1>5, <3>1
  <2>2. inflight' \in [Servers -> Nat] /\ pool' \subseteq Servers
    BY <1>0, <1>6 DEF RemoveServer
  <2>3. QED BY <1>0, <1>6, <2>1, <2>2 DEF RemoveServer
<1>7. ASSUME NEW s \in Servers, AddServer(s) PROVE Moved
  BY <1>0, <1>7 DEF AddServer, stores
<1>8. ASSUME NEW s \in Servers, AllBlocksCleared(s) PROVE Moved
  <2>1. marker' = [x \in Sessions |-> IF marker[x].server = s THEN NoMarker ELSE marker[x]]
    BY <1>8 DEF AllBlocksCleared
  <2>2. marker' \in [Sessions -> MarkerRecord]
    BY <1>0, <2>1, NoRowType
  <2>3. refs' \in [Servers -> [Blocks -> Nat]]
    <3>1. refs' = [refs EXCEPT ![s] = [b \in Blocks |-> 0]]
      BY <1>8 DEF AllBlocksCleared
    <3>2. [b \in Blocks |-> 0] \in [Blocks -> Nat]
      OBVIOUS
    <3>3. QED BY <1>0, <3>1, <3>2
  <2>4. QED BY <1>0, <1>8, <2>2, <2>3 DEF AllBlocksCleared, balancer
<1>9. ASSUME ClearSticky PROVE Moved
  <2>1. row' \in [Sessions -> RowRecord]
    <3>1. row' = [x \in Sessions |-> [row[x] EXCEPT !.sticky = NoServer]]
      BY <1>9 DEF ClearSticky
    <3>2. QED BY <1>5, <3>1
  <2>2. QED BY <1>0, <1>9, <2>1 DEF ClearSticky, balancer
<1>10. ASSUME Quiet PROVE Moved
  BY <1>0, <1>10 DEF Quiet, balancer
<1> HIDE DEF Moved
<1>11. Moved
  BY <1>1, <1>2, <1>3, <1>4, <1>6, <1>7, <1>8, <1>9, <1>10, StepCases, Zenon
<1>12. QED
  BY <1>11, OtherTypes, ResidentType DEF Moved, TypeOK, GaugeRecord, RowRecord, MarkerRecord, CallRecord,
     TokenCounts, Chains

-----------------------------------------------------------------------------
(* What a step adds to the history.                                        *)

LEMMA AcquiredHazards ==
  ASSUME NEW c, NEW x, NEW p, NEW s, NEW y, Acquired(c, x, p, s, y)
  PROVE  /\ hazards \subseteq hazards'
         /\ "overlap" \notin hazards' => CallsOf(x) = {}
         /\ "evicted" \notin hazards' => y = x \/ CallsOf(y) = {}
<1> DEFINE P(h) == CASE h = "overlap" -> CallsOf(x) # {}
                     [] h = "evicted" -> y # x /\ CallsOf(y) # {}
<1>1. hazards' = hazards \cup {h \in {"overlap", "evicted"} : P(h)}
  BY DEF Acquired
<1>2. (P("overlap") <=> CallsOf(x) # {}) /\ (P("evicted") <=> (y # x /\ CallsOf(y) # {}))
  OBVIOUS
<1> HIDE DEF P
<1>3. QED BY <1>1, <1>2

LEMMA ClearedHazards ==
  ASSUME NEW s, AllBlocksCleared(s)
  PROVE  /\ hazards \subseteq hazards'
         /\ "cleared" \notin hazards' => CallsAt(s) = {}
         /\ "torn" \notin hazards' => \A c \in CallsAt(s) : call[c].state = "inflight"
<1> DEFINE P(h) == \E c \in CallsAt(s) : h = "torn" => call[c].state # "inflight"
<1>1. hazards' = hazards \cup {h \in {"cleared", "torn"} : P(h)}
  BY DEF AllBlocksCleared
<1>2. /\ P("cleared") <=> \E c \in CallsAt(s) : TRUE
      /\ P("torn") <=> \E c \in CallsAt(s) : call[c].state # "inflight"
  OBVIOUS
<1> HIDE DEF P
<1>3. QED BY <1>1, <1>2

LEMMA HazardsGrow ==
  ASSUME TypeOK, [Next]_vars
  PROVE  hazards \subseteq hazards'
<1>1. ASSUME NEW c \in Calls, NEW x \in Sessions, NEW p \in Prompts, NEW s \in pool,
             NEW y \in Sessions, Acquired(c, x, p, s, y)
      PROVE  hazards \subseteq hazards'
  BY <1>1, AcquiredHazards
<1>2. ASSUME NEW s \in Servers, AllBlocksCleared(s) PROVE hazards \subseteq hazards'
  BY <1>2, ClearedHazards
<1>3. QED BY <1>1, <1>2, StepCases
        DEF Attach, Release, Drop, RemoveServer, AddServer, ClearSticky, Quiet

-----------------------------------------------------------------------------
(* Where the calls are.                                                    *)

LEMMA PlacedStep ==
  ASSUME TypeOK, CallsPlaced, [Next]_vars
  PROVE  CallsPlaced'
<1>1. ASSUME NEW c \in Calls, NEW x \in Sessions, NEW p \in Prompts, NEW s \in pool,
             NEW y \in Sessions, Acquired(c, x, p, s, y)
      PROVE  CallsPlaced'
  <2>1. /\ call'[c] = [state |-> "counted", session |-> x, server |-> s,
                       len |-> p.len, chain |-> Chain(p), turn |-> row[x].turn + 1]
        /\ \A d \in Calls : d # c => call'[d] = call[d]
    BY <1>1, CallsMove
  <2>2. /\ call'[c].state = "counted" /\ call'[c].session = x /\ call'[c].server = s
    BY <2>1
  <2>3. /\ pool' = pool /\ s \in Servers
        /\ marker' = [marker EXCEPT ![x] = NoMarker]
        /\ \A d \in Calls : call[d].state # "counted"
    BY <1>1, TypeParts DEF Acquired, Ready
  <2>4. marker \in [Sessions -> MarkerRecord]
    BY TypeParts
  <2>5. marker'[x] = NoMarker /\ \A z \in Sessions : z # x => marker'[z] = marker[z]
    BY <2>3, <2>4
  <2>6. QED BY <2>1, <2>2, <2>3, <2>5 DEF CallsPlaced, InFlight
<1>2. ASSUME NEW c \in Calls, Attach(c) PROVE CallsPlaced'
  <2> DEFINE x == call[c].session
             s == call[c].server
  <2>1. /\ call'[c].state = "inflight" /\ call'[c].session = x /\ call'[c].server = s
        /\ \A d \in Calls : d # c => call'[d] = call[d]
    <3>1. /\ call'[c] = [state |-> "inflight", session |-> call[c].session,
                       server |-> call[c].server, len |-> call[c].len,
                       chain |-> call[c].chain, turn |-> call[c].turn]
          /\ \A d \in Calls : d # c => call'[d] = call[d]
      BY <1>2, CallsMove
    <3>2. QED BY <3>1
  <2>2. /\ pool' = pool /\ x \in Sessions /\ s \in Servers /\ call[c].state = "counted"
        /\ marker' = IF call[c].chain = << >> THEN marker
                     ELSE [marker EXCEPT ![x] = [server |-> s, chain |-> call[c].chain]]
    BY <1>2 DEF Attach, balancer, CallsPlaced, InFlight
  <2>3. s # NoServer /\ marker \in [Sessions -> MarkerRecord]
    BY <2>2, SizesAssumption, TypeParts
  <2>4. \A z \in Sessions : \/ marker'[z] = marker[z]
                            \/ marker'[z].server = s
    BY <2>2, <2>3
  <2>5. \A d \in Calls : call'[d].state # "counted"
    BY <2>1, <2>2 DEF CallsPlaced
  <2> HIDE DEF x, s
  <2>6. QED BY <2>1, <2>2, <2>3, <2>4, <2>5 DEF CallsPlaced, InFlight
<1>3. ASSUME NEW c \in Calls, Release(c) PROVE CallsPlaced'
  <2>1. /\ call'[c].state \in {"done", "lost"}
        /\ \A d \in Calls : d # c => call'[d] = call[d]
    BY <1>3, CallsMove
  <2>2. marker' = [marker EXCEPT ![call[c].session] = NoMarker] /\ pool' = pool
    BY <1>3 DEF Release
  <2>3. marker \in [Sessions -> MarkerRecord]
    BY TypeParts
  <2>4. \A z \in Sessions : marker'[z] = marker[z] \/ marker'[z] = NoMarker
    BY <2>2, <2>3
  <2>5. \A d \in Calls : call'[d].state # "counted"
    BY <1>3, <2>1 DEF Release, Ready
  <2>6. QED BY <2>1, <2>2, <2>4, <2>5 DEF CallsPlaced, InFlight
<1>4. ASSUME NEW c \in Calls, Drop(c) PROVE CallsPlaced'
  <2>1. /\ call'[c].state \in {"done", "lost"}
        /\ \A d \in Calls : d # c => call'[d] = call[d]
    BY <1>4, CallsMove
  <2>2. marker' = marker /\ pool' = pool
    BY <1>4 DEF Drop, stores, balancer
  <2>3. QED BY <2>1, <2>2 DEF CallsPlaced, InFlight
<1>5. ASSUME NEW s \in Servers, RemoveServer(s) PROVE CallsPlaced'
  BY <1>5 DEF CallsPlaced, InFlight, RemoveServer, Ready
<1>6. ASSUME NEW s \in Servers, AddServer(s) PROVE CallsPlaced'
  BY <1>6 DEF CallsPlaced, InFlight, AddServer, stores
<1>7. ASSUME NEW s \in Servers, AllBlocksCleared(s) PROVE CallsPlaced'
  <2>1. marker' = [x \in Sessions |-> IF marker[x].server = s THEN NoMarker ELSE marker[x]]
        /\ pool' = pool /\ call' = call
    BY <1>7 DEF AllBlocksCleared, balancer
  <2>2. \A z \in Sessions : marker'[z] = marker[z] \/ marker'[z] = NoMarker
    BY <2>1
  <2>3. \A c \in Calls : InFlight(c) => call[c].session \in Sessions
    BY DEF CallsPlaced
  <2>4. QED BY <2>1, <2>2, <2>3 DEF CallsPlaced, InFlight
<1>8. ASSUME ClearSticky \/ Quiet PROVE CallsPlaced'
  BY <1>8 DEF CallsPlaced, InFlight, ClearSticky, Quiet, balancer
<1>9. QED BY <1>1, <1>2, <1>3, <1>4, <1>5, <1>6, <1>7, <1>8, StepCases

LEMMA StickyStep ==
  ASSUME TypeOK, CallsPlaced, StickyInPool, [Next]_vars
  PROVE  StickyInPool'
<1>1. row \in [Sessions -> RowRecord]
  BY TypeParts
<1>2. ASSUME NEW c \in Calls, NEW x \in Sessions, NEW p \in Prompts, NEW s \in pool,
             NEW y \in Sessions, Acquired(c, x, p, s, y)
      PROVE  StickyInPool'
  <2>1. /\ row'[x].sticky = row[x].sticky /\ pool' = pool
        /\ \A z \in Sessions : z # x => row'[z] = IF z = y THEN NoRow ELSE row[z]
    BY <1>2 DEF Acquired
  <2>2. NoRow.sticky = NoServer
    BY DEF NoRow
  <2>3. QED BY <2>1, <2>2 DEF StickyInPool
<1>3. ASSUME NEW c \in Calls, Attach(c) PROVE StickyInPool'
  <2> DEFINE x == call[c].session
             s == call[c].server
  <2>1. x \in Sessions /\ s \in pool /\ pool' = pool
    BY <1>3 DEF Attach, CallsPlaced, InFlight, balancer
  <2>2. row' = [row EXCEPT ![x] = [row[x] EXCEPT !.sticky = s]]
    BY <1>3 DEF Attach
  <2>3. [row[x] EXCEPT !.sticky = s].sticky = s
    BY <1>1, <2>1 DEF RowRecord
  <2>4. \A z \in Sessions : row'[z] = IF z = x THEN [row[x] EXCEPT !.sticky = s] ELSE row[z]
    <3> HIDE DEF x, s, RowRecord
    <3>1. QED BY <1>1, <2>1, <2>2
  <2> HIDE DEF x, s
  <2>5. QED BY <2>1, <2>3, <2>4 DEF StickyInPool
<1>4. ASSUME NEW x \in Sessions
      PROVE  [row[x] EXCEPT !.sticky = NoServer].sticky = NoServer
  <2>1. row[x] \in RowRecord
    BY <1>1
  <2>2. QED BY <2>1 DEF RowRecord
<1>5. ASSUME NEW s \in Servers, RemoveServer(s) PROVE StickyInPool'
  <2>1. /\ pool' = pool \ {s}
        /\ \A x \in Sessions : row'[x] = IF row[x].sticky = s
                                         THEN [row[x] EXCEPT !.sticky = NoServer] ELSE row[x]
    BY <1>5 DEF RemoveServer
  <2>2. QED BY <1>4, <2>1 DEF StickyInPool
<1>6. ASSUME ClearSticky PROVE StickyInPool'
  <2>1. \A x \in Sessions : row'[x] = [row[x] EXCEPT !.sticky = NoServer]
    BY <1>6 DEF ClearSticky
  <2>2. QED BY <1>4, <2>1 DEF StickyInPool
<1>7. ASSUME \/ \E c \in Calls : Release(c) \/ Drop(c)
             \/ \E s \in Servers : AddServer(s) \/ AllBlocksCleared(s)
             \/ Quiet
      PROVE  StickyInPool'
  BY <1>7 DEF StickyInPool, Release, Drop, AddServer, AllBlocksCleared, Quiet, balancer, stores
<1>8. QED BY <1>2, <1>3, <1>5, <1>6, <1>7, StepCases

LEMMA OneStep ==
  ASSUME TypeOK, CallsPlaced, OnePerSession, [Next]_vars
  PROVE  OnePerSession'
<1> SUFFICES ASSUME "overlap" \notin hazards' PROVE OnePerSession'
  BY DEF OnePerSession, Undisturbed
<1>1. "overlap" \notin hazards
  BY HazardsGrow
<1>2. \A c, d \in Calls :
        InFlight(c) /\ InFlight(d) /\ call[c].session = call[d].session => c = d
  BY <1>1 DEF OnePerSession, Undisturbed
<1>3. ASSUME NEW c \in Calls, NEW x \in Sessions, NEW p \in Prompts, NEW s \in pool,
             NEW y \in Sessions, Acquired(c, x, p, s, y)
      PROVE  OnePerSession'
  <2>1. /\ call'[c] = [state |-> "counted", session |-> x, server |-> s,
                       len |-> p.len, chain |-> Chain(p), turn |-> row[x].turn + 1]
        /\ \A d \in Calls : d # c => call'[d] = call[d]
    BY <1>3, CallsMove
  <2>2. call'[c].session = x
    BY <2>1
  <2>3. \A d \in Calls : InFlight(d) => call[d].session # x
    BY <1>3, AcquiredHazards DEF CallsOf
  <2>4. QED BY <1>2, <2>1, <2>2, <2>3 DEF OnePerSession, InFlight
<1>4. ASSUME NEW c \in Calls, Attach(c) PROVE OnePerSession'
  <2>1. /\ call'[c].state = "inflight" /\ call'[c].session = call[c].session
        /\ \A d \in Calls : d # c => call'[d] = call[d]
    <3>1. /\ call'[c] = [state |-> "inflight", session |-> call[c].session,
                       server |-> call[c].server, len |-> call[c].len,
                       chain |-> call[c].chain, turn |-> call[c].turn]
          /\ \A d \in Calls : d # c => call'[d] = call[d]
      BY <1>4, CallsMove
    <3>2. QED BY <3>1
  <2>2. InFlight(c)
    BY <1>4 DEF Attach, InFlight
  <2>3. QED BY <1>2, <2>1, <2>2 DEF OnePerSession, InFlight
<1>5. ASSUME NEW c \in Calls, Release(c) \/ Drop(c) PROVE OnePerSession'
  <2>1. /\ call'[c].state \in {"done", "lost"}
        /\ \A d \in Calls : d # c => call'[d] = call[d]
    BY <1>5, CallsMove
  <2>2. QED BY <1>2, <2>1 DEF OnePerSession, InFlight
<1>6. ASSUME \/ \E s \in Servers : RemoveServer(s) \/ AddServer(s) \/ AllBlocksCleared(s)
             \/ ClearSticky \/ Quiet
      PROVE  call' = call
  BY <1>6 DEF RemoveServer, AddServer, AllBlocksCleared, ClearSticky, Quiet
<1>7. ASSUME call' = call PROVE OnePerSession'
  BY <1>2, <1>7 DEF OnePerSession, InFlight
<1>8. QED BY <1>3, <1>4, <1>5, <1>6, <1>7, StepCases

LEMMA HeldStep ==
  ASSUME TypeOK, CallsPlaced, MarkersHeld, [Next]_vars
  PROVE  MarkersHeld'
<1> SUFFICES ASSUME "dropped" \notin hazards' PROVE MarkersHeld'
  BY DEF MarkersHeld, Undisturbed
<1> DEFINE Holds(x, c) == call[c].state = "inflight" /\ call[c].session = x
<1>0. marker \in [Sessions -> MarkerRecord]
  BY TypeParts
<1>1. \A x \in Sessions : marker[x] # NoMarker => \E c \in Calls : Holds(x, c)
  BY HazardsGrow DEF MarkersHeld, Undisturbed
<1>2. ASSUME \A x \in Sessions, c \in Calls : Holds(x, c) => Holds(x, c)',
             \A x \in Sessions : marker'[x] # NoMarker =>
               marker[x] # NoMarker \/ \E c \in Calls : Holds(x, c)'
      PROVE  MarkersHeld'
  <2>1. \A x \in Sessions : marker'[x] # NoMarker => \E c \in Calls : Holds(x, c)'
    <3> HIDE DEF Holds
    <3>1. QED BY <1>1, <1>2
  <2>2. QED BY <2>1 DEF MarkersHeld
<1>3. ASSUME NEW c \in Calls, NEW x \in Sessions, NEW p \in Prompts, NEW s \in pool,
             NEW y \in Sessions, Acquired(c, x, p, s, y)
      PROVE  MarkersHeld'
  <2>1. call[c].state = "new" /\ \A d \in Calls : d # c => call'[d] = call[d]
    BY <1>3, CallsMove DEF Acquired
  <2>2. marker' = [marker EXCEPT ![x] = NoMarker]
    BY <1>3 DEF Acquired
  <2>3. \A z \in Sessions : marker'[z] = IF z = x THEN NoMarker ELSE marker[z]
    BY <1>0, <2>2
  <2>4. QED BY <1>2, <2>1, <2>3
<1>4. ASSUME NEW c \in Calls, Attach(c) PROVE MarkersHeld'
  <2>1. /\ call'[c].state = "inflight" /\ call'[c].session = call[c].session
        /\ \A d \in Calls : d # c => call'[d] = call[d]
        /\ call[c].state = "counted"
    <3>1. /\ call'[c] = [state |-> "inflight", session |-> call[c].session,
                       server |-> call[c].server, len |-> call[c].len,
                       chain |-> call[c].chain, turn |-> call[c].turn]
          /\ \A d \in Calls : d # c => call'[d] = call[d]
      BY <1>4, CallsMove
    <3>2. QED BY <3>1, <1>4 DEF Attach
  <2>2. \A z \in Sessions : z # call[c].session => marker'[z] = marker[z]
    <3>1. \/ marker' = marker
          \/ marker' = [marker EXCEPT ![call[c].session] =
                          [server |-> call[c].server, chain |-> call[c].chain]]
      BY <1>4 DEF Attach
    <3>2. QED BY <1>0, <3>1
  <2>3. QED BY <1>2, <2>1, <2>2
<1>5. ASSUME NEW c \in Calls, Release(c) PROVE MarkersHeld'
  <2>1. \A d \in Calls : d # c => call'[d] = call[d]
    BY <1>5, CallsMove
  <2>2. marker' = [marker EXCEPT ![call[c].session] = NoMarker]
    BY <1>5 DEF Release
  <2>3. \A z \in Sessions : marker'[z] = IF z = call[c].session THEN NoMarker ELSE marker[z]
    BY <1>0, <2>2
  <2>4. QED BY <1>1, <2>1, <2>3 DEF MarkersHeld
<1>6. ASSUME NEW c \in Calls, Drop(c) PROVE FALSE
  BY <1>6 DEF Drop
<1>7. ASSUME NEW s \in Servers, AllBlocksCleared(s) PROVE MarkersHeld'
  <2>1. \A z \in Sessions : marker'[z] = IF marker[z].server = s THEN NoMarker ELSE marker[z]
    BY <1>7 DEF AllBlocksCleared
  <2>2. call' = call
    BY <1>7 DEF AllBlocksCleared
  <2>3. QED BY <1>2, <2>1, <2>2
<1>8. ASSUME \/ \E s \in Servers : RemoveServer(s) \/ AddServer(s)
             \/ ClearSticky \/ Quiet
      PROVE  call' = call /\ marker' = marker
  BY <1>8 DEF RemoveServer, AddServer, ClearSticky, Quiet, stores
<1>9. ASSUME call' = call, marker' = marker PROVE MarkersHeld'
  BY <1>2, <1>9
<1>10. QED BY <1>3, <1>4, <1>5, <1>6, <1>7, <1>8, <1>9, StepCases

-----------------------------------------------------------------------------
(* The counters and the gauges.                                            *)

LEMMA CallsAtFinite ==
  ASSUME NEW s
  PROVE  IsFiniteSet(CallsAt(s)) /\ CallsAt(s) \subseteq Calls
BY FiniteAssumption, FS_Subset DEF CallsAt

LEMMA CallsAtMove ==
  ASSUME TypeOK, NEW t \in Servers
  PROVE  /\ \A c \in Calls, x \in Sessions, p \in Prompts, s \in pool, y \in Sessions :
              Acquired(c, x, p, s, y) =>
                /\ c \notin CallsAt(t)
                /\ CallsAt(t)' = IF t = s THEN CallsAt(t) \cup {c} ELSE CallsAt(t)
         /\ \A c \in Calls : Attach(c) => CallsAt(t)' = CallsAt(t)
         /\ \A c \in Calls : Release(c) \/ Drop(c) =>
              /\ c \in CallsAt(t) <=> t = call[c].server
              /\ CallsAt(t)' = CallsAt(t) \ {c}
<1>1. ASSUME NEW c \in Calls, NEW x \in Sessions, NEW p \in Prompts, NEW s \in pool,
             NEW y \in Sessions, Acquired(c, x, p, s, y)
      PROVE  /\ c \notin CallsAt(t)
             /\ CallsAt(t)' = IF t = s THEN CallsAt(t) \cup {c} ELSE CallsAt(t)
  <2>1. /\ call'[c] = [state |-> "counted", session |-> x, server |-> s,
                       len |-> p.len, chain |-> Chain(p), turn |-> row[x].turn + 1]
        /\ \A d \in Calls : d # c => call'[d] = call[d]
    BY <1>1, CallsMove
  <2>2. call'[c].state = "counted" /\ call'[c].server = s
    BY <2>1
  <2>3. c \notin CallsAt(t)
    BY <1>1 DEF Acquired, CallsAt, InFlight
  <2>4. CallsAt(t)' = {d \in Calls : call'[d].state \in {"counted", "inflight"} /\ call'[d].server = t}
    BY DEF CallsAt, InFlight
  <2>5. CASE t = s
    BY <2>1, <2>2, <2>3, <2>4, <2>5 DEF CallsAt, InFlight
  <2>6. CASE t # s
    BY <2>1, <2>2, <2>3, <2>4, <2>6 DEF CallsAt, InFlight
  <2>7. QED BY <2>3, <2>5, <2>6
<1>2. ASSUME NEW c \in Calls, Attach(c) PROVE CallsAt(t)' = CallsAt(t)
  <2>1. /\ call'[c] = [state |-> "inflight", session |-> call[c].session,
                       server |-> call[c].server, len |-> call[c].len,
                       chain |-> call[c].chain, turn |-> call[c].turn]
        /\ \A d \in Calls : d # c => call'[d] = call[d]
    BY <1>2, CallsMove
  <2>2. /\ call'[c].state = "inflight" /\ call'[c].server = call[c].server
        /\ call[c].state = "counted"
    BY <1>2, <2>1 DEF Attach
  <2>3. CallsAt(t)' = {d \in Calls : call'[d].state \in {"counted", "inflight"} /\ call'[d].server = t}
    BY DEF CallsAt, InFlight
  <2>4. QED BY <2>1, <2>2, <2>3 DEF CallsAt, InFlight
<1>3. ASSUME NEW c \in Calls, Release(c) \/ Drop(c)
      PROVE  /\ c \in CallsAt(t) <=> t = call[c].server
             /\ CallsAt(t)' = CallsAt(t) \ {c}
  <2>1. /\ call'[c].state \in {"done", "lost"}
        /\ \A d \in Calls : d # c => call'[d] = call[d]
    BY <1>3, CallsMove
  <2>2. call[c].state = "inflight"
    BY <1>3 DEF Release, Drop
  <2>3. CallsAt(t)' = {d \in Calls : call'[d].state \in {"counted", "inflight"} /\ call'[d].server = t}
    BY DEF CallsAt, InFlight
  <2>4. QED BY <2>1, <2>2, <2>3 DEF CallsAt, InFlight
<1>4. QED BY <1>1, <1>2, <1>3

\* The steps that leave the calls alone.
LEMMA CallsRest ==
  ASSUME \/ \E s \in Servers : RemoveServer(s) \/ AddServer(s) \/ AllBlocksCleared(s)
         \/ ClearSticky \/ Quiet
  PROVE  call' = call /\ \A t : CallsAt(t)' = CallsAt(t)
BY DEF RemoveServer, AddServer, AllBlocksCleared, ClearSticky, Quiet, CallsAt, InFlight

LEMMA CountMove ==
  ASSUME NEW S, IsFiniteSet(S), NEW c
  PROVE  /\ Cardinality(S) \in Nat
         /\ c \notin S => Cardinality(S \cup {c}) = Cardinality(S) + 1
         /\ c \in S => Cardinality(S \ {c}) = Cardinality(S) - 1 /\ Cardinality(S) > 0
         /\ c \notin S => S \ {c} = S
<1>1. Cardinality(S) \in Nat /\ Cardinality(S \ {c}) \in Nat
  BY FS_Subset, FS_CardinalityType
<1>2. c \notin S => Cardinality(S \cup {c}) = Cardinality(S) + 1
  BY FS_AddElement
<1>3. c \in S => Cardinality(S \ {c}) = Cardinality(S) - 1
  BY FS_RemoveElement
<1>4. QED BY <1>1, <1>2, <1>3

LEMMA DrainStep ==
  ASSUME TypeOK, CallsPlaced, DrainExact, [Next]_vars
  PROVE  DrainExact'
<1> SUFFICES ASSUME "dropped" \notin hazards', "rejoined" \notin hazards', NEW t \in Servers
             PROVE  inflight'[t] = IF t \in pool' THEN Cardinality(CallsAt(t)') ELSE 0
  BY DEF DrainExact, Undisturbed
<1>1. inflight[t] = IF t \in pool THEN Cardinality(CallsAt(t)) ELSE 0
  BY HazardsGrow DEF DrainExact, Undisturbed
<1>2. inflight \in [Servers -> Nat] /\ pool \subseteq Servers
  BY TypeParts
<1>3. IsFiniteSet(CallsAt(t)) /\ Cardinality(CallsAt(t)) \in Nat
  BY CallsAtFinite, FS_CardinalityType
<1>4. ASSUME NEW c \in Calls, NEW x \in Sessions, NEW p \in Prompts, NEW s \in pool,
             NEW y \in Sessions, Acquired(c, x, p, s, y)
      PROVE  inflight'[t] = IF t \in pool' THEN Cardinality(CallsAt(t)') ELSE 0
  <2>1. inflight' = [inflight EXCEPT ![s] = inflight[s] + 1] /\ pool' = pool
    BY <1>4 DEF Acquired
  <2>2. /\ c \notin CallsAt(t)
        /\ CallsAt(t)' = IF t = s THEN CallsAt(t) \cup {c} ELSE CallsAt(t)
    BY <1>4, CallsAtMove
  <2>3. Cardinality(CallsAt(t)') = IF t = s THEN Cardinality(CallsAt(t)) + 1
                                   ELSE Cardinality(CallsAt(t))
    BY <1>3, <2>2, CountMove
  <2>4. QED BY <1>1, <1>2, <1>3, <2>1, <2>3
<1>5. ASSUME NEW c \in Calls, Attach(c)
      PROVE  inflight'[t] = IF t \in pool' THEN Cardinality(CallsAt(t)') ELSE 0
  BY <1>1, <1>5, CallsAtMove DEF Attach, balancer
<1>6. ASSUME NEW c \in Calls, Release(c)
      PROVE  inflight'[t] = IF t \in pool' THEN Cardinality(CallsAt(t)') ELSE 0
  <2> DEFINE s == call[c].server
  <2>1. /\ inflight' = [inflight EXCEPT ![s] = IF inflight[s] > 0 THEN inflight[s] - 1
                                               ELSE inflight[s]]
        /\ pool' = pool
    BY <1>6 DEF Release
  <2>2. (c \in CallsAt(t) <=> t = s) /\ CallsAt(t)' = CallsAt(t) \ {c}
    BY <1>6, CallsAtMove
  <2> HIDE DEF s
  <2>3. CASE t = s
    <3>1. inflight'[t] = IF inflight[t] > 0 THEN inflight[t] - 1 ELSE inflight[t]
      BY <1>2, <2>1, <2>3
    <3>2. Cardinality(CallsAt(t)') = Cardinality(CallsAt(t)) - 1 /\ Cardinality(CallsAt(t)) > 0
      BY <1>3, <2>2, <2>3, CountMove
    <3>3. QED BY <1>1, <1>3, <2>1, <3>1, <3>2
  <2>4. CASE t # s
    <3>1. inflight'[t] = inflight[t]
      BY <1>2, <2>1, <2>4
    <3>2. CallsAt(t)' = CallsAt(t)
      BY <2>2, <2>4
    <3>3. QED BY <1>1, <2>1, <3>1, <3>2
  <2>5. QED BY <2>3, <2>4
<1>7. ASSUME NEW c \in Calls, Drop(c) PROVE FALSE
  BY <1>7 DEF Drop
<1>8. ASSUME NEW s \in Servers, RemoveServer(s)
      PROVE  inflight'[t] = IF t \in pool' THEN Cardinality(CallsAt(t)') ELSE 0
  <2>1. inflight' = [inflight EXCEPT ![s] = 0] /\ pool' = pool \ {s} /\ CallsAt(t)' = CallsAt(t)
    BY <1>8, CallsRest DEF RemoveServer
  <2>2. QED BY <1>1, <1>2, <2>1
<1>9. ASSUME NEW s \in Servers, AddServer(s)
      PROVE  inflight'[t] = IF t \in pool' THEN Cardinality(CallsAt(t)') ELSE 0
  <2>1. /\ inflight' = inflight /\ pool' = pool \cup {s} /\ CallsAt(t)' = CallsAt(t)
        /\ s \notin pool /\ CallsAt(s) = {}
    BY <1>9, CallsRest DEF AddServer
  <2>2. Cardinality({}) = 0
    BY FS_EmptySet
  <2>3. QED BY <1>1, <2>1, <2>2
<1>10. ASSUME \/ \E s \in Servers : AllBlocksCleared(s)
              \/ ClearSticky \/ Quiet
       PROVE  inflight'[t] = IF t \in pool' THEN Cardinality(CallsAt(t)') ELSE 0
  <2>1. CallsAt(t)' = CallsAt(t)
    BY <1>10, CallsRest
  <2>2. QED BY <1>1, <1>10, <2>1 DEF AllBlocksCleared, ClearSticky, Quiet, balancer
<1>11. QED BY <1>4, <1>5, <1>6, <1>7, <1>8, <1>9, <1>10, StepCases

\* A binding is the only field of a row that a step other than an acquire writes.
LEMMA RowsKept ==
  ASSUME TypeOK, CallsPlaced,
         \/ \E c \in Calls : Attach(c) \/ Release(c) \/ Drop(c)
         \/ \E s \in Servers : RemoveServer(s) \/ AddServer(s) \/ AllBlocksCleared(s)
         \/ ClearSticky \/ Quiet,
         NEW x \in Sessions
  PROVE  row'[x].booked = row[x].booked /\ row'[x].turn = row[x].turn
<1>1. row \in [Sessions -> RowRecord] /\ row[x] \in RowRecord
  BY TypeParts
<1>2. ASSUME NEW b
      PROVE  /\ [row[x] EXCEPT !.sticky = b].booked = row[x].booked
             /\ [row[x] EXCEPT !.sticky = b].turn = row[x].turn
  BY <1>1 DEF RowRecord
<1>3. ASSUME NEW c \in Calls, Attach(c)
      PROVE  \E b : row'[x] = row[x] \/ row'[x] = [row[x] EXCEPT !.sticky = b]
  <2>1. row' = [row EXCEPT ![call[c].session] =
                  [row[call[c].session] EXCEPT !.sticky = call[c].server]]
    BY <1>3 DEF Attach
  <2>2. x # call[c].session => row'[x] = row[x]
    BY <1>1, <2>1
  <2>3. x = call[c].session => row'[x] = [row[x] EXCEPT !.sticky = call[c].server]
    <3> HIDE DEF RowRecord
    <3>1. QED BY <1>1, <2>1
  <2>4. QED BY <2>2, <2>3
<1>4. ASSUME \/ \E s \in Servers : RemoveServer(s)
             \/ ClearSticky
      PROVE  row'[x] = row[x] \/ row'[x] = [row[x] EXCEPT !.sticky = NoServer]
  BY <1>4 DEF RemoveServer, ClearSticky
<1>5. ASSUME \/ \E c \in Calls : Release(c) \/ Drop(c)
             \/ \E s \in Servers : AddServer(s) \/ AllBlocksCleared(s)
             \/ Quiet
      PROVE  row'[x] = row[x]
  BY <1>5 DEF Release, Drop, AddServer, AllBlocksCleared, Quiet, stores
<1>6. CASE \E c \in Calls : Attach(c)
  BY <1>2, <1>3, <1>6
<1>7. CASE (\E s \in Servers : RemoveServer(s)) \/ ClearSticky
  BY <1>2, <1>4, <1>7
<1>8. QED BY <1>5, <1>6, <1>7

LEMMA RowsStep ==
  ASSUME TypeOK, CallsPlaced, RowsFollow, [Next]_vars
  PROVE  RowsFollow'
<1> SUFFICES ASSUME "overlap" \notin hazards', "evicted" \notin hazards', "dropped" \notin hazards'
             PROVE  RowsFollow'
  BY DEF RowsFollow, Undisturbed
<1>1. \A c \in Calls : InFlight(c) => /\ row[call[c].session].booked = call[c].len
                                      /\ row[call[c].session].turn = call[c].turn
                                      /\ call[c].session \in Sessions
  BY HazardsGrow DEF RowsFollow, Undisturbed, CallsPlaced
<1>2. ASSUME NEW c \in Calls, NEW x \in Sessions, NEW p \in Prompts, NEW s \in pool,
             NEW y \in Sessions, Acquired(c, x, p, s, y)
      PROVE  RowsFollow'
  <2>1. /\ call'[c] = [state |-> "counted", session |-> x, server |-> s,
                       len |-> p.len, chain |-> Chain(p), turn |-> row[x].turn + 1]
        /\ \A d \in Calls : d # c => call'[d] = call[d]
    BY <1>2, CallsMove
  <2>2. call'[c].session = x /\ call'[c].len = p.len /\ call'[c].turn = row[x].turn + 1
    BY <2>1
  <2>3. /\ row'[x].turn = row[x].turn + 1 /\ row'[x].booked = p.len
        /\ \A z \in Sessions : z # x => row'[z] = IF z = y THEN NoRow ELSE row[z]
    BY <1>2 DEF Acquired
  <2>4. \A d \in Calls : InFlight(d) => call[d].session # x /\ (y # x => call[d].session # y)
    BY <1>2, AcquiredHazards DEF CallsOf
  <2>5. ASSUME NEW d \in Calls, d # c, InFlight(d)'
        PROVE  /\ row'[call'[d].session].booked = call'[d].len
               /\ row'[call'[d].session].turn = call'[d].turn
    <3>1. InFlight(d) /\ call'[d] = call[d]
      BY <2>1, <2>5 DEF InFlight
    <3>2. row'[call[d].session] = row[call[d].session]
      BY <1>1, <2>3, <2>4, <3>1
    <3>3. QED BY <1>1, <3>1, <3>2
  <2>6. QED BY <2>2, <2>3, <2>5 DEF RowsFollow
<1>3. ASSUME NEW c \in Calls, Attach(c) PROVE RowsFollow'
  <2>1. /\ call'[c] = [state |-> "inflight", session |-> call[c].session,
                       server |-> call[c].server, len |-> call[c].len,
                       chain |-> call[c].chain, turn |-> call[c].turn]
        /\ \A d \in Calls : d # c => call'[d] = call[d]
    BY <1>3, CallsMove
  <2>2. /\ call'[c].session = call[c].session /\ call'[c].len = call[c].len
        /\ call'[c].turn = call[c].turn /\ call[c].state = "counted"
    BY <1>3, <2>1 DEF Attach
  <2>3. \A x \in Sessions : row'[x].booked = row[x].booked /\ row'[x].turn = row[x].turn
    BY <1>3, RowsKept
  <2>4. QED BY <1>1, <2>1, <2>2, <2>3 DEF RowsFollow, InFlight
<1>4. ASSUME NEW c \in Calls, Release(c) \/ Drop(c) PROVE RowsFollow'
  <2>1. /\ call'[c].state \in {"done", "lost"}
        /\ \A d \in Calls : d # c => call'[d] = call[d]
    BY <1>4, CallsMove
  <2>2. \A x \in Sessions : row'[x].booked = row[x].booked /\ row'[x].turn = row[x].turn
    BY <1>4, RowsKept
  <2>3. QED BY <1>1, <2>1, <2>2 DEF RowsFollow, InFlight
<1>5. ASSUME \/ \E s \in Servers : RemoveServer(s) \/ AddServer(s) \/ AllBlocksCleared(s)
             \/ ClearSticky \/ Quiet
      PROVE  RowsFollow'
  <2>1. call' = call
    BY <1>5, CallsRest
  <2>2. \A x \in Sessions : row'[x].booked = row[x].booked /\ row'[x].turn = row[x].turn
    BY <1>5, RowsKept
  <2>3. QED BY <1>1, <2>1, <2>2 DEF RowsFollow, InFlight
<1>6. QED BY <1>2, <1>3, <1>4, <1>5, StepCases

Lens == [c \in Calls |-> call[c].len]
Turns == [c \in Calls |-> call[c].turn]

\* What a step that adds or removes one call does to a sum over the calls of a server.
LEMMA SumJoins ==
  ASSUME NEW f \in [Calls -> Int], NEW g \in [Calls -> Int], NEW S \in SUBSET Calls,
         NEW c \in Calls, c \notin S, \A d \in Calls : d # c => g[d] = f[d]
  PROVE  SumFunctionOnSet(g, S \cup {c}) = SumFunctionOnSet(f, S) + g[c]
<1> DEFINE T == S \cup {c}
<1>1. IsFiniteSet(Calls) /\ IsFiniteSet(S)
  BY FiniteAssumption, FS_Subset
<1>2. SumFunctionOnSet(g, T) = g[c] + SumFunctionOnSet(g, T \ {c})
  BY <1>1, SumAdds
<1>3. T \ {c} = S
  OBVIOUS
<1>4. SumFunctionOnSet(g, S) = SumFunctionOnSet(f, S)
  BY <1>1, SumSame
<1>5. SumFunctionOnSet(f, S) \in Int
  BY <1>1, SumType
<1>6. g[c] \in Int
  OBVIOUS
<1> HIDE DEF T
<1>7. SumFunctionOnSet(g, T) = g[c] + SumFunctionOnSet(f, S)
  BY <1>2, <1>3, <1>4
<1>8. g[c] + SumFunctionOnSet(f, S) = SumFunctionOnSet(f, S) + g[c]
  BY <1>5, <1>6
<1>9. QED BY <1>7, <1>8 DEF T

LEMMA SumLeaves ==
  ASSUME NEW f \in [Calls -> Int], NEW g \in [Calls -> Int], NEW S \in SUBSET Calls,
         NEW c \in S, \A d \in Calls : d # c => g[d] = f[d]
  PROVE  SumFunctionOnSet(g, S \ {c}) = SumFunctionOnSet(f, S) - f[c]
<1>1. IsFiniteSet(Calls) /\ IsFiniteSet(S \ {c})
  BY FiniteAssumption, FS_Subset
<1>2. SumFunctionOnSet(f, S) = f[c] + SumFunctionOnSet(f, S \ {c})
  BY <1>1, SumAdds
<1>3. SumFunctionOnSet(g, S \ {c}) = SumFunctionOnSet(f, S \ {c})
  BY <1>1, SumSame
<1>4. SumFunctionOnSet(f, S \ {c}) \in Int /\ f[c] \in Int
  BY <1>1, SumType
<1>5. SumFunctionOnSet(f, S) - f[c] = SumFunctionOnSet(f, S \ {c})
  BY <1>2, <1>4
<1>6. QED BY <1>3, <1>5

LEMMA LensTyped ==
  ASSUME TypeOK
  PROVE  Lens \in [Calls -> Int] /\ Turns \in [Calls -> Int]
BY RecordTypes DEF Lens, Turns

\* GaugeExact at one server.
GaugeIs(s) ==
  gauge[s] = [count  |-> Cardinality(CallsAt(s)),
              tokens |-> SumFunctionOnSet(Lens, CallsAt(s)),
              turns  |-> SumFunctionOnSet(Turns, CallsAt(s))]

LEMMA GaugeParts ==
  GaugeExact <=> (Undisturbed({"overlap", "evicted", "dropped"}) => \A s \in Servers : GaugeIs(s))
BY DEF GaugeExact, GaugeIs, Lens, Turns

LEMMA GaugeStep ==
  ASSUME TypeOK, TypeOK', CallsPlaced, MarkersHeld, RowsFollow, GaugeExact, [Next]_vars
  PROVE  GaugeExact'
<1> SUFFICES ASSUME "overlap" \notin hazards', "evicted" \notin hazards', "dropped" \notin hazards',
                    NEW t \in Servers
             PROVE  GaugeIs(t)'
  BY DEF GaugeExact, GaugeIs, Lens, Turns, Undisturbed
<1>1. GaugeIs(t)
  BY HazardsGrow, GaugeParts DEF Undisturbed
<1>2. /\ \A c \in Calls : InFlight(c) => /\ row[call[c].session].booked = call[c].len
                                         /\ row[call[c].session].turn = call[c].turn
      /\ \A x \in Sessions : marker[x] # NoMarker => CallsOf(x) # {}
  BY HazardsGrow DEF RowsFollow, MarkersHeld, Undisturbed, CallsOf, InFlight
<1>3. gauge \in [Servers -> GaugeRecord]
  BY TypeParts
<1>4. IsFiniteSet(CallsAt(t)) /\ Cardinality(CallsAt(t)) \in Nat /\ CallsAt(t) \subseteq Calls
  BY CallsAtFinite, FS_CardinalityType
<1>5. Lens \in [Calls -> Int] /\ Turns \in [Calls -> Int]
  BY LensTyped
<1>6. Lens' \in [Calls -> Int] /\ Turns' \in [Calls -> Int]
  <2>1. \A c \in Calls : call'[c].len \in Int /\ call'[c].turn \in Int
    <3>1. call' \in [Calls -> CallRecord]
      BY DEF TypeOK, CallRecord, TokenCounts, Chains
    <3>2. ASSUME NEW c \in Calls PROVE call'[c].len \in Int /\ call'[c].turn \in Int
      <4>1. call'[c] \in CallRecord
        BY <3>1
      <4>2. call'[c].len \in TokenCounts /\ call'[c].turn \in Nat
        BY <4>1 DEF CallRecord
      <4>3. call'[c].len \in Nat
        BY <4>2, CountsAreNaturals
      <4>4. QED BY <4>2, <4>3
    <3>3. QED BY <3>2
  <2>2. QED BY <2>1 DEF Lens, Turns
<1>7. ASSUME NEW c \in Calls, \A d \in Calls : d # c => call'[d] = call[d]
      PROVE  \A d \in Calls : d # c => Lens'[d] = Lens[d] /\ Turns'[d] = Turns[d]
  BY <1>7 DEF Lens, Turns
<1>8. ASSUME NEW c \in Calls, NEW x \in Sessions, NEW p \in Prompts, NEW s \in pool,
             NEW y \in Sessions, Acquired(c, x, p, s, y)
      PROVE  GaugeIs(t)'
  <2>1. /\ call'[c] = [state |-> "counted", session |-> x, server |-> s,
                       len |-> p.len, chain |-> Chain(p), turn |-> row[x].turn + 1]
        /\ \A d \in Calls : d # c => call'[d] = call[d]
    BY <1>8, CallsMove
  <2>2. Lens'[c] = p.len /\ Turns'[c] = row[x].turn + 1
    BY <2>1 DEF Lens, Turns
  <2>3. \A d \in Calls : d # c => Lens'[d] = Lens[d] /\ Turns'[d] = Turns[d]
    BY <1>7, <2>1
  <2>4. /\ c \notin CallsAt(t)
        /\ CallsAt(t)' = IF t = s THEN CallsAt(t) \cup {c} ELSE CallsAt(t)
    BY <1>8, CallsAtMove
  <2>5. marker[x] = NoMarker
    BY <1>2, <1>8, AcquiredHazards
  <2>6. Add(s, 1, p.len, row[x].turn + 1)
    BY <1>8, <2>5 DEF Acquired
  <2>7. p.len \in Int /\ row[x].turn + 1 \in Int /\ 1 \in Int /\ s \in Servers
    BY PromptTypes, RecordTypes, TypeParts
  <2>8. /\ gauge'[s] = [count |-> gauge[s].count + 1, tokens |-> gauge[s].tokens + p.len,
                        turns |-> gauge[s].turns + (row[x].turn + 1)]
        /\ t # s => gauge'[t] = gauge[t]
    BY <1>3, <2>6, <2>7, AddAt
  <2>9. CASE t = s
    <3>1. Cardinality(CallsAt(t)') = Cardinality(CallsAt(t)) + 1
      BY <1>4, <2>4, <2>9, CountMove
    <3>2. SumFunctionOnSet(Lens', CallsAt(t)') = SumFunctionOnSet(Lens, CallsAt(t)) + p.len
      BY <1>4, <1>5, <1>6, <2>2, <2>3, <2>4, <2>9, SumJoins
    <3>3. SumFunctionOnSet(Turns', CallsAt(t)') =
            SumFunctionOnSet(Turns, CallsAt(t)) + (row[x].turn + 1)
      BY <1>4, <1>5, <1>6, <2>2, <2>3, <2>4, <2>9, SumJoins
    <3>4. /\ gauge[t].count = Cardinality(CallsAt(t))
          /\ gauge[t].tokens = SumFunctionOnSet(Lens, CallsAt(t))
          /\ gauge[t].turns = SumFunctionOnSet(Turns, CallsAt(t))
      BY <1>1 DEF GaugeIs
    <3>5. gauge'[t] = [count |-> Cardinality(CallsAt(t)'),
                       tokens |-> SumFunctionOnSet(Lens', CallsAt(t)'),
                       turns |-> SumFunctionOnSet(Turns', CallsAt(t)')]
      BY <2>8, <2>9, <3>1, <3>2, <3>3, <3>4
    <3>6. QED BY <3>5 DEF GaugeIs
  <2>10. CASE t # s
    <3>1. CallsAt(t)' = CallsAt(t) /\ gauge'[t] = gauge[t]
      BY <2>4, <2>8, <2>10
    <3>2. SumFunctionOnSet(Lens', CallsAt(t)) = SumFunctionOnSet(Lens, CallsAt(t))
      BY <1>4, <2>3, <2>4, SumSame
    <3>3. SumFunctionOnSet(Turns', CallsAt(t)) = SumFunctionOnSet(Turns, CallsAt(t))
      BY <1>4, <2>3, <2>4, SumSame
    <3>4. QED BY <1>1, <3>1, <3>2, <3>3 DEF GaugeIs
  <2>11. QED BY <2>9, <2>10
<1>9. ASSUME NEW c \in Calls, Attach(c) PROVE GaugeIs(t)'
  <2>1. /\ call'[c] = [state |-> "inflight", session |-> call[c].session,
                       server |-> call[c].server, len |-> call[c].len,
                       chain |-> call[c].chain, turn |-> call[c].turn]
        /\ \A d \in Calls : d # c => call'[d] = call[d]
    BY <1>9, CallsMove
  <2>2. call'[c].len = call[c].len /\ call'[c].turn = call[c].turn
    BY <2>1
  <2>3. Lens' = Lens /\ Turns' = Turns
    BY <2>1, <2>2 DEF Lens, Turns
  <2>4. CallsAt(t)' = CallsAt(t) /\ gauge' = gauge
    BY <1>9, CallsAtMove DEF Attach
  <2>5. QED BY <1>1, <2>3, <2>4 DEF GaugeIs
<1>10. ASSUME NEW c \in Calls, Release(c) PROVE GaugeIs(t)'
  <2> DEFINE s == call[c].server
             x == call[c].session
  <2>1. /\ (c \in CallsAt(t) <=> t = s) /\ CallsAt(t)' = CallsAt(t) \ {c}
        /\ \A d \in Calls : d # c => call'[d] = call[d]
    BY <1>10, CallsAtMove, CallsMove
  <2>2. \A d \in Calls : d # c => Lens'[d] = Lens[d] /\ Turns'[d] = Turns[d]
    BY <1>7, <2>1
  <2>3. InFlight(c)
    BY <1>10 DEF Release, InFlight
  <2>4. row[x].booked = Lens[c] /\ row[x].turn = Turns[c] /\ s \in Servers
    BY <1>2, <2>3 DEF Lens, Turns, CallsPlaced
  <2>5. Add(s, -1, -row[x].booked, -row[x].turn)
    BY <1>10 DEF Release
  <2>6. /\ -row[x].booked \in Int /\ -row[x].turn \in Int /\ -1 \in Int
        /\ Lens[c] \in Int /\ Turns[c] \in Int
    BY <1>5, <2>4
  <2> HIDE DEF s, x
  <2>7. /\ gauge'[s] = [count |-> gauge[s].count + (-1),
                        tokens |-> gauge[s].tokens + (-row[x].booked),
                        turns |-> gauge[s].turns + (-row[x].turn)]
        /\ t # s => gauge'[t] = gauge[t]
    BY <1>3, <2>4, <2>5, <2>6, AddAt
  <2>8. CASE t = s
    <3>1. Cardinality(CallsAt(t)') = Cardinality(CallsAt(t)) - 1
      BY <1>4, <2>1, <2>8, CountMove
    <3>2. SumFunctionOnSet(Lens', CallsAt(t)') = SumFunctionOnSet(Lens, CallsAt(t)) - Lens[c]
      BY <1>4, <1>5, <1>6, <2>1, <2>2, <2>8, SumLeaves
    <3>3. SumFunctionOnSet(Turns', CallsAt(t)') = SumFunctionOnSet(Turns, CallsAt(t)) - Turns[c]
      BY <1>4, <1>5, <1>6, <2>1, <2>2, <2>8, SumLeaves
    <3>4. /\ gauge[t].count = Cardinality(CallsAt(t))
          /\ gauge[t].tokens = SumFunctionOnSet(Lens, CallsAt(t))
          /\ gauge[t].turns = SumFunctionOnSet(Turns, CallsAt(t))
      BY <1>1 DEF GaugeIs
    <3>5. SumFunctionOnSet(Lens, CallsAt(t)) \in Int /\ SumFunctionOnSet(Turns, CallsAt(t)) \in Int
      BY <1>4, <1>5, FiniteAssumption, SumType
    <3>6. /\ gauge[t].count + (-1) = Cardinality(CallsAt(t)')
          /\ gauge[t].tokens + (-row[x].booked) = SumFunctionOnSet(Lens', CallsAt(t)')
          /\ gauge[t].turns + (-row[x].turn) = SumFunctionOnSet(Turns', CallsAt(t)')
      BY <1>4, <2>4, <2>6, <3>1, <3>2, <3>3, <3>4, <3>5
    <3>7. gauge'[t] = [count |-> Cardinality(CallsAt(t)'),
                       tokens |-> SumFunctionOnSet(Lens', CallsAt(t)'),
                       turns |-> SumFunctionOnSet(Turns', CallsAt(t)')]
      BY <2>7, <2>8, <3>6
    <3>8. QED BY <3>7 DEF GaugeIs
  <2>9. CASE t # s
    <3>1. CallsAt(t)' = CallsAt(t) /\ gauge'[t] = gauge[t] /\ c \notin CallsAt(t)
      BY <1>4, <2>1, <2>7, <2>9
    <3>2. SumFunctionOnSet(Lens', CallsAt(t)) = SumFunctionOnSet(Lens, CallsAt(t))
      BY <1>4, <2>2, <3>1, SumSame
    <3>3. SumFunctionOnSet(Turns', CallsAt(t)) = SumFunctionOnSet(Turns, CallsAt(t))
      BY <1>4, <2>2, <3>1, SumSame
    <3>4. QED BY <1>1, <3>1, <3>2, <3>3 DEF GaugeIs
  <2>10. QED BY <2>8, <2>9
<1>11. ASSUME NEW c \in Calls, Drop(c) PROVE FALSE
  BY <1>11 DEF Drop
<1>12. ASSUME \/ \E s \in Servers : RemoveServer(s) \/ AddServer(s) \/ AllBlocksCleared(s)
              \/ ClearSticky \/ Quiet
       PROVE  GaugeIs(t)'
  <2>1. call' = call /\ CallsAt(t)' = CallsAt(t)
    BY <1>12, CallsRest
  <2>2. gauge' = gauge
    BY <1>12 DEF RemoveServer, AddServer, AllBlocksCleared, ClearSticky, Quiet, stores
  <2>3. QED BY <1>1, <2>1, <2>2 DEF GaugeIs, Lens, Turns
<1>13. QED BY <1>8, <1>9, <1>10, <1>11, <1>12, StepCases

-----------------------------------------------------------------------------
(* The book and the markers.                                               *)

LEMMA NoMarkerFields ==
  /\ NoMarker.server = NoServer /\ NoMarker.chain = << >>
  /\ \A t \in Servers : t # NoServer
BY SizesAssumption DEF NoMarker

\* What an acquire does to the markers and a release too.
LEMMA MarkerTaken ==
  ASSUME TypeOK, NEW x, marker' = [marker EXCEPT ![x] = NoMarker]
  PROVE  \A z \in Sessions : marker'[z] = IF z = x THEN NoMarker ELSE marker[z]
BY TypeParts

LEMMA AttachMarks ==
  ASSUME TypeOK, NEW c \in Calls, Attach(c), NEW z \in Sessions
  PROVE  marker'[z] = IF z = call[c].session /\ call[c].chain # << >>
                      THEN [server |-> call[c].server, chain |-> call[c].chain]
                      ELSE marker[z]
<1> DEFINE m == [server |-> call[c].server, chain |-> call[c].chain]
<1>1. marker' = IF call[c].chain = << >> THEN marker
                ELSE [marker EXCEPT ![call[c].session] = m]
  BY DEF Attach
<1>2. marker \in [Sessions -> MarkerRecord]
  BY TypeParts
<1> HIDE DEF m
<1>3. marker'[z] = IF z = call[c].session /\ call[c].chain # << >> THEN m ELSE marker[z]
  BY <1>1, <1>2
<1>4. QED BY <1>3 DEF m

LEMMA MarkersStep ==
  ASSUME TypeOK, CallsPlaced, OnePerSession, MarkersFollow, [Next]_vars
  PROVE  MarkersFollow'
<1> SUFFICES ASSUME "overlap" \notin hazards', "dropped" \notin hazards',
                    "cleared" \notin hazards', "torn" \notin hazards'
             PROVE  MarkersFollow'
  BY DEF MarkersFollow, Undisturbed
<1> DEFINE Mark(c) == IF call[c].chain = << >> THEN NoMarker
                      ELSE [server |-> call[c].server, chain |-> call[c].chain]
<1>1. /\ \A c \in Calls : call[c].state = "inflight" => marker[call[c].session] = Mark(c)
      /\ \A c, d \in Calls :
           InFlight(c) /\ InFlight(d) /\ call[c].session = call[d].session => c = d
      /\ \A c \in Calls : InFlight(c) => call[c].session \in Sessions /\ call[c].server \in Servers
  BY HazardsGrow DEF MarkersFollow, OnePerSession, CallsPlaced, Undisturbed
<1>2. ASSUME \A c \in Calls : call'[c].state = "inflight" => marker'[call'[c].session] = Mark(c)'
      PROVE  MarkersFollow'
  BY <1>2 DEF MarkersFollow
<1>3. ASSUME NEW c \in Calls, call'[c] = call[c] PROVE Mark(c)' = Mark(c)
  BY <1>3
<1>4. ASSUME NEW c \in Calls, NEW x \in Sessions, NEW p \in Prompts, NEW s \in pool,
             NEW y \in Sessions, Acquired(c, x, p, s, y)
      PROVE  MarkersFollow'
  <2>1. /\ call'[c] = [state |-> "counted", session |-> x, server |-> s,
                       len |-> p.len, chain |-> Chain(p), turn |-> row[x].turn + 1]
        /\ \A d \in Calls : d # c => call'[d] = call[d]
    BY <1>4, CallsMove
  <2>2. call'[c].state = "counted"
    BY <2>1
  <2>3. \A d \in Calls : InFlight(d) => call[d].session # x
    BY <1>4, AcquiredHazards DEF CallsOf
  <2>4. \A z \in Sessions : marker'[z] = IF z = x THEN NoMarker ELSE marker[z]
    BY <1>4, MarkerTaken DEF Acquired
  <2>5. ASSUME NEW d \in Calls, call'[d].state = "inflight"
        PROVE  marker'[call'[d].session] = Mark(d)'
    <3>1. d # c /\ call'[d] = call[d] /\ InFlight(d) /\ call[d].state = "inflight"
      BY <2>1, <2>2, <2>5 DEF InFlight
    <3>2. Mark(d)' = Mark(d)
      BY <1>3, <3>1
    <3> HIDE DEF Mark
    <3>3. QED BY <1>1, <2>3, <2>4, <3>1, <3>2
  <2>6. QED BY <1>2, <2>5
<1>5. ASSUME NEW c \in Calls, Attach(c) PROVE MarkersFollow'
  <2>1. /\ call'[c] = [state |-> "inflight", session |-> call[c].session,
                       server |-> call[c].server, len |-> call[c].len,
                       chain |-> call[c].chain, turn |-> call[c].turn]
        /\ \A d \in Calls : d # c => call'[d] = call[d]
    BY <1>5, CallsMove
  <2>2. /\ call'[c].session = call[c].session /\ call'[c].chain = call[c].chain
        /\ call'[c].server = call[c].server
    BY <2>1
  <2>3. /\ call[c].state = "counted" /\ InFlight(c)
        /\ marker[call[c].session] = NoMarker
    BY <1>5 DEF Attach, InFlight, CallsPlaced
  <2>4. \A z \in Sessions :
          marker'[z] = IF z = call[c].session /\ call[c].chain # << >>
                       THEN [server |-> call[c].server, chain |-> call[c].chain]
                       ELSE marker[z]
    BY <1>5, AttachMarks
  <2>5. marker'[call'[c].session] = Mark(c)'
    BY <1>1, <2>2, <2>3, <2>4
  <2>6. ASSUME NEW d \in Calls, d # c, call'[d].state = "inflight"
        PROVE  marker'[call'[d].session] = Mark(d)'
    <3>1. call'[d] = call[d] /\ InFlight(d) /\ call[d].state = "inflight"
      BY <2>1, <2>6 DEF InFlight
    <3>2. Mark(d)' = Mark(d) /\ call[d].session # call[c].session
      BY <1>1, <1>3, <2>3, <2>6, <3>1
    <3>3. marker'[call[d].session] = marker[call[d].session]
      BY <1>1, <2>4, <3>1, <3>2
    <3> HIDE DEF Mark
    <3>4. QED BY <1>1, <3>1, <3>2, <3>3
  <2> HIDE DEF Mark
  <2>7. QED BY <1>2, <2>5, <2>6
<1>6. ASSUME NEW c \in Calls, Release(c) PROVE MarkersFollow'
  <2>1. /\ call'[c].state \in {"done", "lost"} /\ InFlight(c)
        /\ \A d \in Calls : d # c => call'[d] = call[d]
    BY <1>6, CallsMove DEF Release, InFlight
  <2>2. \A z \in Sessions : marker'[z] = IF z = call[c].session THEN NoMarker ELSE marker[z]
    BY <1>6, MarkerTaken DEF Release
  <2>3. ASSUME NEW d \in Calls, call'[d].state = "inflight"
        PROVE  marker'[call'[d].session] = Mark(d)'
    <3>1. d # c /\ call'[d] = call[d] /\ InFlight(d) /\ call[d].state = "inflight"
      BY <2>1, <2>3 DEF InFlight
    <3>2. Mark(d)' = Mark(d) /\ call[d].session # call[c].session
      BY <1>1, <1>3, <2>1, <3>1
    <3> HIDE DEF Mark
    <3>3. QED BY <1>1, <2>2, <3>1, <3>2
  <2>4. QED BY <1>2, <2>3
<1>7. ASSUME NEW c \in Calls, Drop(c) PROVE FALSE
  BY <1>7 DEF Drop
<1>8. ASSUME NEW s \in Servers, AllBlocksCleared(s) PROVE MarkersFollow'
  <2>1. call' = call /\ CallsAt(s) = {}
    BY <1>8, ClearedHazards DEF AllBlocksCleared
  <2>2. \A z \in Sessions : marker'[z] = IF marker[z].server = s THEN NoMarker ELSE marker[z]
    BY <1>8 DEF AllBlocksCleared
  <2>3. ASSUME NEW d \in Calls, call'[d].state = "inflight"
        PROVE  marker'[call'[d].session] = Mark(d)'
    <3>1. call'[d] = call[d] /\ InFlight(d) /\ call[d].state = "inflight" /\ call[d].server # s
      BY <2>1, <2>3 DEF InFlight, CallsAt
    <3>2. Mark(d)' = Mark(d) /\ Mark(d).server # s
      BY <1>3, <3>1, NoMarkerFields
    <3> HIDE DEF Mark
    <3>3. QED BY <1>1, <2>2, <3>1, <3>2
  <2>4. QED BY <1>2, <2>3
<1>9. ASSUME \/ \E s \in Servers : RemoveServer(s) \/ AddServer(s)
             \/ ClearSticky \/ Quiet
      PROVE  MarkersFollow'
  <2>1. call' = call /\ marker' = marker
    BY <1>9 DEF RemoveServer, AddServer, ClearSticky, Quiet, stores
  <2>2. QED BY <1>1, <1>2, <2>1
<1>10. QED BY <1>4, <1>5, <1>6, <1>7, <1>8, <1>9, StepCases

\* The calls in flight that pinned b at s.
Pinners(s, b) == {c \in CallsAt(s) : b \in Elements(call[c].chain)}

LEMMA PinnersFinite ==
  ASSUME NEW s, NEW b
  PROVE  IsFiniteSet(Pinners(s, b)) /\ Cardinality(Pinners(s, b)) \in Nat
BY CallsAtFinite, FS_Subset, FS_CardinalityType DEF Pinners

LEMMA PinnersMove ==
  ASSUME TypeOK, NEW t \in Servers, NEW b \in Blocks
  PROVE  /\ \A c \in Calls, x \in Sessions, p \in Prompts, s \in pool, y \in Sessions :
              Acquired(c, x, p, s, y) =>
                /\ c \notin Pinners(t, b)
                /\ Pinners(t, b)' = IF t = s /\ b \in Elements(Chain(p))
                                    THEN Pinners(t, b) \cup {c} ELSE Pinners(t, b)
         /\ \A c \in Calls : Attach(c) => Pinners(t, b)' = Pinners(t, b)
         /\ \A c \in Calls : Release(c) =>
              /\ c \in Pinners(t, b) <=> t = call[c].server /\ b \in Elements(call[c].chain)
              /\ Pinners(t, b)' = Pinners(t, b) \ {c}
<1>1. Pinners(t, b)' = {d \in CallsAt(t)' : b \in Elements(call'[d].chain)}
  BY DEF Pinners, Elements
<1>2. ASSUME NEW c \in Calls, NEW x \in Sessions, NEW p \in Prompts, NEW s \in pool,
             NEW y \in Sessions, Acquired(c, x, p, s, y)
      PROVE  /\ c \notin Pinners(t, b)
             /\ Pinners(t, b)' = IF t = s /\ b \in Elements(Chain(p))
                                 THEN Pinners(t, b) \cup {c} ELSE Pinners(t, b)
  <2>1. /\ call'[c] = [state |-> "counted", session |-> x, server |-> s,
                       len |-> p.len, chain |-> Chain(p), turn |-> row[x].turn + 1]
        /\ \A d \in Calls : d # c => call'[d] = call[d]
    BY <1>2, CallsMove
  <2>2. call'[c].chain = Chain(p)
    BY <2>1
  <2>3. /\ c \notin CallsAt(t)
        /\ CallsAt(t)' = IF t = s THEN CallsAt(t) \cup {c} ELSE CallsAt(t)
    BY <1>2, CallsAtMove
  <2>4. CallsAt(t) \subseteq Calls
    BY CallsAtFinite
  <2>5. \A d \in CallsAt(t) : call'[d].chain = call[d].chain
    BY <2>1, <2>3, <2>4
  <2>6. QED BY <1>1, <2>2, <2>3, <2>5 DEF Pinners
<1>3. ASSUME NEW c \in Calls, Attach(c) PROVE Pinners(t, b)' = Pinners(t, b)
  <2>1. /\ call'[c] = [state |-> "inflight", session |-> call[c].session,
                       server |-> call[c].server, len |-> call[c].len,
                       chain |-> call[c].chain, turn |-> call[c].turn]
        /\ \A d \in Calls : d # c => call'[d] = call[d]
    BY <1>3, CallsMove
  <2>2. \A d \in Calls : call'[d].chain = call[d].chain
    BY <2>1
  <2>3. CallsAt(t)' = CallsAt(t) /\ CallsAt(t) \subseteq Calls
    BY <1>3, CallsAtMove, CallsAtFinite
  <2>4. QED BY <1>1, <2>2, <2>3 DEF Pinners
<1>4. ASSUME NEW c \in Calls, Release(c)
      PROVE  /\ c \in Pinners(t, b) <=> t = call[c].server /\ b \in Elements(call[c].chain)
             /\ Pinners(t, b)' = Pinners(t, b) \ {c}
  <2>1. /\ (c \in CallsAt(t) <=> t = call[c].server) /\ CallsAt(t)' = CallsAt(t) \ {c}
        /\ \A d \in Calls : d # c => call'[d] = call[d]
    BY <1>4, CallsAtMove, CallsMove
  <2>2. CallsAt(t) \subseteq Calls
    BY CallsAtFinite
  <2>3. QED BY <1>1, <2>1, <2>2 DEF Pinners
<1>5. QED BY <1>2, <1>3, <1>4

LEMMA BookStep ==
  ASSUME TypeOK, CallsPlaced, MarkersHeld, MarkersFollow, BookExact, [Next]_vars
  PROVE  BookExact'
<1> SUFFICES ASSUME "overlap" \notin hazards', "dropped" \notin hazards',
                    "cleared" \notin hazards', "torn" \notin hazards',
                    NEW t \in Servers, NEW b \in Blocks
             PROVE  refs'[t][b] = Cardinality(Pinners(t, b)')
  BY DEF BookExact, Undisturbed, Pinners
<1>1. refs[t][b] = Cardinality(Pinners(t, b))
  BY HazardsGrow DEF BookExact, Undisturbed, Pinners
<1>2. refs \in [Servers -> [Blocks -> Nat]]
  BY TypeParts
<1>3. IsFiniteSet(Pinners(t, b)) /\ Cardinality(Pinners(t, b)) \in Nat
  BY PinnersFinite
<1>4. ASSUME NEW c \in Calls, NEW x \in Sessions, NEW p \in Prompts, NEW s \in pool,
             NEW y \in Sessions, Acquired(c, x, p, s, y)
      PROVE  refs'[t][b] = Cardinality(Pinners(t, b)')
  <2>1. marker[x] = NoMarker
    <3>1. CallsOf(x) = {}
      BY <1>4, AcquiredHazards
    <3>2. MarkersHeld /\ Undisturbed({"dropped"})
      BY HazardsGrow DEF Undisturbed
    <3>3. QED BY <3>1, <3>2 DEF MarkersHeld, CallsOf, InFlight
  <2>2. refs' = Ref(Unref(refs, NoMarker), s, Chain(p)) /\ s \in Servers
    BY <1>4, <2>1, TypeParts DEF Acquired
  <2>3. /\ Unref(refs, NoMarker) \in [Servers -> [Blocks -> Nat]]
        /\ Unref(refs, NoMarker)[t][b] = refs[t][b]
    <3>1. Unref(refs, NoMarker)[t][b] =
            IF t = NoMarker.server /\ b \in Elements(NoMarker.chain) /\ refs[t][b] > 0
            THEN refs[t][b] - 1 ELSE refs[t][b]
      BY UnrefAt
    <3>2. t # NoMarker.server
      BY NoMarkerFields
    <3>3. QED BY <1>2, <3>1, <3>2, UnrefType
  <2>4. refs'[t][b] = IF t = s /\ b \in Elements(Chain(p)) THEN refs[t][b] + 1 ELSE refs[t][b]
    BY <2>2, <2>3, RefAt
  <2>5. /\ c \notin Pinners(t, b)
        /\ Pinners(t, b)' = IF t = s /\ b \in Elements(Chain(p))
                            THEN Pinners(t, b) \cup {c} ELSE Pinners(t, b)
    BY <1>4, PinnersMove
  <2>6. Cardinality(Pinners(t, b) \cup {c}) = Cardinality(Pinners(t, b)) + 1
    BY <1>3, <2>5, CountMove
  <2>7. QED BY <1>1, <2>4, <2>5, <2>6
<1>5. ASSUME NEW c \in Calls, Attach(c) PROVE refs'[t][b] = Cardinality(Pinners(t, b)')
  BY <1>1, <1>5, PinnersMove DEF Attach
<1>6. ASSUME NEW c \in Calls, Release(c) PROVE refs'[t][b] = Cardinality(Pinners(t, b)')
  <2> DEFINE m == marker[call[c].session]
  <2>1. refs' = Unref(refs, m)
    BY <1>6 DEF Release
  <2>2. refs'[t][b] = IF t = m.server /\ b \in Elements(m.chain) /\ refs[t][b] > 0
                      THEN refs[t][b] - 1 ELSE refs[t][b]
    BY <2>1, UnrefAt
  <2>3. m = IF call[c].chain = << >> THEN NoMarker
            ELSE [server |-> call[c].server, chain |-> call[c].chain]
    BY <1>6, HazardsGrow DEF MarkersFollow, Undisturbed, Release
  <2>4. t = m.server /\ b \in Elements(m.chain)
          <=> t = call[c].server /\ b \in Elements(call[c].chain)
    BY <2>3, NoMarkerFields, ElementsOfNone
  <2>5. /\ c \in Pinners(t, b) <=> t = call[c].server /\ b \in Elements(call[c].chain)
        /\ Pinners(t, b)' = Pinners(t, b) \ {c}
    BY <1>6, PinnersMove
  <2>6. /\ c \in Pinners(t, b) => /\ Cardinality(Pinners(t, b)') = Cardinality(Pinners(t, b)) - 1
                                  /\ Cardinality(Pinners(t, b)) > 0
        /\ c \notin Pinners(t, b) => Pinners(t, b)' = Pinners(t, b)
    BY <1>3, <2>5, CountMove
  <2> HIDE DEF m
  <2>7. QED BY <1>1, <2>2, <2>4, <2>5, <2>6
<1>7. ASSUME NEW c \in Calls, Drop(c) PROVE FALSE
  BY <1>7 DEF Drop
<1>8. ASSUME NEW s \in Servers, AllBlocksCleared(s)
      PROVE  refs'[t][b] = Cardinality(Pinners(t, b)')
  <2>1. call' = call /\ CallsAt(s) = {} /\ refs' = [refs EXCEPT ![s] = [a \in Blocks |-> 0]]
    BY <1>8, ClearedHazards DEF AllBlocksCleared
  <2>2. Pinners(t, b)' = Pinners(t, b)
    BY <2>1 DEF Pinners, CallsAt, InFlight
  <2>3. refs'[t][b] = IF t = s THEN 0 ELSE refs[t][b]
    BY <1>2, <2>1
  <2>4. t = s => Pinners(t, b) = {}
    BY <2>1 DEF Pinners
  <2>5. QED BY <1>1, <2>2, <2>3, <2>4, FS_EmptySet
<1>9. ASSUME \/ \E s \in Servers : RemoveServer(s) \/ AddServer(s)
             \/ ClearSticky \/ Quiet
      PROVE  refs'[t][b] = Cardinality(Pinners(t, b)')
  <2>1. call' = call /\ refs' = refs
    BY <1>9 DEF RemoveServer, AddServer, ClearSticky, Quiet, stores
  <2>2. Pinners(t, b)' = Pinners(t, b)
    BY <2>1 DEF Pinners, CallsAt, InFlight
  <2>3. QED BY <1>1, <2>1, <2>2
<1>10. QED BY <1>4, <1>5, <1>6, <1>7, <1>8, <1>9, StepCases

LEMMA HoldersFinite ==
  ASSUME NEW s, NEW b
  PROVE  /\ IsFiniteSet(Holders(s, b)) /\ Cardinality(Holders(s, b)) \in Nat
         /\ IsFiniteSet(CountedCalls(s, b)) /\ Cardinality(CountedCalls(s, b)) \in Nat
BY FiniteAssumption, FS_Subset, FS_CardinalityType DEF Holders, CountedCalls

\* The holders of a block after the marker of x is taken down.
LEMMA HoldersTaken ==
  ASSUME TypeOK, NEW x \in Sessions, marker' = [marker EXCEPT ![x] = NoMarker],
         NEW t \in Servers, NEW b \in Blocks
  PROVE  /\ Holders(t, b)' = Holders(t, b) \ {x}
         /\ x \in Holders(t, b) <=> t = marker[x].server /\ b \in Elements(marker[x].chain)
<1>1. \A z \in Sessions : marker'[z] = IF z = x THEN NoMarker ELSE marker[z]
  BY MarkerTaken
<1>2. Holders(t, b)' = {z \in Sessions : marker'[z].server = t /\ b \in Elements(marker'[z].chain)}
  BY DEF Holders, Elements
<1>3. \A z \in Sessions : z # x => marker'[z] = marker[z]
  BY <1>1
<1>4. marker'[x].server # t
  BY <1>1, NoMarkerFields
<1>5. QED BY <1>2, <1>3, <1>4 DEF Holders

\* What is taken from the book with the marker of x.
LEMMA BookTaken ==
  ASSUME TypeOK, NEW x \in Sessions, NEW t \in Servers, NEW b \in Blocks,
         refs[t][b] = Cardinality(Holders(t, b)),
         x \in Holders(t, b) <=> t = marker[x].server /\ b \in Elements(marker[x].chain)
  PROVE  Unref(refs, marker[x])[t][b] = Cardinality(Holders(t, b) \ {x})
<1>1. Unref(refs, marker[x])[t][b] =
        IF t = marker[x].server /\ b \in Elements(marker[x].chain) /\ refs[t][b] > 0
        THEN refs[t][b] - 1 ELSE refs[t][b]
  BY UnrefAt
<1>2. IsFiniteSet(Holders(t, b)) /\ Cardinality(Holders(t, b)) \in Nat
  BY HoldersFinite
<1>3. /\ x \in Holders(t, b) => /\ Cardinality(Holders(t, b) \ {x}) = Cardinality(Holders(t, b)) - 1
                                /\ Cardinality(Holders(t, b)) > 0
      /\ x \notin Holders(t, b) => Holders(t, b) \ {x} = Holders(t, b)
  BY <1>2, CountMove
<1>4. QED BY <1>1, <1>2, <1>3

LEMMA MirrorStep ==
  ASSUME TypeOK, CallsPlaced, BookMirrored, [Next]_vars
  PROVE  BookMirrored'
<1> SUFFICES ASSUME "torn" \notin hazards', NEW t \in Servers, NEW b \in Blocks
             PROVE  refs'[t][b] = Cardinality(Holders(t, b)') + Cardinality(CountedCalls(t, b)')
  BY DEF BookMirrored, Undisturbed
<1>1. refs[t][b] = Cardinality(Holders(t, b)) + Cardinality(CountedCalls(t, b))
  BY HazardsGrow DEF BookMirrored, Undisturbed
<1>2. refs \in [Servers -> [Blocks -> Nat]]
  BY TypeParts
<1>3. /\ IsFiniteSet(Holders(t, b)) /\ Cardinality(Holders(t, b)) \in Nat
      /\ Cardinality(CountedCalls(t, b)) \in Nat
  BY HoldersFinite
<1>4. CountedCalls(t, b)' = {c \in Calls : /\ call'[c].state = "counted"
                                           /\ call'[c].server = t
                                           /\ b \in Elements(call'[c].chain)}
  BY DEF CountedCalls, Elements
<1>5. Cardinality({}) = 0
  BY FS_EmptySet
<1>6. ASSUME NEW c \in Calls, NEW x \in Sessions, NEW p \in Prompts, NEW s \in pool,
             NEW y \in Sessions, Acquired(c, x, p, s, y)
      PROVE  refs'[t][b] = Cardinality(Holders(t, b)') + Cardinality(CountedCalls(t, b)')
  <2>1. /\ call'[c] = [state |-> "counted", session |-> x, server |-> s,
                       len |-> p.len, chain |-> Chain(p), turn |-> row[x].turn + 1]
        /\ \A d \in Calls : d # c => call'[d] = call[d]
    BY <1>6, CallsMove
  <2>2. call'[c].state = "counted" /\ call'[c].server = s /\ call'[c].chain = Chain(p)
    BY <2>1
  <2>3. \A d \in Calls : call[d].state # "counted"
    BY <1>6 DEF Acquired, Ready
  <2>4. CountedCalls(t, b) = {} /\ refs[t][b] = Cardinality(Holders(t, b))
    <3>1. CountedCalls(t, b) = {}
      BY <2>3 DEF CountedCalls
    <3>2. QED BY <1>1, <1>3, <1>5, <3>1
  <2>5. CountedCalls(t, b)' = IF t = s /\ b \in Elements(Chain(p)) THEN {c} ELSE {}
    BY <1>4, <2>1, <2>2, <2>3
  <2>6. /\ marker' = [marker EXCEPT ![x] = NoMarker] /\ s \in Servers
        /\ refs' = Ref(Unref(refs, marker[x]), s, Chain(p))
    BY <1>6, TypeParts DEF Acquired
  <2>7. /\ Holders(t, b)' = Holders(t, b) \ {x}
        /\ x \in Holders(t, b) <=> t = marker[x].server /\ b \in Elements(marker[x].chain)
    BY <2>6, HoldersTaken
  <2>8. Unref(refs, marker[x])[t][b] = Cardinality(Holders(t, b)')
    BY <2>4, <2>7, BookTaken
  <2>9. refs'[t][b] = IF t = s /\ b \in Elements(Chain(p))
                      THEN Cardinality(Holders(t, b)') + 1 ELSE Cardinality(Holders(t, b)')
    BY <1>2, <2>6, <2>8, UnrefType, RefAt
  <2>10. Cardinality(Holders(t, b)') \in Nat
    BY <1>3, <2>7, FS_Subset, FS_CardinalityType
  <2>11. Cardinality({c}) = 1
    BY FS_Singleton
  <2>12. QED BY <1>5, <2>5, <2>9, <2>10, <2>11
<1>7. ASSUME NEW c \in Calls, Attach(c)
      PROVE  refs'[t][b] = Cardinality(Holders(t, b)') + Cardinality(CountedCalls(t, b)')
  <2> DEFINE x == call[c].session
             Pins == t = call[c].server /\ b \in Elements(call[c].chain)
  <2>1. /\ call'[c] = [state |-> "inflight", session |-> call[c].session,
                       server |-> call[c].server, len |-> call[c].len,
                       chain |-> call[c].chain, turn |-> call[c].turn]
        /\ \A d \in Calls : d # c => call'[d] = call[d]
    BY <1>7, CallsMove
  <2>2. call'[c].state = "inflight"
    BY <2>1
  <2>3. /\ call[c].state = "counted" /\ \A d \in Calls : d # c => call[d].state # "counted"
        /\ x \in Sessions /\ marker[x] = NoMarker
    BY <1>7 DEF Attach, CallsPlaced, InFlight
  <2>4. CountedCalls(t, b) = IF Pins THEN {c} ELSE {}
    BY <2>3 DEF CountedCalls
  <2>5. CountedCalls(t, b)' = {}
    BY <1>4, <2>1, <2>2, <2>3
  <2>6. \A z \in Sessions :
          marker'[z] = IF z = call[c].session /\ call[c].chain # << >>
                       THEN [server |-> call[c].server, chain |-> call[c].chain]
                       ELSE marker[z]
    BY <1>7, AttachMarks
  <2>7. x \notin Holders(t, b)
    BY <2>3, NoMarkerFields DEF Holders
  <2>8. (marker'[x].server = t /\ b \in Elements(marker'[x].chain)) <=> Pins
    <3>1. CASE call[c].chain = << >>
      BY <2>3, <2>6, <3>1, NoMarkerFields, ElementsOfNone
    <3>2. CASE call[c].chain # << >>
      BY <2>3, <2>6, <3>2
    <3>3. QED BY <3>1, <3>2
  <2>9. \A z \in Sessions : z # x => marker'[z] = marker[z]
    BY <2>6
  <2>10. Holders(t, b)' = {z \in Sessions : marker'[z].server = t /\ b \in Elements(marker'[z].chain)}
    BY DEF Holders, Elements
  <2> HIDE DEF x, Pins
  <2>11. Holders(t, b)' = IF Pins THEN Holders(t, b) \cup {x} ELSE Holders(t, b)
    BY <2>3, <2>7, <2>8, <2>9, <2>10 DEF Holders
  <2>12. Cardinality(Holders(t, b) \cup {x}) = Cardinality(Holders(t, b)) + 1
    BY <1>3, <2>7, CountMove
  <2>13. refs' = refs /\ Cardinality({c}) = 1
    BY <1>7, FS_Singleton DEF Attach
  <2>14. QED BY <1>1, <1>3, <1>5, <2>4, <2>5, <2>11, <2>12, <2>13
<1>8. ASSUME NEW c \in Calls, Release(c)
      PROVE  refs'[t][b] = Cardinality(Holders(t, b)') + Cardinality(CountedCalls(t, b)')
  <2> DEFINE x == call[c].session
  <2>1. /\ call'[c].state \in {"done", "lost"}
        /\ \A d \in Calls : d # c => call'[d] = call[d]
        /\ \A d \in Calls : call[d].state # "counted"
        /\ x \in Sessions
    BY <1>8, CallsMove DEF Release, Ready, CallsPlaced, InFlight
  <2>2. CountedCalls(t, b) = {} /\ CountedCalls(t, b)' = {}
    BY <1>4, <2>1 DEF CountedCalls
  <2>3. marker' = [marker EXCEPT ![x] = NoMarker] /\ refs' = Unref(refs, marker[x])
    BY <1>8 DEF Release
  <2> HIDE DEF x
  <2>4. /\ Holders(t, b)' = Holders(t, b) \ {x}
        /\ x \in Holders(t, b) <=> t = marker[x].server /\ b \in Elements(marker[x].chain)
    BY <2>1, <2>3, HoldersTaken
  <2>5. refs[t][b] = Cardinality(Holders(t, b))
    BY <1>1, <1>3, <1>5, <2>2
  <2>6. refs'[t][b] = Cardinality(Holders(t, b)')
    BY <2>1, <2>3, <2>4, <2>5, BookTaken
  <2>7. Cardinality(Holders(t, b)') \in Nat
    BY <1>3, <2>4, FS_Subset, FS_CardinalityType
  <2>8. QED BY <1>5, <2>2, <2>6, <2>7
<1>9. ASSUME NEW c \in Calls, Drop(c)
      PROVE  refs'[t][b] = Cardinality(Holders(t, b)') + Cardinality(CountedCalls(t, b)')
  <2>1. /\ call'[c].state \in {"done", "lost"} /\ call[c].state = "inflight"
        /\ \A d \in Calls : d # c => call'[d] = call[d]
    BY <1>9, CallsMove DEF Drop
  <2>2. CountedCalls(t, b)' = CountedCalls(t, b)
    BY <1>4, <2>1 DEF CountedCalls
  <2>3. refs' = refs /\ Holders(t, b)' = Holders(t, b)
    BY <1>9 DEF Drop, stores, Holders
  <2>4. QED BY <1>1, <2>2, <2>3
<1>10. ASSUME NEW s \in Servers, AllBlocksCleared(s)
       PROVE  refs'[t][b] = Cardinality(Holders(t, b)') + Cardinality(CountedCalls(t, b)')
  <2>1. /\ call' = call /\ refs' = [refs EXCEPT ![s] = [a \in Blocks |-> 0]]
        /\ \A c \in CallsAt(s) : call[c].state = "inflight"
        /\ \A z \in Sessions : marker'[z] = IF marker[z].server = s THEN NoMarker ELSE marker[z]
    BY <1>10, ClearedHazards DEF AllBlocksCleared
  <2>2. refs'[t][b] = IF t = s THEN 0 ELSE refs[t][b]
    BY <1>2, <2>1
  <2>3. Holders(t, b)' = {z \in Sessions : marker'[z].server = t /\ b \in Elements(marker'[z].chain)}
    BY DEF Holders, Elements
  <2>4. CountedCalls(t, b)' = CountedCalls(t, b)
    BY <1>4, <2>1 DEF CountedCalls
  <2>5. CASE t = s
    <3>1. CountedCalls(t, b) = {}
      BY <2>1, <2>5 DEF CountedCalls, CallsAt, InFlight
    <3>2. Holders(t, b)' = {}
      BY <2>1, <2>3, <2>5, NoMarkerFields
    <3>3. QED BY <1>5, <2>2, <2>4, <2>5, <3>1, <3>2
  <2>6. CASE t # s
    <3>1. ASSUME NEW z \in Sessions
          PROVE  (marker'[z].server = t /\ b \in Elements(marker'[z].chain))
                   <=> (marker[z].server = t /\ b \in Elements(marker[z].chain))
      BY <2>1, <2>6, NoMarkerFields
    <3>2. Holders(t, b)' = Holders(t, b)
      BY <2>3, <3>1 DEF Holders
    <3>3. QED BY <1>1, <2>2, <2>4, <2>6, <3>2
  <2>7. QED BY <2>5, <2>6
<1>11. ASSUME \/ \E s \in Servers : RemoveServer(s) \/ AddServer(s)
              \/ ClearSticky \/ Quiet
       PROVE  refs'[t][b] = Cardinality(Holders(t, b)') + Cardinality(CountedCalls(t, b)')
  <2>1. call' = call /\ refs' = refs /\ marker' = marker
    BY <1>11 DEF RemoveServer, AddServer, ClearSticky, Quiet, stores
  <2>2. Holders(t, b)' = Holders(t, b) /\ CountedCalls(t, b)' = CountedCalls(t, b)
    BY <2>1 DEF Holders, CountedCalls
  <2>3. QED BY <1>1, <2>1, <2>2
<1>12. QED BY <1>6, <1>7, <1>8, <1>9, <1>10, <1>11, StepCases

-----------------------------------------------------------------------------
(* The theorems.                                                           *)

LEMMA InitInv == Init => RouterInv
<1> SUFFICES ASSUME Init PROVE RouterInv
  OBVIOUS
<1>1. \A c \in Calls : call[c] = Idle("new") /\ call[c].state = "new"
  BY DEF Init, Idle
<1>2. \A c \in Calls : ~InFlight(c)
  BY <1>1 DEF InFlight
<1>3. \A s, b : CallsAt(s) = {} /\ Pinners(s, b) = {} /\ CountedCalls(s, b) = {}
  BY <1>1, <1>2 DEF CallsAt, Pinners, CountedCalls
<1>4. \A x \in Sessions : marker[x] = NoMarker /\ row[x] = NoRow
  BY DEF Init
<1>5. \A s \in Servers, b \in Blocks : Holders(s, b) = {}
  BY <1>4, NoMarkerFields DEF Holders
<1>6. Cardinality({}) = 0
  BY FS_EmptySet
<1>7. TypeOK
  <2>1. Idle("new") \in CallRecord
    BY ChainTypes DEF Idle, CallRecord, TokenCounts
  <2>2. call \in [Calls -> CallRecord]
    BY <2>1 DEF Init
  <2>3. row \in [Sessions -> RowRecord] /\ marker \in [Sessions -> MarkerRecord]
    BY NoRowType DEF Init
  <2>4. gauge \in [Servers -> GaugeRecord]
    BY DEF Init, GaugeRecord
  <2>5. /\ pool \subseteq Servers /\ inflight \in [Servers -> Nat]
        /\ refs \in [Servers -> [Blocks -> Nat]] /\ resident \in [Servers -> SUBSET Blocks]
        /\ learned \in BOOLEAN /\ polled \in BOOLEAN /\ hazards = {} /\ events = 0
    BY DEF Init
  <2>6. events \in 0..MaxEvents
    BY <2>5, SizesAssumption
  <2>7. QED BY <2>2, <2>3, <2>4, <2>5, <2>6, TypeParts
<1>8. CallsPlaced
  BY <1>1, <1>2, <1>4 DEF CallsPlaced
<1>9. StickyInPool
  BY <1>4 DEF StickyInPool, NoRow
<1>10. DrainExact
  BY <1>3, <1>6 DEF DrainExact, Init
<1>11. OnePerSession /\ RowsFollow /\ MarkersHeld /\ MarkersFollow
  BY <1>1, <1>2, <1>4 DEF OnePerSession, RowsFollow, MarkersHeld, MarkersFollow
<1>12. GaugeExact
  <2>1. \A f : SumFunctionOnSet(f, {}) = 0
    BY FS_EmptySet, SumStep
  <2>2. \A s \in Servers : gauge[s] = [count |-> 0, tokens |-> 0, turns |-> 0]
    BY DEF Init
  <2>3. \A s \in Servers : GaugeIs(s)
    BY <1>3, <1>6, <2>1, <2>2 DEF GaugeIs
  <2>4. QED BY <2>3, GaugeParts
<1>13. BookExact
  <2>1. \A s \in Servers, b \in Blocks : refs[s][b] = 0
    BY DEF Init
  <2>2. QED BY <1>3, <1>6, <2>1 DEF BookExact, Pinners
<1>14. BookMirrored
  <2>1. \A s \in Servers, b \in Blocks : refs[s][b] = 0
    BY DEF Init
  <2>2. \A s \in Servers, b \in Blocks :
          refs[s][b] = Cardinality(Holders(s, b)) + Cardinality(CountedCalls(s, b))
    <3>1. SUFFICES ASSUME NEW s \in Servers, NEW b \in Blocks
                   PROVE  refs[s][b] = Cardinality(Holders(s, b)) + Cardinality(CountedCalls(s, b))
      OBVIOUS
    <3>2. Holders(s, b) = {} /\ CountedCalls(s, b) = {} /\ refs[s][b] = 0
      BY <1>3, <1>5, <2>1
    <3>3. QED BY <1>6, <3>2
  <2>3. QED BY <2>2 DEF BookMirrored
<1>15. QED BY <1>7, <1>8, <1>9, <1>10, <1>11, <1>12, <1>13, <1>14 DEF RouterInv

LEMMA NextInv == RouterInv /\ [Next]_vars => RouterInv'
BY TypeStep, PlacedStep, StickyStep, DrainStep, OneStep, HeldStep, RowsStep, GaugeStep,
   MarkersStep, BookStep, MirrorStep DEF RouterInv

\* What every behaviour keeps: RouterInv, which is inductive.
THEOREM RouterKeeps == Spec => []RouterInv
<1>1. Init => RouterInv
  BY InitInv
<1>2. RouterInv /\ [Next]_vars => RouterInv'
  BY NextInv
<1>3. QED BY <1>1, <1>2, PTL DEF Spec

\* The counter that drains the pool, the load gauges and the bindings of the
\* sessions agree with the calls in flight, whatever the order of acquires,
\* releases, removals and returns of servers and of engine events.
THEOREM LoadsAgree == Spec => []LoadExact
<1>1. RouterInv => LoadExact
  BY DEF RouterInv, LoadExact
<1>2. QED BY <1>1, RouterKeeps, PTL

LEMMA RestHoldsNothing ==
  ASSUME RouterInv
  PROVE  NothingHeldAtRest
<1> SUFFICES ASSUME Undisturbed({"dropped", "torn"}), \A c \in Calls : ~InFlight(c)
             PROVE  /\ \A s \in Servers : Held(s) = {}
                    /\ \A x \in Sessions : marker[x] = NoMarker
  BY DEF NothingHeldAtRest
<1>1. \A x \in Sessions : marker[x] = NoMarker
  BY DEF RouterInv, MarkersHeld, Undisturbed, InFlight
<1>2. \A s \in Servers, b \in Blocks : Holders(s, b) = {} /\ CountedCalls(s, b) = {}
  BY <1>1, NoMarkerFields DEF Holders, CountedCalls, InFlight
<1>3. \A s \in Servers, b \in Blocks : refs[s][b] = 0
  <2>1. Undisturbed({"torn"})
    BY DEF Undisturbed
  <2>2. \A s \in Servers, b \in Blocks :
          refs[s][b] = Cardinality(Holders(s, b)) + Cardinality(CountedCalls(s, b))
    BY <2>1 DEF RouterInv, BookMirrored
  <2>3. Cardinality({}) = 0
    BY FS_EmptySet
  <2>4. ASSUME NEW s \in Servers, NEW b \in Blocks PROVE refs[s][b] = 0
    <3>1. Holders(s, b) = {} /\ CountedCalls(s, b) = {}
      BY <1>2
    <3>2. refs[s][b] = Cardinality({}) + Cardinality({})
      BY <2>2, <3>1, Zenon
    <3>3. QED BY <2>3, <3>2
  <2>5. QED BY <2>4
<1>4. QED BY <1>1, <1>3 DEF Held

LEMMA MarkersMirror ==
  ASSUME RouterInv
  PROVE  MarkersMirrorBook
<1> SUFFICES ASSUME Ready, Undisturbed({"torn"}), NEW s \in Servers, NEW b \in Blocks
             PROVE  refs[s][b] = Cardinality(Holders(s, b))
  BY DEF MarkersMirrorBook, Holders
<1>1. CountedCalls(s, b) = {}
  BY DEF CountedCalls, Ready
<1>2. refs[s][b] = Cardinality(Holders(s, b)) + Cardinality(CountedCalls(s, b))
  BY DEF RouterInv, BookMirrored
<1>3. Cardinality(Holders(s, b)) \in Nat /\ Cardinality(CountedCalls(s, b)) = 0
  BY <1>1, HoldersFinite, FS_EmptySet
<1>4. QED BY <1>2, <1>3

\* A block has one reference for each call in flight that pinned it, the markers
\* say the same, and nothing stays pinned once every call has been released.
THEOREM PinsAgree == Spec => []PinBookExact
<1>1. RouterInv => PinBookExact
  BY RestHoldsNothing, MarkersMirror DEF RouterInv, PinBookExact
<1>2. QED BY <1>1, RouterKeeps, PTL

\* The blocks that the book counts are those of the calls in flight.
LEMMA FreeIsTrue ==
  ASSUME RouterInv, Undisturbed({"overlap", "dropped", "cleared", "torn"}), NEW s \in Servers
  PROVE  Free(s) = TrulyFree(s) /\ Free(s) \in Int
<1> DEFINE U == UNION {Elements(call[c].chain) : c \in CallsAt(s)}
<1>1. TypeOK /\ BookExact
  BY DEF RouterInv
<1>2. \A c \in CallsAt(s) : Elements(call[c].chain) \subseteq Blocks /\ IsFiniteSet(Elements(call[c].chain))
  BY <1>1, RecordTypes, ElementsOf, CallsAtFinite
<1>3. \A b \in Blocks : refs[s][b] > 0 <=> Pinners(s, b) # {}
  <2>1. \A b \in Blocks : refs[s][b] = Cardinality(Pinners(s, b))
    BY <1>1 DEF BookExact, Pinners
  <2>2. \A b \in Blocks : /\ IsFiniteSet(Pinners(s, b)) /\ Cardinality(Pinners(s, b)) \in Nat
                          /\ Cardinality(Pinners(s, b)) = 0 <=> Pinners(s, b) = {}
    BY PinnersFinite, FS_EmptySet
  <2>3. QED BY <2>1, <2>2
<1>4. Held(s) = U
  <2>1. \A b : b \in Held(s) <=> b \in Blocks /\ \E c \in CallsAt(s) : b \in Elements(call[c].chain)
    BY <1>3 DEF Held, Pinners
  <2>2. QED BY <1>2, <2>1
<1>5. IsFiniteSet(U)
  <2> DEFINE D == CallsAt(s)
             F == {Elements(call[c].chain) : c \in D}
             f == [c \in D |-> Elements(call[c].chain)]
  <2>1. IsFiniteSet(D)
    BY CallsAtFinite
  <2>2. \A T \in F : IsFiniteSet(T)
    BY <1>2
  <2>3. f \in Surjection(D, F)
    <3> HIDE DEF D
    <3>1. QED BY DEF Surjection
  <2> HIDE DEF D, f, F
  <2>4. IsFiniteSet(F)
    BY <2>1, <2>3, FS_Surjection
  <2>5. IsFiniteSet(UNION F)
    BY <2>2, <2>4, FS_UNION
  <2>6. QED BY <2>5 DEF F, D
<1>6. Cardinality(U) \in Nat
  BY <1>5, FS_CardinalityType
<1>7. Free(s) = TrulyFree(s)
  BY <1>4 DEF Free, TrulyFree
<1> HIDE DEF U
<1>8. Free(s) \in Int
  BY <1>4, <1>6, SizesAssumption DEF Free
<1>9. QED BY <1>7, <1>8

\* Where the routing decision sends a call once the capacity is known.
LEMMA RouteSeesCapacity ==
  ASSUME polled, NEW x, NEW p, NEW s \in Route(x, p), \A t \in pool : Free(t) \in Int
  PROVE  Free(s) >= MinFree \/ \A t \in pool : Free(t) < MinFree
<1>1. MinFree \in Int /\ s \in pool
  BY SizesAssumption, RouteInPool
<1>2. CASE BoundTo(x) # {}
  <2>1. s \in BoundTo(x)
    BY <1>2, Zenon DEF Route
  <2>2. ~UnderWater(s)
    BY <2>1 DEF BoundTo
  <2>3. QED BY <1>1, <2>2 DEF UnderWater
<1>3. CASE BoundTo(x) = {} /\ Eligible # {}
  <2>1. s \in NearBest(RankedChain(x, p), p.len)
    BY <1>3, Zenon DEF Route
  <2>2. QED BY <2>1 DEF NearBest, Eligible
<1>4. CASE Eligible = {}
  BY <1>1, <1>4 DEF Eligible
<1>5. QED BY <1>2, <1>3, <1>4

LEMMA GateHolds ==
  ASSUME RouterInv, [Next]_vars, polled, Undisturbed({"overlap", "dropped", "cleared", "torn"}),
         NEW c \in Calls, call[c].state = "new", call'[c].state = "counted"
  PROVE  TrulyFree(call'[c].server) >= MinFree \/ \A t \in pool : TrulyFree(t) < MinFree
<1>1. TypeOK /\ pool \subseteq Servers
  BY TypeParts DEF RouterInv
<1>2. ASSUME NEW d \in Calls, NEW x \in Sessions, NEW p \in Prompts, Acquire(d, x, p)
      PROVE  TrulyFree(call'[c].server) >= MinFree \/ \A t \in pool : TrulyFree(t) < MinFree
  <2>1. PICK s \in Route(x, p), y \in Sessions : Acquired(d, x, p, s, y)
    BY <1>1, <1>2, AcquireTakes
  <2>2. s \in pool
    BY <2>1, RouteInPool
  <2>3. /\ call'[d] = [state |-> "counted", session |-> x, server |-> s,
                       len |-> p.len, chain |-> Chain(p), turn |-> row[x].turn + 1]
        /\ \A e \in Calls : e # d => call'[e] = call[e]
    BY <1>1, <2>1, <2>2, CallsMove
  <2>4. c = d /\ call'[c].server = s
    BY <2>3
  <2>5. \A t \in pool : Free(t) = TrulyFree(t) /\ Free(t) \in Int
    BY <1>1, FreeIsTrue
  <2>6. Free(s) >= MinFree \/ \A t \in pool : Free(t) < MinFree
    BY <2>5, RouteSeesCapacity
  <2>7. QED BY <2>2, <2>4, <2>5, <2>6
<1>3. ASSUME NEW d \in Calls, Attach(d) \/ Release(d) \/ Drop(d) PROVE FALSE
  <2>1. \A e \in Calls : e # d => call'[e] = call[e]
    BY <1>1, <1>3, CallsMove
  <2>2. call[d].state # "new"
    BY <1>3 DEF Attach, Release, Drop
  <2>3. QED BY <2>1, <2>2
<1>4. ASSUME \/ \E s \in Servers : RemoveServer(s) \/ AddServer(s) \/ AllBlocksCleared(s)
             \/ \E s \in Servers, b \in Blocks : BlockStored(s, b) \/ BlockRemoved(s, b)
             \/ ClearSticky \/ CapacityPolled \/ Terminated \/ UNCHANGED vars
      PROVE  FALSE
  <2>1. call' = call
    BY <1>4 DEF RemoveServer, AddServer, AllBlocksCleared, BlockStored, BlockRemoved, ClearSticky,
       CapacityPolled, Terminated, vars
  <2>2. QED BY <2>1
<1>5. QED BY <1>2, <1>3, <1>4, Zenon DEF Next

\* A call goes to a server below the capacity gate only when no server of the
\* pool is above it, both judged by the calls that are really in flight.
THEOREM AcquiresSeeHolders == Spec => GateSeesHolders
<1>1. RouterInv /\ [Next]_vars =>
        [polled /\ Undisturbed({"overlap", "dropped", "cleared", "torn"}) =>
           \A c \in Calls :
             call[c].state = "new" /\ call'[c].state = "counted" =>
               \/ TrulyFree(call'[c].server) >= MinFree
               \/ \A t \in pool : TrulyFree(t) < MinFree]_vars
  BY GateHolds
<1>2. QED BY <1>1, RouterKeeps, PTL DEF Spec, GateSeesHolders

-----------------------------------------------------------------------------
(* EngineEvents.                                                           *)

-----------------------------------------------------------------------------
(* Recursive functions, by what they compute step by step.                 *)

\* What holds of 0 and of each number after one of which it holds, holds of all.
LEMMA Counted ==
  ASSUME NEW n \in Nat, NEW B, 0 \in B, \A i \in 0..(n - 1) : i \in B => i + 1 \in B
  PROVE  \A i \in 0..n : i \in B
<1> DEFINE A == {i \in 0..n : i \notin B}
<1> SUFFICES ASSUME A # {} PROVE FALSE
  OBVIOUS
<1>1. A \in SUBSET Nat
  <2>1. A \subseteq 0..n /\ 0..n \subseteq Nat
    OBVIOUS
  <2> HIDE DEF A
  <2>2. QED BY <2>1
<1>2. IsWellFoundedOn(OpToRel(<, Nat), Nat)
  BY NatLessThanWellFounded
<1>3. PICK k \in A : \A m \in A : ~(<<m, k>> \in OpToRel(<, Nat))
  <2>1. PICK b \in A : TRUE
    OBVIOUS
  <2> HIDE DEF A
  <2>2. QED BY <1>1, <1>2, <2>1, WFMin
<1>4. k \in 0..n /\ k \notin B /\ k # 0
  OBVIOUS
<1>5. k - 1 \in 0..(n - 1) /\ k - 1 \in 0..n /\ (k - 1) + 1 = k /\ k - 1 < k
  BY <1>4
<1>6. <<k - 1, k>> \in OpToRel(<, Nat)
  BY <1>5 DEF OpToRel
<1>7. k - 1 \in B
  BY <1>3, <1>5, <1>6
<1>8. QED BY <1>4, <1>5, <1>7

\* Repeating a step that keeps a type.
StepOf(step, T, n) == step \in [T \X (1..n) -> T]

\* A function on 0..n that starts at base and goes on by step.
Runs(n, T, base, step) ==
  \E h \in [0..n -> T] : h[0] = base /\ \A i \in 1..n : h[i] = step[<<h[i - 1], i>>]

\* A step that can be taken from every value can be repeated n times.
LEMMA Repeated ==
  ASSUME NEW n \in Nat, NEW T, NEW base \in T, NEW step, StepOf(step, T, n)
  PROVE  Runs(n, T, base, step)
<1>0. step \in [T \X (1..n) -> T]
  BY DEF StepOf
<1> DEFINE Partial(k) == {h \in [0..k -> T] : h[0] = base /\ \A i \in 1..k : h[i] = step[<<h[i - 1], i>>]}
           B == {k \in 0..n : Partial(k) # {}}
<1>1. 0 \in B
  <2> DEFINE h == [i \in 0..0 |-> base]
  <2>1. h \in [0..0 -> T] /\ h[0] = base
    OBVIOUS
  <2>2. h \in Partial(0)
    BY <2>1
  <2>3. QED BY <2>2
<1>2. ASSUME NEW k \in 0..(n - 1), k \in B PROVE k + 1 \in B
  <2>1. PICK h \in [0..k -> T] : h[0] = base /\ \A i \in 1..k : h[i] = step[<<h[i - 1], i>>]
    BY <1>2
  <2> DEFINE g == [i \in 0..(k + 1) |-> IF i <= k THEN h[i] ELSE step[<<h[k], k + 1>>]]
  <2>2. k \in Nat /\ k \in 0..k /\ k + 1 \in 1..n /\ k + 1 \in 0..n
    OBVIOUS
  <2>3. <<h[k], k + 1>> \in T \X (1..n)
    BY <2>1, <2>2
  <2>4. step[<<h[k], k + 1>>] \in T
    BY <1>0, <2>3
  <2>5. \A i \in 0..(k + 1) : g[i] \in T
    BY <2>1, <2>2, <2>4
  <2>6. g \in [0..(k + 1) -> T]
    BY <2>5
  <2>7. g[0] = base
    BY <2>1, <2>2
  <2>8. \A i \in 1..(k + 1) : g[i] = step[<<g[i - 1], i>>]
    <3> SUFFICES ASSUME NEW i \in 1..(k + 1) PROVE g[i] = step[<<g[i - 1], i>>]
      OBVIOUS
    <3>1. i \in 0..(k + 1) /\ i - 1 \in 0..(k + 1) /\ i - 1 <= k /\ g[i - 1] = h[i - 1]
      BY <2>2
    <3>2. CASE i <= k
      <4>1. i \in 1..k
        BY <2>2, <3>2
      <4>2. QED BY <2>1, <3>1, <3>2, <4>1
    <3>3. CASE ~(i <= k)
      <4>1. i = k + 1 /\ i - 1 = k
        BY <2>2, <3>3
      <4>2. QED BY <3>1, <3>3, <4>1
    <3>4. QED BY <3>2, <3>3
  <2>9. g \in Partial(k + 1)
    <3> HIDE DEF g
    <3>1. QED BY <2>6, <2>7, <2>8
  <2>10. Partial(k + 1) # {}
    BY <2>9
  <2>11. QED BY <2>2, <2>10
<1>3. n \in B
  <2>1. \A i \in 0..n : i \in B
    <3> HIDE DEF B
    <3>1. QED BY <1>1, <1>2, Counted
  <2>2. n \in 0..n
    OBVIOUS
  <2>3. QED BY <2>1, <2>2
<1>4. QED BY <1>3 DEF Runs

\* Two runs that start alike and go on alike are alike.
Same(f, g, n) == \A i \in 0..n : f[i] = g[i]

\* Two functions with the same start and the same steps are equal.
LEMMA RunsAgree ==
  ASSUME NEW n \in Nat, NEW f, NEW g, f[0] = g[0],
         \A i \in 1..n : f[i - 1] = g[i - 1] => f[i] = g[i]
  PROVE  Same(f, g, n)
<1> DEFINE B == {i \in 0..n : f[i] = g[i]}
<1>1. 0 \in B
  OBVIOUS
<1>2. ASSUME NEW i \in 0..(n - 1), i \in B PROVE i + 1 \in B
  <2>1. i + 1 \in 1..n /\ (i + 1) - 1 = i /\ i + 1 \in 0..n
    OBVIOUS
  <2>2. QED BY <1>2, <2>1
<1>3. \A i \in 0..n : i \in B
  <2> HIDE DEF B
  <2>1. QED BY <1>1, <1>2, Counted
<1>4. QED BY <1>3 DEF Same

-----------------------------------------------------------------------------
(* The inductive invariants.                                               *)

\* What the blocks are made of.
Contents == UNION {ToSet(c) : c \in EngineChains}

\* The hash map names each block from some place of its chain on.
Maps == {m \in [EngineChains -> ChainBlocks \cup {Unmapped}] :
           \A c \in EngineChains : m[c] = Unmapped \/ m[c] \in Ends(c)}

Kinds == {"stored", "removed", "cleared", "malformed", "other medium"}

\* The blocks of an event that stores go on from the parent of its first.
Prolongs(p, c) == Len(p) < Len(c) /\ SubSeq(c, 1, Len(p)) = p

Events == {e \in [kind : Kinds, blocks : Seq(EngineChains)] :
             e.kind = "stored" =>
               /\ e.blocks # << >>
               /\ \A i \in 1..Len(e.blocks) : Prolongs(Front(e.blocks[1]), e.blocks[i])}

Batches == Seq(Events)

\* The sockets: at most the registered one is open, and none between two
\* connections nor after the end of the task.
Sockets ==
  /\ registered \in 0..3 /\ held \in 0..3 /\ retries \in 0..MaxRetries
  /\ open = IF registered = 0 THEN {} ELSE {registered}
  /\ registered = 0 => queue = << >>
  /\ pc \in {"new", "connect", "backoff", "done"} => registered = 0
  /\ pc = "receive" => held # 0
  /\ pc \notin {"replay", "closing", "done"} => frames = << >>
  /\ pc = "backoff" => retries < MaxRetries
  /\ stopper = "stopped" => pc = "done"

\* The batches of one stream are of another.
From(s, t) == \A j \in 1..Len(s) : \E i \in 1..Len(t) : s[j] = t[i]

\* What is cached, and the batches on their way.
Streams ==
  /\ cached \subseteq EngineChains
  /\ pending \in Batches
  /\ published \in Seq(Batches) /\ queue \in Seq(Batches) /\ frames \in Seq(Batches)
  /\ From(queue, published) /\ From(frames, published)

Clean(m) == \A c \in EngineChains : m[c] \in {Unmapped, c}

\* What the view holds by report of the engine, and not by an acquire alone.
Reported == view \ ahead

\* What acquires have marked ahead of the events is in the view.
Marked ==
  /\ scenario \in Scenarios
  /\ ahead \subseteq view /\ view \subseteq ChainBlocks

\* The map and what was reported: the map names blocks by their chain unless a
\* parent was unknown, and mapped blocks alone were reported unless, besides,
\* the update of a batch lost its order.
Books ==
  /\ map \in Maps /\ Reported \subseteq ChainBlocks
  /\ "parent unresolved" \notin drift => Clean(map)
  /\ drift \cap {"parent unresolved", "folded"} = {} =>
       \A x \in Reported : x \in EngineChains /\ map[x] = x

\* What an event says of a block, and what it says.
Says(e, c) ==
  \/ e.kind = "cleared"
  \/ e.kind \in {"stored", "removed", "malformed"} /\ c \in ToSet(e.blocks)

Gone(e) == e.kind \in {"removed", "cleared"}

Silent(b, c) == \A k \in 1..Len(b) : ~Says(b[k], c)

\* The last event of a batch that speaks of a block.
LastIn(b, k, c) ==
  k \in 1..Len(b) /\ Says(b[k], c) /\ \A j \in 1..Len(b) : j > k => ~Says(b[j], c)

\* It is right about what is cached.
Right(b, c, C) == \A k \in 1..Len(b) : LastIn(b, k, c) => (c \in C <=> ~Gone(b[k]))

SilentSeq(s, c) == \A j \in 1..Len(s) : Silent(s[j], c)

\* The last batch that speaks of a block is right about it.
RightSeq(s, c, C) ==
  \A j \in 1..Len(s) :
    (~Silent(s[j], c) /\ \A i \in 1..Len(s) : i > j => Silent(s[i], c)) => Right(s[j], c, C)

\* The books agree with the engine on a block.
Agrees(c, C, m, v, d) ==
  /\ d \subseteq {"cleared"} => (c \in v <=> c \in C)
  /\ d \cap {"missed", "cleared"} = {} => (m[c] # Unmapped => c \in C)

\* What was told last of a block is right, and nobody knows a block that was
\* never spoken of.
Told ==
  \A c \in EngineChains :
    /\ Right(pending, c, cached)
    /\ Silent(pending, c) =>
         /\ RightSeq(published, c, cached)
         /\ SilentSeq(published, c) =>
              /\ c \notin cached /\ map[c] = Unmapped
              /\ "parent unresolved" \notin drift => c \notin Reported

\* What the subscription has still to say is right,
Subscribed ==
  \A c \in EngineChains : Silent(pending, c) => RightSeq(queue, c, cached)

\* and of what it does not speak the replay is right, or else the books.
Follow ==
  registered # 0 /\ pc \in {"replay", "enter", "receive"} =>
    \A c \in EngineChains :
      Silent(pending, c) /\ SilentSeq(queue, c) =>
        /\ RightSeq(frames, c, cached)
        /\ SilentSeq(frames, c) => Agrees(c, cached, map, Reported, drift)

Following == Streams /\ Books /\ Told /\ Subscribed /\ Follow

\* Where the task has a replay or a subscription that goes on.
Fed == {"replay", "enter", "receive"}

-----------------------------------------------------------------------------
(* Chains and where the router begins them.                                *)

\* A chain is a sequence, and names itself and nothing unmapped.
LEMMA ChainsTyped ==
  ASSUME NEW c \in EngineChains
  PROVE  /\ c \in Seq(Contents) /\ Len(c) \in Nat /\ Len(c) > 0
         /\ c \in Ends(c) /\ Ends(c) \subseteq ChainBlocks
         /\ c # Unmapped /\ Unmapped \notin Ends(c)
<1>1. c \in Seq(Contents) /\ c # << >>
  BY ChainsAssumption DEF Contents
<1>2. Len(c) \in Nat /\ Len(c) > 0
  BY <1>1, EmptySeq
<1>3. SubSeq(c, 1, Len(c)) = c
  BY <1>1, SubSeqFull
<1>4. c \in Ends(c)
  BY <1>2, <1>3 DEF Ends
<1>5. Ends(c) \subseteq ChainBlocks
  BY DEF ChainBlocks
<1>6. Unmapped \notin ChainBlocks
  BY ChainsAssumption
<1>7. QED BY <1>1, <1>2, <1>4, <1>5, <1>6

\* The parent of a block is a block, if there is one.
LEMMA ParentTyped ==
  ASSUME NEW c \in EngineChains
  PROVE  Front(c) \in Seq(Contents) /\ (Front(c) = << >> \/ Front(c) \in EngineChains)
<1>1. c \in Seq(Contents) /\ Len(c) \in Nat /\ Len(c) > 0
  BY ChainsTyped
<1>2. CASE Len(c) > 1
  <2>1. Front(c) \in EngineChains
    BY <1>2, ChainsAssumption
  <2>2. QED BY <2>1, ChainsTyped
<1>3. CASE ~(Len(c) > 1)
  <2>0. Len(c) \in Nat /\ Len(c) > 0 /\ ~(Len(c) > 1)
    BY <1>1, <1>3
  <2>z. \A n \in Nat : n > 0 /\ ~(n > 1) => n - 1 < 1 /\ n - 1 \in Int
    OBVIOUS
  <2>1. Len(c) - 1 < 1 /\ Len(c) - 1 \in Int
    BY <2>0, <2>z
  <2>2. Front(c) = << >>
    BY <2>1, SubSeqEmpty DEF Front
  <2>3. QED BY <2>2, EmptySeq
<1>4. QED BY <1>2, <1>3

\* The tail of a longer sequence put behind an end of the shorter one.
LEMMA Joined ==
  ASSUME NEW S, NEW p \in Seq(S), NEW c \in Seq(S), Prolongs(p, c), NEW j \in 1..(Len(p) + 1)
  PROVE  SubSeq(p, j, Len(p)) \o SubSeq(c, Len(p) + 1, Len(c)) = SubSeq(c, j, Len(c))
<1>1. Len(p) \in Nat /\ Len(c) \in Nat /\ Len(p) < Len(c) /\ j \in Nat /\ j >= 1 /\ j <= Len(p) + 1
  BY LenProperties DEF Prolongs
<1>2. SubSeq(p, j, Len(p)) = SubSeq(c, j, Len(p))
  <2>1. CASE j = Len(p) + 1
    <3>1. SubSeq(p, j, Len(p)) = << >>
      BY <1>1, <2>1, SubSeqEmpty
    <3>2. SubSeq(c, j, Len(p)) = << >>
      BY <1>1, <2>1, SubSeqEmpty
    <3>3. QED BY <3>1, <3>2
  <2>2. CASE j # Len(p) + 1
    <3>1. \A i \in j..Len(p) : p[i] = c[i] /\ p[i] \in S
      <4>1. SUFFICES ASSUME NEW i \in j..Len(p) PROVE p[i] = c[i] /\ p[i] \in S
        OBVIOUS
      <4>2. i \in 1..Len(p) /\ i \in 1..(Len(p) - 1 + 1) /\ 1 + i - 1 = i
        BY <1>1
      <4>3. \A k \in 1..Len(p) : c[k] \in S
        BY <1>1, ElementOfSeq
      <4>4. SubSeq(c, 1, Len(p))[i] = c[1 + i - 1]
        BY <1>1, <4>2, <4>3, SubSeqProperties
      <4>5. QED BY <4>2, <4>4, ElementOfSeq DEF Prolongs
    <3>2. \A i \in j..Len(p) : c[i] \in S
      BY <3>1
    <3> DEFINE x == SubSeq(p, j, Len(p))
               y == SubSeq(c, j, Len(p))
    <3>3. x \in Seq(S) /\ Len(x) = Len(p) - j + 1 /\ \A i \in 1..(Len(p) - j + 1) : x[i] = p[j + i - 1]
      BY <1>1, <2>2, <3>1, SubSeqProperties
    <3>4. y \in Seq(S) /\ Len(y) = Len(p) - j + 1 /\ \A i \in 1..(Len(p) - j + 1) : y[i] = c[j + i - 1]
      BY <1>1, <2>2, <3>2, SubSeqProperties
    <3> HIDE DEF x, y
    <3>5. ASSUME NEW i \in 1..Len(x) PROVE x[i] = y[i]
      <4>1. i \in 1..(Len(p) - j + 1) /\ j + i - 1 \in j..Len(p)
        BY <1>1, <3>3
      <4>2. QED BY <3>1, <3>3, <3>4, <4>1
    <3>6. x = y
      BY <3>3, <3>4, <3>5, SeqEqual
    <3>7. QED BY <3>6 DEF x, y
  <2>3. QED BY <2>1, <2>2
<1>3. j \in 1..(Len(c) + 1) /\ Len(p) \in (j - 1)..Len(c) /\ Len(c) \in Len(p)..Len(c)
  BY <1>1
<1>4. SubSeq(c, j, Len(p)) \o SubSeq(c, Len(p) + 1, Len(c)) = SubSeq(c, j, Len(c))
  BY <1>3, ConcatAdjacentSubSeq
<1>5. QED BY <1>2, <1>4

\* Where a stored block begins: with its parent, at an end of it, or after it.
LEMMA JoinedToEnd ==
  ASSUME NEW p \in Seq(Contents), NEW c \in EngineChains, Prolongs(p, c)
  PROVE  /\ p \o SubSeq(c, Len(p) + 1, Len(c)) = c
         /\ \A x \in Ends(p) \cup {<< >>} : x \o SubSeq(c, Len(p) + 1, Len(c)) \in Ends(c)
<1>1. c \in Seq(Contents) /\ Len(c) \in Nat /\ Len(p) \in Nat /\ Len(p) < Len(c)
  BY ChainsTyped, LenProperties DEF Prolongs
<1>2. SubSeq(p, 1, Len(p)) = p /\ SubSeq(c, 1, Len(c)) = c
  BY <1>1, SubSeqFull
<1>3. \A j \in 1..(Len(p) + 1) : SubSeq(p, j, Len(p)) \o SubSeq(c, Len(p) + 1, Len(c)) = SubSeq(c, j, Len(c))
  BY <1>1, Joined
<1>4. p \o SubSeq(c, Len(p) + 1, Len(c)) = c
  <2>1. 1 \in 1..(Len(p) + 1)
    BY <1>1
  <2>2. SubSeq(p, 1, Len(p)) \o SubSeq(c, Len(p) + 1, Len(c)) = SubSeq(c, 1, Len(c))
    BY <1>3, <2>1
  <2>3. QED BY <1>2, <2>2
<1>5. ASSUME NEW x \in Ends(p) \cup {<< >>} PROVE x \o SubSeq(c, Len(p) + 1, Len(c)) \in Ends(c)
  <2>1. PICK j \in 1..(Len(p) + 1) : x = SubSeq(p, j, Len(p))
    <3>1. CASE x = << >>
      <4>1. SubSeq(p, Len(p) + 1, Len(p)) = << >>
        BY <1>1, SubSeqEmpty
      <4>2. Len(p) + 1 \in 1..(Len(p) + 1)
        BY <1>1
      <4>3. QED BY <3>1, <4>1, <4>2
    <3>2. CASE x \in Ends(p)
      <4>1. PICK j \in 1..Len(p) : x = SubSeq(p, j, Len(p))
        BY <3>2 DEF Ends
      <4>2. j \in 1..(Len(p) + 1)
        BY <1>1
      <4>3. QED BY <4>1, <4>2
    <3>3. QED BY <3>1, <3>2
  <2>2. x \o SubSeq(c, Len(p) + 1, Len(c)) = SubSeq(c, j, Len(c))
    BY <1>3, <2>1
  <2>3. j \in 1..Len(c)
    BY <1>1
  <2>4. QED BY <2>2, <2>3 DEF Ends
<1>6. QED BY <1>4, <1>5

\* The elements of a sequence, and those of the blocks of an event.
LEMMA AsSet ==
  ASSUME NEW S, NEW s \in Seq(S)
  PROVE  ToSet(s) = {s[i] : i \in 1..Len(s)} /\ ToSet(s) \subseteq S
BY LenProperties, ElementOfSeq DEF ToSet

-----------------------------------------------------------------------------
(* The update of one event.                                                *)

Updates == [map : Maps, add : SUBSET ChainBlocks, remove : SUBSET ChainBlocks, clear : BOOLEAN, lost : BOOLEAN]

\* A stored event: each of its blocks is mapped to an end of its chain, and to
\* the chain itself if the parent is known and the map is clean.
LEMMA StoredUpdate ==
  ASSUME NEW u \in Updates, NEW e \in Events, e.kind = "stored"
  PROVE  /\ Stored(u, e) \in Updates
         /\ \A c \in EngineChains \ ToSet(e.blocks) : Stored(u, e).map[c] = u.map[c]
         /\ \A c \in ToSet(e.blocks) : Stored(u, e).map[c] # Unmapped
         /\ Stored(u, e).remove = u.remove /\ Stored(u, e).clear = u.clear
         /\ u.lost => Stored(u, e).lost
         /\ ~Stored(u, e).lost /\ Clean(u.map) =>
              /\ Clean(Stored(u, e).map)
              /\ Stored(u, e).add = u.add \cup ToSet(e.blocks)
<1> DEFINE parent == Front(e.blocks[1])
           known  == parent = << >> \/ u.map[parent] # Unmapped
           start  == IF parent = << >> \/ ~known THEN << >> ELSE u.map[parent]
           local(c) == start \o SubSeq(c, Len(parent) + 1, Len(c))
           new    == ToSet(e.blocks)
           r == Stored(u, e)
           m == [c \in EngineChains |-> IF c \in new THEN local(c) ELSE u.map[c]]
<1>1. u.map \in Maps /\ u.add \subseteq ChainBlocks /\ u.remove \subseteq ChainBlocks /\ u.clear \in BOOLEAN
      /\ u.lost \in BOOLEAN
  BY DEF Updates
<1>2. e.blocks \in Seq(EngineChains) /\ e.blocks # << >> /\ \A i \in 1..Len(e.blocks) : Prolongs(parent, e.blocks[i])
  BY DEF Events
<1>3. new = {e.blocks[i] : i \in 1..Len(e.blocks)} /\ new \subseteq EngineChains
  BY <1>2, AsSet
<1>4. e.blocks[1] \in EngineChains
  <2>1. 1 \in 1..Len(e.blocks)
    BY <1>2, EmptySeq
  <2>2. QED BY <1>2, <2>1, ElementOfSeq
<1>5. parent \in Seq(Contents) /\ (parent = << >> \/ parent \in EngineChains)
  BY <1>4, ParentTyped
<1>6. \A c \in new : Prolongs(parent, c)
  BY <1>2, <1>3
<1>7. start \in Ends(parent) \cup {<< >>}
  <2>1. CASE parent = << >> \/ ~known
    BY <2>1
  <2>2. CASE ~(parent = << >> \/ ~known)
    <3>1. parent \in EngineChains /\ u.map[parent] # Unmapped
      BY <1>5, <2>2
    <3>2. u.map[parent] \in Ends(parent)
      BY <1>1, <3>1 DEF Maps
    <3>3. QED BY <2>2, <3>2
  <2>3. QED BY <2>1, <2>2
<1>8. r = [u EXCEPT !.map = m, !.add = u.add \cup {local(c) : c \in new}, !.lost = u.lost \/ ~known]
  BY DEF Stored, Updates
<1>9. r.map = m /\ r.add = u.add \cup {local(c) : c \in new} /\ r.lost = (u.lost \/ ~known)
      /\ r.remove = u.remove /\ r.clear = u.clear
  <2> HIDE DEF r, m, known, local, new
  <2>1. QED BY <1>8 DEF Updates
<1>10. known \in BOOLEAN
  OBVIOUS
<1>11. known /\ Clean(u.map) => start = parent
  <2>1. SUFFICES ASSUME known, Clean(u.map), parent # << >> PROVE u.map[parent] = parent
    OBVIOUS
  <2>2. parent \in EngineChains /\ u.map[parent] # Unmapped
    BY <1>5, <2>1
  <2> HIDE DEF parent
  <2>3. QED BY <2>1, <2>2 DEF Clean
<1>12. \A c \in new : local(c) \in Ends(c) /\ local(c) \in ChainBlocks /\ local(c) # Unmapped
  <2> SUFFICES ASSUME NEW c \in new PROVE local(c) \in Ends(c) /\ local(c) \in ChainBlocks /\ local(c) # Unmapped
    OBVIOUS
  <2>1. c \in EngineChains /\ Prolongs(parent, c)
    BY <1>3, <1>6
  <2> HIDE DEF parent, start, new
  <2>2. local(c) \in Ends(c)
    BY <1>5, <1>7, <2>1, JoinedToEnd
  <2>3. QED BY <2>1, <2>2, ChainsTyped
<1>13. known /\ Clean(u.map) => \A c \in new : local(c) = c
  <2>1. SUFFICES ASSUME known, Clean(u.map), NEW c \in new PROVE local(c) = c
    OBVIOUS
  <2>2. c \in EngineChains /\ Prolongs(parent, c) /\ start = parent
    BY <1>3, <1>6, <1>11, <2>1
  <2> HIDE DEF parent, start, new, known
  <2>3. QED BY <1>5, <2>2, JoinedToEnd
<1>14. m \in Maps
  <2>1. \A c \in EngineChains : m[c] = IF c \in new THEN local(c) ELSE u.map[c]
    OBVIOUS
  <2>2. \A c \in EngineChains : u.map[c] \in ChainBlocks \cup {Unmapped} /\ (u.map[c] = Unmapped \/ u.map[c] \in Ends(c))
    BY <1>1 DEF Maps
  <2>3. \A c \in EngineChains : m[c] \in ChainBlocks \cup {Unmapped} /\ (m[c] = Unmapped \/ m[c] \in Ends(c))
    <3> HIDE DEF m, local, new
    <3>1. QED BY <1>12, <2>1, <2>2
  <2>4. m \in [EngineChains -> ChainBlocks \cup {Unmapped}]
    BY <2>3
  <2> HIDE DEF m
  <2>5. QED BY <2>3, <2>4 DEF Maps
<1>15. r \in Updates
  <2>1. {local(c) : c \in new} \subseteq ChainBlocks
    <3> HIDE DEF local, new
    <3>1. QED BY <1>12
  <2>2. (u.lost \/ ~known) \in BOOLEAN
    OBVIOUS
  <2> HIDE DEF r, m, local, new, known
  <2>3. u.add \cup {local(c) : c \in new} \subseteq ChainBlocks
    BY <1>1, <2>1
  <2>4. QED BY <1>8, <1>14, <2>2, <2>3 DEF Updates
<1>16. \A c \in EngineChains \ new : r.map[c] = u.map[c]
  <2> HIDE DEF r, new, local
  <2>1. QED BY <1>9
<1>17. \A c \in new : r.map[c] # Unmapped
  <2> HIDE DEF r, new, local
  <2>1. QED BY <1>3, <1>9, <1>12
<1>18. u.lost => r.lost
  <2> HIDE DEF r, known
  <2>1. QED BY <1>9
<1>19. ~r.lost /\ Clean(u.map) => Clean(r.map) /\ r.add = u.add \cup new
  <2> SUFFICES ASSUME ~r.lost, Clean(u.map) PROVE Clean(r.map) /\ r.add = u.add \cup new
    OBVIOUS
  <2>1. known
    <3> HIDE DEF r, known
    <3>1. QED BY <1>9
  <2>2. \A c \in new : local(c) = c
    BY <1>13, <2>1
  <2> HIDE DEF r, known, local, new
  <2>3. r.add = u.add \cup new
    BY <1>9, <2>2
  <2>4. \A c \in EngineChains : r.map[c] \in {Unmapped, c}
    BY <1>9, <2>2 DEF Clean
  <2>5. QED BY <2>3, <2>4 DEF Clean
<1> HIDE DEF r, new
<1>20. QED BY <1>9, <1>15, <1>16, <1>17, <1>18, <1>19 DEF r, new

\* A removed event: its blocks lose their mapping, and what they were mapped to goes.
LEMMA RemovedUpdate ==
  ASSUME NEW u \in Updates, NEW e \in Events
  PROVE  /\ Removed(u, e) \in Updates
         /\ \A c \in EngineChains \ ToSet(e.blocks) : Removed(u, e).map[c] = u.map[c]
         /\ \A c \in ToSet(e.blocks) : Removed(u, e).map[c] = Unmapped
         /\ Removed(u, e).add = u.add /\ Removed(u, e).clear = u.clear
         /\ Removed(u, e).lost = u.lost
         /\ Removed(u, e).remove = u.remove \cup ({u.map[c] : c \in ToSet(e.blocks)} \ {Unmapped})
         /\ Clean(u.map) => Clean(Removed(u, e).map)
<1> DEFINE gone == ToSet(e.blocks)
           r == Removed(u, e)
           m == [c \in EngineChains |-> IF c \in gone THEN Unmapped ELSE u.map[c]]
           rem == u.remove \cup ({u.map[c] : c \in gone} \ {Unmapped})
<1>1. u.map \in Maps /\ u.remove \subseteq ChainBlocks
  BY DEF Updates
<1>2. gone \subseteq EngineChains
  BY AsSet DEF Events
<1>3. r = [u EXCEPT !.map = m, !.remove = rem]
  BY DEF Removed, Updates
<1> HIDE DEF r, gone
<1>4. m \in Maps
  <2>1. \A c \in EngineChains : u.map[c] \in ChainBlocks \cup {Unmapped} /\ (u.map[c] = Unmapped \/ u.map[c] \in Ends(c))
    BY <1>1 DEF Maps
  <2>2. m \in [EngineChains -> ChainBlocks \cup {Unmapped}]
    BY <2>1
  <2>3. \A c \in EngineChains : m[c] = Unmapped \/ m[c] \in Ends(c)
    BY <2>1
  <2> HIDE DEF m
  <2>4. QED BY <2>2, <2>3 DEF Maps
<1>5. rem \subseteq ChainBlocks
  <2>1. \A c \in EngineChains : u.map[c] \in ChainBlocks \cup {Unmapped}
    BY <1>1 DEF Maps
  <2>2. QED BY <1>1, <1>2, <2>1
<1>6. \A c \in EngineChains : m[c] = IF c \in gone THEN Unmapped ELSE u.map[c]
  OBVIOUS
<1> HIDE DEF m, rem
<1>7. r \in Updates /\ r.map = m /\ r.remove = rem /\ r.add = u.add /\ r.clear = u.clear /\ r.lost = u.lost
  BY <1>3, <1>4, <1>5 DEF Updates
<1>8. (\A c \in EngineChains \ gone : r.map[c] = u.map[c]) /\ \A c \in gone : r.map[c] = Unmapped
  BY <1>2, <1>6, <1>7
<1>9. Clean(u.map) => Clean(r.map)
  BY <1>2, <1>6, <1>7 DEF Clean
<1>10. QED BY <1>7, <1>8, <1>9 DEF r, gone, rem

-----------------------------------------------------------------------------
(* The update of a batch.                                                  *)

Stores(e, c)  == e.kind = "stored" /\ c \in ToSet(e.blocks)
Removes(e, c) == e.kind = "removed" /\ c \in ToSet(e.blocks)

\* What an event makes of an update.
Stepped(u, e, r) ==
  /\ r.clear <=> u.clear \/ e.kind = "cleared"
  /\ u.lost => r.lost
  /\ \A c \in EngineChains : ~Stores(e, c) /\ ~Removes(e, c) => r.map[c] = u.map[c]
  /\ \A c \in EngineChains : Stores(e, c) => r.map[c] # Unmapped
  /\ \A c \in EngineChains : Removes(e, c) => r.map[c] = Unmapped
  /\ u.remove \subseteq r.remove
  /\ \A c \in EngineChains : Removes(e, c) /\ u.map[c] # Unmapped => u.map[c] \in r.remove
  /\ \A x \in r.remove : x \in u.remove \/ \E c \in EngineChains : Removes(e, c) /\ x = u.map[c] /\ x # Unmapped
  /\ ~r.lost /\ Clean(u.map) =>
       Clean(r.map) /\ \A x : x \in r.add <=> x \in u.add \/ (x \in EngineChains /\ Stores(e, x))

\* Each event makes of an update what Stepped says.
LEMMA FoldUpdate ==
  ASSUME NEW u \in Updates, NEW e \in Events
  PROVE  Fold(u, e) \in Updates /\ Stepped(u, e, Fold(u, e))
<1>0. ToSet(e.blocks) \subseteq EngineChains /\ e.kind \in Kinds
  BY AsSet DEF Events
<1>1. CASE e.kind = "stored"
  <2> DEFINE r == Stored(u, e)
  <2>1. Fold(u, e) = r
    BY <1>1 DEF Fold
  <2>2. /\ r \in Updates
        /\ \A c \in EngineChains \ ToSet(e.blocks) : r.map[c] = u.map[c]
        /\ \A c \in ToSet(e.blocks) : r.map[c] # Unmapped
        /\ r.remove = u.remove /\ r.clear = u.clear
        /\ u.lost => r.lost
        /\ ~r.lost /\ Clean(u.map) => Clean(r.map) /\ r.add = u.add \cup ToSet(e.blocks)
    BY <1>1, StoredUpdate
  <2> HIDE DEF r
  <2>3. Stepped(u, e, r)
    BY <1>0, <1>1, <2>2 DEF Stepped, Stores, Removes
  <2>4. QED BY <2>1, <2>2, <2>3
<1>2. CASE e.kind = "removed"
  <2> DEFINE r == Removed(u, e)
  <2>1. Fold(u, e) = r
    BY <1>2 DEF Fold
  <2>2. /\ r \in Updates
        /\ \A c \in EngineChains \ ToSet(e.blocks) : r.map[c] = u.map[c]
        /\ \A c \in ToSet(e.blocks) : r.map[c] = Unmapped
        /\ r.add = u.add /\ r.clear = u.clear
        /\ r.lost = u.lost
        /\ r.remove = u.remove \cup ({u.map[c] : c \in ToSet(e.blocks)} \ {Unmapped})
        /\ Clean(u.map) => Clean(r.map)
    BY <1>2, RemovedUpdate
  <2> HIDE DEF r
  <2>3. Stepped(u, e, r)
    BY <1>0, <1>2, <2>2 DEF Stepped, Stores, Removes
  <2>4. QED BY <2>1, <2>2, <2>3
<1>3. CASE e.kind = "cleared"
  <2> DEFINE r == [u EXCEPT !.clear = TRUE]
  <2>1. Fold(u, e) = r
    BY <1>3 DEF Fold
  <2>2. r \in Updates /\ r.map = u.map /\ r.add = u.add /\ r.remove = u.remove /\ r.lost = u.lost
        /\ r.clear = TRUE
    BY DEF Updates
  <2> HIDE DEF r
  <2>3. Stepped(u, e, r)
    BY <1>0, <1>3, <2>2 DEF Stepped, Stores, Removes
  <2>4. QED BY <2>1, <2>2, <2>3
<1>4. CASE e.kind \notin {"stored", "removed", "cleared"}
  <2>1. Fold(u, e) = u
    BY <1>4 DEF Fold
  <2>2. Stepped(u, e, u)
    BY <1>0, <1>4 DEF Stepped, Stores, Removes
  <2>3. QED BY <2>1, <2>2
<1>5. QED BY <1>1, <1>2, <1>3, <1>4

\* The first i events of a batch store, or remove, a block.
StoredBy(b, i, c)  == \E k \in 1..i : Stores(b[k], c)
RemovedBy(b, i, c) == \E k \in 1..i : Removes(b[k], c)

\* What the first i events of a batch make of the books.
Sums(b, i, u) ==
  /\ u.clear <=> \E k \in 1..i : b[k].kind = "cleared"
  /\ \A c \in EngineChains : ~StoredBy(b, i, c) /\ ~RemovedBy(b, i, c) => u.map[c] = map[c]
  /\ \A c \in EngineChains : \A k \in 1..i :
       (\A j \in 1..i : j > k => ~Stores(b[j], c) /\ ~Removes(b[j], c)) =>
         /\ Stores(b[k], c) => u.map[c] # Unmapped
         /\ Removes(b[k], c) => u.map[c] = Unmapped
  /\ ~u.lost /\ Clean(map) =>
       /\ Clean(u.map)
       /\ \A x : x \in u.add <=> x \in EngineChains /\ StoredBy(b, i, x)
       /\ \A x \in u.remove : x \in EngineChains /\ RemovedBy(b, i, x)
       /\ \A c \in EngineChains : RemovedBy(b, i, c) /\ ~StoredBy(b, i, c) => c \in u.remove \/ map[c] = Unmapped

\* The sums go on with one more event.
LEMMA SumsStep ==
  ASSUME NEW b, NEW i \in Nat \ {0}, NEW u \in Updates, NEW r \in Updates,
         Sums(b, i - 1, u), Stepped(u, b[i], r)
  PROVE  Sums(b, i, r)
<1> DEFINE e == b[i]
<1>1. \A k : k \in 1..i <=> k \in 1..(i - 1) \/ k = i
  OBVIOUS
<1>2. \A c : StoredBy(b, i, c) <=> StoredBy(b, i - 1, c) \/ Stores(e, c)
  BY <1>1 DEF StoredBy
<1>3. \A c : RemovedBy(b, i, c) <=> RemovedBy(b, i - 1, c) \/ Removes(e, c)
  BY <1>1 DEF RemovedBy
<1>4. r.clear <=> \E k \in 1..i : b[k].kind = "cleared"
  <2>1. u.clear <=> \E k \in 1..(i - 1) : b[k].kind = "cleared"
    BY DEF Sums
  <2>2. r.clear <=> u.clear \/ e.kind = "cleared"
    BY DEF Stepped
  <2>3. QED BY <1>1, <2>1, <2>2
<1>5. \A c \in EngineChains : ~StoredBy(b, i, c) /\ ~RemovedBy(b, i, c) => r.map[c] = map[c]
  BY <1>2, <1>3 DEF Sums, Stepped
<1>6. ASSUME NEW c \in EngineChains, NEW k \in 1..i,
             \A j \in 1..i : j > k => ~Stores(b[j], c) /\ ~Removes(b[j], c)
      PROVE  /\ Stores(b[k], c) => r.map[c] # Unmapped
             /\ Removes(b[k], c) => r.map[c] = Unmapped
  <2>1. CASE k = i
    BY <2>1 DEF Stepped
  <2>2. CASE k # i
    <3>1. k \in 1..(i - 1) /\ i \in 1..i /\ i > k
      BY <2>2
    <3>2. ~Stores(b[i], c) /\ ~Removes(b[i], c)
      BY <1>6, <3>1
    <3>3. r.map[c] = u.map[c]
      BY <3>2 DEF Stepped
    <3>4. \A j \in 1..(i - 1) : j > k => ~Stores(b[j], c) /\ ~Removes(b[j], c)
      BY <1>1, <1>6
    <3>5. QED BY <3>1, <3>3, <3>4 DEF Sums
  <2>3. QED BY <2>1, <2>2
<1>7. ASSUME ~r.lost, Clean(map)
      PROVE  /\ Clean(r.map)
             /\ \A x : x \in r.add <=> x \in EngineChains /\ StoredBy(b, i, x)
             /\ \A x \in r.remove : x \in EngineChains /\ RemovedBy(b, i, x)
             /\ \A c \in EngineChains : RemovedBy(b, i, c) /\ ~StoredBy(b, i, c) => c \in r.remove \/ map[c] = Unmapped
  <2>1. ~u.lost
    BY <1>7 DEF Stepped
  <2>2. /\ Clean(u.map)
        /\ \A x : x \in u.add <=> x \in EngineChains /\ StoredBy(b, i - 1, x)
        /\ \A x \in u.remove : x \in EngineChains /\ RemovedBy(b, i - 1, x)
        /\ \A c \in EngineChains : RemovedBy(b, i - 1, c) /\ ~StoredBy(b, i - 1, c) => c \in u.remove \/ map[c] = Unmapped
    BY <1>7, <2>1 DEF Sums
  <2>3. Clean(r.map) /\ \A x : x \in r.add <=> x \in u.add \/ (x \in EngineChains /\ Stores(e, x))
    BY <1>7, <2>2 DEF Stepped
  <2>4. \A x : x \in r.add <=> x \in EngineChains /\ StoredBy(b, i, x)
    BY <1>2, <2>2, <2>3
  <2>5. \A x \in r.remove : x \in EngineChains /\ RemovedBy(b, i, x)
    <3>1. SUFFICES ASSUME NEW x \in r.remove PROVE x \in EngineChains /\ RemovedBy(b, i, x)
      OBVIOUS
    <3>2. x \in u.remove \/ \E c \in EngineChains : Removes(e, c) /\ x = u.map[c] /\ x # Unmapped
      BY DEF Stepped
    <3>3. CASE x \in u.remove
      BY <1>3, <2>2, <3>3
    <3>4. CASE \E c \in EngineChains : Removes(e, c) /\ x = u.map[c] /\ x # Unmapped
      <4>1. PICK c \in EngineChains : Removes(e, c) /\ x = u.map[c] /\ x # Unmapped
        BY <3>4
      <4>2. x = c
        BY <2>2, <4>1 DEF Clean
      <4>3. QED BY <1>3, <4>1, <4>2
    <3>5. QED BY <3>2, <3>3, <3>4
  <2>6. ASSUME NEW c \in EngineChains, RemovedBy(b, i, c), ~StoredBy(b, i, c)
        PROVE  c \in r.remove \/ map[c] = Unmapped
    <3>1. ~StoredBy(b, i - 1, c)
      BY <1>2, <2>6
    <3>2. CASE RemovedBy(b, i - 1, c)
      BY <2>2, <3>1, <3>2 DEF Stepped
    <3>3. CASE ~RemovedBy(b, i - 1, c)
      <4>1. Removes(e, c)
        BY <1>3, <2>6, <3>3
      <4>2. u.map[c] = map[c]
        BY <3>1, <3>3 DEF Sums
      <4>3. map[c] = Unmapped \/ u.map[c] \in r.remove
        BY <4>1, <4>2 DEF Stepped
      <4>4. map[c] = Unmapped \/ map[c] = c
        BY <1>7 DEF Clean
      <4>5. QED BY <4>2, <4>3, <4>4
    <3>4. QED BY <3>2, <3>3
  <2>7. QED BY <2>3, <2>4, <2>5, <2>6
<1>8. QED BY <1>4, <1>5, <1>6, <1>7 DEF Sums

\* The update that is parsed from a batch sums up all its events.
LEMMA BatchUpdate ==
  ASSUME map \in Maps, NEW b \in Batches
  PROVE  Parsed(b) \in Updates /\ Sums(b, Len(b), Parsed(b))
<1> DEFINE n == Len(b)
           T == Updates
           base == NoUpdate
           step == [p \in T \X (1..n) |-> Fold(p[1], b[p[2]])]
           f == CHOOSE f : f = [i \in 0..n |-> IF i = 0 THEN NoUpdate ELSE Fold(f[i - 1], b[i])]
<1>1. n \in Nat /\ \A i \in 1..n : b[i] \in Events
  BY ElementOfSeq DEF Batches
<1>1b. base \in T
  BY DEF NoUpdate, Updates
<1>2. step \in [T \X (1..n) -> T]
  BY <1>1, FoldUpdate
<1>3. PICK h \in [0..n -> T] : h[0] = NoUpdate /\ \A i \in 1..n : h[i] = step[<<h[i - 1], i>>]
  <2>n. n \in Nat
    BY <1>1
  <2> HIDE DEF n, T, step, base, f
  <2>2. StepOf(step, T, n)
    BY <1>2 DEF StepOf
  <2>3. Runs(n, T, base, step)
    BY <2>n, <1>1b, <2>2, Repeated
  <2>4. QED BY <2>3 DEF base, Runs
<1>4. \A i \in 1..n : i - 1 \in 0..n /\ h[i - 1] \in T /\ h[i] = Fold(h[i - 1], b[i])
  <2> SUFFICES ASSUME NEW i \in 1..n
               PROVE i - 1 \in 0..n /\ h[i - 1] \in T /\ h[i] = Fold(h[i - 1], b[i])
    OBVIOUS
  <2>1. i - 1 \in 0..n
    BY <1>1
  <2>2. h[i - 1] \in T
    BY <1>3, <2>1
  <2>3. <<h[i - 1], i>> \in T \X (1..n)
    BY <2>2
  <2>4. step[<<h[i - 1], i>>] = Fold(h[i - 1], b[i])
    BY <2>3
  <2>5. QED BY <1>3, <2>1, <2>2, <2>4
<1>5. h = [i \in 0..n |-> IF i = 0 THEN NoUpdate ELSE Fold(h[i - 1], b[i])]
  <2>1. \A i \in 0..n : i # 0 => i \in 1..n
    BY <1>1
  <2>2. \A i \in 0..n : h[i] = IF i = 0 THEN NoUpdate ELSE Fold(h[i - 1], b[i])
    BY <1>3, <1>4, <2>1
  <2>3. h = [i \in 0..n |-> h[i]]
    BY <1>3
  <2> HIDE DEF n, T, step, f
  <2>4. QED BY <2>2, <2>3
<1>6. f = [i \in 0..n |-> IF i = 0 THEN NoUpdate ELSE Fold(f[i - 1], b[i])]
  BY <1>5
<1>7. Parsed(b) = f[n]
  BY DEF Parsed
<1> HIDE DEF f, step
<1>8. f[0] = NoUpdate /\ \A i \in 1..n : f[i] = Fold(f[i - 1], b[i])
  <2>1. 0 \in 0..n /\ \A i \in 1..n : i \in 0..n /\ i # 0
    BY <1>1
  <2> HIDE DEF n, T
  <2>2. QED BY <1>6, <2>1
<1>9. Same(f, h, n)
  <2>1. f[0] = h[0]
    BY <1>3, <1>8
  <2>2. \A i \in 1..n : f[i - 1] = h[i - 1] => f[i] = h[i]
    BY <1>4, <1>8
  <2>3. n \in Nat
    BY <1>1
  <2> HIDE DEF n, T
  <2>4. QED BY <2>1, <2>2, <2>3, RunsAgree
<1>10. Parsed(b) = h[n] /\ h[n] \in T
  <2>1. n \in 0..n
    BY <1>1
  <2>2. QED BY <1>3, <1>7, <1>9, <2>1 DEF Same
<1> DEFINE B == {i \in 0..n : Sums(b, i, h[i])}
<1>11. 0 \in B
  <2>1. 0 \in 0..n /\ \A k : k \notin 1..0
    BY <1>1
  <2>2. h[0].clear = FALSE /\ h[0].map = map /\ h[0].add = {} /\ h[0].remove = {}
    BY <1>3 DEF NoUpdate
  <2> HIDE DEF n, T
  <2>3. Sums(b, 0, h[0])
    BY <2>1, <2>2 DEF Sums, StoredBy, RemovedBy
  <2>4. QED BY <2>1, <2>3
<1>12. ASSUME NEW i \in 0..(n - 1), i \in B PROVE i + 1 \in B
  <2>1. i + 1 \in 1..n /\ (i + 1) - 1 = i /\ i + 1 \in 0..n /\ i + 1 \in Nat \ {0}
    BY <1>1
  <2>2. Sums(b, (i + 1) - 1, h[i])
    BY <1>12, <2>1
  <2>3. h[i] \in Updates /\ h[i + 1] = Fold(h[i], b[i + 1]) /\ b[i + 1] \in Events
    <3>1. (i + 1) - 1 \in 0..n /\ h[(i + 1) - 1] \in T /\ h[i + 1] = Fold(h[(i + 1) - 1], b[i + 1])
      BY <1>4, <2>1
    <3>2. QED BY <1>1, <2>1, <3>1
  <2>4. h[i + 1] \in Updates /\ Stepped(h[i], b[i + 1], h[i + 1])
    BY <2>3, FoldUpdate
  <2> HIDE DEF n, T
  <2>5. Sums(b, i + 1, h[i + 1])
    BY <2>1, <2>2, <2>3, <2>4, SumsStep
  <2>6. QED BY <2>1, <2>5
<1>13. \A i \in 0..n : i \in B
  <2>1. n \in Nat
    BY <1>1
  <2> HIDE DEF B, n
  <2>2. QED BY <1>11, <1>12, <2>1, Counted
<1>14. n \in 0..n
  BY <1>1
<1>15. QED BY <1>10, <1>13, <1>14

-----------------------------------------------------------------------------
(* What a batch makes of the books.                                        *)

\* A set of positions that is not empty has a last one.
LEMMA Latest ==
  ASSUME NEW n \in Nat, NEW P, P \subseteq 1..n, P # {}
  PROVE  \E k \in P : \A j \in P : j <= k
<1> DEFINE B == {i \in 0..n : (\A k \in P : ~(k <= i)) \/ \E k \in P : k <= i /\ \A j \in P : j <= i => j <= k}
<1>1. 0 \in B
  <2>1. \A k \in P : ~(k <= 0)
    OBVIOUS
  <2>2. QED BY <2>1
<1>2. ASSUME NEW i \in 0..(n - 1), i \in B PROVE i + 1 \in B
  <2>0. i + 1 \in 0..n /\ i \in Nat
    OBVIOUS
  <2>1. CASE i + 1 \in P
    <3>1. \A j \in P : j <= i + 1 => j <= i + 1
      OBVIOUS
    <3>2. QED BY <2>0, <2>1, <3>1
  <2>2. CASE i + 1 \notin P
    <3>1. \A j \in P : j \in Nat /\ j # i + 1
      BY <2>2
    <3>2. \A j \in P : j <= i + 1 <=> j <= i
      BY <2>0, <3>1
    <3>3. CASE \A k \in P : ~(k <= i)
      BY <2>0, <3>2, <3>3
    <3>4. CASE \E k \in P : k <= i /\ \A j \in P : j <= i => j <= k
      BY <2>0, <3>2, <3>4
    <3>5. QED BY <1>2, <3>3, <3>4
  <2>3. QED BY <2>1, <2>2
<1>3. n \in B
  <2>1. \A i \in 0..n : i \in B
    <3> HIDE DEF B
    <3>1. QED BY <1>1, <1>2, Counted
  <2>2. n \in 0..n
    OBVIOUS
  <2>3. QED BY <2>1, <2>2
<1>4. \A k \in P : k <= n
  OBVIOUS
<1>5. QED BY <1>3, <1>4

\* A batch that speaks of a block has a last event that does.
LEMMA LastSays ==
  ASSUME NEW b \in Batches, NEW c, ~Silent(b, c)
  PROVE  \E k \in 1..Len(b) : LastIn(b, k, c)
<1> DEFINE P == {k \in 1..Len(b) : Says(b[k], c)}
<1>1. Len(b) \in Nat
  BY LenProperties DEF Batches
<1>2. P \subseteq 1..Len(b) /\ P # {}
  BY DEF Silent
<1>3. PICK k \in P : \A j \in P : j <= k
  <2> HIDE DEF P
  <2>1. QED BY <1>1, <1>2, Latest
<1>4. \A j \in 1..Len(b) : j > k => ~Says(b[j], c)
  <2>1. SUFFICES ASSUME NEW j \in 1..Len(b), j > k, Says(b[j], c) PROVE FALSE
    OBVIOUS
  <2>2. j <= k
    BY <1>3, <2>1
  <2>3. j \in Int /\ k \in Int
    BY <1>1, <2>1
  <2>4. QED BY <2>1, <2>2, <2>3
<1>5. QED BY <1>3, <1>4 DEF LastIn

\* Storing or removing a block is speaking of it.
LEMMA MovesSay ==
  ASSUME NEW e, NEW c
  PROVE  (Stores(e, c) \/ Removes(e, c) \/ e.kind = "cleared") => Says(e, c)
BY DEF Stores, Removes, Says

\* How the books go on with a batch.
LEMMA HandleDoes ==
  ASSUME Books, NEW b \in Batches, Handle(b), NEW u, u = Parsed(b)
  PROVE  /\ u \in Updates /\ Sums(b, Len(b), u)
         /\ map' = u.map /\ Reported' = ((IF u.clear THEN {} ELSE Reported) \ u.remove) \cup u.add
         /\ drift \subseteq drift'
         /\ "parent unresolved" \in drift' <=> "parent unresolved" \in drift \/ u.lost
         /\ Folded(b) => "folded" \in drift'
         /\ (\E i \in 1..Len(b) : b[i].kind = "malformed") => "malformed" \in drift'
         /\ (\E i \in 1..Len(b) : b[i].kind = "cleared") => "cleared" \in drift'
<1>1. u \in Updates /\ Sums(b, Len(b), u)
  BY BatchUpdate DEF Books
<1>2. map' = u.map /\ Reported' = ((IF u.clear THEN {} ELSE Reported) \ u.remove) \cup u.add
  <2>1. PICK M : /\ view' = ((Kept(u, view) \cup M) \ u.remove) \cup u.add
                 /\ ahead' = (Kept(u, ahead) \cup (M \ Kept(u, view))) \ (u.remove \cup u.add)
    BY DEF Handle, Written
  <2>2. view' \ ahead' = ((Kept(u, view) \ Kept(u, ahead)) \ u.remove) \cup u.add
    BY <2>1
  <2>3. Kept(u, view) \ Kept(u, ahead) = IF u.clear THEN {} ELSE view \ ahead
    BY DEF Kept
  <2>4. QED BY <2>2, <2>3 DEF Handle, Reported
<1>3. drift' = drift \cup (IF u.lost THEN {"parent unresolved"} ELSE {})
                     \cup (IF Folded(b) THEN {"folded"} ELSE {})
                     \cup (IF \E i \in 1..Len(b) : b[i].kind = "malformed"
                           THEN {"malformed"} ELSE {})
                     \cup (IF \E i \in 1..Len(b) : b[i].kind = "cleared"
                           THEN {"cleared"} ELSE {})
  BY DEF Handle
<1>4. drift \subseteq drift'
  BY <1>3
<1>5. "parent unresolved" \in drift' <=> "parent unresolved" \in drift \/ u.lost
  BY <1>3
<1>6. Folded(b) => "folded" \in drift'
  BY <1>3
<1>7. (\E i \in 1..Len(b) : b[i].kind = "malformed") => "malformed" \in drift'
  BY <1>3
<1>8. (\E i \in 1..Len(b) : b[i].kind = "cleared") => "cleared" \in drift'
  BY <1>3
<1>9. QED BY <1>1, <1>2, <1>4, <1>5, <1>6, <1>7, <1>8

\* A batch whose order is kept removes and clears before it stores.
LEMMA InOrder ==
  ASSUME NEW b, ~Folded(b), NEW i \in 1..Len(b), NEW j \in 1..Len(b), NEW c,
         Stores(b[i], c), Removes(b[j], c) \/ b[j].kind = "cleared"
  PROVE  ~(i < j)
BY DEF Folded, Stores, Removes

\* The books stay sound.
LEMMA HandleKeepsBooks ==
  ASSUME Books, NEW b \in Batches, Handle(b)
  PROVE  Books'
<1>0. PICK u : u = Parsed(b)
  OBVIOUS
<1>1. /\ u \in Updates /\ Sums(b, Len(b), u)
      /\ map' = u.map /\ Reported' = ((IF u.clear THEN {} ELSE Reported) \ u.remove) \cup u.add
      /\ drift \subseteq drift'
      /\ "parent unresolved" \in drift' <=> "parent unresolved" \in drift \/ u.lost
      /\ Folded(b) => "folded" \in drift'
  BY <1>0, HandleDoes
<1>n. Len(b) \in Nat
  BY LenProperties DEF Batches
<1>2. map' \in Maps /\ Reported' \subseteq ChainBlocks
  BY <1>1 DEF Updates, Books
<1>3. ASSUME "parent unresolved" \notin drift'
      PROVE  /\ Clean(map) /\ Clean(u.map)
             /\ \A x : x \in u.add <=> x \in EngineChains /\ StoredBy(b, Len(b), x)
             /\ \A x \in u.remove : x \in EngineChains /\ RemovedBy(b, Len(b), x)
             /\ \A c \in EngineChains : RemovedBy(b, Len(b), c) /\ ~StoredBy(b, Len(b), c)
                                     => c \in u.remove \/ map[c] = Unmapped
  <2>1. ~u.lost /\ "parent unresolved" \notin drift
    BY <1>1, <1>3
  <2>2. Clean(map)
    BY <2>1 DEF Books
  <2>3. QED BY <1>1, <2>1, <2>2 DEF Sums
<1>4. ASSUME "parent unresolved" \notin drift' PROVE Clean(map')
  BY <1>1, <1>3, <1>4
<1>5. ASSUME drift' \cap {"parent unresolved", "folded"} = {}, NEW x \in Reported'
      PROVE  x \in EngineChains /\ map'[x] = x
  <2>1. "parent unresolved" \notin drift' /\ ~Folded(b) /\ drift \cap {"parent unresolved", "folded"} = {}
    BY <1>1, <1>5
  <2>2. CASE x \in u.add
    <3>1. x \in EngineChains /\ StoredBy(b, Len(b), x)
      BY <1>3, <2>1, <2>2
    <3> DEFINE P == {k \in 1..Len(b) : Stores(b[k], x) \/ Removes(b[k], x)}
    <3>2. P \subseteq 1..Len(b) /\ P # {}
      BY <3>1 DEF StoredBy
    <3>3. PICK k \in P : \A j \in P : j <= k
      <4> HIDE DEF P
      <4>1. QED BY <1>n, <3>2, Latest
    <3>4. k \in 1..Len(b) /\ (Stores(b[k], x) \/ Removes(b[k], x))
      OBVIOUS
    <3>5. \A j \in 1..Len(b) : j > k => ~Stores(b[j], x) /\ ~Removes(b[j], x)
      <4>1. SUFFICES ASSUME NEW j \in 1..Len(b), j > k, Stores(b[j], x) \/ Removes(b[j], x) PROVE FALSE
        OBVIOUS
      <4>2. j <= k /\ j \in Int /\ k \in Int
        BY <1>n, <3>3, <4>1
      <4>3. QED BY <4>1, <4>2
    <3>6. Stores(b[k], x)
      <4>1. SUFFICES ASSUME Removes(b[k], x) PROVE FALSE
        BY <3>4
      <4>2. PICK i \in 1..Len(b) : Stores(b[i], x)
        BY <3>1 DEF StoredBy
      <4>3. i <= k /\ i \in Int /\ k \in Int
        BY <1>n, <3>3, <4>2
      <4>4. ~(i < k)
        BY <2>1, <3>4, <4>1, <4>2, InOrder
      <4>5. i = k
        BY <4>3, <4>4
      <4>6. QED BY <4>1, <4>2, <4>5 DEF Stores, Removes
    <3>7. u.map[x] # Unmapped
      BY <1>1, <3>1, <3>4, <3>5, <3>6 DEF Sums
    <3>8. u.map[x] \in {Unmapped, x}
      BY <1>3, <2>1, <3>1 DEF Clean
    <3>9. QED BY <1>1, <3>1, <3>7, <3>8
  <2>3. CASE x \notin u.add
    <3>1. x \in Reported /\ x \notin u.remove
      BY <1>1, <1>5, <2>3
    <3>2. x \in EngineChains /\ map[x] = x
      BY <2>1, <3>1 DEF Books
    <3>3. ~StoredBy(b, Len(b), x)
      BY <1>3, <2>1, <2>3, <3>2
    <3>4. x # Unmapped
      BY <3>2, ChainsTyped
    <3>5. ~RemovedBy(b, Len(b), x)
      BY <1>3, <2>1, <3>1, <3>2, <3>3, <3>4
    <3>6. u.map[x] = map[x]
      BY <1>1, <3>2, <3>3, <3>5 DEF Sums
    <3>7. QED BY <1>1, <3>2, <3>6
  <2>4. QED BY <2>2, <2>3
<1>6. QED BY <1>2, <1>4, <1>5 DEF Books

\* What a batch does not speak of stays in the books as it is.
LEMMA HandleSilent ==
  ASSUME Books, NEW b \in Batches, Handle(b), NEW c \in EngineChains, Silent(b, c)
  PROVE  /\ map'[c] = map[c]
         /\ drift \subseteq drift'
         /\ "parent unresolved" \notin drift' => (c \in Reported' <=> c \in Reported)
<1>0. PICK u : u = Parsed(b)
  OBVIOUS
<1>1. /\ u \in Updates /\ Sums(b, Len(b), u)
      /\ map' = u.map /\ Reported' = ((IF u.clear THEN {} ELSE Reported) \ u.remove) \cup u.add
      /\ drift \subseteq drift'
      /\ "parent unresolved" \in drift' <=> "parent unresolved" \in drift \/ u.lost
  BY <1>0, HandleDoes
<1>2. \A k \in 1..Len(b) : ~Stores(b[k], c) /\ ~Removes(b[k], c) /\ b[k].kind # "cleared"
  BY MovesSay DEF Silent
<1>3. ~StoredBy(b, Len(b), c) /\ ~RemovedBy(b, Len(b), c) /\ ~u.clear
  BY <1>1, <1>2 DEF StoredBy, RemovedBy, Sums
<1>4. u.map[c] = map[c]
  BY <1>1, <1>3 DEF Sums
<1>5. ASSUME "parent unresolved" \notin drift' PROVE c \in Reported' <=> c \in Reported
  <2>1. ~u.lost /\ Clean(map)
    BY <1>1, <1>5 DEF Books
  <2>2. c \notin u.add /\ c \notin u.remove
    BY <1>1, <1>3, <2>1 DEF Sums
  <2>3. QED BY <1>1, <1>3, <2>2
<1>6. QED BY <1>1, <1>4, <1>5

\* What the last event of a batch says of a block is what the books say then.
LEMMA HandleAgree ==
  ASSUME Books, NEW b \in Batches, Handle(b), NEW c \in EngineChains, NEW C, Right(b, c, C),
         Silent(b, c) => Agrees(c, C, map, Reported, drift)
  PROVE  Agrees(c, C, map', Reported', drift')
<1>0. PICK u : u = Parsed(b)
  OBVIOUS
<1>1. /\ u \in Updates /\ Sums(b, Len(b), u)
      /\ map' = u.map /\ Reported' = ((IF u.clear THEN {} ELSE Reported) \ u.remove) \cup u.add
      /\ drift \subseteq drift'
      /\ "parent unresolved" \in drift' <=> "parent unresolved" \in drift \/ u.lost
      /\ Folded(b) => "folded" \in drift'
      /\ (\E i \in 1..Len(b) : b[i].kind = "malformed") => "malformed" \in drift'
      /\ (\E i \in 1..Len(b) : b[i].kind = "cleared") => "cleared" \in drift'
  BY <1>0, HandleDoes
<1>n. Len(b) \in Nat
  BY LenProperties DEF Batches
<1>2. CASE Silent(b, c)
  <2>1. Agrees(c, C, map, Reported, drift)
    BY <1>2
  <2>2. /\ map'[c] = map[c]
        /\ drift \subseteq drift'
        /\ "parent unresolved" \notin drift' => (c \in Reported' <=> c \in Reported)
    BY <1>2, HandleSilent
  <2>3. drift' \subseteq {"cleared"} => (c \in Reported' <=> c \in C)
    BY <2>1, <2>2 DEF Agrees
  <2>4. drift' \cap {"missed", "cleared"} = {} => (map'[c] # Unmapped => c \in C)
    BY <2>1, <2>2 DEF Agrees
  <2>5. QED BY <2>3, <2>4 DEF Agrees
<1>3. CASE ~Silent(b, c)
  <2>1. PICK k \in 1..Len(b) : LastIn(b, k, c)
    BY <1>3, LastSays
  <2>2. Says(b[k], c) /\ \A j \in 1..Len(b) : j > k => ~Says(b[j], c)
    BY <2>1 DEF LastIn
  <2>3. c \in C <=> ~Gone(b[k])
    BY <2>1 DEF Right
  <2>4. \A j \in 1..Len(b) : j > k => ~Stores(b[j], c) /\ ~Removes(b[j], c)
    BY <2>2, MovesSay
  <2>5. ASSUME drift' \subseteq {"cleared"}
        PROVE  /\ ~Folded(b) /\ ~\E i \in 1..Len(b) : b[i].kind = "malformed"
               /\ \A x : x \in u.add <=> x \in EngineChains /\ StoredBy(b, Len(b), x)
               /\ RemovedBy(b, Len(b), c) /\ ~StoredBy(b, Len(b), c) => c \in u.remove \/ map[c] = Unmapped
               /\ map[c] = Unmapped => c \notin Reported
    <3>1. ~Folded(b) /\ (~\E i \in 1..Len(b) : b[i].kind = "malformed") /\ ~u.lost
          /\ drift \cap {"parent unresolved", "folded"} = {}
      BY <1>1, <2>5
    <3>2. Clean(map) /\ (c \in Reported => map[c] = c)
      BY <3>1 DEF Books
    <3>3. map[c] = Unmapped => c \notin Reported
      BY <3>2, ChainsTyped
    <3>4. QED BY <1>1, <3>1, <3>2, <3>3 DEF Sums
  <2>6. ASSUME Gone(b[k]), ~Folded(b) PROVE ~StoredBy(b, Len(b), c)
    <3>1. SUFFICES ASSUME NEW i \in 1..Len(b), Stores(b[i], c) PROVE FALSE
      BY DEF StoredBy
    <3>2. Removes(b[k], c) \/ b[k].kind = "cleared"
      BY <2>2, <2>6 DEF Gone, Says, Removes
    <3>3. ~(i < k) /\ ~(i > k)
      BY <2>4, <2>6, <3>1, <3>2, InOrder
    <3>4. i = k
      BY <1>n, <3>3
    <3>5. QED BY <2>6, <3>1, <3>4 DEF Gone, Stores
  <2>7. CASE b[k].kind = "cleared"
    <3>1. c \notin C /\ "cleared" \in drift' /\ Gone(b[k])
      BY <1>1, <2>3, <2>7 DEF Gone
    <3>2. u.clear
      BY <1>1, <2>7 DEF Sums
    <3>3. drift' \subseteq {"cleared"} => c \notin Reported'
      BY <1>1, <2>5, <2>6, <3>1, <3>2
    <3>4. QED BY <3>1, <3>3 DEF Agrees
  <2>8. CASE b[k].kind = "removed" /\ c \in ToSet(b[k].blocks)
    <3>1. c \notin C /\ Gone(b[k]) /\ Removes(b[k], c)
      BY <2>3, <2>8 DEF Gone, Removes
    <3>2. u.map[c] = Unmapped
      BY <1>1, <2>4, <3>1 DEF Sums
    <3>3. RemovedBy(b, Len(b), c)
      BY <3>1 DEF RemovedBy
    <3>4. drift' \subseteq {"cleared"} => c \notin Reported'
      BY <1>1, <2>5, <2>6, <3>1, <3>3
    <3>5. QED BY <1>1, <3>1, <3>2, <3>4 DEF Agrees
  <2>9. CASE b[k].kind = "stored" /\ c \in ToSet(b[k].blocks)
    <3>1. c \in C
      BY <2>3, <2>9 DEF Gone
    <3>2. StoredBy(b, Len(b), c)
      BY <2>9 DEF StoredBy, Stores
    <3>3. drift' \subseteq {"cleared"} => c \in Reported'
      BY <1>1, <2>5, <3>2
    <3>4. QED BY <3>1, <3>3 DEF Agrees
  <2>10. CASE b[k].kind = "malformed"
    <3>1. c \in C
      BY <2>3, <2>10 DEF Gone
    <3>2. "malformed" \in drift'
      BY <1>1, <2>10
    <3>3. QED BY <3>1, <3>2 DEF Agrees
  <2>11. QED BY <2>2, <2>7, <2>8, <2>9, <2>10 DEF Says
<1>4. QED BY <1>2, <1>3

-----------------------------------------------------------------------------
(* Streams of batches.                                                     *)

\* One more event of a batch.
LEMMA SaidMore ==
  ASSUME NEW b \in Batches, NEW e \in Events, NEW c, NEW C, NEW D,
         Right(b, c, C), Says(e, c) => (c \in D <=> ~Gone(e)), ~Says(e, c) => (c \in D <=> c \in C)
  PROVE  /\ Append(b, e) \in Batches
         /\ Right(Append(b, e), c, D)
         /\ Silent(Append(b, e), c) <=> Silent(b, c) /\ ~Says(e, c)
<1> DEFINE a == Append(b, e)
           n == Len(b)
<1>1. a \in Batches /\ Len(a) = n + 1 /\ n \in Nat /\ (\A i \in 1..n : a[i] = b[i]) /\ a[n + 1] = e
  BY AppendProperties, LenProperties DEF Batches
<1>2. \A i : i \in 1..(n + 1) <=> i \in 1..n \/ i = n + 1
  BY <1>1
<1> HIDE DEF a
<1>3. Silent(a, c) <=> Silent(b, c) /\ ~Says(e, c)
  BY <1>1, <1>2 DEF Silent
<1>4. ASSUME NEW k \in 1..Len(a), LastIn(a, k, c) PROVE c \in D <=> ~Gone(a[k])
  <2>1. CASE k = n + 1
    BY <1>1, <1>4, <2>1 DEF LastIn
  <2>2. CASE k # n + 1
    <3>1. k \in 1..n /\ n + 1 \in 1..Len(a) /\ n + 1 > k
      BY <1>1, <2>2
    <3>2. ~Says(e, c)
      BY <1>1, <1>4, <3>1 DEF LastIn
    <3>3. LastIn(b, k, c)
      BY <1>1, <1>2, <1>4, <3>1 DEF LastIn
    <3>4. QED BY <1>1, <3>1, <3>2, <3>3 DEF Right
  <2>3. QED BY <2>1, <2>2
<1>5. Right(a, c, D)
  BY <1>4 DEF Right
<1>6. QED BY <1>1, <1>3, <1>5 DEF a

\* What is right of a set is right of one that has the block just as well.
LEMMA RightAlike ==
  ASSUME NEW s, NEW c, NEW C, NEW D, c \in C <=> c \in D
  PROVE  RightSeq(s, c, C) => RightSeq(s, c, D)
BY DEF RightSeq, Right

\* One more batch of a stream.
LEMMA SentMore ==
  ASSUME NEW s \in Seq(Batches), NEW b \in Batches, NEW c, NEW C,
         Right(b, c, C), Silent(b, c) => RightSeq(s, c, C)
  PROVE  /\ Append(s, b) \in Seq(Batches)
         /\ RightSeq(Append(s, b), c, C)
         /\ SilentSeq(Append(s, b), c) <=> SilentSeq(s, c) /\ Silent(b, c)
<1> DEFINE a == Append(s, b)
           n == Len(s)
<1>1. a \in Seq(Batches) /\ Len(a) = n + 1 /\ n \in Nat /\ (\A i \in 1..n : a[i] = s[i]) /\ a[n + 1] = b
  BY AppendProperties, LenProperties
<1>2. \A i : i \in 1..(n + 1) <=> i \in 1..n \/ i = n + 1
  BY <1>1
<1> HIDE DEF a
<1>3. SilentSeq(a, c) <=> SilentSeq(s, c) /\ Silent(b, c)
  BY <1>1, <1>2 DEF SilentSeq
<1>4. ASSUME NEW j \in 1..Len(a), ~Silent(a[j], c), \A i \in 1..Len(a) : i > j => Silent(a[i], c)
      PROVE  Right(a[j], c, C)
  <2>1. CASE j = n + 1
    BY <1>1, <2>1
  <2>2. CASE j # n + 1
    <3>1. j \in 1..n /\ n + 1 \in 1..Len(a) /\ n + 1 > j
      BY <1>1, <2>2
    <3>2. Silent(b, c)
      BY <1>1, <1>4, <3>1
    <3>3. \A i \in 1..n : i > j => Silent(s[i], c)
      BY <1>1, <1>2, <1>4
    <3>4. QED BY <1>1, <1>4, <3>1, <3>2, <3>3 DEF RightSeq
  <2>3. QED BY <2>1, <2>2
<1>5. RightSeq(a, c, C)
  BY <1>4 DEF RightSeq
<1>6. QED BY <1>1, <1>3, <1>5 DEF a

\* The first batch of a stream, and the others.
LEMMA TakenOne ==
  ASSUME NEW s \in Seq(Batches), s # << >>
  PROVE  /\ Head(s) \in Batches /\ Tail(s) \in Seq(Batches)
         /\ \A t : From(s, t) => From(Tail(s), t) /\ \E i \in 1..Len(t) : Head(s) = t[i]
         /\ \A c : SilentSeq(s, c) <=> Silent(Head(s), c) /\ SilentSeq(Tail(s), c)
         /\ \A c, C : RightSeq(s, c, C) => RightSeq(Tail(s), c, C)
         /\ \A c, C : RightSeq(s, c, C) /\ SilentSeq(Tail(s), c) => Right(Head(s), c, C)
<1> DEFINE t == Tail(s)
           n == Len(s)
<1>1. t \in Seq(Batches) /\ Len(t) = n - 1 /\ n \in Nat /\ n > 0 /\ (\A i \in 1..(n - 1) : t[i] = s[i + 1])
      /\ Head(s) \in Batches
  BY HeadTailProperties, LenProperties, EmptySeq
<1>2. Head(s) = s[1]
  OBVIOUS
<1>3. \A i : i \in 1..n <=> i = 1 \/ (i - 1 \in 1..(n - 1) /\ i \in 1..n)
  BY <1>1
<1>4. \A i \in 1..(n - 1) : i + 1 \in 1..n
  BY <1>1
<1> HIDE DEF t
<1>5. ASSUME NEW r, From(s, r) PROVE From(t, r) /\ \E i \in 1..Len(r) : Head(s) = r[i]
  <2>1. 1 \in 1..n
    BY <1>1
  <2>2. \A j \in 1..n : \E i \in 1..Len(r) : s[j] = r[i]
    BY <1>5 DEF From
  <2>3. \E i \in 1..Len(r) : Head(s) = r[i]
    BY <1>2, <2>1, <2>2
  <2>4. ASSUME NEW j \in 1..Len(t) PROVE \E i \in 1..Len(r) : t[j] = r[i]
    <3>1. j \in 1..(n - 1)
      BY <1>1
    <3>2. j + 1 \in 1..n /\ t[j] = s[j + 1]
      BY <1>1, <1>4, <3>1
    <3>3. QED BY <2>2, <3>2
  <2>5. From(t, r)
    BY <2>4 DEF From
  <2>6. QED BY <2>3, <2>5
<1>6. ASSUME NEW c PROVE SilentSeq(s, c) <=> Silent(Head(s), c) /\ SilentSeq(t, c)
  <2>1. SilentSeq(s, c) => Silent(Head(s), c) /\ SilentSeq(t, c)
    <3>1. 1 \in 1..n
      BY <1>1
    <3>2. QED BY <1>1, <1>2, <1>4, <3>1 DEF SilentSeq
  <2>2. ASSUME Silent(Head(s), c), SilentSeq(t, c), NEW i \in 1..n PROVE Silent(s[i], c)
    <3>1. CASE i = 1
      BY <1>2, <2>2, <3>1
    <3>2. CASE i # 1
      <4>1. i - 1 \in 1..(n - 1) /\ (i - 1) + 1 = i
        BY <1>1, <3>2
      <4>2. QED BY <1>1, <2>2, <4>1 DEF SilentSeq
    <3>3. QED BY <3>1, <3>2
  <2>3. QED BY <2>1, <2>2 DEF SilentSeq
<1>7. ASSUME NEW c, NEW C, RightSeq(s, c, C) PROVE RightSeq(t, c, C)
  <2>1. SUFFICES ASSUME NEW j \in 1..Len(t), ~Silent(t[j], c), \A i \in 1..Len(t) : i > j => Silent(t[i], c)
                 PROVE  Right(t[j], c, C)
    BY DEF RightSeq
  <2>2. j + 1 \in 1..n /\ t[j] = s[j + 1]
    BY <1>1, <1>4
  <2>3. ASSUME NEW i \in 1..n, i > j + 1 PROVE Silent(s[i], c)
    <3>1. i - 1 \in 1..(n - 1) /\ (i - 1) + 1 = i /\ i - 1 > j
      BY <1>1, <2>3
    <3>2. QED BY <1>1, <2>1, <3>1
  <2>4. QED BY <1>7, <2>1, <2>2, <2>3 DEF RightSeq
<1>8. ASSUME NEW c, NEW C, RightSeq(s, c, C), SilentSeq(t, c) PROVE Right(Head(s), c, C)
  <2>1. CASE Silent(Head(s), c)
    BY <2>1 DEF Right, LastIn, Silent
  <2>2. CASE ~Silent(Head(s), c)
    <3>1. 1 \in 1..n
      BY <1>1
    <3>2. ASSUME NEW i \in 1..n, i > 1 PROVE Silent(s[i], c)
      <4>1. i - 1 \in 1..(n - 1) /\ (i - 1) + 1 = i
        BY <1>1, <3>2
      <4>2. QED BY <1>1, <1>8, <4>1 DEF SilentSeq
    <3>3. QED BY <1>2, <1>8, <2>2, <3>1, <3>2 DEF RightSeq
  <2>3. QED BY <2>1, <2>2
<1>9. QED BY <1>1, <1>5, <1>6, <1>7, <1>8 DEF t

\* The last batches of a stream.
LEMMA KeptLast ==
  ASSUME NEW s \in Seq(Batches), NEW m \in 1..(Len(s) + 1), NEW t, t = SubSeq(s, m, Len(s))
  PROVE  /\ t \in Seq(Batches) /\ From(t, s)
         /\ \A c, C : RightSeq(s, c, C) => RightSeq(t, c, C)
<1> DEFINE n == Len(s)
<1>1. n \in Nat /\ m \in Nat /\ m >= 1 /\ m <= n + 1
  BY LenProperties
<1>2. \A i \in m..n : s[i] \in Batches
  BY <1>1, ElementOfSeq
<1>3. t \in Seq(Batches) /\ Len(t) = (IF m <= n THEN n - m + 1 ELSE 0)
      /\ \A i \in 1..(n - m + 1) : t[i] = s[m + i - 1]
  BY <1>1, <1>2, SubSeqProperties
<1>4. Len(t) = n - m + 1
  BY <1>1, <1>3
<1>5. From(t, s)
  <2>1. SUFFICES ASSUME NEW j \in 1..(n - m + 1) PROVE \E i \in 1..n : t[j] = s[i]
    BY <1>4 DEF From
  <2>2. m + j - 1 \in 1..n
    BY <1>1
  <2>3. QED BY <1>3, <2>2
<1>6. ASSUME NEW c, NEW C, RightSeq(s, c, C) PROVE RightSeq(t, c, C)
  <2>1. SUFFICES ASSUME NEW j \in 1..(n - m + 1), ~Silent(t[j], c),
                        \A i \in 1..(n - m + 1) : i > j => Silent(t[i], c)
                 PROVE  Right(t[j], c, C)
    BY <1>4 DEF RightSeq
  <2>2. m + j - 1 \in 1..n /\ t[j] = s[m + j - 1]
    BY <1>1, <1>3
  <2>3. ASSUME NEW i \in 1..n, i > m + j - 1 PROVE Silent(s[i], c)
    <3>1. i - m + 1 \in 1..(n - m + 1) /\ i - m + 1 > j /\ m + (i - m + 1) - 1 = i
      BY <1>1, <2>3
    <3>2. t[i - m + 1] = s[i]
      BY <1>3, <3>1
    <3>3. QED BY <2>1, <3>1, <3>2
  <2>4. QED BY <1>6, <2>1, <2>2, <2>3 DEF RightSeq
<1>7. QED BY <1>3, <1>5, <1>6

\* A stream that goes on is still from where it was.
LEMMA FromMore ==
  ASSUME NEW s \in Seq(Batches), NEW t \in Seq(Batches), NEW b \in Batches, From(s, t)
  PROVE  From(s, Append(t, b)) /\ From(Append(s, b), Append(t, b))
<1>1. Len(Append(t, b)) = Len(t) + 1 /\ Len(t) \in Nat /\ (\A i \in 1..Len(t) : Append(t, b)[i] = t[i])
      /\ Append(t, b)[Len(t) + 1] = b
  BY AppendProperties, LenProperties
<1>2. Len(Append(s, b)) = Len(s) + 1 /\ Len(s) \in Nat /\ (\A i \in 1..Len(s) : Append(s, b)[i] = s[i])
      /\ Append(s, b)[Len(s) + 1] = b
  BY AppendProperties, LenProperties
<1>3. \A i \in 1..Len(t) : i \in 1..(Len(t) + 1)
  BY <1>1
<1>4. Len(t) + 1 \in 1..(Len(t) + 1)
  BY <1>1
<1>5. \A i \in 1..(Len(s) + 1) : i \in 1..Len(s) \/ i = Len(s) + 1
  BY <1>2
<1>6. From(s, Append(t, b))
  BY <1>1, <1>3 DEF From
<1>7. From(Append(s, b), Append(t, b))
  BY <1>1, <1>2, <1>3, <1>4, <1>5, <1>6 DEF From
<1>8. QED BY <1>6, <1>7

\* Of an empty batch or stream nothing is wrong.
LEMMA Nothing ==
  ASSUME NEW c, NEW C
  PROVE  /\ << >> \in Batches /\ << >> \in Seq(Batches)
         /\ Right(<< >>, c, C) /\ Silent(<< >>, c)
         /\ RightSeq(<< >>, c, C) /\ SilentSeq(<< >>, c)
         /\ \A t : From(<< >>, t)
<1>1. Len(<< >>) = 0 /\ << >> \in Batches /\ << >> \in Seq(Batches)
  BY EmptySeq DEF Batches
<1>2. \A i : i \notin 1..0
  OBVIOUS
<1>3. QED BY <1>1, <1>2 DEF Right, Silent, RightSeq, SilentSeq, From

-----------------------------------------------------------------------------
(* The sockets.                                                            *)

\* They are closed at first.
LEMMA SocketsStart ==
  ASSUME EventsInit PROVE Sockets
<1>1. MaxRetries \in Nat
  BY ChainsAssumption
<1>2. QED BY <1>1 DEF EventsInit, Sockets

\* Every step keeps them.
LEMMA SocketsStep ==
  ASSUME Sockets, [EventsNext]_eventsVars PROVE Sockets'
<1>0. MaxRetries \in Nat
  BY ChainsAssumption
<1>s. registered \in 0..3 /\ held \in 0..3 /\ retries \in 0..MaxRetries
  BY DEF Sockets
<1>1. ASSUME NEW e, Emit(e) PROVE Sockets'
  BY <1>1 DEF Emit, transport, Sockets
<1>2. ASSUME NEW c \in EngineChains, EngineStores(c) \/ EngineEvicts(c) \/ EngineOffloads(c) PROVE Sockets'
  BY <1>1, <1>2 DEF EngineStores, EngineEvicts, EngineOffloads
<1>3. CASE EngineResets
  BY <1>1, <1>3 DEF EngineResets
<1>4. CASE Publish
  BY <1>4 DEF Publish, transport, Sockets
<1>5. CASE Spawn
  BY <1>5 DEF Spawn, TaskKeeps, Sockets
<1>6. CASE Connect
  <2>1. open = {} /\ \E s \in 1..3 : s \notin open \cup {held}
    <3>1. open = {}
      BY <1>6 DEF Connect, Sockets
    <3>2. 1 # held \/ 2 # held
      OBVIOUS
    <3>3. QED BY <3>1, <3>2
  <2>2. registered' = CHOOSE s \in 1..3 : s \notin open \cup {held}
    BY <1>6 DEF Connect
  <2>3. registered' \in 1..3
    BY <2>1, <2>2
  <2>4. /\ open' = {registered'} /\ queue' = << >> /\ retries' = 0 /\ pc' \in {"ask", "enter"}
        /\ held' = held /\ frames' = frames /\ stopper' = stopper /\ pc = "connect"
    BY <1>6, <2>1 DEF Connect, TaskKeeps
  <2>5. registered' \in 0..3 /\ registered' # 0
    BY <2>3
  <2>6. QED BY <1>0, <2>4, <2>5 DEF Sockets
<1>7. CASE ConnectFails
  BY <1>7 DEF ConnectFails, CloseSockets, TaskKeeps, Sockets
<1>8. CASE Retry
  <2>1. retries + 1 \in 0..MaxRetries
    BY <1>0, <1>8, <1>s DEF Retry, Sockets
  <2>2. QED BY <1>8, <2>1 DEF Retry, TaskKeeps, Sockets
<1>9. CASE AskReplay
  BY <1>9 DEF AskReplay, TaskKeeps, Sockets
<1>10. CASE ReplayFrame
  BY <1>10 DEF ReplayFrame, TaskKeeps, Sockets
<1>11. CASE ReplayEnds
  BY <1>11 DEF ReplayEnds, TaskKeeps, Sockets
<1>12. CASE ReplayCut
  BY <1>12 DEF ReplayCut, TaskKeeps, Sockets
<1>13. CASE EnterLoop
  <2>1. pc = "enter" /\ held' \in 0..3 /\ (pc' = "receive" => held' # 0) /\ pc' \in {"closing", "receive"}
    BY <1>13 DEF EnterLoop, Sockets
  <2>2. UNCHANGED <<queue, retries, registered, open, frames, stopper>>
    BY <1>13 DEF EnterLoop, TaskKeeps
  <2>3. QED BY <2>1, <2>2 DEF Sockets
<1>14. CASE Receive
  BY <1>14 DEF Receive, TaskKeeps, Sockets
<1>15. CASE ReceiveFails
  BY <1>15 DEF ReceiveFails, CloseSockets, TaskKeeps, Sockets
<1>16. CASE Cancelled
  BY <1>16 DEF Cancelled, Sockets
<1>17. CASE Finish
  BY <1>17 DEF Finish, CloseSockets, TaskKeeps, Sockets
<1>18. CASE StopFlags
  BY <1>18 DEF StopFlags, StopKeeps, Sockets
<1>19. CASE StopCancels
  BY <1>19 DEF StopCancels, StopKeeps, Sockets
<1>20. CASE StopCloses
  BY <1>20 DEF StopCloses, CloseSockets, StopKeeps, Sockets
<1>21. CASE StopDrains
  BY <1>21 DEF StopDrains, StopKeeps, Sockets
<1>22. CASE StopEnds
  BY <1>22 DEF StopEnds, StopKeeps, Sockets
<1>23. CASE UNCHANGED eventsVars
  BY <1>23 DEF eventsVars, transport, Sockets
<1>24. ASSUME NEW c \in EngineChains, Dispatch(c) PROVE Sockets'
  BY <1>24 DEF Dispatch, transport, Sockets
<1>25. QED
  BY <1>2, <1>3, <1>4, <1>5, <1>6, <1>7, <1>8, <1>9, <1>10, <1>11, <1>12, <1>13, <1>14, <1>15,
     <1>16, <1>17, <1>18, <1>19, <1>20, <1>21, <1>22, <1>23, <1>24 DEF EventsNext

-----------------------------------------------------------------------------
(* What the engine says.                                                   *)

\* The beginnings of a sequence.
LEMMA FrontOfPrefix ==
  ASSUME NEW S, NEW c \in Seq(S), NEW n \in Nat, n < Len(c)
  PROVE  Front(SubSeq(c, 1, n + 1)) = SubSeq(c, 1, n)
<1>1. Len(c) \in Nat
  BY LenProperties
<1>2. \A i \in 1..(n + 1) : c[i] \in S
  BY <1>1, ElementOfSeq
<1>3. PICK p : p = SubSeq(c, 1, n + 1)
  OBVIOUS
<1>4. n + 1 \in Int /\ 1 \in Int /\ 1 <= n + 1
  OBVIOUS
<1>5. p \in Seq(S) /\ Len(p) = n + 1 /\ \A i \in 1..(n + 1) : p[i] = c[i]
  <2>1. p \in Seq(S) /\ Len(p) = (IF 1 <= n + 1 THEN n + 1 - 1 + 1 ELSE 0)
        /\ \A i \in 1..(n + 1 - 1 + 1) : p[i] = c[1 + i - 1]
    BY <1>2, <1>3, <1>4, SubSeqProperties
  <2>2. QED BY <2>1, <1>4
<1>6. Front(p) = SubSeq(p, 1, n)
  <2>1. Len(p) - 1 = n
    BY <1>5
  <2>2. QED BY <2>1 DEF Front
<1>7. CASE n = 0
  <2>1. SubSeq(p, 1, n) = << >> /\ SubSeq(c, 1, n) = << >>
    BY <1>7, SubSeqEmpty
  <2>2. QED BY <1>3, <1>6, <2>1
<1>8. CASE n # 0
  <2>1. 1 \in 1..Len(c) /\ n + 1 \in 1..Len(c) /\ 1 \in 1..((n + 1) - 1 + 1) /\ n \in 1..((n + 1) - 1 + 1)
    BY <1>1, <1>8
  <2>2. SubSeq(SubSeq(c, 1, n + 1), 1, n) = SubSeq(c, 1 + 1 - 1, 1 + n - 1)
    BY <2>1, SubSeqOfSubSeq
  <2>3. 1 + 1 - 1 = 1 /\ 1 + n - 1 = n
    OBVIOUS
  <2>4. QED BY <1>3, <1>6, <2>2, <2>3
<1>9. QED BY <1>7, <1>8

\* A shorter beginning is a beginning of a longer one.
LEMMA PrefixesExtend ==
  ASSUME NEW S, NEW c \in Seq(S), NEW n \in Nat, NEW k \in Nat, n < k, k <= Len(c)
  PROVE  Prolongs(SubSeq(c, 1, n), SubSeq(c, 1, k))
<1>1. Len(c) \in Nat
  BY LenProperties
<1>2. \A i \in 1..k : c[i] \in S
  BY <1>1, ElementOfSeq
<1>2b. \A i \in 1..n : c[i] \in S
  BY <1>2
<1>3. Len(SubSeq(c, 1, k)) = k
  <2>1. Len(SubSeq(c, 1, k)) = IF 1 <= k THEN k - 1 + 1 ELSE 0
    BY <1>2, SubSeqProperties
  <2>2. QED BY <2>1
<1>4. Len(SubSeq(c, 1, n)) = n
  <2>1. Len(SubSeq(c, 1, n)) = IF 1 <= n THEN n - 1 + 1 ELSE 0
    BY <1>2b, SubSeqProperties
  <2>2. QED BY <2>1
<1>5. SubSeq(SubSeq(c, 1, k), 1, n) = SubSeq(c, 1, n)
  <2>1. CASE n = 0
    BY <2>1, SubSeqEmpty
  <2>2. CASE n # 0
    <3>1. 1 \in 1..Len(c) /\ k \in 1..Len(c) /\ 1 \in 1..(k - 1 + 1) /\ n \in 1..(k - 1 + 1)
      BY <1>1, <2>2
    <3>2. SubSeq(SubSeq(c, 1, k), 1, n) = SubSeq(c, 1 + 1 - 1, 1 + n - 1)
      BY <3>1, SubSeqOfSubSeq
    <3>3. 1 + 1 - 1 = 1 /\ 1 + n - 1 = n
      OBVIOUS
    <3>4. QED BY <3>2, <3>3
  <2>3. QED BY <2>1, <2>2
<1>6. QED BY <1>3, <1>4, <1>5 DEF Prolongs

\* Chains are closed under their beginnings.
LEMMA PrefixChains ==
  ASSUME NEW c \in EngineChains, NEW k \in 1..Len(c)
  PROVE  SubSeq(c, 1, k) \in EngineChains
<1>1. c \in Seq(Contents) /\ Len(c) \in Nat /\ Len(c) > 0
  BY ChainsTyped
<1> DEFINE n == Len(c) - 1
           B == {i \in 0..n : SubSeq(c, 1, Len(c) - i) \in EngineChains}
<1>2. 0 \in B
  <2>1. Len(c) - 0 = Len(c) /\ 0 \in 0..n
    BY <1>1
  <2>2. SubSeq(c, 1, Len(c)) = c
    BY <1>1, SubSeqFull
  <2>3. QED BY <2>1, <2>2
<1>3. ASSUME NEW i \in 0..(n - 1), i \in B PROVE i + 1 \in B
  <2>1. PICK m : m = Len(c) - (i + 1)
    OBVIOUS
  <2>2. m \in Nat /\ m > 0 /\ m < Len(c) /\ Len(c) - i = m + 1 /\ i + 1 \in 0..n /\ m + 1 \in 1..Len(c)
    BY <1>1, <2>1
  <2>3. SubSeq(c, 1, m + 1) \in EngineChains
    BY <1>3, <2>2
  <2>4. Front(SubSeq(c, 1, m + 1)) = SubSeq(c, 1, m)
    BY <1>1, <2>2, FrontOfPrefix
  <2>5. Len(SubSeq(c, 1, m + 1)) > 1
    <3>1. \A j \in 1..(m + 1) : c[j] \in Contents
      BY <1>1, <2>2, ElementOfSeq
    <3>2. Len(SubSeq(c, 1, m + 1)) = IF 1 <= m + 1 THEN m + 1 - 1 + 1 ELSE 0
      BY <2>2, <3>1, SubSeqProperties
    <3>3. QED BY <2>2, <3>2
  <2>6. SubSeq(c, 1, m) \in EngineChains
    BY <2>3, <2>4, <2>5, ChainsAssumption
  <2>7. QED BY <2>1, <2>2, <2>6
<1>4. \A i \in 0..n : i \in B
  <2>1. n \in Nat
    BY <1>1
  <2> HIDE DEF n, B
  <2>2. QED BY <1>2, <1>3, <2>1, Counted
<1>5. Len(c) - k \in 0..n /\ Len(c) - (Len(c) - k) = k
  BY <1>1
<1>6. SubSeq(c, 1, Len(c) - (Len(c) - k)) \in EngineChains
  BY <1>4, <1>5
<1>7. QED BY <1>5, <1>6

\* An event that is right about what the engine caches then.
Speaks(e) ==
  /\ cached' \subseteq EngineChains
  /\ \A c \in EngineChains : Says(e, c) => (c \in cached' <=> ~Gone(e))
  /\ \A c \in EngineChains : ~Says(e, c) => (c \in cached' <=> c \in cached)

\* Each step of the engine says what it does.
LEMMA EngineSpeaks ==
  ASSUME Streams, EventsNext,
         EngineResets \/ \E c \in EngineChains : EngineStores(c) \/ EngineEvicts(c) \/ EngineOffloads(c)
  PROVE  \E e \in Events : Emit(e) /\ Speaks(e)
<1>0. cached \subseteq EngineChains
  BY DEF Streams
<1>1. ASSUME NEW c \in EngineChains, EngineStores(c) PROVE \E e \in Events : Emit(e) /\ Speaks(e)
  <2>1. PICK n \in 0..(Len(c) - 1), kind \in {"stored", "malformed"} :
          LET missing == [i \in 1..(Len(c) - n) |-> SubSeq(c, 1, n + i)]
          IN  /\ \A i \in 1..Len(c) : SubSeq(c, 1, i) \in cached <=> i <= n
              /\ cached' = cached \cup ToSet(missing)
              /\ Emit([kind |-> kind, blocks |-> missing])
    BY <1>1 DEF EngineStores
  <2> DEFINE missing == [i \in 1..(Len(c) - n) |-> SubSeq(c, 1, n + i)]
             e == [kind |-> kind, blocks |-> missing]
  <2>2. c \in Seq(Contents) /\ Len(c) \in Nat /\ n \in Nat /\ Len(c) - n \in Nat /\ Len(c) - n > 0 /\ n < Len(c)
    BY ChainsTyped
  <2>3. missing \in Seq(EngineChains)
    <3>1. \A i \in 1..(Len(c) - n) : SubSeq(c, 1, n + i) \in EngineChains
      <4>1. SUFFICES ASSUME NEW i \in 1..(Len(c) - n) PROVE SubSeq(c, 1, n + i) \in EngineChains
        OBVIOUS
      <4>2. n + i \in 1..Len(c)
        BY <2>2
      <4>3. QED BY <4>2, PrefixChains
    <3>2. QED BY <2>2, <3>1, IsASeq
  <2>4. Len(missing) = Len(c) - n /\ missing # << >>
    <3>1. DOMAIN missing = 1..(Len(c) - n)
      OBVIOUS
    <3>2. PICK m \in Nat : m = Len(c) - n
      BY <2>2
    <3>3. PICK l \in Nat : l = Len(missing) /\ DOMAIN missing = 1..l
      BY <2>3, LenProperties
    <3>4. l = m
      <4>1. 1..l = 1..m
        BY <3>1, <3>2, <3>3
      <4>2. QED BY ONLY <4>1, l \in Nat, m \in Nat
    <3>5. missing # << >>
      <4>1. Len(missing) # 0
        BY <2>2, <3>2, <3>3, <3>4
      <4>2. Len(<< >>) = 0
        BY EmptySeq
      <4>3. QED BY <4>1, <4>2
    <3>6. QED BY <3>2, <3>3, <3>4, <3>5
  <2>5. \A i \in 1..(Len(c) - n) : missing[i] = SubSeq(c, 1, n + i)
    OBVIOUS
  <2>6. Emit(e) /\ cached' = cached \cup ToSet(missing)
    BY <2>1
  <2> HIDE DEF missing
  <2>7. \A i \in 1..Len(missing) : Prolongs(Front(missing[1]), missing[i])
    <3>1. SUFFICES ASSUME NEW i \in 1..(Len(c) - n) PROVE Prolongs(Front(missing[1]), missing[i])
      BY <2>4
    <3>2. 1 \in 1..(Len(c) - n) /\ n + i \in 1..Len(c) /\ n + 1 \in 1..Len(c)
      BY <2>2
    <3>3. missing[1] = SubSeq(c, 1, n + 1) /\ missing[i] = SubSeq(c, 1, n + i)
      BY <2>5, <3>2
    <3>4. Front(missing[1]) = SubSeq(c, 1, n)
      BY <2>2, <3>2, <3>3, FrontOfPrefix
    <3>5. n + i \in Nat /\ n < n + i /\ n + i <= Len(c)
      BY <2>2, <3>2
    <3>6. Prolongs(SubSeq(c, 1, n), SubSeq(c, 1, n + i))
      BY <2>2, <3>5, PrefixesExtend
    <3>7. QED BY <3>3, <3>4, <3>6
  <2>8. e \in Events
    BY <2>3, <2>4, <2>7 DEF Events, Kinds
  <2>9. ToSet(missing) = {missing[i] : i \in 1..Len(missing)} /\ ToSet(missing) \subseteq EngineChains
    BY <2>3, AsSet
  <2>10. ~Gone(e) /\ \A d : Says(e, d) <=> d \in ToSet(missing)
    BY DEF Gone, Says
  <2>11. Speaks(e)
    <3> HIDE DEF e
    <3>1. QED BY <1>0, <2>6, <2>9, <2>10 DEF Speaks
  <2>12. QED BY <2>6, <2>8, <2>11
<1>2. ASSUME NEW c \in EngineChains, EngineEvicts(c) PROVE \E e \in Events : Emit(e) /\ Speaks(e)
  <2> DEFINE e == [kind |-> "removed", blocks |-> <<c>>]
  <2>1. e \in Events
    BY DEF Events, Kinds
  <2>2. Emit(e) /\ cached' = cached \ {c}
    BY <1>2 DEF EngineEvicts
  <2>3. ToSet(e.blocks) = {c}
    BY DEF ToSet
  <2>4. Gone(e) /\ \A d : Says(e, d) <=> d = c
    BY <2>3 DEF Gone, Says
  <2> HIDE DEF e
  <2>5. Speaks(e)
    BY <1>0, <2>2, <2>4 DEF Speaks
  <2>6. QED BY <2>1, <2>2, <2>5
<1>3. ASSUME NEW c \in EngineChains, EngineOffloads(c) PROVE \E e \in Events : Emit(e) /\ Speaks(e)
  <2> DEFINE e == [kind |-> "other medium", blocks |-> <<c>>]
  <2>0. "other medium" # "stored" /\ <<c>> \in Seq(EngineChains) /\ "other medium" \in Kinds
    BY DEF Kinds
  <2>1. e \in Events
    BY <2>0 DEF Events
  <2>2. Emit(e) /\ cached' = cached
    BY <1>3 DEF EngineOffloads
  <2>3. \A d : ~Says(e, d)
    BY DEF Says
  <2> HIDE DEF e
  <2>4. Speaks(e)
    BY <1>0, <2>2, <2>3 DEF Speaks
  <2>5. QED BY <2>1, <2>2, <2>4
<1>4. CASE EngineResets
  <2> DEFINE e == [kind |-> "cleared", blocks |-> << >>]
  <2>1. e \in Events
    BY EmptySeq DEF Events, Kinds
  <2>2. Emit(e) /\ cached' = {}
    BY <1>4 DEF EngineResets
  <2>3. Gone(e) /\ \A d : Says(e, d)
    BY DEF Gone, Says
  <2> HIDE DEF e
  <2>4. Speaks(e)
    BY <2>2, <2>3 DEF Speaks
  <2>5. QED BY <2>1, <2>2, <2>4
<1>5. QED BY <1>1, <1>2, <1>3, <1>4

-----------------------------------------------------------------------------
(* The streams and the books.                                              *)

\* At first nothing was said.
LEMMA FollowingStart ==
  ASSUME EventsInit PROVE Following
<1>1. /\ cached = {} /\ pending = << >> /\ published = << >> /\ queue = << >> /\ frames = << >>
      /\ map = [c \in EngineChains |-> Unmapped] /\ Reported = {} /\ drift = {} /\ registered = 0
  BY DEF EventsInit, Reported
<1>2. \A c : /\ << >> \in Batches /\ << >> \in Seq(Batches)
             /\ Right(<< >>, c, {}) /\ Silent(<< >>, c)
             /\ RightSeq(<< >>, c, {}) /\ SilentSeq(<< >>, c)
             /\ \A t : From(<< >>, t)
  BY Nothing
<1>3. Streams
  BY <1>1, <1>2 DEF Streams
<1>4. map \in [EngineChains -> ChainBlocks \cup {Unmapped}] /\ \A c \in EngineChains : map[c] = Unmapped
  BY <1>1
<1>5. Books
  BY <1>1, <1>4 DEF Books, Maps, Clean
<1>6. Told
  BY <1>1, <1>2, <1>4 DEF Told
<1>7. Subscribed
  BY <1>1, <1>2 DEF Subscribed
<1>8. Follow
  BY <1>1 DEF Follow
<1>9. QED BY <1>3, <1>5, <1>6, <1>7, <1>8 DEF Following

\* An event of the engine.
LEMMA FollowingEvent ==
  ASSUME Following, NEW e \in Events, Emit(e), Speaks(e)
  PROVE  Following'
<1>1. /\ pending' = Append(pending, e)
      /\ UNCHANGED <<published, queue, frames, map, Reported, drift, registered, pc>>
  BY DEF Emit, transport, books, Reported
<1>2. pending \in Batches /\ cached' \subseteq EngineChains
  BY DEF Following, Streams, Speaks
<1>3. \A c \in EngineChains : /\ Says(e, c) => (c \in cached' <=> ~Gone(e))
                              /\ ~Says(e, c) => (c \in cached' <=> c \in cached)
  BY DEF Speaks
<1>4. \A c \in EngineChains : /\ pending' \in Batches
                              /\ Right(pending', c, cached')
                              /\ Silent(pending', c) <=> Silent(pending, c) /\ ~Says(e, c)
  <2>1. SUFFICES ASSUME NEW c \in EngineChains
                 PROVE  /\ pending' \in Batches
                        /\ Right(pending', c, cached')
                        /\ Silent(pending', c) <=> Silent(pending, c) /\ ~Says(e, c)
    OBVIOUS
  <2>2. Right(pending, c, cached)
    BY DEF Following, Told
  <2>3. PICK D : D = cached'
    OBVIOUS
  <2>4. Says(e, c) => (c \in D <=> ~Gone(e))
    BY <1>3, <2>3
  <2>5. ~Says(e, c) => (c \in D <=> c \in cached)
    BY <1>3, <2>3
  <2>6. /\ Append(pending, e) \in Batches
        /\ Right(Append(pending, e), c, D)
        /\ Silent(Append(pending, e), c) <=> Silent(pending, c) /\ ~Says(e, c)
    BY <1>2, <2>2, <2>4, <2>5, SaidMore
  <2>7. QED BY <1>1, <2>3, <2>6
<1>5. pending' \in Batches
  <2>1. Append(pending, e) \in Batches
    BY <1>2, AppendProperties DEF Batches
  <2>2. QED BY <1>1, <2>1
<1>6. ASSUME NEW c \in EngineChains, Silent(pending', c)
      PROVE  Silent(pending, c) /\ (c \in cached <=> c \in cached')
             /\ \A s : RightSeq(s, c, cached) => RightSeq(s, c, cached')
  <2>1. Silent(pending, c) /\ (c \in cached <=> c \in cached')
    BY <1>3, <1>4, <1>6
  <2>2. PICK D : D = cached'
    OBVIOUS
  <2>3. \A s : RightSeq(s, c, cached) => RightSeq(s, c, D)
    BY <2>1, <2>2, RightAlike
  <2>4. QED BY <2>1, <2>2, <2>3
<1>7. Streams'
  BY <1>1, <1>2, <1>5 DEF Following, Streams
<1>8. Books'
  BY <1>1 DEF Following, Books
<1>9. Told'
  <2>1. ASSUME NEW c \in EngineChains, Silent(pending', c)
        PROVE  /\ RightSeq(published', c, cached')
               /\ SilentSeq(published', c) =>
                    /\ c \notin cached' /\ map'[c] = Unmapped
                    /\ "parent unresolved" \notin drift' => c \notin Reported'
    <3>1. /\ RightSeq(published, c, cached)
          /\ SilentSeq(published, c) =>
               /\ c \notin cached /\ map[c] = Unmapped
               /\ "parent unresolved" \notin drift => c \notin Reported
      BY <1>6, <2>1 DEF Following, Told
    <3>2. QED BY <1>1, <1>6, <2>1, <3>1
  <2>2. QED BY <1>4, <2>1 DEF Told
<1>10. Subscribed'
  BY <1>1, <1>6 DEF Following, Subscribed
<1>11. Follow'
  <2>1. ASSUME registered' # 0, pc' \in {"replay", "enter", "receive"}, NEW c \in EngineChains,
               Silent(pending', c), SilentSeq(queue', c)
        PROVE  /\ RightSeq(frames', c, cached')
               /\ SilentSeq(frames', c) => Agrees(c, cached', map', Reported', drift')
    <3>1. /\ RightSeq(frames, c, cached)
          /\ SilentSeq(frames, c) => Agrees(c, cached, map, Reported, drift)
      BY <1>1, <1>6, <2>1 DEF Following, Follow
    <3>2. c \in cached <=> c \in cached'
      BY <1>6, <2>1
    <3>3. Agrees(c, cached, map, Reported, drift) => Agrees(c, cached', map', Reported', drift')
      BY <1>1, <3>2 DEF Agrees
    <3>4. QED BY <1>1, <1>6, <2>1, <3>1, <3>3
  <2>2. QED BY <2>1 DEF Follow
<1>12. QED BY <1>7, <1>8, <1>9, <1>10, <1>11 DEF Following

\* A batch goes out.
LEMMA FollowingPublish ==
  ASSUME Sockets, Following, Publish
  PROVE  Following'
<1>1. /\ published' = Append(published, pending) /\ pending' = << >>
      /\ queue' = IF registered \in open THEN Append(queue, pending) ELSE queue
      /\ UNCHANGED <<cached, frames, map, Reported, drift, registered, pc>>
  BY DEF Publish, transport, books, Reported
<1>2. /\ pending \in Batches /\ published \in Seq(Batches) /\ queue \in Seq(Batches) /\ frames \in Seq(Batches)
      /\ From(queue, published) /\ From(frames, published) /\ cached \subseteq EngineChains
  BY DEF Following, Streams
<1>3. \A c \in EngineChains : Right(pending, c, cached) /\ (Silent(pending, c) => RightSeq(published, c, cached))
  BY DEF Following, Told
<1>4. \A c \in EngineChains :
        /\ RightSeq(published', c, cached')
        /\ SilentSeq(published', c) <=> SilentSeq(published, c) /\ Silent(pending, c)
  <2>1. \A c \in EngineChains :
          /\ RightSeq(Append(published, pending), c, cached)
          /\ SilentSeq(Append(published, pending), c) <=> SilentSeq(published, c) /\ Silent(pending, c)
    BY <1>2, <1>3, SentMore
  <2>2. QED BY <1>1, <2>1
<1>5. published' \in Seq(Batches) /\ From(queue, published') /\ From(frames, published')
      /\ From(Append(queue, pending), published') /\ Append(queue, pending) \in Seq(Batches)
  <2>1. Append(published, pending) \in Seq(Batches) /\ Append(queue, pending) \in Seq(Batches)
    BY <1>2, AppendProperties
  <2>2. From(queue, Append(published, pending)) /\ From(Append(queue, pending), Append(published, pending))
    BY <1>2, FromMore
  <2>3. From(frames, Append(published, pending))
    BY <1>2, FromMore
  <2>4. QED BY <1>1, <2>1, <2>2, <2>3
<1>6. \A c \in EngineChains :
        /\ RightSeq(queue', c, cached')
        /\ registered # 0 => (SilentSeq(queue', c) <=> SilentSeq(queue, c) /\ Silent(pending, c))
  <2>1. SUFFICES ASSUME NEW c \in EngineChains
                 PROVE  /\ RightSeq(queue', c, cached')
                        /\ registered # 0 => (SilentSeq(queue', c) <=> SilentSeq(queue, c) /\ Silent(pending, c))
    OBVIOUS
  <2>2. CASE registered = 0
    <3>1. queue' = << >>
      BY <1>1, <2>2 DEF Sockets
    <3>2. RightSeq(<< >>, c, cached)
      BY Nothing
    <3>3. QED BY <1>1, <2>2, <3>1, <3>2
  <2>3. CASE registered # 0
    <3>1. queue' = Append(queue, pending)
      BY <1>1, <2>3 DEF Sockets
    <3>2. Right(pending, c, cached) /\ (Silent(pending, c) => RightSeq(queue, c, cached))
      BY <1>3 DEF Following, Subscribed
    <3>3. /\ RightSeq(Append(queue, pending), c, cached)
          /\ SilentSeq(Append(queue, pending), c) <=> SilentSeq(queue, c) /\ Silent(pending, c)
      BY <1>2, <3>2, SentMore
    <3>4. QED BY <1>1, <3>1, <3>3
  <2>4. QED BY <2>2, <2>3
<1>7. \A c \in EngineChains : << >> \in Batches /\ Right(<< >>, c, cached)
  BY Nothing
<1>8. Streams'
  <2>1. pending' \in Batches
    BY <1>1, Nothing
  <2>2. queue' \in Seq(Batches) /\ From(queue', published')
    BY <1>1, <1>2, <1>5
  <2>3. From(frames', published')
    BY <1>1, <1>5
  <2>4. QED BY <1>1, <1>2, <1>5, <2>1, <2>2, <2>3 DEF Streams
<1>9. Books'
  BY <1>1 DEF Following, Books
<1>10. Told'
  <2>1. ASSUME NEW c \in EngineChains
        PROVE  /\ Right(pending', c, cached')
               /\ RightSeq(published', c, cached')
               /\ SilentSeq(published', c) =>
                    /\ c \notin cached' /\ map'[c] = Unmapped
                    /\ "parent unresolved" \notin drift' => c \notin Reported'
    <3>1. Silent(pending, c) /\ SilentSeq(published, c) =>
            /\ c \notin cached /\ map[c] = Unmapped
            /\ "parent unresolved" \notin drift => c \notin Reported
      BY DEF Following, Told
    <3>2. QED BY <1>1, <1>4, <1>7, <3>1
  <2>2. QED BY <2>1 DEF Told
<1>11. Subscribed'
  BY <1>6 DEF Subscribed
<1>12. Follow'
  <2>1. ASSUME registered' # 0, pc' \in {"replay", "enter", "receive"}, NEW c \in EngineChains,
               SilentSeq(queue', c)
        PROVE  /\ RightSeq(frames', c, cached')
               /\ SilentSeq(frames', c) => Agrees(c, cached', map', Reported', drift')
    <3>1. Silent(pending, c) /\ SilentSeq(queue, c)
      BY <1>1, <1>6, <2>1
    <3>2. /\ RightSeq(frames, c, cached)
          /\ SilentSeq(frames, c) => Agrees(c, cached, map, Reported, drift)
      BY <1>1, <2>1, <3>1 DEF Following, Follow
    <3>3. QED BY <1>1, <3>2
  <2>2. QED BY <2>1 DEF Follow
<1>13. QED BY <1>8, <1>9, <1>10, <1>11, <1>12 DEF Following

\* A step that only moves the task on.
LEMMA FollowingQuiet ==
  ASSUME Following, UNCHANGED <<cached, pending, published, queue, frames, map, Reported, drift, registered>>,
         pc' \in Fed => pc \in Fed
  PROVE  Following'
<1>1. Streams'
  BY DEF Following, Streams
<1>2. Books'
  BY DEF Following, Books
<1>3. Told'
  BY DEF Following, Told
<1>4. Subscribed'
  BY DEF Following, Subscribed
<1>5. Follow'
  BY DEF Following, Follow, Fed
<1>6. QED BY <1>1, <1>2, <1>3, <1>4, <1>5 DEF Following

\* The sockets are closed.
LEMMA FollowingClosed ==
  ASSUME Following, UNCHANGED <<cached, pending, published, frames, map, Reported, drift>>, CloseSockets
  PROVE  Following'
<1>0. queue' = << >> /\ registered' = 0
  BY DEF CloseSockets
<1>1. Streams'
  <2>1. queue' \in Seq(Batches) /\ From(queue', published')
    BY <1>0, Nothing
  <2>2. QED BY <2>1 DEF Following, Streams
<1>2. Books'
  BY DEF Following, Books
<1>3. Told'
  BY DEF Following, Told
<1>4. Subscribed'
  <2>1. \A c \in EngineChains : RightSeq(queue', c, cached')
    BY <1>0, Nothing
  <2>2. QED BY <2>1 DEF Subscribed
<1>5. Follow'
  BY <1>0 DEF Follow
<1>6. QED BY <1>1, <1>2, <1>3, <1>4, <1>5 DEF Following

\* Batches that were missed at most: the books stay, and promise no more.
MissedOnly == drift \subseteq drift' /\ drift' \subseteq drift \cup {"missed"}

\* The books and what was told stay sound when batches are missed.
LEMMA FollowingMissed ==
  ASSUME Following, UNCHANGED <<map, Reported, cached, pending, published>>, MissedOnly
  PROVE  Books' /\ Told'
<1>1. "parent unresolved" \in drift' <=> "parent unresolved" \in drift
  BY DEF MissedOnly
<1>2. drift' \cap {"parent unresolved", "folded"} = {} => drift \cap {"parent unresolved", "folded"} = {}
  BY DEF MissedOnly
<1>3. Books'
  BY <1>1, <1>2 DEF Following, Books
<1>4. Told'
  BY <1>1 DEF Following, Told
<1>5. QED BY <1>3, <1>4

\* Where nothing was said, the books agree, or something was missed.
LEMMA AgreeUnsaid ==
  ASSUME Following, MissedOnly, NEW c \in EngineChains, Silent(pending, c),
         SilentSeq(published, c) \/ "missed" \in drift'
  PROVE  Agrees(c, cached, map, Reported, drift')
<1>1. CASE "missed" \in drift'
  BY <1>1 DEF Agrees
<1>2. CASE SilentSeq(published, c)
  <2>1. /\ c \notin cached /\ map[c] = Unmapped
        /\ "parent unresolved" \notin drift => c \notin Reported
    BY <1>2 DEF Following, Told
  <2>2. drift' \subseteq {"cleared"} => "parent unresolved" \notin drift
    BY DEF MissedOnly
  <2>3. QED BY <2>1, <2>2 DEF Agrees
<1>3. QED BY <1>1, <1>2

\* A connection without a replay misses what was published before it.
LEMMA FollowingConnect ==
  ASSUME Sockets, Following, Connect
  PROVE  Following'
<1>1. /\ queue' = << >> /\ frames' = frames /\ frames = << >>
      /\ UNCHANGED <<map, Reported, cached, pending, published>>
      /\ MissedOnly /\ (pc' = "enter" => published = << >> \/ "missed" \in drift')
      /\ pc' \in {"ask", "enter"}
  BY DEF Connect, TaskKeeps, engine, books, Reported, Sockets, MissedOnly
<1>2. Books' /\ Told'
  BY <1>1, FollowingMissed
<1>3. Streams'
  <2>1. queue' \in Seq(Batches) /\ From(queue', published')
    BY <1>1, Nothing
  <2>2. QED BY <1>1, <2>1 DEF Following, Streams
<1>4. Subscribed'
  <2>1. \A c \in EngineChains : RightSeq(queue', c, cached')
    BY <1>1, Nothing
  <2>2. QED BY <2>1 DEF Subscribed
<1>5. Follow'
  <2>1. ASSUME pc' \in {"replay", "enter", "receive"}, NEW c \in EngineChains, Silent(pending', c)
        PROVE  RightSeq(frames', c, cached') /\ Agrees(c, cached', map', Reported', drift')
    <3>1. RightSeq(<< >>, c, cached) /\ SilentSeq(<< >>, c)
      BY Nothing
    <3>2. Silent(pending, c) /\ (published = << >> \/ "missed" \in drift')
      BY <1>1, <2>1
    <3>3. Agrees(c, cached, map, Reported, drift')
      BY <1>1, <3>1, <3>2, AgreeUnsaid
    <3>4. QED BY <1>1, <3>1, <3>3
  <2>2. QED BY <2>1 DEF Follow
<1>6. QED BY <1>2, <1>3, <1>4, <1>5 DEF Following

\* A replay that is cut misses what was published.
LEMMA FollowingCut ==
  ASSUME Following, ReplayCut
  PROVE  Following'
<1>1. /\ frames' = << >>
      /\ UNCHANGED <<map, Reported, cached, pending, published, queue, registered>>
      /\ MissedOnly /\ (published = << >> \/ "missed" \in drift')
  BY DEF ReplayCut, TaskKeeps, engine, books, Reported, MissedOnly
<1>2. Books' /\ Told'
  BY <1>1, FollowingMissed
<1>3. Streams'
  <2>1. frames' \in Seq(Batches) /\ From(frames', published')
    BY <1>1, Nothing
  <2>2. QED BY <1>1, <2>1 DEF Following, Streams
<1>4. Subscribed'
  BY <1>1 DEF Following, Subscribed
<1>5. Follow'
  <2>1. ASSUME NEW c \in EngineChains, Silent(pending', c)
        PROVE  RightSeq(frames', c, cached') /\ Agrees(c, cached', map', Reported', drift')
    <3>1. RightSeq(<< >>, c, cached) /\ SilentSeq(<< >>, c)
      BY Nothing
    <3>2. Silent(pending, c)
      BY <1>1, <2>1
    <3>3. Agrees(c, cached, map, Reported, drift')
      BY <1>1, <3>1, <3>2, AgreeUnsaid
    <3>4. QED BY <1>1, <3>1, <3>3
  <2>2. QED BY <2>1 DEF Follow
<1>6. QED BY <1>2, <1>3, <1>4, <1>5 DEF Following

\* The replay begins with what is retained.
LEMMA FollowingAsk ==
  ASSUME Following, AskReplay
  PROVE  Following'
<1>0. Retained \in Nat
  BY ChainsAssumption
<1>p. published \in Seq(Batches) /\ Len(published) \in Nat
  BY LenProperties DEF Following, Streams
<1>1. PICK m : m = 1 + (IF Len(published) > Retained THEN Len(published) - Retained ELSE 0)
  OBVIOUS
<1>2. /\ frames' = SubSeq(published, m, Len(published))
      /\ UNCHANGED <<map, Reported, cached, pending, published, queue, registered>>
      /\ MissedOnly /\ (~(Len(published) > Retained) \/ "missed" \in drift')
  BY <1>1 DEF AskReplay, TaskKeeps, engine, books, Reported, MissedOnly
<1>3. m \in 1..(Len(published) + 1)
  BY <1>0, <1>p, <1>1
<1>4. /\ frames' \in Seq(Batches) /\ From(frames', published)
      /\ \A c, C : RightSeq(published, c, C) => RightSeq(frames', c, C)
  BY <1>p, <1>2, <1>3, KeptLast
<1>5. ~(Len(published) > Retained) => frames' = published
  <2>1. SUFFICES ASSUME ~(Len(published) > Retained) PROVE frames' = published
    OBVIOUS
  <2>2. m = 1
    BY <1>1, <2>1
  <2>3. QED BY <1>p, <1>2, <2>2, SubSeqFull
<1>6. Books' /\ Told'
  BY <1>2, FollowingMissed
<1>7. Streams'
  BY <1>2, <1>4 DEF Following, Streams
<1>8. Subscribed'
  BY <1>2 DEF Following, Subscribed
<1>9. Follow'
  <2>1. ASSUME NEW c \in EngineChains, Silent(pending', c)
        PROVE  /\ RightSeq(frames', c, cached')
               /\ SilentSeq(frames', c) => Agrees(c, cached', map', Reported', drift')
    <3>1. Silent(pending, c)
      BY <1>2, <2>1
    <3>2. RightSeq(published, c, cached)
      BY <3>1 DEF Following, Told
    <3>3. RightSeq(frames', c, cached)
      BY <1>4, <3>2
    <3>4. ASSUME SilentSeq(frames', c) PROVE Agrees(c, cached, map, Reported, drift')
      <4>1. SilentSeq(published, c) \/ "missed" \in drift'
        BY <1>2, <1>5, <3>4
      <4>2. QED BY <1>2, <3>1, <4>1, AgreeUnsaid
    <3>5. QED BY <1>2, <3>3, <3>4
  <2>2. QED BY <2>1 DEF Follow
<1>10. QED BY <1>6, <1>7, <1>8, <1>9 DEF Following

\* A batch that was published leaves alone what was never spoken of.
LEMMA ToldHandled ==
  ASSUME Following, NEW b \in Batches, NEW i \in 1..Len(published), b = published[i], Handle(b),
         UNCHANGED <<cached, pending, published>>
  PROVE  Told'
<1>1. ASSUME NEW c \in EngineChains
      PROVE  /\ Right(pending', c, cached')
             /\ Silent(pending', c) =>
                  /\ RightSeq(published', c, cached')
                  /\ SilentSeq(published', c) =>
                       /\ c \notin cached' /\ map'[c] = Unmapped
                       /\ "parent unresolved" \notin drift' => c \notin Reported'
  <2>1. /\ Right(pending, c, cached)
        /\ Silent(pending, c) =>
             /\ RightSeq(published, c, cached)
             /\ SilentSeq(published, c) =>
                  /\ c \notin cached /\ map[c] = Unmapped
                  /\ "parent unresolved" \notin drift => c \notin Reported
    BY DEF Following, Told
  <2>2. SilentSeq(published, c) => Silent(b, c)
    BY DEF SilentSeq
  <2>3. Silent(b, c) => /\ map'[c] = map[c]
                        /\ drift \subseteq drift'
                        /\ "parent unresolved" \notin drift' => (c \in Reported' <=> c \in Reported)
    BY HandleSilent DEF Following
  <2>4. QED BY <2>1, <2>2, <2>3
<1>2. QED BY <1>1 DEF Told

\* A frame of the replay is handled.
LEMMA FollowingFrame ==
  ASSUME Following, ReplayFrame
  PROVE  Following'
<1>1. /\ frames # << >> /\ Handle(Head(frames)) /\ frames' = Tail(frames)
      /\ UNCHANGED <<cached, pending, published, queue, registered, pc>>
      /\ pc = "replay"
  BY DEF ReplayFrame, TaskKeeps, engine
<1>2. frames \in Seq(Batches) /\ From(frames, published) /\ Books
  BY DEF Following, Streams
<1>3. PICK b : b = Head(frames)
  OBVIOUS
<1>4. PICK t : t = Tail(frames)
  OBVIOUS
<1>5. /\ b \in Batches /\ t \in Seq(Batches)
      /\ From(t, published) /\ \E i \in 1..Len(published) : b = published[i]
      /\ \A c : SilentSeq(frames, c) <=> Silent(b, c) /\ SilentSeq(t, c)
      /\ \A c, C : RightSeq(frames, c, C) => RightSeq(t, c, C)
      /\ \A c, C : RightSeq(frames, c, C) /\ SilentSeq(t, c) => Right(b, c, C)
  BY <1>1, <1>2, <1>3, <1>4, TakenOne
<1>6. Handle(b) /\ frames' = t
  BY <1>1, <1>3, <1>4
<1>7. Books'
  BY <1>2, <1>5, <1>6, HandleKeepsBooks
<1>8. Told'
  BY <1>1, <1>5, <1>6, ToldHandled
<1>9. Streams'
  BY <1>1, <1>5, <1>6 DEF Following, Streams
<1>10. Subscribed'
  BY <1>1 DEF Following, Subscribed
<1>11. Follow'
  <2>1. ASSUME registered' # 0, NEW c \in EngineChains, Silent(pending', c), SilentSeq(queue', c)
        PROVE  /\ RightSeq(frames', c, cached')
               /\ SilentSeq(frames', c) => Agrees(c, cached', map', Reported', drift')
    <3>1. /\ RightSeq(frames, c, cached)
          /\ SilentSeq(frames, c) => Agrees(c, cached, map, Reported, drift)
      BY <1>1, <2>1 DEF Following, Follow
    <3>2. RightSeq(t, c, cached)
      BY <1>5, <3>1
    <3>3. ASSUME SilentSeq(t, c) PROVE Agrees(c, cached, map', Reported', drift')
      <4>1. Right(b, c, cached)
        BY <1>5, <3>1, <3>3
      <4>2. Silent(b, c) => Agrees(c, cached, map, Reported, drift)
        BY <1>5, <3>1, <3>3
      <4>3. QED BY <1>2, <1>5, <1>6, <4>1, <4>2, HandleAgree
    <3>4. QED BY <1>1, <1>6, <3>2, <3>3
  <2>2. QED BY <2>1 DEF Follow
<1>12. QED BY <1>7, <1>8, <1>9, <1>10, <1>11 DEF Following

\* A batch of the subscription is handled.
LEMMA FollowingReceive ==
  ASSUME Sockets, Following, Receive
  PROVE  Following'
<1>1. /\ queue # << >> /\ Handle(Head(queue)) /\ queue' = Tail(queue)
      /\ UNCHANGED <<cached, pending, published, frames, registered>>
      /\ pc = "receive" /\ frames = << >>
  BY DEF Receive, TaskKeeps, engine, Sockets
<1>2. queue \in Seq(Batches) /\ From(queue, published) /\ Books
  BY DEF Following, Streams
<1>3. PICK b : b = Head(queue)
  OBVIOUS
<1>4. PICK t : t = Tail(queue)
  OBVIOUS
<1>5. /\ b \in Batches /\ t \in Seq(Batches)
      /\ From(t, published) /\ \E i \in 1..Len(published) : b = published[i]
      /\ \A c : SilentSeq(queue, c) <=> Silent(b, c) /\ SilentSeq(t, c)
      /\ \A c, C : RightSeq(queue, c, C) => RightSeq(t, c, C)
      /\ \A c, C : RightSeq(queue, c, C) /\ SilentSeq(t, c) => Right(b, c, C)
  BY <1>1, <1>2, <1>3, <1>4, TakenOne
<1>6. Handle(b) /\ queue' = t
  BY <1>1, <1>3, <1>4
<1>7. Books'
  BY <1>2, <1>5, <1>6, HandleKeepsBooks
<1>8. Told'
  BY <1>1, <1>5, <1>6, ToldHandled
<1>9. Streams'
  BY <1>1, <1>5, <1>6 DEF Following, Streams
<1>10. Subscribed'
  <2>1. ASSUME NEW c \in EngineChains, Silent(pending', c) PROVE RightSeq(queue', c, cached')
    <3>1. RightSeq(queue, c, cached)
      BY <1>1, <2>1 DEF Following, Subscribed
    <3>2. QED BY <1>1, <1>5, <1>6, <3>1
  <2>2. QED BY <2>1 DEF Subscribed
<1>11. Follow'
  <2>1. ASSUME registered' # 0, NEW c \in EngineChains, Silent(pending', c), SilentSeq(queue', c)
        PROVE  RightSeq(frames', c, cached') /\ Agrees(c, cached', map', Reported', drift')
    <3>1. Silent(pending, c) /\ registered # 0 /\ SilentSeq(t, c)
      BY <1>1, <1>6, <2>1
    <3>2. RightSeq(queue, c, cached)
      BY <3>1 DEF Following, Subscribed
    <3>3. Right(b, c, cached)
      BY <1>5, <3>1, <3>2
    <3>4. RightSeq(<< >>, c, cached) /\ SilentSeq(<< >>, c)
      BY Nothing
    <3>5. ASSUME Silent(b, c) PROVE Agrees(c, cached, map, Reported, drift)
      <4>1. SilentSeq(queue, c)
        BY <1>5, <3>1, <3>5
      <4>2. SilentSeq(frames, c)
        BY <1>1, <3>4
      <4>3. QED BY <1>1, <3>1, <4>1, <4>2 DEF Following, Follow
    <3>6. Agrees(c, cached, map', Reported', drift')
      BY <1>2, <1>5, <1>6, <3>3, <3>5, HandleAgree
    <3>7. QED BY <1>1, <3>4, <3>6
  <2>2. QED BY <2>1 DEF Follow
<1>12. QED BY <1>7, <1>8, <1>9, <1>10, <1>11 DEF Following

-----------------------------------------------------------------------------
(* The theorems.                                                           *)

\* Every step keeps the streams and the books.
LEMMA FollowingStep ==
  ASSUME Sockets, Following, [EventsNext]_eventsVars
  PROVE  Following'
<1> USE DEF Fed
<1>1. CASE EventsNext /\ (EngineResets \/ \E c \in EngineChains : EngineStores(c) \/ EngineEvicts(c) \/ EngineOffloads(c))
  <2>1. Streams
    BY DEF Following
  <2>2. PICK e \in Events : Emit(e) /\ Speaks(e)
    BY <1>1, <2>1, EngineSpeaks
  <2>3. QED BY <2>2, FollowingEvent
<1>2. CASE Publish
  BY <1>2, FollowingPublish
<1>3. CASE Spawn
  <2>1. UNCHANGED <<cached, pending, published, queue, frames, map, Reported, drift, registered>> /\ pc' = "connect"
    BY <1>3 DEF Spawn, TaskKeeps, engine, books, Reported
  <2>2. QED BY <2>1, FollowingQuiet
<1>4. CASE Connect
  BY <1>4, FollowingConnect
<1>5. CASE ConnectFails
  <2>1. UNCHANGED <<cached, pending, published, frames, map, Reported, drift>> /\ CloseSockets
    BY <1>5 DEF ConnectFails, TaskKeeps, engine, books, Reported
  <2>2. QED BY <2>1, FollowingClosed
<1>6. CASE Retry
  <2>1. UNCHANGED <<cached, pending, published, queue, frames, map, Reported, drift, registered>> /\ pc' = "connect"
    BY <1>6 DEF Retry, TaskKeeps, engine, books, Reported
  <2>2. QED BY <2>1, FollowingQuiet
<1>7. CASE AskReplay
  BY <1>7, FollowingAsk
<1>8. CASE ReplayFrame
  BY <1>8, FollowingFrame
<1>9. CASE ReplayEnds
  <2>1. UNCHANGED <<cached, pending, published, queue, frames, map, Reported, drift, registered>> /\ pc = "replay"
    BY <1>9 DEF ReplayEnds, TaskKeeps, engine, books, Reported
  <2>2. QED BY <2>1, FollowingQuiet
<1>10. CASE ReplayCut
  BY <1>10, FollowingCut
<1>11. CASE EnterLoop
  <2>1. UNCHANGED <<cached, pending, published, queue, frames, map, Reported, drift, registered>> /\ pc = "enter"
    BY <1>11 DEF EnterLoop, TaskKeeps, engine, books, Reported
  <2>2. QED BY <2>1, FollowingQuiet
<1>12. CASE Receive
  BY <1>12, FollowingReceive
<1>13. CASE ReceiveFails
  <2>1. UNCHANGED <<cached, pending, published, frames, map, Reported, drift>> /\ CloseSockets
    BY <1>13 DEF ReceiveFails, TaskKeeps, engine, books, Reported
  <2>2. QED BY <2>1, FollowingClosed
<1>14. CASE Cancelled
  <2>1. UNCHANGED <<cached, pending, published, queue, frames, map, Reported, drift, registered>>
        /\ pc' \in {"done", "closing"}
    BY <1>14 DEF Cancelled, engine, books, Reported
  <2>2. QED BY <2>1, FollowingQuiet
<1>15. CASE Finish
  <2>1. UNCHANGED <<cached, pending, published, frames, map, Reported, drift>> /\ CloseSockets
    BY <1>15 DEF Finish, TaskKeeps, engine, books, Reported
  <2>2. QED BY <2>1, FollowingClosed
<1>16. CASE StopCloses
  <2>1. UNCHANGED <<cached, pending, published, frames, map, Reported, drift>> /\ CloseSockets
    BY <1>16 DEF StopCloses, StopKeeps, engine, books, Reported
  <2>2. QED BY <2>1, FollowingClosed
<1>17. CASE StopFlags \/ StopCancels \/ StopDrains \/ StopEnds
  <2>1. UNCHANGED <<cached, pending, published, queue, frames, map, Reported, drift, registered, pc>>
    BY <1>17 DEF StopFlags, StopCancels, StopDrains, StopEnds, StopKeeps, engine, books, Reported
  <2>2. QED BY <2>1, FollowingQuiet
<1>18. CASE UNCHANGED eventsVars
  <2>1. UNCHANGED <<cached, pending, published, queue, frames, map, Reported, drift, registered, pc>>
    BY <1>18 DEF eventsVars, engine, transport, books, Reported
  <2>2. QED BY <2>1, FollowingQuiet
<1>19. ASSUME NEW c \in EngineChains, Dispatch(c) PROVE Following'
  <2>1. UNCHANGED <<cached, pending, published, queue, frames, map, drift, registered, pc>>
    BY <1>19 DEF Dispatch, engine, transport
  <2>2. Reported' = Reported
    BY <1>19 DEF Dispatch, Reported
  <2>3. QED BY <2>1, <2>2, FollowingQuiet
<1>20. QED
  BY <1>1, <1>2, <1>3, <1>4, <1>5, <1>6, <1>7, <1>8, <1>9, <1>10, <1>11, <1>12, <1>13, <1>14, <1>15,
     <1>16, <1>17, <1>18, <1>19 DEF EventsNext

\* The blocks of a prompt are blocks.
LEMMA MarksTyped ==
  ASSUME NEW cs, cs \subseteq EngineChains
  PROVE  Marks(cs) \subseteq ChainBlocks
<1>1. SUFFICES ASSUME NEW x \in Marks(cs) PROVE x \in ChainBlocks
  OBVIOUS
<1>2. PICK c \in cs : x \in {SubSeq(c, 1, i) : i \in 1..Len(c)}
  BY DEF Marks
<1>3. PICK i \in 1..Len(c) : x = SubSeq(c, 1, i)
  BY <1>2
<1>4. SubSeq(c, 1, i) \in EngineChains
  BY PrefixChains
<1>5. x \in EngineChains
  BY <1>3, <1>4
<1>6. QED BY <1>5, ChainsTyped

\* A batch keeps what is marked in the view.
LEMMA MarkedHandle ==
  ASSUME Marked, Books, NEW b \in Batches, Handle(b), UNCHANGED scenario
  PROVE  Marked'
<1>0. PICK u : u = Parsed(b)
  OBVIOUS
<1>1. u.add \subseteq ChainBlocks
  <2>1. u \in Updates
    BY <1>0, HandleDoes
  <2>2. QED BY <2>1 DEF Updates
<1>2. PICK cs \in SUBSET scenario.prompts :
        /\ view' = ((Kept(u, view) \cup Marks(cs)) \ u.remove) \cup u.add
        /\ ahead' = (Kept(u, ahead) \cup (Marks(cs) \ Kept(u, view))) \ (u.remove \cup u.add)
  BY <1>0 DEF Handle, Written
<1>3. scenario.prompts \subseteq EngineChains
  BY ChainsAssumption DEF Marked
<1>4. Marks(cs) \subseteq ChainBlocks
  BY <1>3, MarksTyped
<1>5. Kept(u, view) \subseteq view /\ Kept(u, ahead) \subseteq Kept(u, view)
  BY DEF Kept, Marked
<1>6. ahead' \subseteq view' /\ view' \subseteq ChainBlocks
  BY <1>1, <1>2, <1>4, <1>5 DEF Marked
<1>7. QED BY <1>6 DEF Marked

\* Every step keeps what is marked in the view.
LEMMA MarkedStep ==
  ASSUME Following, Marked, [EventsNext]_eventsVars
  PROVE  Marked'
<1>1. ASSUME UNCHANGED <<scenario, view, ahead>> PROVE Marked'
  BY <1>1 DEF Marked
<1>2. ASSUME NEW e, Emit(e) PROVE Marked'
  BY <1>1, <1>2 DEF Emit, books
<1>3. ASSUME NEW c \in EngineChains, EngineStores(c) \/ EngineEvicts(c) \/ EngineOffloads(c) PROVE Marked'
  BY <1>2, <1>3 DEF EngineStores, EngineEvicts, EngineOffloads
<1>4. CASE EngineResets
  BY <1>2, <1>4 DEF EngineResets
<1>5. ASSUME NEW c \in EngineChains, Dispatch(c) PROVE Marked'
  <2>1. Marks({c}) \subseteq ChainBlocks
    BY MarksTyped
  <2>2. QED BY <1>5, <2>1 DEF Dispatch, engine, Marked
<1>6. CASE Publish
  BY <1>1, <1>6 DEF Publish, books
<1>7. CASE Spawn \/ Connect \/ ConnectFails \/ Retry \/ AskReplay \/ ReplayEnds \/ ReplayCut
           \/ EnterLoop \/ ReceiveFails \/ Finish
  BY <1>1, <1>7 DEF Spawn, Connect, ConnectFails, Retry, AskReplay, ReplayEnds, ReplayCut,
     EnterLoop, ReceiveFails, Finish, TaskKeeps, engine, books
<1>8. CASE ReplayFrame
  <2>1. frames # << >> /\ frames \in Seq(Batches) /\ Handle(Head(frames)) /\ scenario' = scenario
    BY <1>8 DEF ReplayFrame, TaskKeeps, engine, Following, Streams
  <2>2. Head(frames) \in Batches
    BY <2>1, HeadTailProperties
  <2>3. Books
    BY DEF Following
  <2>4. QED BY <2>1, <2>2, <2>3, MarkedHandle
<1>9. CASE Receive
  <2>1. queue # << >> /\ queue \in Seq(Batches) /\ Handle(Head(queue)) /\ scenario' = scenario
    BY <1>9 DEF Receive, TaskKeeps, engine, Following, Streams
  <2>2. Head(queue) \in Batches
    BY <2>1, HeadTailProperties
  <2>3. Books
    BY DEF Following
  <2>4. QED BY <2>1, <2>2, <2>3, MarkedHandle
<1>10. CASE Cancelled
  BY <1>1, <1>10 DEF Cancelled, engine, books
<1>11. CASE StopFlags \/ StopCancels \/ StopCloses \/ StopDrains \/ StopEnds
  BY <1>1, <1>11 DEF StopFlags, StopCancels, StopCloses, StopDrains, StopEnds, StopKeeps, engine, books
<1>12. CASE UNCHANGED eventsVars
  BY <1>1, <1>12 DEF eventsVars, engine, books
<1>13. QED
  BY <1>3, <1>4, <1>5, <1>6, <1>7, <1>8, <1>9, <1>10, <1>11, <1>12 DEF EventsNext

\* Once caught up, the map is bounded by what the engine caches, and the view
\* is that and what acquires have marked.
LEMMA FollowedWhenCaughtUp ==
  ASSUME Sockets, Following, Marked
  PROVE  EventsFollowed
<1>1. EventsTypeOK
  <2>1. map \in [EngineChains -> ChainBlocks \cup {Unmapped}] /\ ahead \subseteq view
        /\ view \subseteq ChainBlocks /\ cached \subseteq EngineChains
    BY DEF Following, Books, Maps, Streams, Marked
  <2>2. open \subseteq 1..3 /\ registered \in 0..3 /\ held \in 0..3 /\ retries \in 0..MaxRetries
    BY DEF Sockets
  <2>3. QED BY <2>1, <2>2 DEF EventsTypeOK
<1>2. ASSUME CaughtUp, NEW c \in EngineChains PROVE Agrees(c, cached, map, Reported, drift)
  <2>1. registered # 0 /\ pc = "receive" /\ pending = << >> /\ queue = << >> /\ frames = << >>
    BY <1>2 DEF CaughtUp, Sockets
  <2>2. Silent(<< >>, c) /\ SilentSeq(<< >>, c)
    BY Nothing
  <2>3. QED BY <2>1, <2>2 DEF Following, Follow
<1>3. ViewExact
  <2>1. SUFFICES ASSUME CaughtUp, drift \subseteq {"cleared"} PROVE view = cached \cup ahead
    BY DEF ViewExact
  <2>2. \A c \in EngineChains : c \in Reported <=> c \in cached
    BY <1>2, <2>1 DEF Agrees
  <2>3. cached \subseteq EngineChains
    BY <1>1 DEF EventsTypeOK
  <2>4. Reported \subseteq EngineChains
    BY <2>1 DEF Following, Books
  <2>5. Reported = cached
    BY <2>2, <2>3, <2>4
  <2>6. QED BY <2>5 DEF Reported, Marked
<1>4. MapBounded
  <2>1. SUFFICES ASSUME CaughtUp, drift \subseteq {"folded", "parent unresolved", "malformed"},
                        NEW c \in EngineChains, map[c] # Unmapped
                 PROVE  c \in cached
    BY DEF MapBounded
  <2>2. drift \cap {"missed", "cleared"} = {}
    BY <2>1
  <2>3. QED BY <1>2, <2>1, <2>2 DEF Agrees
<1>5. QED BY <1>1, <1>3, <1>4 DEF EventsFollowed

\* The inductive invariant holds.
LEMMA EventsHold == EventsSpec => [](Sockets /\ Following /\ Marked)
<1>1. EventsInit => Sockets /\ Following /\ Marked
  BY SocketsStart, FollowingStart DEF EventsInit, Marked
<1>2. Sockets /\ Following /\ Marked /\ [EventsNext]_eventsVars => (Sockets /\ Following /\ Marked)'
  BY SocketsStep, FollowingStep, MarkedStep
<1>3. QED BY <1>1, <1>2, PTL DEF EventsSpec

\* A collector that was stopped leaves no socket open, whichever step of a
\* connection, replay or reconnection the stop overlapped (zmq.py:117,
\* collector.py:435), for any number of retries and faults.
THEOREM StopClosesSockets == EventsSpec => []SocketsClosed
<1>1. Sockets => SocketsClosed
  BY DEF Sockets, SocketsClosed
<1>2. QED BY <1>1, EventsHold, PTL

\* Once the loop has handled everything that was published, the router ranks by
\* what the engine caches and by the prompts dispatched since the last event
\* about their blocks, and its hash map is bounded by what is cached, however
\* replay, subscription and acquires overlap, for any chains, prompts, batches,
\* retention, retries and faults (zmq.py, kv.py, kv_cache_store.py:103,
\* collector.py:174, :325).
THEOREM RouterFollowsEngine == EventsSpec => []EventsFollowed
<1>1. Sockets /\ Following /\ Marked => EventsFollowed
  BY FollowedWhenCaughtUp
<1>2. QED BY <1>1, EventsHold, PTL

===============================================================================
