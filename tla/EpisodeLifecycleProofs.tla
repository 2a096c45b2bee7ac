------------------------ MODULE EpisodeLifecycleProofs ------------------------
(***************************************************************************)
(* Why the books of EpisodeLifecycle balance and why a session lives as    *)
(* long as its runner and no longer than its episode: the inductive        *)
(* invariant, for any finite batch, any number of Gateway actors, any      *)
(* semaphore, and any failures and cancellations.                          *)
(***************************************************************************)
EXTENDS EpisodeLifecycle, FiniteSetTheorems, WellFoundedInduction, TLAPS

\* What the calls already sent and answered say of the session at its actor.
CallsAnswered(e) ==
  /\ call[e]["finalize"] # "unsent" \/ call[e]["abort"] # "unsent" => call[e]["create"] = "ok"
  /\ phase[e] = "none" <=> call[e]["create"] # "ok"
  /\ phase[e] = "FINALIZED" <=> call[e]["finalize"] = "ok"
  /\ call[e]["finalize"] \in {"sent", "locked"} => phase[e] = "ACTIVE"
  /\ phase[e] = "ABORTED" => call[e]["abort"] = "ok"
  /\ call[e]["abort"] = "ok" => phase[e] \in {"FINALIZED", "ABORTED"}
  /\ call[e]["abort"] = "raised" => phase[e] = "FINALIZED"
  /\ \A g \in Gateways : e \in sessions[g] <=> g = home[e] /\ phase[e] = "ACTIVE"

\* Which calls an episode has sent, by how far it is.
CallsSent(e) ==
  /\ episode[e] = "queued" =>
       /\ home[e] = Nowhere /\ runner[e] = "none" /\ aborter[e] = "none"
       /\ call[e]["create"] = "unsent"
  /\ episode[e] # "queued" => home[e] \in Gateways /\ call[e]["create"] # "unsent"
  /\ episode[e] \in {"running", "cancelling", "finalizing", "scoring", "aborting", "ok"} =>
       call[e]["create"] = "ok"
  /\ episode[e] \in {"queued", "creating", "running", "cancelling"} =>
       call[e]["finalize"] = "unsent"
  /\ episode[e] \in {"scoring", "ok"} => call[e]["finalize"] = "ok"
  /\ episode[e] = "failed" => call[e]["create"] # "sent" /\ phase[e] # "ACTIVE"
  /\ runner[e] = "running" => episode[e] \in {"running", "cancelling"}

\* Who waits for the abort, and for what reason it was sent: after an error
\* nothing was finalized.
AbortsExplained(e) ==
  /\ aborter[e] = "none" <=> call[e]["abort"] = "unsent"
  /\ aborter[e] # "none" =>
       /\ episode[e] \in {"aborting", "failed", "cancelled"}
       /\ cause[e] \in {"error", "cancelled"}
  /\ aborter[e] # "none" /\ cause[e] = "error" => call[e]["finalize"] \in {"unsent", "raised"}
  /\ episode[e] = "cancelling" => cause[e] # "none"
  /\ episode[e] = "aborting" => aborter[e] \in {"awaited", "shielded"}
  /\ aborter[e] = "awaited" => episode[e] = "aborting" /\ cause[e] = "error"
  /\ aborter[e] = "shielded" => episode[e] # "failed" /\ cause[e] = "cancelled"
  /\ aborter[e] = "over" /\ cause[e] = "cancelled" =>
       \/ call[e]["abort"] = "raised"
       \/ call[e]["abort"] = "ok" /\ route[e] = Nowhere

\* A route is held from the admission until finalize or abort returns it, and
\* returned at most once.
RouteHeld(e) ==
  /\ route[e] \in {Nowhere, home[e]}
  /\ \/ episode[e] \in {"creating", "running", "cancelling", "finalizing"}
     \/ aborter[e] \in {"awaited", "shielded"}
     => route[e] = home[e]
  /\ episode[e] \in {"scoring", "ok", "failed"} => route[e] = Nowhere
  /\ episode[e] = "cancelled" /\ aborter[e] = "none" => route[e] = Nowhere

EpisodeInv(e) ==
  CallsAnswered(e) /\ CallsSent(e) /\ AbortsExplained(e) /\ RouteHeld(e)

\* The variables that tell of each episode by itself have their types.
EpisodeTypes ==
  /\ mode \in Modes
  /\ episode \in [Episodes -> {"queued"} \cup Awaits \cup Over]
  /\ cause \in [Episodes -> {"none", "error", "cancelled"}]
  /\ runner \in [Episodes -> {"none", "running", "returned", "raised", "gone"}]
  /\ route \in [Episodes -> Gateways \cup {Nowhere}]
  /\ aborter \in [Episodes -> {"none", "awaited", "shielded", "over"}]
  /\ home \in [Episodes -> Gateways \cup {Nowhere}]
  /\ call \in [Episodes -> [Calls -> {"unsent", "sent", "locked", "ok", "raised"}]]
  /\ sessions \in [Gateways -> SUBSET Episodes]
  /\ phase \in [Episodes -> {"none", "ACTIVE", "FINALIZED", "ABORTED"}]
  /\ request \in [Episodes -> {"idle", "preparing", "backend", "committing"}]
  /\ faults \in 0..MaxFaults

\* The books: slots and loads, and what they count.
Books ==
  /\ load \in [Gateways -> Nat]
  /\ slots \in IF MaxSessions > 0 THEN Nat ELSE {MaxSessions}
  /\ LoadCountsRoutes
  /\ SlotsConserved

LifeInv == EpisodeTypes /\ Books /\ \A e \in Episodes : EpisodeInv(e)

-----------------------------------------------------------------------------
(* A minimum exists: what CHOOSE needs in _select_gateway_index.           *)

\* A set of natural numbers that is not empty has a least element: the
\* intervals below its elements are finite, and strict inclusion of finite sets
\* is well-founded.
LEMMA LeastNatural ==
  ASSUME NEW A \in SUBSET Nat, A # {}
  PROVE  \E n \in A : \A m \in A : n <= m
<1> DEFINE Below == {1..n : n \in A}
<1>1. IsWellFoundedOn(StrictSubsetOrdering(Nat), FiniteSubsetsOf(Nat))
  BY FS_StrictSubsetOrderingWellFounded
<1>2. Below \subseteq FiniteSubsetsOf(Nat)
  <2> SUFFICES ASSUME NEW n \in A PROVE 1..n \in FiniteSubsetsOf(Nat)
    OBVIOUS
  <2>1. IsFiniteSet(1..n)
    BY FS_Interval
  <2>2. 1..n \subseteq Nat
    OBVIOUS
  <2>3. QED BY <2>1, <2>2 DEF FiniteSubsetsOf
<1>3. Below # {}
  OBVIOUS
<1> HIDE DEF Below
<1>4. PICK S \in Below : \A T \in Below : ~ (<<T, S>> \in StrictSubsetOrdering(Nat))
  BY <1>1, <1>2, <1>3, WFMin
<1>5. PICK n \in A : S = 1..n
  BY DEF Below
<1>6. ASSUME NEW m \in A, ~(n <= m) PROVE FALSE
  <2>1. 1..m \in Below
    BY DEF Below
  <2>2. 1..m \subseteq 1..n /\ 1..m # 1..n
    BY <1>6
  <2>3. <<1..m, S>> \in StrictSubsetOrdering(Nat)
    BY <1>2, <1>5, <2>1, <2>2 DEF StrictSubsetOrdering, FiniteSubsetsOf
  <2>4. QED BY <1>4, <2>1, <2>3
<1>7. QED BY <1>6

\* _select_gateway_index returns a Gateway.
LEMMA LeastLoadedType ==
  ASSUME load \in [Gateways -> Nat]
  PROVE  LeastLoaded \in Gateways
<1> DEFINE Loads == {load[g] : g \in Gateways}
<1>1. 0 \in Gateways
  BY GatewaysAssumption DEF Gateways
<1>2. PICK m \in Loads : \A n \in Loads : m <= n
  <2>1. Loads \subseteq Nat /\ Loads # {}
    BY <1>1
  <2> HIDE DEF Loads
  <2>2. QED BY <2>1, LeastNatural
<1> DEFINE Idlest == {g \in Gateways : load[g] = m}
<1>3. Idlest \subseteq Nat /\ Idlest # {}
  BY <1>2 DEF Gateways
<1>4. PICK g \in Idlest : \A h \in Idlest : g <= h
  BY <1>3, LeastNatural
<1>5. \A h \in Gateways : load[g] < load[h] \/ (load[g] = load[h] /\ g <= h)
  <2> TAKE h \in Gateways
  <2>1. load[h] \in Loads /\ m <= load[h] /\ load[g] = m
    BY <1>2
  <2>2. CASE load[h] = m
    BY <1>4, <2>1, <2>2
  <2>3. CASE load[h] # m
    BY <2>1, <2>3
  <2>4. QED BY <2>2, <2>3
<1>6. QED BY <1>5 DEF LeastLoaded

-----------------------------------------------------------------------------
(* A step is about one episode: what it does to the others and to the books. *)

\* Nothing of another episode changes.
Untouched(e) ==
  \A x \in Episodes \ {e} :
    /\ episode'[x] = episode[x] /\ cause'[x] = cause[x] /\ runner'[x] = runner[x]
    /\ route'[x] = route[x] /\ aborter'[x] = aborter[x] /\ home'[x] = home[x]
    /\ call'[x] = call[x] /\ phase'[x] = phase[x]
    /\ \A g \in Gateways : x \in sessions'[g] <=> x \in sessions[g]

\* A route is kept, given or returned, and the load of its Gateway follows.
RouteMoves(e) ==
  \/ UNCHANGED <<route, load>>
  \/ \E g \in Gateways :
       /\ route[e] = Nowhere
       /\ route' = [route EXCEPT ![e] = g]
       /\ load' = [load EXCEPT ![g] = @ + 1]
  \/ \E g \in Gateways :
       /\ route[e] = g
       /\ route' = [route EXCEPT ![e] = Nowhere]
       /\ load' = [load EXCEPT ![g] = @ - 1]

\* A slot is kept, taken or given back, and the episode enters or leaves.
SlotMoves(e) ==
  \/ /\ UNCHANGED slots
     /\ episode'[e] \in Awaits <=> episode[e] \in Awaits
  \/ /\ MaxSessions > 0 => slots > 0
     /\ slots' = IF MaxSessions > 0 THEN slots - 1 ELSE slots
     /\ episode[e] \notin Awaits /\ episode'[e] \in Awaits
  \/ /\ slots' = IF MaxSessions > 0 THEN slots + 1 ELSE slots
     /\ episode[e] \in Awaits /\ episode'[e] \notin Awaits

\* The loads follow the routes.
LEMMA LoadsBalance ==
  ASSUME load \in [Gateways -> Nat], route \in [Episodes -> Gateways \cup {Nowhere}],
         LoadCountsRoutes, NEW e \in Episodes, RouteMoves(e)
  PROVE  LoadCountsRoutes' /\ load' \in [Gateways -> Nat]
<1>1. \A g \in Gateways : IsFiniteSet(RoutedTo(g)) /\ Cardinality(RoutedTo(g)) \in Nat
  BY EpisodesAssumption, FS_Subset, FS_CardinalityType DEF RoutedTo
<1>2. Nowhere \notin Gateways
  BY DEF Nowhere, Gateways
<1>3. CASE UNCHANGED <<route, load>>
  BY <1>3 DEF LoadCountsRoutes, RoutedTo
<1>4. ASSUME NEW g \in Gateways, route[e] = Nowhere,
             route' = [route EXCEPT ![e] = g], load' = [load EXCEPT ![g] = @ + 1]
      PROVE  LoadCountsRoutes' /\ load' \in [Gateways -> Nat]
  <2>1. e \notin RoutedTo(g) /\ RoutedTo(g)' = RoutedTo(g) \cup {e}
    BY <1>2, <1>4 DEF RoutedTo
  <2>2. Cardinality(RoutedTo(g)') = Cardinality(RoutedTo(g)) + 1
    BY <1>1, <2>1, FS_AddElement
  <2>3. \A h \in Gateways \ {g} : RoutedTo(h)' = RoutedTo(h)
    BY <1>2, <1>4 DEF RoutedTo
  <2>4. load' \in [Gateways -> Nat]
    BY <1>4
  <2>5. QED BY <1>1, <1>4, <2>2, <2>3, <2>4 DEF LoadCountsRoutes
<1>5. ASSUME NEW g \in Gateways, route[e] = g,
             route' = [route EXCEPT ![e] = Nowhere], load' = [load EXCEPT ![g] = @ - 1]
      PROVE  LoadCountsRoutes' /\ load' \in [Gateways -> Nat]
  <2>1. e \in RoutedTo(g) /\ RoutedTo(g)' = RoutedTo(g) \ {e}
    BY <1>2, <1>5 DEF RoutedTo
  <2>2. Cardinality(RoutedTo(g)') = Cardinality(RoutedTo(g)) - 1
    BY <1>1, <2>1, FS_RemoveElement
  <2>3. \A h \in Gateways \ {g} : RoutedTo(h)' = RoutedTo(h)
    BY <1>2, <1>5 DEF RoutedTo
  <2>4. Cardinality(RoutedTo(g)) - 1 \in Nat
    <3>1. IsFiniteSet(RoutedTo(g)')
      BY <1>1, <2>1, FS_RemoveElement
    <3>2. QED BY <2>2, <3>1, FS_CardinalityType
  <2>5. load' \in [Gateways -> Nat]
    BY <1>5, <2>4 DEF LoadCountsRoutes
  <2>6. QED BY <1>1, <1>5, <2>2, <2>3, <2>5 DEF LoadCountsRoutes
<1>6. QED BY <1>3, <1>4, <1>5 DEF RouteMoves

\* The slots follow the episodes.
LEMMA SlotsBalance ==
  ASSUME slots \in IF MaxSessions > 0 THEN Nat ELSE {MaxSessions},
         SlotsConserved, NEW e \in Episodes, SlotMoves(e),
         \A x \in Episodes \ {e} : episode'[x] = episode[x]
  PROVE  SlotsConserved' /\ slots' \in IF MaxSessions > 0 THEN Nat ELSE {MaxSessions}
<1> DEFINE Inside == {x \in Episodes : episode[x] \in Awaits}
<1>1. IsFiniteSet(Inside) /\ Cardinality(Inside) \in Nat
  BY EpisodesAssumption, FS_Subset, FS_CardinalityType
<1>2. CASE /\ UNCHANGED slots
           /\ episode'[e] \in Awaits <=> episode[e] \in Awaits
  <2>1. Inside' = Inside
    BY <1>2
  <2>2. QED BY <1>2, <2>1 DEF SlotsConserved
<1>3. CASE /\ MaxSessions > 0 => slots > 0
           /\ slots' = IF MaxSessions > 0 THEN slots - 1 ELSE slots
           /\ episode[e] \notin Awaits /\ episode'[e] \in Awaits
  <2>1. e \notin Inside /\ Inside' = Inside \cup {e}
    BY <1>3
  <2>2. Cardinality(Inside') = Cardinality(Inside) + 1
    BY <1>1, <2>1, FS_AddElement
  <2>3. QED BY <1>1, <1>3, <2>2, LimitsAssumption DEF SlotsConserved
<1>4. CASE /\ slots' = IF MaxSessions > 0 THEN slots + 1 ELSE slots
           /\ episode[e] \in Awaits /\ episode'[e] \notin Awaits
  <2>1. e \in Inside /\ Inside' = Inside \ {e}
    BY <1>4
  <2>2. Cardinality(Inside') = Cardinality(Inside) - 1
    BY <1>1, <2>1, FS_RemoveElement
  <2>3. QED BY <1>1, <1>4, <2>2, LimitsAssumption DEF SlotsConserved
<1>5. QED BY <1>2, <1>3, <1>4 DEF SlotMoves

\* A step that keeps the invariant of its own episode keeps all of it.
LEMMA StepOfOne ==
  ASSUME LifeInv, NEW e \in Episodes,
         EpisodeTypes', EpisodeInv(e)', Untouched(e), RouteMoves(e), SlotMoves(e)
  PROVE  LifeInv'
<1>1. Books'
  BY LoadsBalance, SlotsBalance DEF LifeInv, EpisodeTypes, Books, Untouched
<1>2. ASSUME NEW x \in Episodes \ {e} PROVE EpisodeInv(x)'
  <2>1. EpisodeInv(x)
    BY DEF LifeInv
  <2>2. /\ episode'[x] = episode[x] /\ cause'[x] = cause[x] /\ runner'[x] = runner[x]
        /\ route'[x] = route[x] /\ aborter'[x] = aborter[x] /\ home'[x] = home[x]
        /\ call'[x] = call[x] /\ phase'[x] = phase[x]
        /\ \A g \in Gateways : x \in sessions'[g] <=> x \in sessions[g]
    BY DEF Untouched
  <2>3. CallsAnswered(x)'
    BY <2>1, <2>2 DEF EpisodeInv, CallsAnswered
  <2>4. CallsSent(x)'
    BY <2>1, <2>2 DEF EpisodeInv, CallsSent
  <2>5. AbortsExplained(x)'
    BY <2>1, <2>2 DEF EpisodeInv, AbortsExplained
  <2>6. RouteHeld(x)'
    BY <2>1, <2>2 DEF EpisodeInv, RouteHeld
  <2>7. QED BY <2>3, <2>4, <2>5, <2>6 DEF EpisodeInv
<1>3. \A x \in Episodes : EpisodeInv(x)'
  BY <1>2
<1>4. QED BY <1>1, <1>3 DEF LifeInv

-----------------------------------------------------------------------------
(* The episode, action by action.                                          *)

\* The except clauses: a session whose finalize was not answered, or not sent, is
\* aborted, and its route stays until that is over.
LEMMA AbortBegins ==
  ASSUME LifeInv, NEW e \in Episodes, NEW why \in {"error", "cancelled"},
         episode[e] \in {"running", "cancelling", "finalizing"},
         why = "error" => call[e]["finalize"] \in {"unsent", "raised"},
         (runner[e] # "running" /\ UNCHANGED runner) \/ runner' = [runner EXCEPT ![e] = "gone"],
         BeginAbort(e, why), faults' \in 0..MaxFaults,
         UNCHANGED <<mode, slots, route, load, home, sessions, phase, request>>
  PROVE  LifeInv'
<1> USE DEF Goto, Mark, Awaits, Over, Calls
<1>1. EpisodeTypes /\ EpisodeInv(e)
  BY DEF LifeInv
<1>2. EpisodeTypes'
  BY <1>1 DEF EpisodeTypes, BeginAbort
<1>3. EpisodeInv(e)'
  BY <1>1, <1>2 DEF EpisodeTypes, EpisodeInv, CallsAnswered, CallsSent, AbortsExplained,
    RouteHeld, BeginAbort, Nowhere, Gateways
<1>4. Untouched(e)
  BY <1>1 DEF EpisodeTypes, Untouched, BeginAbort
<1>5. RouteMoves(e) /\ SlotMoves(e)
  BY <1>1 DEF EpisodeTypes, RouteMoves, SlotMoves, BeginAbort
<1>6. QED BY <1>2, <1>3, <1>4, <1>5, StepOfOne

\* What the framework does keeps the invariant.
LEMMA FrameworkKeepsInv ==
  ASSUME LifeInv, NEW e \in Episodes, EpisodeStep(e) \/ RunnerEnds(e)
  PROVE  LifeInv'
<1> USE DEF Goto, Mark, End, ReleaseRoute, Awaits, Over, Calls, Nowhere, Gateways,
    framework, manager, actor
<1>1. EpisodeTypes /\ EpisodeInv(e)
  BY DEF LifeInv
<1>2. LeastLoaded \in Gateways
  BY LeastLoadedType DEF LifeInv, Books
<1>3. CASE Admit(e)
  <2>1. EpisodeTypes'
    BY <1>1, <1>3, <1>2 DEF EpisodeTypes, Admit
  <2>2. EpisodeInv(e)'
    BY <1>1, <1>3, <1>2, <2>1 DEF EpisodeTypes, EpisodeInv, CallsAnswered, CallsSent,
      AbortsExplained, RouteHeld, Admit
  <2>3. Untouched(e)
    BY <1>1, <1>3 DEF EpisodeTypes, Untouched, Admit
  <2>4. RouteMoves(e) /\ SlotMoves(e)
    BY <1>1, <1>3, <1>2 DEF EpisodeTypes, EpisodeInv, CallsSent, AbortsExplained, RouteHeld,
      RouteMoves, SlotMoves, Admit
  <2>5. QED BY <2>1, <2>2, <2>3, <2>4, StepOfOne
<1>4. CASE Created(e)
  <2>1. EpisodeTypes'
    BY <1>1, <1>4 DEF EpisodeTypes, Created
  <2>2. EpisodeInv(e)'
    BY <1>1, <1>4, <2>1 DEF EpisodeTypes, EpisodeInv, CallsAnswered, CallsSent,
      AbortsExplained, RouteHeld, Created
  <2>3. Untouched(e)
    BY <1>1, <1>4 DEF EpisodeTypes, Untouched, Created
  <2>4. RouteMoves(e) /\ SlotMoves(e)
    BY <1>1, <1>4 DEF EpisodeTypes, EpisodeInv, CallsSent, AbortsExplained, RouteHeld,
      RouteMoves, SlotMoves, Created
  <2>5. QED BY <2>1, <2>2, <2>3, <2>4, StepOfOne
<1>5. CASE CreateFailed(e)
  <2>1. EpisodeTypes'
    BY <1>1, <1>5 DEF EpisodeTypes, CreateFailed
  <2>2. EpisodeInv(e)'
    BY <1>1, <1>5, <2>1 DEF EpisodeTypes, EpisodeInv, CallsAnswered, CallsSent,
      AbortsExplained, RouteHeld, CreateFailed
  <2>3. Untouched(e)
    BY <1>1, <1>5 DEF EpisodeTypes, Untouched, CreateFailed
  <2>4. RouteMoves(e) /\ SlotMoves(e)
    BY <1>1, <1>5 DEF EpisodeTypes, EpisodeInv, CallsSent, AbortsExplained, RouteHeld,
      RouteMoves, SlotMoves, CreateFailed
  <2>5. QED BY <2>1, <2>2, <2>3, <2>4, StepOfOne
<1>6. CASE RunnerEnds(e)
  <2>1. EpisodeTypes'
    BY <1>1, <1>6 DEF EpisodeTypes, RunnerEnds
  <2>2. EpisodeInv(e)'
    BY <1>1, <1>6, <2>1 DEF EpisodeTypes, EpisodeInv, CallsAnswered, CallsSent,
      AbortsExplained, RouteHeld, RunnerEnds
  <2>3. Untouched(e)
    BY <1>1, <1>6 DEF EpisodeTypes, Untouched, RunnerEnds
  <2>4. RouteMoves(e) /\ SlotMoves(e)
    BY <1>1, <1>6 DEF EpisodeTypes, EpisodeInv, CallsSent, AbortsExplained, RouteHeld,
      RouteMoves, SlotMoves, RunnerEnds
  <2>5. QED BY <2>1, <2>2, <2>3, <2>4, StepOfOne
<1>7. CASE StartFinalize(e)
  <2>1. EpisodeTypes'
    BY <1>1, <1>7 DEF EpisodeTypes, StartFinalize
  <2>2. EpisodeInv(e)'
    BY <1>1, <1>7, <2>1 DEF EpisodeTypes, EpisodeInv, CallsAnswered, CallsSent,
      AbortsExplained, RouteHeld, StartFinalize
  <2>3. Untouched(e)
    BY <1>1, <1>7 DEF EpisodeTypes, Untouched, StartFinalize
  <2>4. RouteMoves(e) /\ SlotMoves(e)
    BY <1>1, <1>7 DEF EpisodeTypes, EpisodeInv, CallsSent, AbortsExplained, RouteHeld,
      RouteMoves, SlotMoves, StartFinalize
  <2>5. QED BY <2>1, <2>2, <2>3, <2>4, StepOfOne
<1>8. CASE TimeOut(e)
  <2>1. EpisodeTypes'
    BY <1>1, <1>8 DEF EpisodeTypes, TimeOut
  <2>2. EpisodeInv(e)'
    BY <1>1, <1>8, <2>1 DEF EpisodeTypes, EpisodeInv, CallsAnswered, CallsSent,
      AbortsExplained, RouteHeld, TimeOut
  <2>3. Untouched(e)
    BY <1>1, <1>8 DEF EpisodeTypes, Untouched, TimeOut
  <2>4. RouteMoves(e) /\ SlotMoves(e)
    BY <1>1, <1>8 DEF EpisodeTypes, EpisodeInv, CallsSent, AbortsExplained, RouteHeld,
      RouteMoves, SlotMoves, TimeOut
  <2>5. QED BY <2>1, <2>2, <2>3, <2>4, StepOfOne
<1>9. CASE Finalized(e)
  <2>1. EpisodeTypes'
    BY <1>1, <1>9 DEF EpisodeTypes, Finalized
  <2>2. EpisodeInv(e)'
    BY <1>1, <1>9, <2>1 DEF EpisodeTypes, EpisodeInv, CallsAnswered, CallsSent,
      AbortsExplained, RouteHeld, Finalized
  <2>3. Untouched(e)
    BY <1>1, <1>9 DEF EpisodeTypes, Untouched, Finalized
  <2>4. RouteMoves(e) /\ SlotMoves(e)
    BY <1>1, <1>9 DEF EpisodeTypes, EpisodeInv, CallsSent, AbortsExplained, RouteHeld,
      RouteMoves, SlotMoves, Finalized
  <2>5. QED BY <2>1, <2>2, <2>3, <2>4, StepOfOne
<1>10. CASE Score(e)
  <2>1. EpisodeTypes'
    BY <1>1, <1>10 DEF EpisodeTypes, Score
  <2>2. EpisodeInv(e)'
    BY <1>1, <1>10, <2>1 DEF EpisodeTypes, EpisodeInv, CallsAnswered, CallsSent,
      AbortsExplained, RouteHeld, Score
  <2>3. Untouched(e)
    BY <1>1, <1>10 DEF EpisodeTypes, Untouched, Score
  <2>4. RouteMoves(e) /\ SlotMoves(e)
    BY <1>1, <1>10 DEF EpisodeTypes, EpisodeInv, CallsSent, AbortsExplained, RouteHeld,
      RouteMoves, SlotMoves, Score
  <2>5. QED BY <2>1, <2>2, <2>3, <2>4, StepOfOne
<1>11. CASE Aborted(e)
  <2>1. EpisodeTypes'
    BY <1>1, <1>11 DEF EpisodeTypes, Aborted
  <2>2. EpisodeInv(e)'
    BY <1>1, <1>11, <2>1 DEF EpisodeTypes, EpisodeInv, CallsAnswered, CallsSent,
      AbortsExplained, RouteHeld, Aborted
  <2>3. Untouched(e)
    BY <1>1, <1>11 DEF EpisodeTypes, Untouched, Aborted
  <2>4. RouteMoves(e) /\ SlotMoves(e)
    BY <1>1, <1>11 DEF EpisodeTypes, EpisodeInv, CallsSent, AbortsExplained, RouteHeld,
      RouteMoves, SlotMoves, Aborted
  <2>5. QED BY <2>1, <2>2, <2>3, <2>4, StepOfOne
<1>12. CASE RunnerFailed(e)
  BY <1>1, <1>12, AbortBegins DEF EpisodeTypes, EpisodeInv, CallsSent, AbortsExplained, RunnerFailed
<1>13. CASE RunnerStopped(e)
  BY <1>1, <1>13, AbortBegins DEF EpisodeTypes, EpisodeInv, CallsSent, AbortsExplained, RunnerStopped
<1>14. CASE FinalizeFailed(e)
  BY <1>1, <1>14, AbortBegins DEF EpisodeTypes, EpisodeInv, CallsSent, AbortsExplained, FinalizeFailed
<1>15. QED BY <1>3, <1>4, <1>5, <1>6, <1>7, <1>8, <1>9, <1>10, <1>11, <1>12, <1>13, <1>14 DEF EpisodeStep

\* A cancellation at any await keeps the invariant.
LEMMA CancelKeepsInv ==
  ASSUME LifeInv, NEW e \in Episodes, Cancel(e)
  PROVE  LifeInv'
<1> USE DEF Goto, Mark, End, ReleaseRoute, Awaits, Over, Calls, Nowhere, Gateways,
    framework, manager, actor
<1>1. EpisodeTypes /\ EpisodeInv(e)
  BY DEF LifeInv
<1>2. faults' \in 0..MaxFaults
  BY <1>1, LimitsAssumption DEF EpisodeTypes, Cancel, Fault
<1>3. CASE CancelCreating(e)
  <2>1. EpisodeTypes'
    BY <1>1, <1>3, <1>2 DEF EpisodeTypes, CancelCreating
  <2>2. EpisodeInv(e)'
    BY <1>1, <1>3, <1>2, <2>1 DEF EpisodeTypes, EpisodeInv, CallsAnswered, CallsSent,
      AbortsExplained, RouteHeld, CancelCreating
  <2>3. Untouched(e)
    BY <1>1, <1>3 DEF EpisodeTypes, Untouched, CancelCreating
  <2>4. RouteMoves(e) /\ SlotMoves(e)
    BY <1>1, <1>3, <1>2 DEF EpisodeTypes, EpisodeInv, CallsSent, AbortsExplained, RouteHeld,
      RouteMoves, SlotMoves, CancelCreating
  <2>5. QED BY <2>1, <2>2, <2>3, <2>4, StepOfOne
<1>4. CASE CancelScoring(e)
  <2>1. EpisodeTypes'
    BY <1>1, <1>4, <1>2 DEF EpisodeTypes, CancelScoring
  <2>2. EpisodeInv(e)'
    BY <1>1, <1>4, <1>2, <2>1 DEF EpisodeTypes, EpisodeInv, CallsAnswered, CallsSent,
      AbortsExplained, RouteHeld, CancelScoring
  <2>3. Untouched(e)
    BY <1>1, <1>4 DEF EpisodeTypes, Untouched, CancelScoring
  <2>4. RouteMoves(e) /\ SlotMoves(e)
    BY <1>1, <1>4, <1>2 DEF EpisodeTypes, EpisodeInv, CallsSent, AbortsExplained, RouteHeld,
      RouteMoves, SlotMoves, CancelScoring
  <2>5. QED BY <2>1, <2>2, <2>3, <2>4, StepOfOne
<1>5. CASE CancelAborting(e)
  <2>1. EpisodeTypes'
    BY <1>1, <1>5, <1>2 DEF EpisodeTypes, CancelAborting
  <2>2. EpisodeInv(e)'
    BY <1>1, <1>5, <1>2, <2>1 DEF EpisodeTypes, EpisodeInv, CallsAnswered, CallsSent,
      AbortsExplained, RouteHeld, CancelAborting
  <2>3. Untouched(e)
    BY <1>1, <1>5 DEF EpisodeTypes, Untouched, CancelAborting
  <2>4. RouteMoves(e) /\ SlotMoves(e)
    BY <1>1, <1>5, <1>2 DEF EpisodeTypes, EpisodeInv, CallsSent, AbortsExplained, RouteHeld,
      RouteMoves, SlotMoves, CancelAborting
  <2>5. QED BY <2>1, <2>2, <2>3, <2>4, StepOfOne
<1>6. CASE CancelRunning(e) /\ mode = "ray_task"
  <2>1. EpisodeTypes'
    BY <1>1, <1>6, <1>2 DEF EpisodeTypes, CancelRunning
  <2>2. EpisodeInv(e)'
    BY <1>1, <1>6, <1>2, <2>1 DEF EpisodeTypes, EpisodeInv, CallsAnswered, CallsSent,
      AbortsExplained, RouteHeld, CancelRunning
  <2>3. Untouched(e)
    BY <1>1, <1>6 DEF EpisodeTypes, Untouched, CancelRunning
  <2>4. RouteMoves(e) /\ SlotMoves(e)
    BY <1>1, <1>6, <1>2 DEF EpisodeTypes, EpisodeInv, CallsSent, AbortsExplained, RouteHeld,
      RouteMoves, SlotMoves, CancelRunning
  <2>5. QED BY <2>1, <2>2, <2>3, <2>4, StepOfOne
<1>7. CASE CancelRunning(e) /\ mode # "ray_task"
  BY <1>1, <1>2, <1>7, AbortBegins DEF EpisodeTypes, CancelRunning
<1>8. CASE CancelCancelling(e)
  BY <1>1, <1>2, <1>8, AbortBegins DEF EpisodeTypes, EpisodeInv, CallsSent, CancelCancelling
<1>9. CASE CancelFinalizing(e)
  BY <1>1, <1>2, <1>9, AbortBegins DEF EpisodeTypes, EpisodeInv, CallsSent, CancelFinalizing
<1>10. QED BY <1>3, <1>4, <1>5, <1>6, <1>7, <1>8, <1>9 DEF Cancel

\* A session of an actor is registered and removed for one episode.
LEMMA RegistryTypes ==
  ASSUME sessions \in [Gateways -> SUBSET Episodes], NEW e \in Episodes, home[e] \in Gateways,
         \/ UNCHANGED sessions
         \/ Unregister(e)
         \/ sessions' = [sessions EXCEPT ![home[e]] = @ \cup {e}]
  PROVE  /\ sessions' \in [Gateways -> SUBSET Episodes]
         /\ \A x \in Episodes \ {e}, g \in Gateways : x \in sessions'[g] <=> x \in sessions[g]
BY DEF Unregister

\* A call of an episode gets its next state.
LEMMA MarkTypes ==
  ASSUME NEW States, call \in [Episodes -> [Calls -> States]],
         NEW e \in Episodes, NEW c \in Calls, NEW state \in States, Mark(e, c, state)
  PROVE  call' \in [Episodes -> [Calls -> States]]
BY DEF Mark

\* What the actors and the runner's requests do keeps the invariant.
LEMMA ActorKeepsInv ==
  ASSUME LifeInv, NEW e \in Episodes,
         ActorStep(e) \/ RequestContinues(e) \/ RequestStarts(e) \/ RejectCreate(e)
         \/ FailFinalize(e)
  PROVE  LifeInv'
<1> USE DEF Mark, Awaits, Over, Calls, Nowhere, Gateways, framework, manager, Live, Busy,
    Queued
<1>1. EpisodeTypes /\ EpisodeInv(e)
  BY DEF LifeInv
<1>2. call[e] \in [Calls -> {"unsent", "sent", "locked", "ok", "raised"}]
  BY <1>1 DEF EpisodeTypes
<1>3. CASE HandleCreate(e)
  <2>1. home[e] \in Gateways
    BY <1>1, <1>3 DEF EpisodeInv, CallsSent, CallsAnswered, HandleCreate
  <2>2. /\ sessions' \in [Gateways -> SUBSET Episodes]
        /\ \A x \in Episodes \ {e}, g \in Gateways : x \in sessions'[g] <=> x \in sessions[g]
    BY <1>1, <1>3, <2>1, RegistryTypes DEF EpisodeTypes, HandleCreate
  <2>3. EpisodeTypes'
    BY <1>1, <1>3, <2>2 DEF EpisodeTypes, HandleCreate
  <2>4. EpisodeInv(e)'
    BY <1>1, <1>3, <2>1, <2>3 DEF EpisodeTypes, EpisodeInv, CallsAnswered, CallsSent,
      AbortsExplained, RouteHeld, HandleCreate, Unregister
  <2>5. Untouched(e)
    BY <1>1, <1>3, <2>2 DEF EpisodeTypes, Untouched, HandleCreate
  <2>6. RouteMoves(e) /\ SlotMoves(e)
    BY <1>1, <1>3 DEF EpisodeTypes, RouteMoves, SlotMoves, HandleCreate
  <2>7. QED BY <2>3, <2>4, <2>5, <2>6, StepOfOne
<1>4. CASE QueueForLock(e)
  <2>1. home[e] \in Gateways
    BY <1>1, <1>4 DEF EpisodeInv, CallsSent, CallsAnswered, QueueForLock
  <2>2. /\ sessions' \in [Gateways -> SUBSET Episodes]
        /\ \A x \in Episodes \ {e}, g \in Gateways : x \in sessions'[g] <=> x \in sessions[g]
    BY <1>1, <1>4, <2>1, RegistryTypes DEF EpisodeTypes, QueueForLock
  <2>3. EpisodeTypes'
    <3>1. call' \in [Episodes -> [Calls -> {"unsent", "sent", "locked", "ok", "raised"}]]
      BY <1>1, <1>4, MarkTypes DEF EpisodeTypes, QueueForLock
    <3>2. phase' \in [Episodes -> {"none", "ACTIVE", "FINALIZED", "ABORTED"}]
      BY <1>1, <1>4 DEF EpisodeTypes, QueueForLock
    <3>3. UNCHANGED <<mode, episode, cause, runner, route, aborter, home, request, faults>>
      BY <1>4 DEF QueueForLock
    <3>4. QED BY <1>1, <2>2, <3>1, <3>2, <3>3 DEF EpisodeTypes
  <2>4. EpisodeInv(e)'
    BY <1>1, <1>4, <2>1, <2>3 DEF EpisodeTypes, EpisodeInv, CallsAnswered, CallsSent,
      AbortsExplained, RouteHeld, QueueForLock, Unregister
  <2>5. Untouched(e)
    BY <1>1, <1>4, <2>2 DEF EpisodeTypes, Untouched, QueueForLock
  <2>6. RouteMoves(e) /\ SlotMoves(e)
    BY <1>1, <1>4 DEF EpisodeTypes, RouteMoves, SlotMoves, QueueForLock
  <2>7. QED BY <2>3, <2>4, <2>5, <2>6, StepOfOne
<1>5. CASE HandleFinalize(e)
  <2>1. home[e] \in Gateways
    BY <1>1, <1>5 DEF EpisodeInv, CallsSent, CallsAnswered, HandleFinalize
  <2>2. /\ sessions' \in [Gateways -> SUBSET Episodes]
        /\ \A x \in Episodes \ {e}, g \in Gateways : x \in sessions'[g] <=> x \in sessions[g]
    BY <1>1, <1>5, <2>1, RegistryTypes DEF EpisodeTypes, HandleFinalize
  <2>3. EpisodeTypes'
    <3>1. call' \in [Episodes -> [Calls -> {"unsent", "sent", "locked", "ok", "raised"}]]
      BY <1>1, <1>5, MarkTypes DEF EpisodeTypes, HandleFinalize
    <3>2. phase' \in [Episodes -> {"none", "ACTIVE", "FINALIZED", "ABORTED"}]
      BY <1>1, <1>5 DEF EpisodeTypes, HandleFinalize
    <3>3. UNCHANGED <<mode, episode, cause, runner, route, aborter, home, request, faults>>
      BY <1>5 DEF HandleFinalize
    <3>4. QED BY <1>1, <2>2, <3>1, <3>2, <3>3 DEF EpisodeTypes
  <2>4. EpisodeInv(e)'
    BY <1>1, <1>5, <2>1, <2>3 DEF EpisodeTypes, EpisodeInv, CallsAnswered, CallsSent,
      AbortsExplained, RouteHeld, HandleFinalize, Unregister
  <2>5. Untouched(e)
    BY <1>1, <1>5, <2>2 DEF EpisodeTypes, Untouched, HandleFinalize
  <2>6. RouteMoves(e) /\ SlotMoves(e)
    BY <1>1, <1>5 DEF EpisodeTypes, RouteMoves, SlotMoves, HandleFinalize
  <2>7. QED BY <2>3, <2>4, <2>5, <2>6, StepOfOne
<1>6. CASE HandleAbort(e)
  <2>1. home[e] \in Gateways
    BY <1>1, <1>6 DEF EpisodeInv, CallsSent, CallsAnswered, HandleAbort
  <2>2. /\ sessions' \in [Gateways -> SUBSET Episodes]
        /\ \A x \in Episodes \ {e}, g \in Gateways : x \in sessions'[g] <=> x \in sessions[g]
    BY <1>1, <1>6, <2>1, RegistryTypes DEF EpisodeTypes, HandleAbort
  <2>3. EpisodeTypes'
    <3>1. call' \in [Episodes -> [Calls -> {"unsent", "sent", "locked", "ok", "raised"}]]
      BY <1>1, <1>6, MarkTypes DEF EpisodeTypes, HandleAbort
    <3>2. phase' \in [Episodes -> {"none", "ACTIVE", "FINALIZED", "ABORTED"}]
      BY <1>1, <1>6 DEF EpisodeTypes, HandleAbort
    <3>3. UNCHANGED <<mode, episode, cause, runner, route, aborter, home, request, faults>>
      BY <1>6 DEF HandleAbort
    <3>4. QED BY <1>1, <2>2, <3>1, <3>2, <3>3 DEF EpisodeTypes
  <2>4. EpisodeInv(e)'
    BY <1>1, <1>6, <2>1, <2>3 DEF EpisodeTypes, EpisodeInv, CallsAnswered, CallsSent,
      AbortsExplained, RouteHeld, HandleAbort, Unregister
  <2>5. Untouched(e)
    BY <1>1, <1>6, <2>2 DEF EpisodeTypes, Untouched, HandleAbort
  <2>6. RouteMoves(e) /\ SlotMoves(e)
    BY <1>1, <1>6 DEF EpisodeTypes, RouteMoves, SlotMoves, HandleAbort
  <2>7. QED BY <2>3, <2>4, <2>5, <2>6, StepOfOne
<1>7. CASE RejectCreate(e)
  <2>1. home[e] \in Gateways
    BY <1>1, <1>7 DEF EpisodeInv, CallsSent, CallsAnswered, RejectCreate
  <2>2. /\ sessions' \in [Gateways -> SUBSET Episodes]
        /\ \A x \in Episodes \ {e}, g \in Gateways : x \in sessions'[g] <=> x \in sessions[g]
    BY <1>1, <1>7, <2>1, RegistryTypes DEF EpisodeTypes, RejectCreate
  <2>3. EpisodeTypes'
    BY <1>1, <1>7, <2>2, LimitsAssumption DEF EpisodeTypes, RejectCreate, Fault
  <2>4. EpisodeInv(e)'
    BY <1>1, <1>7, <2>1, <2>3 DEF EpisodeTypes, EpisodeInv, CallsAnswered, CallsSent,
      AbortsExplained, RouteHeld, RejectCreate, Unregister
  <2>5. Untouched(e)
    BY <1>1, <1>7, <2>2 DEF EpisodeTypes, Untouched, RejectCreate
  <2>6. RouteMoves(e) /\ SlotMoves(e)
    BY <1>1, <1>7 DEF EpisodeTypes, RouteMoves, SlotMoves, RejectCreate
  <2>7. QED BY <2>3, <2>4, <2>5, <2>6, StepOfOne
<1>8. CASE FailFinalize(e)
  <2>1. home[e] \in Gateways
    BY <1>1, <1>8 DEF EpisodeInv, CallsSent, CallsAnswered, FailFinalize
  <2>2. /\ sessions' \in [Gateways -> SUBSET Episodes]
        /\ \A x \in Episodes \ {e}, g \in Gateways : x \in sessions'[g] <=> x \in sessions[g]
    BY <1>1, <1>8, <2>1, RegistryTypes DEF EpisodeTypes, FailFinalize
  <2>3. EpisodeTypes'
    BY <1>1, <1>8, <2>2, LimitsAssumption DEF EpisodeTypes, FailFinalize, Fault
  <2>4. EpisodeInv(e)'
    BY <1>1, <1>8, <2>1, <2>3 DEF EpisodeTypes, EpisodeInv, CallsAnswered, CallsSent,
      AbortsExplained, RouteHeld, FailFinalize, Unregister
  <2>5. Untouched(e)
    BY <1>1, <1>8, <2>2 DEF EpisodeTypes, Untouched, FailFinalize
  <2>6. RouteMoves(e) /\ SlotMoves(e)
    BY <1>1, <1>8 DEF EpisodeTypes, RouteMoves, SlotMoves, FailFinalize
  <2>7. QED BY <2>3, <2>4, <2>5, <2>6, StepOfOne
<1>9. CASE RequestStarts(e) \/ RequestContinues(e)
  <2>1. UNCHANGED <<framework, manager, call, sessions, phase, faults>>
    BY <1>9 DEF RequestStarts, RequestContinues
  <2>2. EpisodeTypes'
    <3>1. request' \in [Episodes -> {"idle", "preparing", "backend", "committing"}]
      BY <1>1, <1>9 DEF EpisodeTypes, RequestStarts, RequestContinues
    <3>2. QED BY <1>1, <2>1, <3>1 DEF EpisodeTypes
  <2>3. EpisodeInv(e)'
    BY <1>1, <2>1 DEF EpisodeInv, CallsAnswered, CallsSent, AbortsExplained, RouteHeld
  <2>4. Untouched(e) /\ RouteMoves(e) /\ SlotMoves(e)
    BY <2>1 DEF Untouched, RouteMoves, SlotMoves
  <2>5. QED BY <2>2, <2>3, <2>4, StepOfOne
<1>10. QED BY <1>3, <1>4, <1>5, <1>6, <1>7, <1>8, <1>9 DEF ActorStep

-----------------------------------------------------------------------------
(* The theorems.                                                           *)

LEMMA LifeInvHolds == Spec => []LifeInv
<1>1. Init => LifeInv
  <2> SUFFICES ASSUME Init PROVE LifeInv
    OBVIOUS
  <2>1. EpisodeTypes
    BY LimitsAssumption, GatewaysAssumption DEF Init, EpisodeTypes, Gateways, Nowhere, Calls
  <2>2. \A e \in Episodes : EpisodeInv(e)
    BY DEF Init, EpisodeInv, CallsAnswered, CallsSent, AbortsExplained, RouteHeld, Calls,
      Gateways, Nowhere
  <2>3. LoadCountsRoutes
    <3>1. \A g \in Gateways : RoutedTo(g) = {}
      BY DEF Init, RoutedTo, Gateways, Nowhere
    <3>2. QED BY <3>1, FS_EmptySet DEF Init, LoadCountsRoutes
  <2>4. SlotsConserved
    <3>1. {e \in Episodes : episode[e] \in Awaits} = {}
      BY DEF Init, Awaits
    <3>2. Cardinality({e \in Episodes : episode[e] \in Awaits}) = 0
      BY <3>1, FS_EmptySet
    <3>3. slots = MaxSessions
      BY DEF Init
    <3>4. QED BY <3>2, <3>3, LimitsAssumption DEF SlotsConserved
  <2>5. Books
    BY <2>3, <2>4, LimitsAssumption DEF Init, Books
  <2>6. QED BY <2>1, <2>2, <2>5 DEF LifeInv
<1>2. LifeInv /\ [Next]_vars => LifeInv'
  <2> SUFFICES ASSUME LifeInv, [Next]_vars PROVE LifeInv'
    OBVIOUS
  <2>1. CASE UNCHANGED vars
    BY <2>1 DEF LifeInv, EpisodeTypes, Books, LoadCountsRoutes, RoutedTo, SlotsConserved,
      EpisodeInv, CallsAnswered, CallsSent, AbortsExplained, RouteHeld, vars, framework,
      manager, actor
  <2>2. ASSUME NEW e \in Episodes,
               EpisodeStep(e) \/ ActorStep(e) \/ RequestContinues(e) \/ Environment(e)
        PROVE  LifeInv'
    BY <2>2, FrameworkKeepsInv, CancelKeepsInv, ActorKeepsInv DEF Environment
  <2>3. QED BY <2>1, <2>2 DEF Next, Terminated
<1>3. QED BY <1>1, <1>2, PTL DEF Spec

\* For every batch: the load of each Gateway is the number of routes to it, a
\* slot of the semaphore is held by each episode inside and by nobody else, and
\* what is scored was finalized and never aborted.
THEOREM AccountsBalance == Spec => []EpisodesAccounted
<1>1. LifeInv => EpisodesAccounted
  <2> SUFFICES ASSUME LifeInv PROVE EpisodesAccounted
    OBVIOUS
  <2>1. slots \in IF MaxSessions > 0 THEN 0..MaxSessions ELSE {MaxSessions}
    <3> DEFINE Inside == {e \in Episodes : episode[e] \in Awaits}
    <3>1. Cardinality(Inside) \in Nat
      BY EpisodesAssumption, FS_Subset, FS_CardinalityType
    <3>2. QED BY <3>1, LimitsAssumption DEF LifeInv, Books, SlotsConserved
  <2>2. TypeOK
    BY <2>1 DEF LifeInv, EpisodeTypes, Books, TypeOK
  <2>3. ScoredMeansFinalized
    BY DEF LifeInv, EpisodeInv, CallsAnswered, CallsSent, AbortsExplained,
      ScoredMeansFinalized
  <2>4. QED BY <2>2, <2>3 DEF LifeInv, Books, EpisodesAccounted
<1>2. QED BY <1>1, LifeInvHolds, PTL

\* For every batch: while its runner runs, a session is live at the actor it is
\* routed to; and when an episode is over and quiet, its route and its session
\* are gone, except after the cancellations that nothing cleans up after.
THEOREM SessionsFollow == Spec => []SessionFollowsEpisode
<1>1. LifeInv => SessionFollowsEpisode
  <2> SUFFICES ASSUME LifeInv PROVE SessionFollowsEpisode
    OBVIOUS
  <2>1. EpisodeTypes /\ \A e \in Episodes : EpisodeInv(e)
    BY DEF LifeInv
  <2>2. SessionOutlivesRunner
    <3> SUFFICES ASSUME NEW e \in Episodes, runner[e] = "running"
                 PROVE  route[e] \in Gateways /\ e \in sessions[route[e]] /\ phase[e] = "ACTIVE"
      BY DEF SessionOutlivesRunner
    <3>1. EpisodeInv(e)
      BY <2>1
    <3>2. route[e] = home[e] /\ home[e] \in Gateways
      BY <3>1 DEF EpisodeInv, CallsSent, RouteHeld
    <3>3. phase[e] = "ACTIVE"
      BY <2>1, <3>1 DEF EpisodeTypes, EpisodeInv, CallsAnswered, CallsSent, AbortsExplained
    <3>4. QED BY <3>1, <3>2, <3>3 DEF EpisodeInv, CallsAnswered
  <2>3. ReleasedWhenOver
    <3> SUFFICES ASSUME NEW e \in Episodes, Quiet(e), ~CutShort(e)
                 PROVE  route[e] = Nowhere /\ phase[e] # "ACTIVE"
      BY <2>1 DEF ReleasedWhenOver, EpisodeInv, CallsAnswered
    <3>1. EpisodeInv(e) /\ EpisodeTypes
      BY <2>1
    <3>2. CASE episode[e] \in {"ok", "failed"}
      BY <3>1, <3>2 DEF EpisodeInv, CallsAnswered, CallsSent, RouteHeld
    <3>3. CASE episode[e] = "cancelled"
      BY <3>1, <3>3 DEF EpisodeInv, EpisodeTypes, CallsAnswered, AbortsExplained, RouteHeld,
        Quiet, CutShort
    <3>4. QED BY <3>2, <3>3 DEF Quiet, Over
  <2>4. QED BY <2>2, <2>3 DEF SessionFollowsEpisode
<1>2. QED BY <1>1, LifeInvHolds, PTL

=============================================================================
