-------------------------- MODULE MultiPolicyProofs --------------------------
(***************************************************************************)
(* Why the load of the Gateways counts the session groups, why a group is  *)
(* never used for training in part, and why nothing of a group that is     *)
(* over is left with an actor: three inductive invariants of               *)
(* SessionGroups, for any number of groups, roles and Gateways.            *)
(*                                                                         *)
(* Why a prompt is trained on once and accounted for across crashes and    *)
(* resumes, and why the tracker names a checkpoint that can be loaded: one *)
(* inductive invariant of PolicyTraining, for any policies, warm-up, saves *)
(* and faults.                                                             *)
(***************************************************************************)
EXTENDS MultiPolicy, FiniteSetTheorems, TLAPS

-----------------------------------------------------------------------------
(* The session groups. *)

CallerStages == CallerOver \cup {"idle", "creating", "unwinding", "running", "finalizing",
                                "sweeping", "aborting"}

\* Where the groups are placed, and the load this makes.
LoadInv ==
  /\ index \in [Groups -> Pool \cup {NoIndex}]
  /\ groupLoad \in [Pool -> Nat]
  /\ caller \in [Groups -> CallerStages]
  /\ \A g \in Groups : caller[g] = "idle" => index[g] = NoIndex
  /\ GroupLoadExact

\* The groups that are placed on a Gateway.
Placed(i) == {g \in Groups : index[g] = i}

LEMMA PlacedFinite ==
  ASSUME NEW i
  PROVE  IsFiniteSet(Placed(i)) /\ Cardinality(Placed(i)) \in Nat
BY GroupBoundsAssumption, FS_Subset, FS_CardinalityType DEF Placed

LEMMA NoIndexOutside == NoIndex \notin Pool
BY GroupBoundsAssumption DEF NoIndex, Pool

\* The slot is given back once, whoever pops the index and however often.
LEMMA DropStep ==
  ASSUME LoadInv, NEW g \in Groups, Drop(g)
  PROVE  /\ index' = [index EXCEPT ![g] = NoIndex]
         /\ groupLoad' \in [Pool -> Nat]
         /\ GroupLoadExact'
<1>1. /\ index' = [index EXCEPT ![g] = NoIndex]
      /\ groupLoad' = [i \in Pool |-> groupLoad[i] - IF i = index[g] THEN 1 ELSE 0]
  BY DEF Drop
<1>2. ASSUME NEW i \in Pool
      PROVE  groupLoad'[i] \in Nat /\ groupLoad'[i] = Cardinality(Placed(i)')
  <2>1. groupLoad[i] = Cardinality(Placed(i)) /\ groupLoad[i] \in Nat
    BY DEF LoadInv, GroupLoadExact, Placed
  <2>2. CASE i = index[g]
    <3>1. Placed(i)' = Placed(i) \ {g} /\ g \in Placed(i)
      BY <1>1, <2>2, NoIndexOutside DEF Placed, LoadInv
    <3>2. Cardinality(Placed(i) \ {g}) = Cardinality(Placed(i)) - 1
      BY <3>1, PlacedFinite, FS_RemoveElement
    <3>3. groupLoad'[i] = groupLoad[i] - 1
      BY <1>1, <2>2
    <3>4. Cardinality(Placed(i) \ {g}) \in Nat
      BY PlacedFinite, FS_RemoveElement, FS_CardinalityType
    <3>5. QED BY <2>1, <3>1, <3>2, <3>3, <3>4
  <2>3. CASE i # index[g]
    <3>1. Placed(i)' = Placed(i)
      BY <1>1, <2>3, NoIndexOutside DEF Placed, LoadInv
    <3>2. groupLoad'[i] = groupLoad[i]
      BY <1>1, <2>1, <2>3
    <3>3. QED BY <2>1, <3>1, <3>2
  <2>4. QED BY <2>2, <2>3
<1>3. groupLoad' \in [Pool -> Nat]
  BY <1>1, <1>2
<1>4. GroupLoadExact'
  BY <1>2 DEF GroupLoadExact, Placed
<1>5. QED BY <1>1, <1>3, <1>4

\* A new group takes a slot of the Gateway it is placed on.
LEMMA PlaceStep ==
  ASSUME LoadInv, NEW g \in Groups, NEW i \in Pool, caller[g] = "idle",
         index' = [index EXCEPT ![g] = i],
         groupLoad' = [groupLoad EXCEPT ![i] = @ + 1]
  PROVE  groupLoad' \in [Pool -> Nat] /\ GroupLoadExact'
<1>1. index[g] = NoIndex
  BY DEF LoadInv
<1>2. ASSUME NEW j \in Pool
      PROVE  groupLoad'[j] = Cardinality(Placed(j)')
  <2>1. groupLoad[j] = Cardinality(Placed(j)) /\ groupLoad[j] \in Nat
    BY DEF LoadInv, GroupLoadExact, Placed
  <2>2. CASE j = i
    <3>1. Placed(j)' = Placed(j) \cup {g} /\ g \notin Placed(j)
      BY <1>1, <2>2, NoIndexOutside DEF Placed, LoadInv
    <3>2. Cardinality(Placed(j) \cup {g}) = Cardinality(Placed(j)) + 1
      BY <3>1, PlacedFinite, FS_AddElement
    <3>3. groupLoad'[j] = groupLoad[j] + 1
      BY <2>2 DEF LoadInv
    <3>4. QED BY <2>1, <3>1, <3>2, <3>3
  <2>3. CASE j # i
    <3>1. Placed(j)' = Placed(j)
      BY <1>1, <2>3, NoIndexOutside DEF Placed, LoadInv
    <3>2. groupLoad'[j] = groupLoad[j]
      BY <2>3 DEF LoadInv
    <3>3. QED BY <2>1, <3>1, <3>2
  <2>4. QED BY <2>2, <2>3
<1>3. groupLoad' \in [Pool -> Nat]
  BY DEF LoadInv
<1>4. QED BY <1>2, <1>3 DEF GroupLoadExact, Placed

\* A step that moves no group back to idle, and either leaves the load alone or
\* drops one group, keeps the load exact.
LEMMA LoadKept ==
  ASSUME LoadInv,
         \/ UNCHANGED caller
         \/ \E g \in Groups, stage \in CallerStages \ {"idle"} : Moves(g, stage),
         UNCHANGED <<index, groupLoad>> \/ \E g \in Groups : Drop(g)
  PROVE  LoadInv'
<1>1. caller' \in [Groups -> CallerStages] /\ \A g \in Groups : caller'[g] = "idle" => caller[g] = "idle"
  BY DEF LoadInv, Moves
<1>2. CASE UNCHANGED <<index, groupLoad>>
  BY <1>1, <1>2 DEF LoadInv, GroupLoadExact
<1>3. CASE \E g \in Groups : Drop(g)
  <2>1. PICK g \in Groups : Drop(g)
    BY <1>3
  <2>2. /\ index' = [index EXCEPT ![g] = NoIndex]
        /\ groupLoad' \in [Pool -> Nat]
        /\ GroupLoadExact'
    BY <2>1, DropStep
  <2>3. QED BY <1>1, <2>2 DEF LoadInv
<1>4. QED BY <1>2, <1>3

-----------------------------------------------------------------------------
\* Only create_session places a group, and only a drop or the end of shutdown()
\* takes it out.
LEMMA LoadStep == LoadInv /\ [GroupNext]_groupvars => LoadInv'
<1> SUFFICES ASSUME LoadInv, [GroupNext]_groupvars PROVE LoadInv'
  OBVIOUS
<1>1. ASSUME NEW g \in Groups, CreateGroup(g) PROVE LoadInv'
  <2>1. PICK i \in Pool : /\ index' = [index EXCEPT ![g] = i]
                         /\ groupLoad' = [groupLoad EXCEPT ![i] = @ + 1]
    BY <1>1 DEF CreateGroup
  <2>2. caller[g] = "idle" /\ caller' = [caller EXCEPT ![g] = "creating"]
    BY <1>1 DEF CreateGroup, Moves
  <2>3. groupLoad' \in [Pool -> Nat] /\ GroupLoadExact'
    BY <2>1, <2>2, PlaceStep
  <2>4. QED BY <2>1, <2>2, <2>3 DEF LoadInv, CallerStages
<1>2. ASSUME NEW g \in Groups,
             RoleCreated(g) \/ RunnerReturns(g) \/ FinalizeRoleFails(g) \/ SweepOfShutdown(g)
      PROVE  LoadInv'
  <2>1. UNCHANGED <<index, groupLoad>>
    BY <1>2 DEF RoleCreated, RunnerReturns, FinalizeRoleFails, SweepOfShutdown
  <2>2. \/ UNCHANGED caller
        \/ \E stage \in {"running", "failed", "finalizing", "sweeping"} : Moves(g, stage)
    BY <1>2 DEF RoleCreated, RunnerReturns, FinalizeRoleFails, SweepOfShutdown, EndsFailed
  <2>3. QED BY <2>1, <2>2, LoadKept DEF CallerStages, CallerOver
<1>3. ASSUME NEW g \in Groups, CreateRoleFails(g) \/ Unwound(g) \/ RunnerRaises(g) PROVE LoadInv'
  <2>1. UNCHANGED <<index, groupLoad>> \/ Drop(g)
    BY <1>3 DEF CreateRoleFails, CreateUnwinds, Unwound, RunnerRaises, BeginsAbort
  <2>2. \E stage \in {"unwinding", "failed", "aborting"} : Moves(g, stage)
    BY <1>3 DEF CreateRoleFails, CreateUnwinds, Unwound, RunnerRaises, BeginsAbort, EndsFailed
  <2>3. QED BY <2>1, <2>2, LoadKept DEF CallerStages, CallerOver
<1>4. ASSUME NEW g \in Groups, RoleFinalized(g) \/ SweepAfterFinalize(g) \/ SweepOfAbort(g)
      PROVE  LoadInv'
  <2>1. UNCHANGED <<index, groupLoad>> \/ Drop(g)
    BY <1>4 DEF RoleFinalized, SweepAfterFinalize, SweepOfAbort
  <2>2. UNCHANGED caller \/ \E stage \in {"ok", "failed"} : Moves(g, stage)
    BY <1>4 DEF RoleFinalized, SweepAfterFinalize, SweepOfAbort, EndsFailed
  <2>3. QED BY <2>1, <2>2, LoadKept DEF CallerStages, CallerOver
<1>5. ASSUME NEW g \in Groups, CancelCaller(g) PROVE LoadInv'
  <2>1. UNCHANGED <<index, groupLoad>> \/ Drop(g)
    BY <1>5 DEF CancelCaller, CancelCreate, CancelUnwinding, CancelRunner, CancelFinalize,
                CancelSweep, CancelAbort, CreateUnwinds, BeginsAbort
  <2>2. \E stage \in {"unwinding", "failed", "aborting", "sweeping"} : Moves(g, stage)
    BY <1>5 DEF CancelCaller, CancelCreate, CancelUnwinding, CancelRunner, CancelFinalize,
                CancelSweep, CancelAbort, CreateUnwinds, BeginsAbort, EndsFailed
  <2>3. QED BY <2>1, <2>2, LoadKept DEF CallerStages, CallerOver
<1>6. ASSUME NEW g \in Groups, NEW r \in Roles, Serve(g, r) \/ ServeFails(g, r) PROVE LoadInv'
  <2>1. UNCHANGED <<caller, index, groupLoad>>
    BY <1>6 DEF Serve, ServeFails
  <2>2. QED BY <2>1, LoadKept
<1>7. CASE BeginShutdown \/ StopActors \/ CancelShutdown \/ UNCHANGED groupvars
  <2>1. UNCHANGED <<caller, index, groupLoad>>
    BY <1>7 DEF BeginShutdown, StopActors, CancelShutdown, groupvars
  <2>2. QED BY <2>1, LoadKept
<1>8. CASE ShutDown
  <2>1. /\ index' = [g \in Groups |-> NoIndex] /\ groupLoad' = [i \in Pool |-> 0]
        /\ UNCHANGED caller
    BY <1>8 DEF ShutDown
  <2>2. \A i \in Pool : {g \in Groups : index'[g] = i} = {}
    BY <2>1, NoIndexOutside
  <2>3. QED BY <2>1, <2>2, FS_EmptySet DEF LoadInv, GroupLoadExact, CallerStages
<1>9. QED
  BY <1>1, <1>2, <1>3, <1>4, <1>5, <1>6, <1>7, <1>8 DEF GroupNext, GroupsOver

LEMMA LoadInit == GroupInit => LoadInv
<1> SUFFICES ASSUME GroupInit PROVE LoadInv
  OBVIOUS
<1>1. /\ index = [g \in Groups |-> NoIndex] /\ groupLoad = [i \in Pool |-> 0]
      /\ caller = [g \in Groups |-> "idle"]
  BY DEF GroupInit
<1>2. \A i \in Pool : {g \in Groups : index[g] = i} = {}
  BY <1>1, NoIndexOutside
<1>3. QED BY <1>1, <1>2, FS_EmptySet DEF LoadInv, GroupLoadExact, CallerStages

\* Placement goes by a load that is exact in every state, whichever of the
\* caller, its shielded abort, finalize's own sweep and shutdown() drops a group.
THEOREM LoadCountsGroups == GroupSpec => []GroupLoadExact
<1>1. LoadInv => GroupLoadExact
  BY DEF LoadInv
<1>2. QED BY <1>1, LoadInit, LoadStep, PTL DEF GroupSpec

-----------------------------------------------------------------------------
(* A group is handed out whole. *)

Ops == {"create", "finalize", "abort"}
Calls == [op : Ops, by : Parties \cup {"nobody"}]

GroupTypes ==
  /\ caller \in [Groups -> CallerStages]
  /\ at \in [Groups -> [Parties -> 0..RoleCount]]
  /\ answer \in [Groups -> [Parties -> {"none", "ok", "raised"}]]
  /\ inbox \in [Groups -> [Roles -> Seq(Calls)]]

\* The calls that the episode of the group waits for are of this kind, and go to
\* this role.
Awaits(g, op, r) ==
  \A s \in Roles : \A k \in DOMAIN inbox[g][s] :
    inbox[g][s][k].by = "caller" => inbox[g][s][k].op = op /\ s = r

\* While a group is finalized, the roles behind the one it has come to are
\* finalized, and so is that one when its call was answered.
Finalizing(g) ==
  /\ at[g]["caller"] \in Roles
  /\ \A r \in Roles : r < at[g]["caller"] => <<g, r>> \in finalized
  /\ answer[g]["caller"] = "ok" => <<g, at[g]["caller"]>> \in finalized
  /\ Awaits(g, "finalize", at[g]["caller"])

\* No abort goes on beside a finalize.
WholeInv ==
  /\ GroupTypes
  /\ \A g \in Groups : at[g]["abort"] # 0 => caller[g] \in {"unwinding", "aborting", "failed"}
  /\ \A g \in Groups : caller[g] = "finalizing" => Finalizing(g)
  /\ WholeGroups

LEMMA DisownedType ==
  ASSUME NEW calls \in Seq(Calls), NEW parties
  PROVE  /\ Disowned(calls, parties) \in Seq(Calls)
         /\ Len(Disowned(calls, parties)) = Len(calls)
         /\ \A k \in 1..Len(calls) :
              /\ Disowned(calls, parties)[k].by \notin parties \/ "nobody" \in parties
              /\ Disowned(calls, parties)[k].by # "nobody"
                   => Disowned(calls, parties)[k] = calls[k]
<1>1. DOMAIN calls = 1..Len(calls) /\ Len(calls) \in Nat
  OBVIOUS
<1>2. \A k \in 1..Len(calls) : [calls[k] EXCEPT !.by = "nobody"] \in Calls
                              /\ [calls[k] EXCEPT !.by = "nobody"].by = "nobody"
  <2>1. ASSUME NEW call \in Calls
        PROVE  /\ [call EXCEPT !.by = "nobody"] \in Calls
               /\ [call EXCEPT !.by = "nobody"].by = "nobody"
    BY DEF Calls
  <2>2. \A k \in 1..Len(calls) : calls[k] \in Calls
    OBVIOUS
  <2>3. QED BY <2>1, <2>2
<1>3. Disowned(calls, parties)
        = [k \in 1..Len(calls) |->
             IF calls[k].by \in parties THEN [calls[k] EXCEPT !.by = "nobody"] ELSE calls[k]]
  BY <1>1 DEF Disowned
<1>4. Disowned(calls, parties) \in [1..Len(calls) -> Calls]
  BY <1>1, <1>2, <1>3
<1>5. Disowned(calls, parties) \in Seq(Calls) /\ Len(Disowned(calls, parties)) = Len(calls)
  BY <1>1, <1>4
<1>6. QED BY <1>2, <1>3, <1>5

\* What a party sends, and what is left of the calls before.
LEMMA SendsFacts ==
  ASSUME GroupTypes, NEW g \in Groups, NEW p \in Parties, NEW op \in Ops, NEW r \in Roles,
         Sends(g, p, op, r)
  PROVE  /\ at' \in [Groups -> [Parties -> 0..RoleCount]]
         /\ answer' \in [Groups -> [Parties -> {"none", "ok", "raised"}]]
         /\ inbox' \in [Groups -> [Roles -> Seq(Calls)]]
         /\ \A h \in Groups \ {g} : at'[h] = at[h] /\ answer'[h] = answer[h] /\ inbox'[h] = inbox[h]
         /\ at'[g][p] = r /\ answer'[g][p] = "none"
         /\ p # "abort" => at'[g]["abort"] = at[g]["abort"]
         /\ p = "shutdown" => at'[g]["caller"] = at[g]["caller"] /\ answer'[g]["caller"] = answer[g]["caller"]
         /\ \A s \in Roles : \A k \in DOMAIN inbox'[g][s] :
              inbox'[g][s][k].by = "caller" =>
                \/ p = "caller" /\ inbox'[g][s][k].op = op /\ s = r
                \/ /\ p = "shutdown" /\ k \in DOMAIN inbox[g][s]
                   /\ inbox'[g][s][k] = inbox[g][s][k]
<1> DEFINE left == IF p = "abort" THEN {p, "caller"} ELSE {p}
           kept(s) == Disowned(inbox[g][s], left)
           call == [op |-> op, by |-> p]
<1>1. /\ at' = [at EXCEPT ![g] = [q \in Parties |->
                   IF q = p THEN r ELSE IF q \in left THEN 0 ELSE at[g][q]]]
      /\ answer' = [answer EXCEPT ![g] = [q \in Parties |->
                       IF q \in left THEN "none" ELSE answer[g][q]]]
      /\ inbox' = [inbox EXCEPT ![g] = [s \in Roles |->
                      IF s = r THEN Append(kept(s), call) ELSE kept(s)]]
  BY DEF Sends, GroupTypes
<1>2. RoleCount \in Nat /\ r \in 0..RoleCount /\ call \in Calls
  BY GroupBoundsAssumption DEF Roles, Calls
<1>3. \A s \in Roles : /\ kept(s) \in Seq(Calls)
                       /\ Len(kept(s)) = Len(inbox[g][s])
                       /\ \A k \in 1..Len(kept(s)) :
                            /\ kept(s)[k].by \notin left
                            /\ kept(s)[k].by # "nobody" => kept(s)[k] = inbox[g][s][k]
  <2>1. \A s \in Roles : inbox[g][s] \in Seq(Calls)
    BY DEF GroupTypes
  <2>2. "nobody" \notin left
    BY DEF Parties
  <2>3. QED BY <2>1, <2>2, DisownedType
<1> HIDE DEF kept, call
<1>4. at' \in [Groups -> [Parties -> 0..RoleCount]]
  BY <1>1, <1>2 DEF GroupTypes
<1>5. answer' \in [Groups -> [Parties -> {"none", "ok", "raised"}]]
  BY <1>1 DEF GroupTypes
<1>6. inbox' \in [Groups -> [Roles -> Seq(Calls)]]
  <2>1. \A s \in Roles : (IF s = r THEN Append(kept(s), call) ELSE kept(s)) \in Seq(Calls)
    <3>1. TAKE s \in Roles
    <3>2. kept(s) \in Seq(Calls) /\ call \in Calls
      BY <1>2, <1>3
    <3>3. Append(kept(s), call) \in Seq(Calls)
      BY <3>2
    <3>4. QED BY <3>2, <3>3
  <2>2. [s \in Roles |-> IF s = r THEN Append(kept(s), call) ELSE kept(s)] \in [Roles -> Seq(Calls)]
    BY <2>1
  <2>3. QED BY <1>1, <2>2 DEF GroupTypes
<1>7. \A h \in Groups \ {g} : at'[h] = at[h] /\ answer'[h] = answer[h] /\ inbox'[h] = inbox[h]
  BY <1>1 DEF GroupTypes
<1>8. /\ at'[g][p] = r /\ answer'[g][p] = "none"
      /\ p # "abort" => at'[g]["abort"] = at[g]["abort"]
      /\ p = "shutdown" => at'[g]["caller"] = at[g]["caller"] /\ answer'[g]["caller"] = answer[g]["caller"]
  BY <1>1 DEF GroupTypes, Parties
<1>9. ASSUME NEW s \in Roles, NEW k \in DOMAIN inbox'[g][s], inbox'[g][s][k].by = "caller"
      PROVE  \/ p = "caller" /\ inbox'[g][s][k].op = op /\ s = r
             \/ /\ p = "shutdown" /\ k \in DOMAIN inbox[g][s]
                /\ inbox'[g][s][k] = inbox[g][s][k]
  <2>1. inbox'[g][s] = IF s = r THEN Append(kept(s), call) ELSE kept(s)
    BY <1>1 DEF GroupTypes
  <2>2. kept(s) \in Seq(Calls) /\ Len(kept(s)) \in Nat /\ DOMAIN kept(s) = 1..Len(kept(s))
        /\ inbox[g][s] \in Seq(Calls) /\ DOMAIN inbox[g][s] = 1..Len(inbox[g][s])
    BY <1>3 DEF GroupTypes
  <2>3. CASE k \in 1..Len(kept(s))
    <3>1. inbox'[g][s][k] = kept(s)[k]
      BY <2>1, <2>2, <2>3
    <3>2. kept(s)[k] = inbox[g][s][k] /\ "caller" \notin left /\ k \in DOMAIN inbox[g][s]
      BY <1>3, <1>9, <2>2, <2>3, <3>1
    <3>3. p = "shutdown"
      BY <3>2 DEF Parties
    <3>4. QED BY <3>1, <3>2, <3>3
  <2>4. CASE k \notin 1..Len(kept(s))
    <3>1. s = r /\ k = Len(kept(s)) + 1
      BY <2>1, <2>2, <2>4
    <3>2. inbox'[g][s][k] = call
      BY <2>1, <2>2, <3>1
    <3>3. call.op = op /\ call.by = p
      BY DEF call
    <3>4. QED BY <1>9, <3>1, <3>2, <3>3
  <2>5. QED BY <2>3, <2>4
<1>10. QED BY <1>4, <1>5, <1>6, <1>7, <1>8, <1>9

\* A party that leaves its loop disowns its call.
LEMMA LeavesFacts ==
  ASSUME GroupTypes, NEW g \in Groups, NEW p \in Parties, Leaves(g, p)
  PROVE  /\ at' \in [Groups -> [Parties -> 0..RoleCount]]
         /\ answer' \in [Groups -> [Parties -> {"none", "ok", "raised"}]]
         /\ inbox' \in [Groups -> [Roles -> Seq(Calls)]]
         /\ \A h \in Groups \ {g} : at'[h] = at[h] /\ answer'[h] = answer[h] /\ inbox'[h] = inbox[h]
         /\ at'[g][p] = 0
         /\ \A q \in Parties \ {p} : at'[g][q] = at[g][q] /\ answer'[g][q] = answer[g][q]
         /\ \A s \in Roles : \A k \in DOMAIN inbox'[g][s] :
              inbox'[g][s][k].by = "caller" =>
                k \in DOMAIN inbox[g][s] /\ inbox'[g][s][k] = inbox[g][s][k]
<1> DEFINE kept(s) == Disowned(inbox[g][s], {p})
<1>1. /\ at' = [at EXCEPT ![g][p] = 0] /\ answer' = [answer EXCEPT ![g][p] = "none"]
      /\ inbox' = [inbox EXCEPT ![g] = [s \in Roles |-> kept(s)]]
  BY DEF Leaves
<1>2. RoleCount \in Nat
  BY GroupBoundsAssumption
<1>3. \A s \in Roles : /\ kept(s) \in Seq(Calls)
                       /\ DOMAIN kept(s) = DOMAIN inbox[g][s]
                       /\ \A k \in DOMAIN kept(s) :
                            kept(s)[k].by # "nobody" => kept(s)[k] = inbox[g][s][k]
  <2>1. ASSUME NEW s \in Roles
        PROVE  /\ kept(s) \in Seq(Calls) /\ Len(kept(s)) = Len(inbox[g][s])
               /\ inbox[g][s] \in Seq(Calls)
               /\ \A k \in 1..Len(inbox[g][s]) :
                    kept(s)[k].by # "nobody" => kept(s)[k] = inbox[g][s][k]
    <3>1. inbox[g][s] \in Seq(Calls)
      BY DEF GroupTypes
    <3>2. QED BY <3>1, DisownedType
  <2> HIDE DEF kept
  <2>2. QED BY <2>1
<1> HIDE DEF kept
<1>4. QED BY <1>1, <1>2, <1>3 DEF GroupTypes

\* A step that concerns one group, and what it has to show for it.
LEMMA GroupKept ==
  ASSUME WholeInv, GroupTypes', NEW g \in Groups,
         \A h \in Groups \ {g} : /\ caller'[h] = caller[h] /\ at'[h] = at[h]
                                 /\ answer'[h] = answer[h] /\ inbox'[h] = inbox[h],
         finalized \subseteq finalized',
         at'[g]["abort"] # 0 => caller'[g] \in {"unwinding", "aborting", "failed"},
         caller'[g] = "finalizing" => Finalizing(g)',
         caller'[g] = "ok" => \A r \in Roles : <<g, r>> \in finalized'
  PROVE  WholeInv'
<1>1. \A h \in Groups \ {g} : Finalizing(h) => Finalizing(h)'
  BY DEF Finalizing, Awaits
<1>2. \A h \in Groups : caller'[h] = "finalizing" => Finalizing(h)'
  BY <1>1 DEF WholeInv
<1>3. \A h \in Groups : at'[h]["abort"] # 0 => caller'[h] \in {"unwinding", "aborting", "failed"}
  BY DEF WholeInv
<1>4. \A h \in Groups : caller'[h] = "ok" => \A r \in Roles : <<h, r>> \in finalized'
  BY DEF WholeInv, WholeGroups
<1>5. QED BY <1>2, <1>3, <1>4 DEF WholeInv, WholeGroups

\* A step behind which the episode is not finalizing, nor done if it was not.
LEMMA LeavingStep ==
  ASSUME WholeInv, NEW g \in Groups, NEW stage \in CallerStages \ {"finalizing", "ok"},
         Moves(g, stage), UNCHANGED finalized,
         \/ stage \in {"unwinding", "aborting", "failed"}
         \/ caller[g] \notin {"unwinding", "aborting", "failed"}
              /\ at'[g]["abort"] = at[g]["abort"],
         \/ UNCHANGED <<at, answer, inbox>>
         \/ \E p \in Parties : Leaves(g, p)
         \/ \E p \in Parties, op \in Ops, r \in Roles : Sends(g, p, op, r)
  PROVE  WholeInv'
<1>1. GroupTypes
  BY DEF WholeInv
<1>2. /\ caller' \in [Groups -> CallerStages] /\ caller'[g] = stage
      /\ \A h \in Groups \ {g} : caller'[h] = caller[h]
  BY <1>1 DEF Moves, GroupTypes
<1>3. /\ GroupTypes'
      /\ \A h \in Groups \ {g} : at'[h] = at[h] /\ answer'[h] = answer[h] /\ inbox'[h] = inbox[h]
  <2>1. CASE UNCHANGED <<at, answer, inbox>>
    BY <1>1, <1>2, <2>1 DEF GroupTypes
  <2>2. CASE \E p \in Parties : Leaves(g, p)
    BY <1>1, <1>2, <2>2, LeavesFacts DEF GroupTypes
  <2>3. CASE \E p \in Parties, op \in Ops, r \in Roles : Sends(g, p, op, r)
    BY <1>1, <1>2, <2>3, SendsFacts DEF GroupTypes
  <2>4. QED BY <2>1, <2>2, <2>3
<1>4. at'[g]["abort"] # 0 => caller'[g] \in {"unwinding", "aborting", "failed"}
  BY <1>2 DEF WholeInv
<1>5. QED BY <1>2, <1>3, <1>4, GroupKept

-----------------------------------------------------------------------------
\* The sweep of shutdown() does not touch what the episode waits for.
LEMMA ShutdownStep ==
  ASSUME WholeInv, NEW g \in Groups, SweepOfShutdown(g)
  PROVE  WholeInv'
<1>1. GroupTypes /\ UNCHANGED <<caller, finalized>>
  BY DEF WholeInv, SweepOfShutdown
<1>2. Leaves(g, "shutdown") \/ \E r \in Roles : Sends(g, "shutdown", "abort", r)
  <2>1. at[g]["shutdown"] \in 0..RoleCount /\ RoleCount \in Nat
    BY <1>1, GroupBoundsAssumption DEF GroupTypes, Parties
  <2>2. Leaves(g, "shutdown") \/ (at[g]["shutdown"] # RoleCount /\ Sends(g, "shutdown", "abort", at[g]["shutdown"] + 1))
    BY DEF SweepOfShutdown, Swept, LastRole
  <2>3. at[g]["shutdown"] # RoleCount => at[g]["shutdown"] + 1 \in Roles
    BY <2>1 DEF Roles
  <2>4. QED BY <2>2, <2>3
<1>3. /\ GroupTypes'
      /\ \A h \in Groups \ {g} : at'[h] = at[h] /\ answer'[h] = answer[h] /\ inbox'[h] = inbox[h]
      /\ at'[g]["abort"] = at[g]["abort"] /\ at'[g]["caller"] = at[g]["caller"]
      /\ answer'[g]["caller"] = answer[g]["caller"]
      /\ \A s \in Roles : \A k \in DOMAIN inbox'[g][s] :
           inbox'[g][s][k].by = "caller" =>
             k \in DOMAIN inbox[g][s] /\ inbox'[g][s][k] = inbox[g][s][k]
  <2>1. CASE Leaves(g, "shutdown")
    BY <1>1, <2>1, LeavesFacts DEF GroupTypes, Parties
  <2>2. CASE \E r \in Roles : Sends(g, "shutdown", "abort", r)
    BY <1>1, <2>2, SendsFacts DEF GroupTypes, Parties, Ops
  <2>3. QED BY <1>2, <2>1, <2>2
<1>4. Finalizing(g) => Finalizing(g)'
  BY <1>1, <1>3 DEF Finalizing, Awaits
<1>5. QED BY <1>1, <1>3, <1>4, GroupKept DEF WholeInv, WholeGroups

\* What the actor answers is what it did.
LEMMA ReplyStep ==
  ASSUME WholeInv, NEW g \in Groups, NEW r \in Roles, NEW result \in {"ok", "raised"},
         inbox[g][r] # <<>>, Reply(g, r, result), UNCHANGED <<caller, at>>,
         finalized \subseteq finalized',
         Head(inbox[g][r]).op = "finalize" /\ result = "ok" => <<g, r>> \in finalized'
  PROVE  WholeInv'
<1> DEFINE call == Head(inbox[g][r])
<1>1. GroupTypes /\ inbox[g][r] \in Seq(Calls)
  BY DEF WholeInv, GroupTypes
<1>2. /\ call \in Calls /\ call = inbox[g][r][1] /\ 1 \in DOMAIN inbox[g][r]
      /\ Tail(inbox[g][r]) \in Seq(Calls)
      /\ \A k \in DOMAIN Tail(inbox[g][r]) :
           k + 1 \in DOMAIN inbox[g][r] /\ Tail(inbox[g][r])[k] = inbox[g][r][k + 1]
  BY <1>1
<1>3. /\ inbox' = [inbox EXCEPT ![g][r] = Tail(inbox[g][r])]
      /\ answer' = IF call.by = "nobody" THEN answer ELSE [answer EXCEPT ![g][call.by] = result]
  BY <1>1 DEF Reply, GroupTypes
<1> HIDE DEF call
<1>4. GroupTypes'
  <2>1. call.by \in Parties \cup {"nobody"}
    BY <1>2 DEF Calls
  <2>2. answer' \in [Groups -> [Parties -> {"none", "ok", "raised"}]]
    BY <1>1, <1>3, <2>1 DEF GroupTypes
  <2>3. inbox' \in [Groups -> [Roles -> Seq(Calls)]]
    BY <1>1, <1>2, <1>3 DEF GroupTypes
  <2>4. QED BY <1>1, <2>2, <2>3 DEF GroupTypes
<1>5. \A h \in Groups \ {g} : answer'[h] = answer[h] /\ inbox'[h] = inbox[h]
  BY <1>1, <1>3 DEF GroupTypes
<1>6. \A s \in Roles : \A k \in DOMAIN inbox'[g][s] :
        \E j \in DOMAIN inbox[g][s] : inbox'[g][s][k] = inbox[g][s][j]
  <2>1. inbox'[g][r] = Tail(inbox[g][r]) /\ \A s \in Roles \ {r} : inbox'[g][s] = inbox[g][s]
    BY <1>1, <1>3 DEF GroupTypes
  <2>2. QED BY <1>2, <2>1
<1>7. ASSUME caller[g] = "finalizing" PROVE Finalizing(g)'
  <2>1. Finalizing(g)
    BY <1>7 DEF WholeInv
  <2>2. Awaits(g, "finalize", at[g]["caller"])'
    BY <1>6, <2>1 DEF Finalizing, Awaits
  <2>3. ASSUME answer'[g]["caller"] = "ok" PROVE <<g, at[g]["caller"]>> \in finalized'
    <3>1. CASE call.by = "caller"
      <4>1. call.op = "finalize" /\ r = at[g]["caller"]
        BY <1>2, <2>1, <3>1 DEF Finalizing, Awaits
      <4>2. result = "ok"
        BY <1>1, <1>3, <2>3, <3>1 DEF GroupTypes, Parties
      <4>3. QED BY <4>1, <4>2 DEF call
    <3>2. CASE call.by # "caller"
      <4>1. answer'[g]["caller"] = answer[g]["caller"]
        BY <1>1, <1>2, <1>3, <3>2 DEF GroupTypes, Parties, Calls
      <4>2. QED BY <2>1, <2>3, <4>1 DEF Finalizing
    <3>3. QED BY <3>1, <3>2
  <2>4. QED BY <2>1, <2>2, <2>3 DEF Finalizing
<1>8. QED BY <1>4, <1>5, <1>7, GroupKept DEF WholeInv, WholeGroups

\* The episode asks for the next role.
LEMMA BeginsRole ==
  ASSUME GroupTypes, NEW g \in Groups, NEW r \in Roles, Sends(g, "caller", "finalize", r),
         caller' \in [Groups -> CallerStages], at[g]["abort"] = 0
  PROVE  /\ GroupTypes' /\ at'[g]["abort"] = 0
         /\ \A h \in Groups \ {g} : at'[h] = at[h] /\ answer'[h] = answer[h] /\ inbox'[h] = inbox[h]
         /\ at'[g]["caller"] = r /\ answer'[g]["caller"] = "none"
         /\ Awaits(g, "finalize", at[g]["caller"])'
<1>1. "caller" \in Parties /\ "finalize" \in Ops
  BY DEF Parties, Ops
<1>2. /\ at' \in [Groups -> [Parties -> 0..RoleCount]]
      /\ answer' \in [Groups -> [Parties -> {"none", "ok", "raised"}]]
      /\ inbox' \in [Groups -> [Roles -> Seq(Calls)]]
      /\ \A h \in Groups \ {g} : at'[h] = at[h] /\ answer'[h] = answer[h] /\ inbox'[h] = inbox[h]
      /\ at'[g]["caller"] = r /\ answer'[g]["caller"] = "none"
      /\ at'[g]["abort"] = at[g]["abort"]
  <2>1. "caller" # "abort"
    OBVIOUS
  <2>2. /\ at' \in [Groups -> [Parties -> 0..RoleCount]]
        /\ answer' \in [Groups -> [Parties -> {"none", "ok", "raised"}]]
        /\ inbox' \in [Groups -> [Roles -> Seq(Calls)]]
    BY <1>1, SendsFacts
  <2>3. \A h \in Groups \ {g} : at'[h] = at[h] /\ answer'[h] = answer[h] /\ inbox'[h] = inbox[h]
    BY <1>1, SendsFacts
  <2>4. /\ at'[g]["caller"] = r /\ answer'[g]["caller"] = "none"
    BY <1>1, SendsFacts
  <2>5. at'[g]["abort"] = at[g]["abort"]
    BY <1>1, <2>1, SendsFacts
  <2>6. QED BY <2>2, <2>3, <2>4, <2>5
<1>3. \A s \in Roles : \A k \in DOMAIN inbox'[g][s] :
        inbox'[g][s][k].by = "caller" => inbox'[g][s][k].op = "finalize" /\ s = r
  <2>1. TAKE s \in Roles
  <2>2. TAKE k \in DOMAIN inbox'[g][s]
  <2>3. HAVE inbox'[g][s][k].by = "caller"
  <2>4. \/ "caller" = "caller" /\ inbox'[g][s][k].op = "finalize" /\ s = r
        \/ "caller" = "shutdown"
    BY <1>1, <2>3, SendsFacts
  <2>5. QED BY <2>4
<1>4. QED BY <1>2, <1>3 DEF GroupTypes, Awaits

\* The group is handed out when the call of its last role was answered.
LEMMA FinalizedStep ==
  ASSUME WholeInv, NEW g \in Groups, RoleFinalized(g)
  PROVE  WholeInv'
<1>1. /\ GroupTypes /\ Finalizing(g) /\ caller[g] = "finalizing" /\ UNCHANGED finalized
      /\ answer[g]["caller"] = "ok" /\ at[g]["abort"] = 0
  BY DEF WholeInv, RoleFinalized, GroupTypes, Parties
<1>2. at[g]["caller"] \in 1..RoleCount /\ RoleCount \in Nat
      /\ \A r \in Roles : r <= at[g]["caller"] => <<g, r>> \in finalized
  BY <1>1, GroupBoundsAssumption DEF Finalizing, Roles
<1>3. CASE at[g]["caller"] = RoleCount
  <2>1. Leaves(g, "caller") /\ caller' = [caller EXCEPT ![g] = "ok"]
    BY <1>3 DEF RoleFinalized, LastRole, Moves
  <2>2. /\ GroupTypes' /\ at'[g]["abort"] = 0 /\ caller'[g] = "ok"
        /\ \A h \in Groups \ {g} : /\ at'[h] = at[h] /\ answer'[h] = answer[h]
                                   /\ inbox'[h] = inbox[h] /\ caller'[h] = caller[h]
    BY <1>1, <2>1, LeavesFacts DEF GroupTypes, Parties, CallerStages, CallerOver
  <2>3. \A r \in Roles : <<g, r>> \in finalized'
    BY <1>1, <1>2, <1>3 DEF Roles
  <2>4. QED BY <1>1, <2>2, <2>3, GroupKept
<1>4. CASE at[g]["caller"] # RoleCount
  <2>1. /\ Sends(g, "caller", "finalize", at[g]["caller"] + 1) /\ UNCHANGED caller
        /\ at[g]["caller"] + 1 \in Roles
    BY <1>2, <1>4 DEF RoleFinalized, LastRole, Roles
  <2>2. /\ GroupTypes' /\ at'[g]["abort"] = 0
        /\ \A h \in Groups \ {g} : /\ at'[h] = at[h] /\ answer'[h] = answer[h]
                                   /\ inbox'[h] = inbox[h] /\ caller'[h] = caller[h]
        /\ at'[g]["caller"] = at[g]["caller"] + 1 /\ answer'[g]["caller"] = "none"
        /\ Awaits(g, "finalize", at[g]["caller"])'
    BY <1>1, <2>1, BeginsRole DEF GroupTypes
  <2>3. Finalizing(g)'
    <3>1. \A r \in Roles : r < at[g]["caller"] + 1 => r <= at[g]["caller"]
      BY <1>2 DEF Roles
    <3>2. QED BY <1>1, <1>2, <2>1, <2>2, <3>1 DEF Finalizing, Awaits
  <2>4. QED BY <1>1, <2>1, <2>2, <2>3, GroupKept
<1>5. QED BY <1>3, <1>4

\* Who else sends calls does not change what the episode waits for.
LEMMA WaitsOn ==
  ASSUME NEW g \in Groups, Finalizing(g), finalized' = finalized,
         at'[g]["caller"] = at[g]["caller"], answer'[g]["caller"] = answer[g]["caller"],
         \A s \in Roles : \A k \in DOMAIN inbox'[g][s] : inbox'[g][s][k].by = "caller" =>
           k \in DOMAIN inbox[g][s] /\ inbox'[g][s][k] = inbox[g][s][k]
  PROVE  Finalizing(g)'
<1>1. Awaits(g, "finalize", at[g]["caller"])'
  BY DEF Finalizing, Awaits
<1>2. QED BY <1>1 DEF Finalizing

\* Every other step leaves finalizing, or begins it with the first role.
LEMMA WholeStep == WholeInv /\ [GroupNext]_groupvars => WholeInv'
<1> SUFFICES ASSUME WholeInv, [GroupNext]_groupvars PROVE WholeInv'
  OBVIOUS
<1>a. GroupTypes /\ RoleCount \in Nat /\ 1 \in Roles
  BY GroupBoundsAssumption DEF WholeInv, Roles
<1>b. /\ {"caller", "abort", "shutdown"} = Parties
      /\ \A g \in Groups, p \in Parties : at[g][p] \in 0..RoleCount
      /\ \A g \in Groups, p \in Parties :
           at[g][p] # RoleCount => at[g][p] + 1 \in Roles
      /\ \A g \in Groups : caller[g] \notin {"unwinding", "aborting", "failed"}
                           => at[g]["abort"] = 0
  BY <1>a DEF WholeInv, GroupTypes, Parties, Roles
<1>1. ASSUME NEW g \in Groups, CreateGroup(g) \/ RoleCreated(g) PROVE WholeInv'
  <2>1. /\ caller[g] \in {"idle", "creating"} /\ UNCHANGED finalized
        /\ \E stage \in {"creating", "running"} : Moves(g, stage) \/ UNCHANGED caller
        /\ \/ Leaves(g, "caller")
           \/ \E r \in Roles : Sends(g, "caller", "create", r)
    BY <1>1, <1>a, <1>b DEF CreateGroup, RoleCreated, LastRole
  <2>2. \E stage \in {"creating", "running"} : Moves(g, stage)
    BY <1>1, <1>a DEF CreateGroup, RoleCreated, Moves, GroupTypes
  <2>3. at'[g]["abort"] = at[g]["abort"]
    BY <1>a, <1>b, <2>1, LeavesFacts, SendsFacts DEF Ops, Parties
  <2>4. QED BY <1>b, <2>1, <2>2, <2>3, LeavingStep DEF Ops, CallerStages, CallerOver
<1>2. ASSUME NEW g \in Groups,
             CreateRoleFails(g) \/ Unwound(g) \/ RunnerRaises(g) \/ CancelCreate(g) \/ CancelUnwinding(g)
               \/ CancelRunner(g) \/ CancelAbort(g),
             UNCHANGED finalized
      PROVE  WholeInv'
  <2>1. \E stage \in {"unwinding", "aborting", "failed"} : Moves(g, stage)
    BY <1>2 DEF CreateRoleFails, Unwound, RunnerRaises, CancelCreate, CancelUnwinding,
                CancelRunner, CancelAbort, CreateUnwinds, BeginsAbort, EndsFailed
  <2>2. \/ UNCHANGED <<at, answer, inbox>>
        \/ \E p \in Parties : Leaves(g, p)
        \/ \E p \in Parties, op \in Ops, r \in Roles : Sends(g, p, op, r)
    BY <1>2, <1>a, <1>b DEF CreateRoleFails, Unwound, RunnerRaises, CancelCreate, CancelUnwinding,
                CancelRunner, CancelAbort, CreateUnwinds, BeginsAbort, Ops
  <2>3. QED BY <1>2, <2>1, <2>2, LeavingStep DEF CallerStages, CallerOver
<1>3. ASSUME NEW g \in Groups, FinalizeRoleFails(g) \/ CancelFinalize(g), UNCHANGED finalized
      PROVE  WholeInv'
  <2>1. /\ Sends(g, "caller", "abort", 1) /\ Moves(g, "sweeping")
        /\ caller[g] = "finalizing"
    BY <1>3 DEF FinalizeRoleFails, CancelFinalize
  <2>2. at'[g]["abort"] = at[g]["abort"]
    BY <1>a, <1>b, <2>1, SendsFacts DEF Ops, Parties
  <2>3. QED BY <1>3, <1>a, <1>b, <2>1, <2>2, LeavingStep DEF Ops, CallerStages, CallerOver
<1>4. ASSUME NEW g \in Groups, SweepAfterFinalize(g) \/ CancelSweep(g), UNCHANGED finalized
      PROVE  WholeInv'
  <2>1. /\ caller[g] = "sweeping"
        /\ Moves(g, "failed") \/ UNCHANGED caller
        /\ Leaves(g, "caller") \/ \E r \in Roles : Sends(g, "caller", "abort", r)
    BY <1>4, <1>b DEF SweepAfterFinalize, CancelSweep, Swept, EndsFailed, LastRole
  <2>2. \E stage \in {"failed", "sweeping"} : Moves(g, stage)
    BY <1>a, <2>1 DEF Moves, GroupTypes
  <2>3. at'[g]["abort"] = at[g]["abort"]
    BY <1>a, <1>b, <2>1, LeavesFacts, SendsFacts DEF Ops, Parties
  <2>4. QED BY <1>4, <1>b, <2>1, <2>2, <2>3, LeavingStep DEF Ops, CallerStages, CallerOver
<1>5. ASSUME NEW g \in Groups, SweepOfAbort(g) PROVE WholeInv'
  <2>1. caller[g] \in {"unwinding", "aborting", "failed"} /\ UNCHANGED finalized
    BY <1>5, <1>b DEF WholeInv, SweepOfAbort, Swept
  <2>2. /\ Leaves(g, "abort") \/ \E r \in Roles : Sends(g, "abort", "abort", r)
        /\ Moves(g, "failed") \/ UNCHANGED caller
    BY <1>5, <1>b DEF SweepOfAbort, Swept, EndsFailed, LastRole
  <2>3. \E stage \in {"unwinding", "aborting", "failed"} : Moves(g, stage)
    BY <1>a, <2>1, <2>2 DEF Moves, GroupTypes
  <2>4. QED BY <1>b, <2>1, <2>2, <2>3, LeavingStep DEF Ops, CallerStages, CallerOver
<1>6. ASSUME NEW g \in Groups, RunnerReturns(g) PROVE WholeInv'
  <2>1. caller[g] = "running" /\ UNCHANGED finalized
    BY <1>6 DEF RunnerReturns
  <2>2. CASE UNCHANGED <<at, answer, inbox>> /\ Moves(g, "failed")
    BY <2>1, <2>2, LeavingStep DEF CallerStages, CallerOver
  <2>3. CASE Sends(g, "caller", "finalize", 1) /\ Moves(g, "finalizing")
    <3>1. /\ GroupTypes' /\ at'[g]["abort"] = 0
          /\ \A h \in Groups \ {g} : /\ at'[h] = at[h] /\ answer'[h] = answer[h]
                                     /\ inbox'[h] = inbox[h] /\ caller'[h] = caller[h]
          /\ at'[g]["caller"] = 1 /\ answer'[g]["caller"] = "none"
          /\ Awaits(g, "finalize", at[g]["caller"])' /\ caller'[g] = "finalizing"
      <4>1. caller' = [caller EXCEPT ![g] = "finalizing"]
        BY <2>3 DEF Moves
      <4>2. /\ caller' \in [Groups -> CallerStages] /\ caller'[g] = "finalizing"
            /\ \A h \in Groups \ {g} : caller'[h] = caller[h]
        BY <1>a, <4>1 DEF GroupTypes, CallerStages
      <4>3. at[g]["abort"] = 0
        BY <1>b, <2>1
      <4>4. QED BY <1>a, <2>3, <4>2, <4>3, BeginsRole
    <3>2. Finalizing(g)'
      BY <1>a, <3>1 DEF Finalizing, Awaits, Roles
    <3>3. QED BY <2>1, <3>1, <3>2, GroupKept
  <2>4. QED BY <1>6, <2>2, <2>3 DEF RunnerReturns, EndsFailed
<1>7. ASSUME NEW g \in Groups, CancelCaller(g) PROVE WholeInv'
  BY <1>2, <1>3, <1>4, <1>7 DEF CancelCaller
<1>8. ASSUME NEW g \in Groups, NEW r \in Roles, Serve(g, r) \/ ServeFails(g, r) PROVE WholeInv'
  <2>1. inbox[g][r] # <<>> /\ UNCHANGED <<caller, at>> /\ finalized \subseteq finalized'
    BY <1>8 DEF Serve, ServeFails
  <2>2. \E result \in {"ok", "raised"} :
          /\ Reply(g, r, result)
          /\ Head(inbox[g][r]).op = "finalize" /\ result = "ok" => <<g, r>> \in finalized'
    BY <1>8 DEF Serve, ServeFails
  <2>3. QED BY <2>1, <2>2, ReplyStep
<1>9. CASE BeginShutdown
  <2>1. /\ UNCHANGED <<caller, answer, finalized>>
        /\ at' = [g \in Groups |-> [at[g] EXCEPT !["shutdown"] = IF index[g] = NoIndex THEN 0 ELSE 1]]
        /\ inbox' = [g \in Groups |->
             IF index[g] = NoIndex THEN inbox[g]
             ELSE [inbox[g] EXCEPT ![1] = Append(inbox[g][1], [op |-> "abort", by |-> "shutdown"])]]
    BY <1>9, <1>a DEF BeginShutdown, GroupTypes
  <2>2. at' \in [Groups -> [Parties -> 0..RoleCount]]
        /\ \A g \in Groups : at'[g]["abort"] = at[g]["abort"] /\ at'[g]["caller"] = at[g]["caller"]
    BY <1>a, <1>b, <2>1 DEF GroupTypes, Roles, Parties
  <2>3. \A g \in Groups, r \in Roles :
          /\ inbox'[g][r] \in Seq(Calls)
          /\ \A k \in DOMAIN inbox'[g][r] : inbox'[g][r][k].by = "caller" =>
               k \in DOMAIN inbox[g][r] /\ inbox'[g][r][k] = inbox[g][r][k]
    <3>1. TAKE g \in Groups, r \in Roles
    <3> DEFINE call == [op |-> "abort", by |-> "shutdown"]
    <3>2. inbox[g][r] \in Seq(Calls) /\ call \in Calls /\ call.by # "caller"
      BY <1>a DEF GroupTypes, Calls, Ops, Parties
    <3>3. inbox'[g][r] = inbox[g][r] \/ inbox'[g][r] = Append(inbox[g][r], call)
      BY <1>a, <2>1 DEF GroupTypes
    <3> HIDE DEF call
    <3>4. ASSUME NEW k \in DOMAIN Append(inbox[g][r], call), k \notin DOMAIN inbox[g][r]
          PROVE  Append(inbox[g][r], call)[k] = call
      BY <3>2, <3>4
    <3>5. ASSUME NEW k \in DOMAIN inbox[g][r]
          PROVE  Append(inbox[g][r], call)[k] = inbox[g][r][k]
      BY <3>2, <3>5
    <3>6. Append(inbox[g][r], call) \in Seq(Calls)
      BY <3>2
    <3>7. QED BY <3>2, <3>3, <3>4, <3>5, <3>6
  <2>4. inbox' \in [Groups -> [Roles -> Seq(Calls)]]
    <3>1. \A g \in Groups : inbox'[g] = [r \in Roles |-> inbox'[g][r]]
      BY <1>a, <2>1 DEF GroupTypes
    <3>2. inbox' = [g \in Groups |-> inbox'[g]]
      BY <2>1
    <3>3. QED BY <2>3, <3>1, <3>2
  <2>5. \A g \in Groups : Finalizing(g) => Finalizing(g)'
    BY <2>1, <2>2, <2>3, WaitsOn
  <2>6. QED BY <1>a, <2>1, <2>2, <2>4, <2>5 DEF WholeInv, GroupTypes, WholeGroups
<1>10. CASE CancelShutdown
  <2> DEFINE kept(g, r) == Disowned(inbox[g][r], {"shutdown"})
  <2>1. /\ UNCHANGED <<caller, finalized>>
        /\ at' = [g \in Groups |-> [at[g] EXCEPT !["shutdown"] = 0]]
        /\ answer' = [g \in Groups |-> [answer[g] EXCEPT !["shutdown"] = "none"]]
        /\ inbox' = [g \in Groups |-> [r \in Roles |-> kept(g, r)]]
    BY <1>10 DEF CancelShutdown
  <2>2. \A g \in Groups, r \in Roles :
          /\ kept(g, r) \in Seq(Calls)
          /\ \A k \in DOMAIN kept(g, r) : kept(g, r)[k].by = "caller" =>
               k \in DOMAIN inbox[g][r] /\ kept(g, r)[k] = inbox[g][r][k]
    <3>1. TAKE g \in Groups, r \in Roles
    <3>2. inbox[g][r] \in Seq(Calls)
      BY <1>a DEF GroupTypes
    <3>3. /\ kept(g, r) \in Seq(Calls) /\ Len(kept(g, r)) = Len(inbox[g][r])
          /\ \A k \in 1..Len(inbox[g][r]) :
               kept(g, r)[k].by # "nobody" => kept(g, r)[k] = inbox[g][r][k]
      BY <3>2, DisownedType
    <3> HIDE DEF kept
    <3>4. QED BY <3>2, <3>3
  <2> HIDE DEF kept
  <2>3. /\ GroupTypes'
        /\ \A g \in Groups : /\ at'[g]["abort"] = at[g]["abort"] /\ at'[g]["caller"] = at[g]["caller"]
                             /\ answer'[g]["caller"] = answer[g]["caller"]
    BY <1>a, <2>1, <2>2 DEF GroupTypes, Parties
  <2>4. \A g \in Groups : Finalizing(g) => Finalizing(g)'
    BY <2>1, <2>2, <2>3, WaitsOn
  <2>5. QED BY <2>1, <2>3, <2>4 DEF WholeInv, WholeGroups
<1>11. CASE StopActors \/ ShutDown \/ UNCHANGED groupvars
  <2>1. UNCHANGED <<caller, at, answer, inbox, finalized>>
    BY <1>11 DEF StopActors, ShutDown, groupvars
  <2>2. QED BY <2>1 DEF WholeInv, GroupTypes, Finalizing, Awaits, WholeGroups
<1>12. ASSUME NEW g \in Groups,
              CreateRoleFails(g) \/ Unwound(g) \/ RunnerRaises(g) \/ FinalizeRoleFails(g)
                \/ SweepAfterFinalize(g)
       PROVE  UNCHANGED finalized
  BY <1>12 DEF CreateRoleFails, Unwound, RunnerRaises, FinalizeRoleFails, SweepAfterFinalize
<1>13. ASSUME NEW g \in Groups, RoleFinalized(g) \/ SweepOfShutdown(g) PROVE WholeInv'
  BY <1>13, FinalizedStep, ShutdownStep
<1>14. QED
  BY <1>1, <1>2, <1>3, <1>4, <1>5, <1>6, <1>7, <1>8, <1>9, <1>10, <1>11, <1>12, <1>13
     DEF GroupNext, GroupsOver

LEMMA WholeInit == GroupInit => WholeInv
<1> SUFFICES ASSUME GroupInit PROVE WholeInv
  OBVIOUS
<1>1. /\ caller = [g \in Groups |-> "idle"]
      /\ at = [g \in Groups |-> [p \in Parties |-> 0]]
      /\ answer = [g \in Groups |-> [p \in Parties |-> "none"]]
      /\ inbox = [g \in Groups |-> [r \in Roles |-> <<>>]]
  BY DEF GroupInit
<1>2. GroupTypes
  BY <1>1, GroupBoundsAssumption DEF GroupTypes, CallerStages
<1>3. QED BY <1>1, <1>2 DEF WholeInv, WholeGroups, Parties

\* A group is used for training with the trajectories of all its roles or not at
\* all, whatever sweeps its sessions while it finalizes.
THEOREM GroupsAreWhole == GroupSpec => []WholeGroups
<1>1. WholeInv => WholeGroups
  BY DEF WholeInv
<1>2. QED BY <1>1, WholeInit, WholeStep, PTL DEF GroupSpec

-----------------------------------------------------------------------------
(* What is over is released. *)

\* The calls that wait for a role of the group.
Pending(g, r) == DOMAIN inbox[g][r]

\* What a party waits for is one call, of the role it has come to.
OneCall(g) ==
  \A p \in Parties :
    /\ at[g][p] = 0 => answer[g][p] = "none"
    /\ \A r \in Roles : \A k \in Pending(g, r) : inbox[g][r][k].by = p =>
         /\ r = at[g][p] /\ answer[g][p] = "none"
         /\ \A j \in Pending(g, r) : inbox[g][r][j].by = p => j = k

\* Only an episode that creates its roles, or was cut short while it did, has a
\* create under way.
CreatesUnderWay(g) ==
  \A r \in Roles : \A k \in Pending(g, r) : inbox[g][r][k].op = "create" =>
    \/ caller[g] \in {"unwinding", "failed"}
    \/ caller[g] = "creating" /\ inbox[g][r][k].by = "caller"

\* Nothing of the role is with the actor, and nothing will be.
Gone(g, r) ==
  <<g, r>> \notin live /\ \A k \in Pending(g, r) : inbox[g][r][k].op # "create"

\* The abort that the party waits for comes after every create of the role.
AbortUnderWay(g, p, r) ==
  \E k \in Pending(g, r) :
    /\ inbox[g][r][k].op = "abort" /\ inbox[g][r][k].by = p
    /\ \A j \in Pending(g, r) : j > k => inbox[g][r][j].op # "create"

\* The party's sweep has still to abort the role.
Sweeps(g, p, r) ==
  /\ at[g][p] # 0 /\ (p = "caller" => caller[g] = "sweeping")
  /\ \/ r > at[g][p]
     \/ r = at[g][p] /\ answer[g][p] = "raised"
     \/ r = at[g][p] /\ answer[g][p] = "none" /\ AbortUnderWay(g, p, r)

\* The episode itself has still to end the role, or to have it swept.
Holds(g, r) ==
  \/ caller[g] = "creating" /\ closing = "off" /\ r <= at[g]["caller"]
  \/ caller[g] = "running" /\ closing = "off"
  \/ /\ caller[g] = "finalizing"
     /\ r > at[g]["caller"] \/ (r = at[g]["caller"] /\ answer[g]["caller"] # "ok")

Followed(g) ==
  \A r \in Roles : Gone(g, r) \/ Holds(g, r) \/ \E p \in Parties : Sweeps(g, p, r)

\* Which groups have an index.
IndexFollows(g) ==
  /\ caller[g] \in {"creating", "running", "finalizing", "sweeping", "aborting"} /\ closing # "down"
       => index[g] # NoIndex
  /\ caller[g] \in CallerOver \cup {"aborting"} /\ index[g] # NoIndex => at[g]["abort"] # 0
  /\ caller[g] = "idle" => index[g] = NoIndex /\ at[g]["shutdown"] = 0

GroupFollowed(g) ==
  /\ OneCall(g) /\ CreatesUnderWay(g) /\ IndexFollows(g)
  /\ at[g]["shutdown"] # 0 => closing = "sweeping"
  /\ g \notin tornGroups \cup outpaced => Followed(g)

\* Every role session that an actor has, or is asked to create, is still to be
\* ended by somebody.
ReleaseInv ==
  /\ closing \in {"off", "sweeping", "stopping", "down"}
  /\ live \subseteq Groups \X Roles
  /\ \A g \in Groups : GroupFollowed(g)

\* A step leaves the calls of these parties with the actor, and all others as
\* they are.
Keeps(g, left) ==
  \A s \in Roles : \A k \in Pending(g, s) :
    /\ k \in DOMAIN inbox'[g][s]
    /\ inbox'[g][s][k].op = inbox[g][s][k].op
    /\ inbox'[g][s][k].by = IF inbox[g][s][k].by \in left THEN "nobody" ELSE inbox[g][s][k].by

\* Whose calls a party leaves behind when it sends its next one.
Left(p) == IF p = "abort" THEN {p, "caller"} ELSE {p}

\* The step puts a call of the party behind all others of the role, and no call
\* anywhere else.
LastCall(g, p, op, r, n) ==
  /\ inbox'[g][r][n].op = op /\ inbox'[g][r][n].by = p
  /\ n \notin Pending(g, r) /\ \A k \in Pending(g, r) : ~ (k > n)
  /\ ~ (n > n)
  /\ \A s \in Roles : \A k \in DOMAIN inbox'[g][s] :
       k \in Pending(g, s) \/ (s = r /\ k = n)

LEMMA DisownedCalls ==
  ASSUME NEW calls \in Seq(Calls), NEW left
  PROVE  /\ DOMAIN Disowned(calls, left) = DOMAIN calls
         /\ \A k \in DOMAIN calls :
              /\ Disowned(calls, left)[k].op = calls[k].op
              /\ Disowned(calls, left)[k].by = IF calls[k].by \in left THEN "nobody" ELSE calls[k].by
<1>1. \A k \in DOMAIN calls : calls[k] \in Calls
  OBVIOUS
<1>2. \A call \in Calls : /\ [call EXCEPT !.by = "nobody"].op = call.op
                          /\ [call EXCEPT !.by = "nobody"].by = "nobody"
  BY DEF Calls
<1>3. Disowned(calls, left)
        = [k \in DOMAIN calls |->
             IF calls[k].by \in left THEN [calls[k] EXCEPT !.by = "nobody"] ELSE calls[k]]
  BY DEF Disowned
<1>4. QED BY <1>1, <1>2, <1>3

\* A party that sends: its call is the last one of its role.
LEMMA SendsPending ==
  ASSUME GroupTypes, NEW g \in Groups, NEW p \in Parties, NEW op \in Ops, NEW r \in Roles,
         Sends(g, p, op, r)
  PROVE  /\ at'[g] = [q \in Parties |-> IF q = p THEN r ELSE IF q \in Left(p) THEN 0 ELSE at[g][q]]
         /\ answer'[g] = [q \in Parties |-> IF q \in Left(p) THEN "none" ELSE answer[g][q]]
         /\ \A h \in Groups \ {g} : at'[h] = at[h] /\ answer'[h] = answer[h] /\ inbox'[h] = inbox[h]
         /\ Keeps(g, Left(p))
         /\ \E n \in DOMAIN inbox'[g][r] : LastCall(g, p, op, r, n)
<1> DEFINE kept(s) == Disowned(inbox[g][s], Left(p))
           call == [op |-> op, by |-> p]
<1>1. /\ at' = [at EXCEPT ![g] = [q \in Parties |->
                   IF q = p THEN r ELSE IF q \in Left(p) THEN 0 ELSE at[g][q]]]
      /\ answer' = [answer EXCEPT ![g] = [q \in Parties |->
                       IF q \in Left(p) THEN "none" ELSE answer[g][q]]]
      /\ inbox' = [inbox EXCEPT ![g] = [s \in Roles |->
                      IF s = r THEN Append(kept(s), call) ELSE kept(s)]]
  BY DEF Sends, GroupTypes, Left
<1>2. ASSUME NEW s \in Roles
      PROVE  /\ inbox[g][s] \in Seq(Calls) /\ kept(s) \in Seq(Calls)
             /\ Len(kept(s)) = Len(inbox[g][s]) /\ DOMAIN kept(s) = DOMAIN inbox[g][s]
             /\ \A k \in DOMAIN kept(s) :
                  /\ kept(s)[k].op = inbox[g][s][k].op
                  /\ kept(s)[k].by = IF inbox[g][s][k].by \in Left(p) THEN "nobody"
                                     ELSE inbox[g][s][k].by
  <2>1. inbox[g][s] \in Seq(Calls)
    BY DEF GroupTypes
  <2>2. kept(s) \in Seq(Calls) /\ Len(kept(s)) = Len(inbox[g][s])
    BY <2>1, DisownedType
  <2>3. QED BY <2>1, <2>2, DisownedCalls
<1>3. call \in Calls /\ call.op = op /\ call.by = p
  BY DEF Calls
<1> HIDE DEF kept, call
<1>4. /\ inbox'[g][r] = Append(kept(r), call)
      /\ \A s \in Roles \ {r} : inbox'[g][s] = kept(s)
  BY <1>1 DEF GroupTypes
<1>5. /\ DOMAIN inbox'[g][r] = 1..(Len(inbox[g][r]) + 1)
      /\ Pending(g, r) = 1..Len(inbox[g][r]) /\ Len(inbox[g][r]) \in Nat
      /\ inbox'[g][r][Len(inbox[g][r]) + 1] = call
      /\ \A k \in Pending(g, r) : inbox'[g][r][k] = kept(r)[k]
  BY <1>2, <1>3, <1>4 DEF Pending
<1>6. Keeps(g, Left(p))
  <2>1. ASSUME NEW s \in Roles, NEW k \in Pending(g, s)
        PROVE  k \in DOMAIN inbox'[g][s] /\ inbox'[g][s][k] = kept(s)[k] /\ k \in DOMAIN kept(s)
    <3>1. CASE s = r
      BY <1>2, <1>5, <3>1 DEF Pending
    <3>2. CASE s # r
      BY <1>2, <1>4, <3>2 DEF Pending
    <3>3. QED BY <3>1, <3>2
  <2>2. QED BY <1>2, <2>1 DEF Keeps
<1>7. \E n \in DOMAIN inbox'[g][r] : LastCall(g, p, op, r, n)
  <2> DEFINE n == Len(inbox[g][r]) + 1
  <2>1. /\ n \in DOMAIN inbox'[g][r] /\ n \notin Pending(g, r) /\ \A k \in Pending(g, r) : ~ (k > n)
        /\ ~ (n > n) /\ inbox'[g][r][n] = call
        /\ \A k \in DOMAIN inbox'[g][r] : k \in Pending(g, r) \/ k = n
    BY <1>5
  <2>2. \A s \in Roles \ {r} : DOMAIN inbox'[g][s] = Pending(g, s)
    BY <1>2, <1>4 DEF Pending
  <2> HIDE DEF n
  <2>3. QED BY <1>3, <2>1, <2>2 DEF LastCall
<1>8. QED BY <1>1, <1>6, <1>7 DEF GroupTypes

\* A party that leaves its loop.
LEMMA LeavesPending ==
  ASSUME GroupTypes, NEW g \in Groups, NEW p \in Parties, Leaves(g, p)
  PROVE  /\ at'[g] = [q \in Parties |-> IF q = p THEN 0 ELSE at[g][q]]
         /\ answer'[g] = [q \in Parties |-> IF q = p THEN "none" ELSE answer[g][q]]
         /\ \A h \in Groups \ {g} : at'[h] = at[h] /\ answer'[h] = answer[h] /\ inbox'[h] = inbox[h]
         /\ Keeps(g, {p})
         /\ \A s \in Roles : DOMAIN inbox'[g][s] = Pending(g, s)
<1> DEFINE kept(s) == Disowned(inbox[g][s], {p})
<1>1. /\ at' = [at EXCEPT ![g][p] = 0] /\ answer' = [answer EXCEPT ![g][p] = "none"]
      /\ inbox' = [inbox EXCEPT ![g] = [s \in Roles |-> kept(s)]]
  BY DEF Leaves
<1>2. ASSUME NEW s \in Roles
      PROVE  /\ DOMAIN kept(s) = DOMAIN inbox[g][s]
             /\ \A k \in DOMAIN kept(s) :
                  /\ kept(s)[k].op = inbox[g][s][k].op
                  /\ kept(s)[k].by = IF inbox[g][s][k].by \in {p} THEN "nobody"
                                     ELSE inbox[g][s][k].by
  <2>1. inbox[g][s] \in Seq(Calls)
    BY DEF GroupTypes
  <2>2. QED BY <2>1, DisownedCalls
<1> HIDE DEF kept
<1>3. \A s \in Roles : inbox'[g][s] = kept(s)
  BY <1>1 DEF GroupTypes
<1>4. Keeps(g, {p}) /\ \A s \in Roles : DOMAIN inbox'[g][s] = Pending(g, s)
  BY <1>2, <1>3 DEF Keeps, Pending
<1>5. QED BY <1>1, <1>4 DEF GroupTypes

\* Where the parties are behind such a step.
LEMMA SendsAt ==
  ASSUME GroupTypes, NEW g \in Groups, NEW p \in Parties, NEW op \in Ops, NEW r \in Roles,
         Sends(g, p, op, r)
  PROVE  /\ at'[g][p] = r /\ answer'[g][p] = "none"
         /\ \A q \in Parties \ Left(p) : at'[g][q] = at[g][q] /\ answer'[g][q] = answer[g][q]
<1>1. /\ at'[g] = [q \in Parties |-> IF q = p THEN r ELSE IF q \in Left(p) THEN 0 ELSE at[g][q]]
      /\ answer'[g] = [q \in Parties |-> IF q \in Left(p) THEN "none" ELSE answer[g][q]]
  BY SendsPending
<1>2. p \in Left(p)
  BY DEF Left
<1>3. QED BY <1>1, <1>2

LEMMA LeavesAt ==
  ASSUME GroupTypes, NEW g \in Groups, NEW p \in Parties, Leaves(g, p)
  PROVE  /\ at'[g][p] = 0 /\ answer'[g][p] = "none"
         /\ \A q \in Parties \ {p} : at'[g][q] = at[g][q] /\ answer'[g][q] = answer[g][q]
<1>1. /\ at'[g] = [q \in Parties |-> IF q = p THEN 0 ELSE at[g][q]]
      /\ answer'[g] = [q \in Parties |-> IF q = p THEN "none" ELSE answer[g][q]]
  BY LeavesPending
<1>2. QED BY <1>1

\* No party has two calls, also when one party leaves its own behind and sends.
LEMMA SendsOne ==
  ASSUME GroupTypes, NEW g \in Groups, NEW p \in Parties, NEW op \in Ops, NEW r \in Roles,
         Sends(g, p, op, r), OneCall(g)
  PROVE  OneCall(g)'
<1>1. PICK n \in DOMAIN inbox'[g][r] : LastCall(g, p, op, r, n)
  BY SendsPending
<1>2. /\ at'[g] = [q \in Parties |-> IF q = p THEN r ELSE IF q \in Left(p) THEN 0 ELSE at[g][q]]
      /\ answer'[g] = [q \in Parties |-> IF q \in Left(p) THEN "none" ELSE answer[g][q]]
      /\ Keeps(g, Left(p)) /\ n \notin Pending(g, r)
  BY <1>1, SendsPending DEF LastCall
<1>3. p \in Left(p) /\ "nobody" \notin Parties /\ r # 0
  BY GroupBoundsAssumption DEF Left, Parties, Roles
<1>4. ASSUME NEW q \in Parties, NEW s \in Roles, NEW k \in DOMAIN inbox'[g][s],
             inbox'[g][s][k].by = q
      PROVE  \/ q = p /\ s = r /\ k = n
             \/ q \notin Left(p) /\ k \in Pending(g, s) /\ inbox[g][s][k].by = q
  <2>1. CASE k \in Pending(g, s)
    BY <1>2, <1>3, <1>4, <2>1 DEF Keeps
  <2>2. CASE s = r /\ k = n
    BY <1>1, <1>4, <2>2 DEF LastCall
  <2>3. QED BY <1>1, <1>4, <2>1, <2>2 DEF LastCall
<1>5. ASSUME NEW q \in Parties, NEW s \in Roles, NEW k \in DOMAIN inbox'[g][s],
             inbox'[g][s][k].by = q
      PROVE  /\ s = at'[g][q] /\ answer'[g][q] = "none"
             /\ \A j \in DOMAIN inbox'[g][s] : inbox'[g][s][j].by = q => j = k
  <2>1. CASE q \notin Left(p) /\ k \in Pending(g, s) /\ inbox[g][s][k].by = q
    <3>1. s = at[g][q] /\ answer[g][q] = "none" /\ q # p
      BY <1>3, <2>1 DEF OneCall
    <3>2. \A j \in DOMAIN inbox'[g][s] : inbox'[g][s][j].by = q =>
             j \in Pending(g, s) /\ inbox[g][s][j].by = q
      BY <1>4, <3>1
    <3>3. QED BY <1>2, <2>1, <3>1, <3>2 DEF OneCall
  <2>2. CASE q = p /\ s = r /\ k = n
    BY <1>2, <1>3, <1>4, <2>2
  <2>3. QED BY <1>4, <1>5, <2>1, <2>2
<1>6. ASSUME NEW q \in Parties, at'[g][q] = 0 PROVE answer'[g][q] = "none"
  BY <1>2, <1>3, <1>6 DEF OneCall
<1>7. QED BY <1>5, <1>6 DEF OneCall, Pending

LEMMA LeavesOne ==
  ASSUME GroupTypes, NEW g \in Groups, NEW p \in Parties, Leaves(g, p), OneCall(g)
  PROVE  OneCall(g)'
<1>1. /\ at'[g] = [q \in Parties |-> IF q = p THEN 0 ELSE at[g][q]]
      /\ answer'[g] = [q \in Parties |-> IF q = p THEN "none" ELSE answer[g][q]]
      /\ Keeps(g, {p})
      /\ \A s \in Roles : DOMAIN inbox'[g][s] = Pending(g, s)
  BY LeavesPending
<1>2. ASSUME NEW q \in Parties, NEW s \in Roles, NEW k \in DOMAIN inbox'[g][s],
             inbox'[g][s][k].by = q
      PROVE  q # p /\ k \in Pending(g, s) /\ inbox[g][s][k].by = q
  BY <1>1, <1>2 DEF Keeps, Parties
<1>3. QED BY <1>1, <1>2 DEF OneCall, Pending

\* Creates that were under way stay so, or are left behind; no other one begins
\* but the episode's own.
LEMMA SendsCreates ==
  ASSUME GroupTypes, NEW g \in Groups, NEW p \in Parties, NEW op \in Ops, NEW r \in Roles,
         Sends(g, p, op, r),
         op = "create" => p = "caller" /\ caller'[g] = "creating",
         \A s \in Roles : \A k \in Pending(g, s) : inbox[g][s][k].op = "create" =>
           \/ caller'[g] \in {"unwinding", "failed"}
           \/ caller'[g] = "creating" /\ inbox[g][s][k].by = "caller" /\ "caller" \notin Left(p)
  PROVE  CreatesUnderWay(g)'
<1>1. PICK n \in DOMAIN inbox'[g][r] : LastCall(g, p, op, r, n)
  BY SendsPending
<1>2. Keeps(g, Left(p))
  BY SendsPending
<1>3. QED BY <1>1, <1>2 DEF Keeps, LastCall, CreatesUnderWay, Pending

LEMMA LeavesCreates ==
  ASSUME GroupTypes, NEW g \in Groups, NEW p \in Parties, Leaves(g, p),
         \A s \in Roles : \A k \in Pending(g, s) : inbox[g][s][k].op = "create" =>
           \/ caller'[g] \in {"unwinding", "failed"}
           \/ caller'[g] = "creating" /\ inbox[g][s][k].by = "caller" /\ p # "caller"
  PROVE  CreatesUnderWay(g)'
<1>1. Keeps(g, {p}) /\ \A s \in Roles : DOMAIN inbox'[g][s] = Pending(g, s)
  BY LeavesPending
<1>2. QED BY <1>1 DEF Keeps, CreatesUnderWay, Pending

\* What a call that is sent leaves of the sweeps of the others, and what an abort
\* adds to them.
LEMMA SendsSweeps ==
  ASSUME GroupTypes, NEW g \in Groups, NEW p \in Parties, NEW op \in Ops, NEW r \in Roles,
         Sends(g, p, op, r), UNCHANGED live
  PROVE  \A s \in Roles :
           /\ Gone(g, s) /\ (op = "create" => s # r) => Gone(g, s)'
           /\ op = "abort" /\ s >= r /\ (p = "caller" => caller'[g] = "sweeping") => Sweeps(g, p, s)'
           /\ \A q \in Parties \ Left(p) :
                Sweeps(g, q, s) /\ op # "create" /\ (q = "caller" => caller'[g] = "sweeping")
                  => Sweeps(g, q, s)'
<1>1. PICK n \in DOMAIN inbox'[g][r] : LastCall(g, p, op, r, n)
  BY SendsPending
<1>2. Keeps(g, Left(p))
  BY SendsPending
<1>3. /\ at'[g] = [q \in Parties |-> IF q = p THEN r ELSE IF q \in Left(p) THEN 0 ELSE at[g][q]]
      /\ answer'[g] = [q \in Parties |-> IF q \in Left(p) THEN "none" ELSE answer[g][q]]
  BY SendsPending
<1>4. p \in Left(p) /\ r # 0 /\ Roles \subseteq Nat /\ r \in Roles
  BY GroupBoundsAssumption DEF Left, Roles
<1> TAKE s \in Roles
<1>5. ASSUME Gone(g, s), op = "create" => s # r PROVE Gone(g, s)'
  BY <1>1, <1>2, <1>5 DEF Keeps, LastCall, Gone, Pending
<1>6. ASSUME op = "abort", s >= r, p = "caller" => caller'[g] = "sweeping" PROVE Sweeps(g, p, s)'
  <2>1. at'[g][p] = r /\ answer'[g][p] = "none"
    BY <1>3, <1>4
  <2>2. CASE s = r
    <3>1. \A j \in DOMAIN inbox'[g][r] : ~ (j > n)
      BY <1>1 DEF LastCall
    <3>2. AbortUnderWay(g, p, s)'
      BY <1>1, <1>6, <2>2, <3>1 DEF AbortUnderWay, LastCall, Pending
    <3>3. QED BY <1>4, <1>6, <2>1, <2>2, <3>2 DEF Sweeps
  <2>3. CASE s # r
    <3>1. s > r
      BY <1>4, <1>6, <2>3
    <3>2. QED BY <1>4, <1>6, <2>1, <3>1 DEF Sweeps
  <2>4. QED BY <2>2, <2>3
<1>7. ASSUME NEW q \in Parties \ Left(p), Sweeps(g, q, s), op # "create",
             q = "caller" => caller'[g] = "sweeping"
      PROVE  Sweeps(g, q, s)'
  <2>1. at'[g][q] = at[g][q] /\ answer'[g][q] = answer[g][q]
    BY <1>3, <1>4
  <2>2. AbortUnderWay(g, q, s) => AbortUnderWay(g, q, s)'
    <3> SUFFICES ASSUME AbortUnderWay(g, q, s) PROVE AbortUnderWay(g, q, s)'
      OBVIOUS
    <3>1. PICK k \in Pending(g, s) :
            /\ inbox[g][s][k].op = "abort" /\ inbox[g][s][k].by = q
            /\ \A j \in Pending(g, s) : j > k => inbox[g][s][j].op # "create"
      BY DEF AbortUnderWay
    <3>2. k \in DOMAIN inbox'[g][s] /\ inbox'[g][s][k].op = "abort" /\ inbox'[g][s][k].by = q
      BY <1>2, <3>1 DEF Keeps
    <3>3. ASSUME NEW j \in DOMAIN inbox'[g][s], j > k PROVE inbox'[g][s][j].op # "create"
      <4>1. CASE j \in Pending(g, s)
        BY <1>2, <3>1, <3>3, <4>1 DEF Keeps
      <4>2. CASE s = r /\ j = n
        BY <1>1, <1>7, <4>2 DEF LastCall
      <4>3. QED BY <1>1, <4>1, <4>2 DEF LastCall
    <3>4. QED BY <3>2, <3>3 DEF AbortUnderWay, Pending
  <2>3. QED BY <1>7, <2>1, <2>2 DEF Sweeps
<1>8. QED BY <1>5, <1>6, <1>7

LEMMA LeavesSweeps ==
  ASSUME GroupTypes, NEW g \in Groups, NEW p \in Parties, Leaves(g, p), UNCHANGED live
  PROVE  \A s \in Roles :
           /\ Gone(g, s) => Gone(g, s)'
           /\ \A q \in Parties \ {p} :
                Sweeps(g, q, s) /\ (q = "caller" => caller'[g] = "sweeping") => Sweeps(g, q, s)'
<1>1. /\ at'[g] = [q \in Parties |-> IF q = p THEN 0 ELSE at[g][q]]
      /\ answer'[g] = [q \in Parties |-> IF q = p THEN "none" ELSE answer[g][q]]
      /\ Keeps(g, {p})
      /\ \A s \in Roles : DOMAIN inbox'[g][s] = Pending(g, s)
  BY LeavesPending
<1> TAKE s \in Roles
<1>2. Gone(g, s) => Gone(g, s)'
  BY <1>1 DEF Keeps, Gone, Pending
<1>3. ASSUME NEW q \in Parties \ {p}, Sweeps(g, q, s), q = "caller" => caller'[g] = "sweeping"
      PROVE  Sweeps(g, q, s)'
  <2>1. AbortUnderWay(g, q, s) => AbortUnderWay(g, q, s)'
    BY <1>1 DEF Keeps, AbortUnderWay, Pending
  <2>2. QED BY <1>1, <1>3, <2>1 DEF Sweeps
<1>4. QED BY <1>2, <1>3

\* A step of the episode that sends nothing.
LEMMA IdleSweeps ==
  ASSUME NEW g \in Groups, UNCHANGED <<at, answer, inbox, live>>
  PROVE  /\ OneCall(g) => OneCall(g)'
         /\ \A s \in Roles :
              /\ Gone(g, s) => Gone(g, s)'
              /\ \A q \in Parties :
                   Sweeps(g, q, s) /\ (q = "caller" => caller'[g] = "sweeping") => Sweeps(g, q, s)'
BY DEF OneCall, Gone, Sweeps, AbortUnderWay, Pending

\* A step of one group.
LEMMA OthersFollowed ==
  ASSUME ReleaseInv, NEW g \in Groups, GroupFollowed(g)',
         live' \subseteq Groups \X Roles, UNCHANGED closing,
         tornGroups \subseteq tornGroups', outpaced \subseteq outpaced',
         \A h \in Groups \ {g} : /\ caller'[h] = caller[h] /\ at'[h] = at[h]
                                 /\ answer'[h] = answer[h] /\ inbox'[h] = inbox[h]
                                 /\ index'[h] = index[h]
                                 /\ \A r \in Roles : <<h, r>> \in live' => <<h, r>> \in live
  PROVE  ReleaseInv'
<1>1. ASSUME NEW h \in Groups \ {g} PROVE GroupFollowed(h)'
  <2>1. GroupFollowed(h)
    BY DEF ReleaseInv
  <2>2. OneCall(h)' /\ CreatesUnderWay(h)' /\ IndexFollows(h)'
    BY <2>1 DEF GroupFollowed, OneCall, CreatesUnderWay, IndexFollows, Pending
  <2>3. Followed(h) => Followed(h)'
    BY DEF Followed, Gone, Holds, Sweeps, AbortUnderWay, Pending
  <2>4. QED BY <2>1, <2>2, <2>3 DEF GroupFollowed
<1>2. QED BY <1>1 DEF ReleaseInv

\* No other group notices the step.
OthersAlone(g) ==
  \A h \in Groups \ {g} :
    /\ caller'[h] = caller[h] /\ at'[h] = at[h] /\ answer'[h] = answer[h]
    /\ inbox'[h] = inbox[h] /\ index'[h] = index[h]

LEMMA AloneStep ==
  ASSUME GroupTypes, LoadInv, NEW g \in Groups,
         UNCHANGED caller \/ \E stage \in CallerStages : Moves(g, stage),
         UNCHANGED index \/ \E i \in Pool \cup {NoIndex} : index' = [index EXCEPT ![g] = i],
         \/ UNCHANGED <<at, answer, inbox>>
         \/ \E p \in Parties : Leaves(g, p)
         \/ \E p \in Parties, op \in Ops, r \in Roles : Sends(g, p, op, r)
  PROVE  OthersAlone(g)
<1>1. \A h \in Groups \ {g} : caller'[h] = caller[h] /\ index'[h] = index[h]
  BY DEF GroupTypes, LoadInv, Moves
<1>2. \A h \in Groups \ {g} : at'[h] = at[h] /\ answer'[h] = answer[h] /\ inbox'[h] = inbox[h]
  <2>1. CASE UNCHANGED <<at, answer, inbox>>
    BY <2>1
  <2>2. CASE \E p \in Parties : Leaves(g, p)
    BY <2>2, LeavesPending
  <2>3. CASE \E p \in Parties, op \in Ops, r \in Roles : Sends(g, p, op, r)
    BY <2>3, SendsPending
  <2>4. QED BY <2>1, <2>2, <2>3
<1>3. QED BY <1>1, <1>2 DEF OthersAlone

LEMMA FollowedStep ==
  ASSUME ReleaseInv, NEW g \in Groups, OthersAlone(g), UNCHANGED <<live, closing>>,
         tornGroups \subseteq tornGroups', outpaced \subseteq outpaced',
         OneCall(g)', CreatesUnderWay(g)', IndexFollows(g)',
         at'[g]["shutdown"] # 0 => closing = "sweeping",
         g \notin tornGroups' \cup outpaced' => Followed(g)'
  PROVE  ReleaseInv'
<1>1. GroupFollowed(g)'
  BY DEF GroupFollowed
<1>2. QED BY <1>1, OthersFollowed DEF OthersAlone, ReleaseInv

\* What the invariants say of one group.
LEMMA GroupFacts ==
  ASSUME LoadInv, WholeInv, ReleaseInv, NEW g \in Groups
  PROVE  /\ GroupTypes /\ OneCall(g) /\ CreatesUnderWay(g) /\ IndexFollows(g)
         /\ at[g]["shutdown"] # 0 => closing = "sweeping"
         /\ g \notin tornGroups \cup outpaced => Followed(g)
         /\ at[g]["abort"] # 0 => caller[g] \in {"unwinding", "aborting", "failed"}
         /\ index[g] \in Pool \cup {NoIndex} /\ caller[g] \in CallerStages
         /\ \A p \in Parties : at[g][p] \in 0..RoleCount
         /\ Parties = {"caller", "abort", "shutdown"} /\ Ops = {"create", "finalize", "abort"}
         /\ RoleCount \in Nat /\ 1 \in Roles /\ Roles = 1..RoleCount
BY GroupBoundsAssumption
   DEF LoadInv, WholeInv, ReleaseInv, GroupFollowed, GroupTypes, Parties, Ops, Roles

\* A role that no party sweeps and the episode does not hold is gone.
LEMMA NoSweeps ==
  ASSUME LoadInv, WholeInv, ReleaseInv, NEW g \in Groups, caller[g] \in {"idle", "creating"},
         closing = "off", g \notin tornGroups \cup outpaced
  PROVE  \A s \in Roles : Gone(g, s) \/ (caller[g] = "creating" /\ s <= at[g]["caller"])
BY GroupFacts DEF Followed, Holds, Sweeps

LEMMA DropIndex ==
  ASSUME LoadInv, NEW g \in Groups, Drop(g)
  PROVE  index'[g] = NoIndex /\ \E i \in Pool \cup {NoIndex} : index' = [index EXCEPT ![g] = i]
BY DEF LoadInv, Drop

-----------------------------------------------------------------------------
\* A group that is begun has no role yet.
LEMMA CreateFollowed ==
  ASSUME LoadInv, WholeInv, ReleaseInv, NEW g \in Groups, CreateGroup(g)
  PROVE  ReleaseInv'
<1>1. /\ caller[g] = "idle" /\ caller' = [caller EXCEPT ![g] = "creating"]
      /\ Moves(g, "creating") /\ Sends(g, "caller", "create", 1)
      /\ \E i \in Pool : index' = [index EXCEPT ![g] = i]
      /\ outpaced' = IF closing = "off" THEN outpaced ELSE outpaced \cup {g}
      /\ closing # "down" /\ UNCHANGED <<live, closing, tornGroups>>
  BY DEF CreateGroup, Moves
<1>2. /\ GroupTypes /\ OneCall(g) /\ CreatesUnderWay(g) /\ IndexFollows(g)
      /\ at[g]["abort"] = 0 /\ at[g]["shutdown"] = 0
      /\ "caller" \in Parties /\ "create" \in Ops /\ 1 \in Roles /\ "shutdown" \in Parties
  BY <1>1, GroupFacts DEF IndexFollows
<1>3. caller'[g] = "creating" /\ index'[g] # NoIndex
  BY <1>1, <1>2, NoIndexOutside DEF GroupTypes, LoadInv
<1>4. OthersAlone(g)
  <2>1. "creating" \in CallerStages
    BY DEF CallerStages
  <2>2. QED BY <1>1, <1>2, <2>1, AloneStep
<1>5. OneCall(g)' /\ CreatesUnderWay(g)'
  <2>1. \A s \in Roles : \A k \in Pending(g, s) : inbox[g][s][k].op # "create"
    BY <1>1, <1>2 DEF CreatesUnderWay
  <2>2. QED BY <1>1, <1>2, <1>3, <2>1, SendsOne, SendsCreates
<1>7. at'[g]["shutdown"] = 0 /\ at'[g]["caller"] = 1
  BY <1>1, <1>2, SendsAt DEF Left
<1>8. IndexFollows(g)'
  BY <1>3 DEF IndexFollows, CallerOver
<1>9. ASSUME g \notin tornGroups' \cup outpaced' PROVE Followed(g)'
  <2>1. closing = "off" /\ g \notin tornGroups \cup outpaced
    BY <1>1, <1>9
  <2>2. ASSUME NEW s \in Roles PROVE Gone(g, s)' \/ Holds(g, s)'
    <3>1. Gone(g, s)
      BY <1>1, <2>1, NoSweeps
    <3>2. s # 1 => Gone(g, s)'
      BY <1>1, <1>2, <3>1, SendsSweeps
    <3>3. s = 1 => Holds(g, s)'
      BY <1>1, <1>3, <1>7, <2>1 DEF Holds
    <3>4. QED BY <3>2, <3>3
  <2>3. QED BY <2>2 DEF Followed
<1>10. tornGroups \subseteq tornGroups' /\ outpaced \subseteq outpaced'
  BY <1>1
<1>11. QED BY <1>1, <1>4, <1>5, <1>7, <1>8, <1>9, <1>10, FollowedStep

\* The next role is created, or the runner begins.
LEMMA CreatedFollowed ==
  ASSUME LoadInv, WholeInv, ReleaseInv, NEW g \in Groups, RoleCreated(g)
  PROVE  ReleaseInv'
<1>1. /\ caller[g] = "creating" /\ answer[g]["caller"] = "ok"
      /\ UNCHANGED <<live, index, closing, tornGroups>>
  BY DEF RoleCreated
<1>2. /\ GroupTypes /\ OneCall(g) /\ CreatesUnderWay(g) /\ IndexFollows(g)
      /\ at[g]["abort"] = 0 /\ (at[g]["shutdown"] # 0 => closing = "sweeping")
      /\ Parties = {"caller", "abort", "shutdown"} /\ "create" \in Ops
      /\ at[g]["caller"] \in 0..RoleCount /\ RoleCount \in Nat /\ Roles = 1..RoleCount
  BY <1>1, GroupFacts
<1>3. \A s \in Roles : \A k \in Pending(g, s) : inbox[g][s][k].op # "create"
  BY <1>1, <1>2 DEF CreatesUnderWay, OneCall
<1>4. CASE LastRole(g, "caller")
  <2>1. /\ Leaves(g, "caller") /\ Moves(g, "running") /\ UNCHANGED outpaced
        /\ at[g]["caller"] = RoleCount
    BY <1>4 DEF RoleCreated, LastRole
  <2>2. caller'[g] = "running" /\ "running" \in CallerStages
    BY <1>2, <2>1 DEF Moves, GroupTypes, CallerStages
  <2>3. OthersAlone(g)
    BY <1>1, <1>2, <2>1, <2>2, AloneStep
  <2>4. OneCall(g)' /\ CreatesUnderWay(g)'
    BY <1>2, <1>3, <2>1, LeavesOne, LeavesCreates
  <2>5. at'[g]["shutdown"] = at[g]["shutdown"]
    BY <1>2, <2>1, LeavesAt
  <2>6. IndexFollows(g)'
    BY <1>1, <1>2, <2>2 DEF IndexFollows, CallerOver
  <2>7. ASSUME g \notin tornGroups' \cup outpaced' PROVE Followed(g)'
    <3>1. Followed(g)
      BY <1>1, <2>1, <2>7, GroupFacts
    <3>2. ASSUME NEW s \in Roles PROVE Gone(g, s)' \/ Holds(g, s)' \/ \E p \in Parties : Sweeps(g, p, s)'
      <4>1. CASE Gone(g, s)
        BY <1>1, <1>2, <2>1, <4>1, LeavesSweeps
      <4>2. CASE Holds(g, s)
        BY <1>1, <2>2, <4>2 DEF Holds
      <4>3. ASSUME NEW p \in Parties, Sweeps(g, p, s) PROVE Sweeps(g, p, s)'
        <5>1. p # "caller"
          BY <1>1, <4>3 DEF Sweeps
        <5>2. QED BY <1>1, <1>2, <2>1, <4>3, <5>1, LeavesSweeps
      <4>4. QED BY <3>1, <4>1, <4>2, <4>3 DEF Followed
    <3>3. QED BY <3>2 DEF Followed
  <2>8. QED BY <1>1, <1>2, <2>1, <2>3, <2>4, <2>5, <2>6, <2>7, FollowedStep
<1>5. CASE ~LastRole(g, "caller")
  <2>1. /\ Sends(g, "caller", "create", at[g]["caller"] + 1) /\ UNCHANGED caller
        /\ outpaced' = IF closing = "off" THEN outpaced ELSE outpaced \cup {g}
        /\ at[g]["caller"] + 1 \in Roles
    BY <1>2, <1>5 DEF RoleCreated, LastRole
  <2>2. OthersAlone(g)
    BY <1>1, <1>2, <2>1, AloneStep
  <2>3. OneCall(g)' /\ CreatesUnderWay(g)'
    BY <1>1, <1>2, <1>3, <2>1, SendsOne, SendsCreates
  <2>4. at'[g]["shutdown"] = at[g]["shutdown"] /\ at'[g]["caller"] = at[g]["caller"] + 1
        /\ at'[g]["abort"] = at[g]["abort"]
    BY <1>2, <2>1, SendsAt DEF Left
  <2>5. IndexFollows(g)'
    BY <1>1, <1>2, <2>1, <2>4 DEF IndexFollows, CallerOver
  <2>6. ASSUME g \notin tornGroups' \cup outpaced' PROVE Followed(g)'
    <3>1. closing = "off" /\ g \notin tornGroups \cup outpaced
      BY <1>1, <2>1, <2>6
    <3>2. ASSUME NEW s \in Roles PROVE Gone(g, s)' \/ Holds(g, s)'
      <4>1. CASE s <= at[g]["caller"] + 1
        BY <1>1, <2>1, <2>4, <3>1, <4>1 DEF Holds
      <4>2. CASE ~ (s <= at[g]["caller"] + 1)
        <5>1. ~ (s <= at[g]["caller"]) /\ s # at[g]["caller"] + 1
          BY <1>2, <4>2
        <5>2. Gone(g, s)
          BY <1>1, <3>1, <5>1, NoSweeps
        <5>3. QED BY <1>1, <1>2, <2>1, <5>1, <5>2, SendsSweeps
      <4>3. QED BY <4>1, <4>2
    <3>3. QED BY <3>2 DEF Followed
  <2>7. tornGroups \subseteq tornGroups' /\ outpaced \subseteq outpaced'
    BY <1>1, <2>1
  <2>8. QED BY <1>1, <1>2, <2>1, <2>2, <2>3, <2>4, <2>5, <2>6, <2>7, FollowedStep
<1>6. QED BY <1>4, <1>5

\* An abort of every role begins, of whatever the episode was about.
LEMMA AbortFollowed ==
  ASSUME LoadInv, WholeInv, ReleaseInv, NEW g \in Groups, NEW p \in {"caller", "abort"},
         NEW stage \in {"unwinding", "aborting", "sweeping"},
         caller[g] \in {"creating", "running", "finalizing"}, closing # "down" => index[g] # NoIndex,
         Sends(g, p, "abort", 1), Moves(g, stage), stage = "sweeping" <=> p = "caller",
         caller[g] = "creating" => stage = "unwinding",
         UNCHANGED <<live, closing, index, tornGroups, outpaced>>
  PROVE  ReleaseInv'
<1>1. /\ GroupTypes /\ OneCall(g) /\ CreatesUnderWay(g) /\ IndexFollows(g)
      /\ p \in Parties /\ "abort" \in Ops /\ 1 \in Roles /\ "shutdown" \in Parties \ Left(p)
      /\ (at[g]["shutdown"] # 0 => closing = "sweeping") /\ Roles = 1..RoleCount
      /\ at[g]["abort"] = 0
  BY GroupFacts DEF Left
<1>2. caller'[g] = stage /\ stage \in CallerStages
  BY <1>1 DEF Moves, GroupTypes, CallerStages
<1>3. OthersAlone(g)
  BY <1>1, <1>2, AloneStep
<1>4. OneCall(g)' /\ CreatesUnderWay(g)'
  <2>1. \A s \in Roles : \A k \in Pending(g, s) : inbox[g][s][k].op = "create" =>
          caller'[g] = "unwinding"
    BY <1>1, <1>2 DEF CreatesUnderWay
  <2>2. QED BY <1>1, <2>1, SendsOne, SendsCreates
<1>5. at'[g]["shutdown"] = at[g]["shutdown"] /\ at'[g][p] = 1
  BY <1>1, SendsAt
<1>6. IndexFollows(g)'
  <2>1. stage = "aborting" => p = "abort"
    OBVIOUS
  <2>2. QED BY <1>2, <1>5, <2>1 DEF IndexFollows, CallerOver
<1>7. Followed(g)'
  <2>1. ASSUME NEW s \in Roles PROVE Sweeps(g, p, s)'
    <3>1. s >= 1
      BY <1>1
    <3>2. QED BY <1>1, <1>2, <3>1, SendsSweeps
  <2>2. QED BY <1>1, <2>1 DEF Followed
<1>8. QED BY <1>1, <1>3, <1>4, <1>5, <1>6, <1>7, FollowedStep

\* The episode ends where nothing of it is left to be ended, or somebody else
\* still has to.
LEMMA EndFollowed ==
  ASSUME LoadInv, WholeInv, ReleaseInv, NEW g \in Groups, NEW stage \in CallerOver,
         Moves(g, stage), OthersAlone(g),
         caller[g] \notin {"finalizing", "sweeping", "idle"},
         caller[g] \in {"creating", "running"} => closing # "off",
         stage = "ok" => caller[g] \notin {"creating", "unwinding", "failed"},
         index'[g] # NoIndex => at[g]["abort"] # 0,
         UNCHANGED <<at, answer, inbox>> \/ (Leaves(g, "caller") /\ index'[g] = NoIndex),
         UNCHANGED <<live, closing, tornGroups, outpaced>>
  PROVE  ReleaseInv'
<1>1. /\ GroupTypes /\ OneCall(g) /\ CreatesUnderWay(g) /\ IndexFollows(g)
      /\ (at[g]["shutdown"] # 0 => closing = "sweeping")
      /\ Parties = {"caller", "abort", "shutdown"}
      /\ (g \notin tornGroups \cup outpaced => Followed(g))
  BY GroupFacts
<1>2. caller'[g] = stage
  BY <1>1 DEF Moves, GroupTypes
<1>3. \A s \in Roles : \A k \in Pending(g, s) : inbox[g][s][k].op = "create" => stage = "failed"
  BY <1>1 DEF CreatesUnderWay, CallerOver
<1>4. OneCall(g)' /\ CreatesUnderWay(g)'
  <2>1. CASE UNCHANGED <<at, answer, inbox>>
    BY <1>1, <1>2, <1>3, <2>1, IdleSweeps DEF CreatesUnderWay, Pending
  <2>2. CASE Leaves(g, "caller")
    BY <1>1, <1>2, <1>3, <2>2, LeavesOne, LeavesCreates
  <2>3. QED BY <2>1, <2>2
<1>5. at'[g]["shutdown"] = at[g]["shutdown"] /\ at'[g]["abort"] = at[g]["abort"]
  BY <1>1, LeavesAt
<1>6. IndexFollows(g)'
  BY <1>2, <1>5 DEF IndexFollows, CallerOver
<1>7. ASSUME g \notin tornGroups' \cup outpaced' PROVE Followed(g)'
  <2>1. ASSUME NEW s \in Roles PROVE Gone(g, s)' \/ \E q \in Parties : Sweeps(g, q, s)'
    <3>1. Gone(g, s) \/ \E q \in Parties : Sweeps(g, q, s)
      BY <1>1, <1>7 DEF Followed, Holds
    <3>2. CASE Gone(g, s)
      BY <1>1, <3>2, LeavesSweeps, IdleSweeps
    <3>3. ASSUME NEW q \in Parties, Sweeps(g, q, s) PROVE Sweeps(g, q, s)'
      <4>1. q # "caller"
        BY <3>3 DEF Sweeps
      <4>2. QED BY <1>1, <3>3, <4>1, LeavesSweeps, IdleSweeps
    <3>4. QED BY <3>1, <3>2, <3>3
  <2>2. QED BY <2>1 DEF Followed
<1>8. QED BY <1>1, <1>4, <1>5, <1>6, <1>7, FollowedStep

\* create_session fails or is cancelled.
LEMMA UnwindsFollowed ==
  ASSUME LoadInv, WholeInv, ReleaseInv, NEW g \in Groups, caller[g] = "creating",
         CreateUnwinds(g), UNCHANGED <<live, closing, tornGroups, outpaced>>
  PROVE  ReleaseInv'
<1>1. /\ GroupTypes /\ IndexFollows(g) /\ "caller" \in Parties
      /\ {"failed", "unwinding"} \subseteq CallerStages
  BY GroupFacts DEF CallerStages, CallerOver
<1>2. CASE index[g] = NoIndex
  <2>1. Leaves(g, "caller") /\ Moves(g, "failed") /\ Drop(g)
    BY <1>2 DEF CreateUnwinds, EndsFailed
  <2>2. closing = "down"
    BY <1>1, <1>2 DEF IndexFollows
  <2>3. index'[g] = NoIndex /\ OthersAlone(g)
    BY <1>1, <2>1, DropIndex, AloneStep
  <2>4. QED BY <2>1, <2>2, <2>3, EndFollowed DEF CallerOver
<1>3. CASE index[g] # NoIndex
  <2>1. Sends(g, "abort", "abort", 1) /\ Moves(g, "unwinding") /\ UNCHANGED index
    BY <1>3 DEF CreateUnwinds, BeginsAbort
  <2>2. QED BY <1>3, <2>1, AbortFollowed
<1>4. QED BY <1>2, <1>3

\* The shielded abort of create_session has ended, or is left alone.
LEMMA UnwoundFollowed ==
  ASSUME LoadInv, WholeInv, ReleaseInv, NEW g \in Groups, caller[g] = "unwinding",
         Drop(g), EndsFailed(g),
         UNCHANGED <<at, answer, inbox, live, closing, tornGroups, outpaced>>
  PROVE  ReleaseInv'
<1>1. GroupTypes /\ "failed" \in CallerStages /\ Moves(g, "failed")
  BY GroupFacts DEF CallerStages, CallerOver, EndsFailed
<1>2. index'[g] = NoIndex /\ OthersAlone(g)
  BY <1>1, DropIndex, AloneStep
<1>3. QED BY <1>1, <1>2, EndFollowed DEF CallerOver

\* The runner is over: finalize the group, or abort it, unless it is forgotten.
LEMMA RunnerFollowed ==
  ASSUME LoadInv, WholeInv, ReleaseInv, NEW g \in Groups, caller[g] = "running",
         \/ index[g] = NoIndex /\ EndsFailed(g) /\ UNCHANGED <<at, answer, inbox>>
         \/ /\ index[g] # NoIndex
            /\ \/ Sends(g, "caller", "finalize", 1) /\ Moves(g, "finalizing")
               \/ Sends(g, "abort", "abort", 1) /\ Moves(g, "aborting"),
         UNCHANGED <<live, index, closing, tornGroups, outpaced>>
  PROVE  ReleaseInv'
<1>1. /\ GroupTypes /\ OneCall(g) /\ CreatesUnderWay(g) /\ IndexFollows(g)
      /\ Parties = {"caller", "abort", "shutdown"} /\ "finalize" \in Ops
      /\ (at[g]["shutdown"] # 0 => closing = "sweeping")
      /\ 1 \in Roles /\ Roles = 1..RoleCount /\ RoleCount \in Nat
  BY GroupFacts
<1>2. {"failed", "finalizing", "aborting"} \subseteq CallerStages
  BY DEF CallerStages, CallerOver
<1>3. CASE index[g] = NoIndex
  <2>1. Moves(g, "failed") /\ UNCHANGED <<at, answer, inbox>>
    BY <1>3 DEF EndsFailed
  <2>2. closing = "down"
    BY <1>1, <1>3 DEF IndexFollows
  <2>3. OthersAlone(g)
    BY <1>1, <1>2, <2>1, AloneStep
  <2>4. QED BY <1>3, <2>1, <2>2, <2>3, EndFollowed DEF CallerOver
<1>4. CASE index[g] # NoIndex /\ Sends(g, "abort", "abort", 1) /\ Moves(g, "aborting")
  BY <1>4, AbortFollowed
<1>5. CASE index[g] # NoIndex /\ Sends(g, "caller", "finalize", 1) /\ Moves(g, "finalizing")
  <2>1. caller'[g] = "finalizing"
    BY <1>1, <1>5 DEF Moves, GroupTypes
  <2>2. OthersAlone(g)
    BY <1>1, <1>2, <1>5, AloneStep
  <2>3. OneCall(g)' /\ CreatesUnderWay(g)'
    <3>1. \A s \in Roles : \A k \in Pending(g, s) : inbox[g][s][k].op # "create"
      BY <1>1 DEF CreatesUnderWay
    <3>2. QED BY <1>1, <1>5, <3>1, SendsOne, SendsCreates
  <2>4. at'[g]["caller"] = 1 /\ answer'[g]["caller"] = "none" /\ at'[g]["shutdown"] = at[g]["shutdown"]
    BY <1>1, <1>5, SendsAt DEF Left
  <2>5. IndexFollows(g)'
    BY <1>5, <2>1 DEF IndexFollows, CallerOver
  <2>6. \A s \in Roles : Holds(g, s)'
    BY <1>1, <2>1, <2>4 DEF Holds
  <2>7. Followed(g)'
    BY <2>6 DEF Followed
  <2>8. QED BY <1>1, <2>2, <2>3, <2>4, <2>5, <2>7, FollowedStep
<1>6. QED BY <1>3, <1>4, <1>5

\* The role is finalized, the next one is to be, or the group is handed out.
LEMMA FinalizedFollowed ==
  ASSUME LoadInv, WholeInv, ReleaseInv, NEW g \in Groups, RoleFinalized(g)
  PROVE  ReleaseInv'
<1>1. /\ caller[g] = "finalizing" /\ answer[g]["caller"] = "ok"
      /\ UNCHANGED <<live, closing, tornGroups, outpaced>>
  BY DEF RoleFinalized
<1>2. /\ GroupTypes /\ OneCall(g) /\ CreatesUnderWay(g) /\ IndexFollows(g)
      /\ Parties = {"caller", "abort", "shutdown"} /\ "finalize" \in Ops
      /\ (at[g]["shutdown"] # 0 => closing = "sweeping") /\ at[g]["abort"] = 0
      /\ (g \notin tornGroups \cup outpaced => Followed(g))
      /\ Roles = 1..RoleCount /\ RoleCount \in Nat /\ at[g]["caller"] \in 0..RoleCount
  BY <1>1, GroupFacts
<1>3. \A s \in Roles : \A k \in Pending(g, s) : inbox[g][s][k].op # "create"
  BY <1>1, <1>2 DEF CreatesUnderWay
<1>4. CASE LastRole(g, "caller")
  <2>1. /\ Leaves(g, "caller") /\ Moves(g, "ok") /\ Drop(g) /\ at[g]["caller"] = RoleCount
    BY <1>4 DEF RoleFinalized, LastRole
  <2>2. caller'[g] = "ok" /\ "ok" \in CallerStages
    BY <1>2, <2>1 DEF Moves, GroupTypes, CallerStages, CallerOver
  <2>3. OthersAlone(g) /\ index'[g] = NoIndex
    BY <1>2, <2>1, <2>2, DropIndex, AloneStep
  <2>4. OneCall(g)' /\ CreatesUnderWay(g)'
    BY <1>2, <1>3, <2>1, LeavesOne, LeavesCreates
  <2>5. at'[g]["shutdown"] = at[g]["shutdown"]
    BY <1>2, <2>1, LeavesAt
  <2>6. IndexFollows(g)'
    BY <2>2, <2>3 DEF IndexFollows
  <2>7. ASSUME g \notin tornGroups' \cup outpaced', NEW s \in Roles
        PROVE  Gone(g, s)' \/ \E q \in Parties : Sweeps(g, q, s)'
    <3>1. ~ Holds(g, s)
      BY <1>1, <1>2, <2>1 DEF Holds
    <3>2. Gone(g, s) => Gone(g, s)'
      BY <1>1, <1>2, <2>1, LeavesSweeps
    <3>3. ASSUME NEW q \in Parties, Sweeps(g, q, s) PROVE Sweeps(g, q, s)'
      <4>1. q # "caller"
        BY <1>1, <3>3 DEF Sweeps
      <4>2. QED BY <1>1, <1>2, <2>1, <3>3, <4>1, LeavesSweeps
    <3>4. QED BY <1>1, <1>2, <2>7, <3>1, <3>2, <3>3 DEF Followed
  <2>8. g \notin tornGroups' \cup outpaced' => Followed(g)'
    BY <2>7 DEF Followed
  <2>9. QED BY <1>1, <1>2, <2>3, <2>4, <2>5, <2>6, <2>8, FollowedStep
<1>5. CASE ~LastRole(g, "caller")
  <2>1. /\ Sends(g, "caller", "finalize", at[g]["caller"] + 1) /\ UNCHANGED <<caller, index>>
        /\ at[g]["caller"] + 1 \in Roles
    BY <1>2, <1>5 DEF RoleFinalized, LastRole
  <2>2. OthersAlone(g)
    BY <1>2, <2>1, AloneStep
  <2>3. OneCall(g)' /\ CreatesUnderWay(g)'
    BY <1>2, <1>3, <2>1, SendsOne, SendsCreates
  <2>4. at'[g]["shutdown"] = at[g]["shutdown"] /\ at'[g]["caller"] = at[g]["caller"] + 1
        /\ answer'[g]["caller"] = "none"
    BY <1>2, <2>1, SendsAt DEF Left
  <2>5. IndexFollows(g)'
    BY <1>1, <1>2, <2>1 DEF IndexFollows, CallerOver
  <2>6. ASSUME g \notin tornGroups' \cup outpaced', NEW s \in Roles
        PROVE  Gone(g, s)' \/ Holds(g, s)' \/ \E q \in Parties : Sweeps(g, q, s)'
    <3>1. Holds(g, s) => Holds(g, s)'
      <4>1. Holds(g, s) => s > at[g]["caller"]
        BY <1>1 DEF Holds
      <4>2. s > at[g]["caller"] => s > at[g]["caller"] + 1 \/ s = at[g]["caller"] + 1
        BY <1>2
      <4>3. QED BY <1>1, <2>1, <2>4, <4>1, <4>2 DEF Holds
    <3>2. Gone(g, s) => Gone(g, s)'
      BY <1>1, <1>2, <2>1, SendsSweeps
    <3>3. ASSUME NEW q \in Parties, Sweeps(g, q, s) PROVE Sweeps(g, q, s)'
      <4>1. q # "caller" /\ q \in Parties \ Left("caller")
        BY <1>1, <3>3 DEF Sweeps, Left
      <4>2. QED BY <1>1, <1>2, <2>1, <3>3, <4>1, SendsSweeps
    <3>4. QED BY <1>1, <1>2, <2>6, <3>1, <3>2, <3>3 DEF Followed
  <2>7. g \notin tornGroups' \cup outpaced' => Followed(g)'
    BY <2>6 DEF Followed
  <2>8. QED BY <1>1, <1>2, <2>2, <2>3, <2>4, <2>5, <2>7, FollowedStep
<1>6. QED BY <1>4, <1>5

\* A party goes on with its sweep, or ends it: every role behind it is gone, or
\* the sweep is torn.
LEMMA SweptFollowed ==
  ASSUME LoadInv, WholeInv, ReleaseInv, NEW g \in Groups, NEW p \in Parties, Swept(g, p),
         OthersAlone(g), UNCHANGED <<live, closing, outpaced>>,
         p = "caller" => caller[g] = "sweeping",
         IF LastRole(g, p)
         THEN \/ UNCHANGED <<caller, index>> /\ p = "shutdown"
              \/ /\ index'[g] = NoIndex
                 /\ caller'[g] \in {"failed", "unwinding"} /\ p \in {"caller", "abort"}
                 /\ caller[g] = "unwinding" => caller'[g] = "unwinding"
                 /\ caller'[g] = "unwinding" => caller[g] = "unwinding"
         ELSE UNCHANGED <<caller, index>>
  PROVE  ReleaseInv'
<1>1. /\ GroupTypes /\ OneCall(g) /\ CreatesUnderWay(g) /\ IndexFollows(g)
      /\ Parties = {"caller", "abort", "shutdown"} /\ "abort" \in Ops
      /\ (at[g]["shutdown"] # 0 => closing = "sweeping")
      /\ (at[g]["abort"] # 0 => caller[g] \in {"unwinding", "aborting", "failed"})
      /\ (g \notin tornGroups \cup outpaced => Followed(g))
      /\ Roles = 1..RoleCount /\ RoleCount \in Nat /\ at[g][p] \in 0..RoleCount
  BY GroupFacts
<1>2. /\ at[g][p] > 0 /\ answer[g][p] # "none" /\ at[g][p] # 0
      /\ tornGroups' = IF answer[g][p] = "raised" THEN tornGroups \cup {g} ELSE tornGroups
      /\ IF LastRole(g, p) THEN Leaves(g, p) ELSE Sends(g, p, "abort", at[g][p] + 1)
  BY <1>1 DEF Swept, Answered
<1>3. ASSUME NEW s \in Roles, g \notin tornGroups'
      PROVE  ~Sweeps(g, p, s) \/ s > at[g][p]
  BY <1>2, <1>3 DEF Sweeps
<1>4. ASSUME NEW s \in Roles, Holds(g, s)
      PROVE  p = "shutdown" /\ UNCHANGED <<caller, index>>
  BY <1>1, <1>2, <1>4 DEF Holds
<1>5. ASSUME NEW q \in Parties \ {p}, NEW s \in Roles, Sweeps(g, q, s)
      PROVE  q \notin Left(p) /\ (q = "caller" => caller'[g] = "sweeping")
  BY <1>1, <1>2, <1>5 DEF Sweeps, Left
<1>6. CASE LastRole(g, p)
  <2>1. Leaves(g, p) /\ at[g][p] = RoleCount
    BY <1>2, <1>6 DEF LastRole
  <2>2. /\ at'[g][p] = 0
        /\ \A q \in Parties \ {p} : at'[g][q] = at[g][q] /\ answer'[g][q] = answer[g][q]
    BY <1>1, <2>1, LeavesAt
  <2>3. OneCall(g)'
    BY <1>1, <2>1, LeavesOne
  <2>4. CreatesUnderWay(g)'
    BY <1>1, <1>2, <1>6, <2>1, LeavesCreates DEF CreatesUnderWay
  <2>5. IndexFollows(g)'
    <3>1. CASE UNCHANGED <<caller, index>> /\ p = "shutdown"
      <4>1. at'[g]["abort"] = at[g]["abort"]
        BY <1>1, <2>2, <3>1
      <4>2. QED BY <1>1, <2>2, <3>1, <4>1 DEF IndexFollows
    <3>2. CASE index'[g] = NoIndex /\ caller'[g] \in {"failed", "unwinding"}
      BY <3>2 DEF IndexFollows
    <3>3. QED BY <1>6, <3>1, <3>2
  <2>6. at'[g]["shutdown"] # 0 => closing = "sweeping"
    BY <1>1, <2>2
  <2>7. ASSUME g \notin tornGroups' \cup outpaced', NEW s \in Roles
        PROVE  Gone(g, s)' \/ Holds(g, s)' \/ \E q \in Parties : Sweeps(g, q, s)'
    <3>1. Gone(g, s) \/ Holds(g, s) \/ \E q \in Parties : Sweeps(g, q, s)
      BY <1>1, <1>2, <2>7 DEF Followed
    <3>2. Gone(g, s) => Gone(g, s)'
      BY <1>1, <2>1, LeavesSweeps
    <3>3. Holds(g, s) => Holds(g, s)'
      BY <1>1, <1>4, <2>2 DEF Holds
    <3>4. ASSUME NEW q \in Parties, Sweeps(g, q, s) PROVE Sweeps(g, q, s)'
      <4>1. q # p
        BY <1>1, <1>3, <2>1, <2>7, <3>4
      <4>2. QED BY <1>1, <1>5, <2>1, <3>4, <4>1, LeavesSweeps
    <3>5. QED BY <3>1, <3>2, <3>3, <3>4
  <2>8. g \notin tornGroups' \cup outpaced' => Followed(g)'
    BY <2>7 DEF Followed
  <2>9. QED BY <1>2, <2>3, <2>4, <2>5, <2>6, <2>8, FollowedStep
<1>7. CASE ~LastRole(g, p)
  <2>1. /\ Sends(g, p, "abort", at[g][p] + 1) /\ UNCHANGED <<caller, index>>
        /\ at[g][p] + 1 \in Roles
    BY <1>1, <1>2, <1>7 DEF LastRole
  <2>2. /\ at'[g][p] = at[g][p] + 1
        /\ \A q \in Parties \ Left(p) : at'[g][q] = at[g][q] /\ answer'[g][q] = answer[g][q]
    BY <1>1, <2>1, SendsAt
  <2>3. OneCall(g)'
    BY <1>1, <2>1, SendsOne
  <2>4. CreatesUnderWay(g)'
    <3>1. \A s \in Roles : \A k \in Pending(g, s) : inbox[g][s][k].op = "create" =>
            \/ caller'[g] \in {"unwinding", "failed"}
            \/ caller'[g] = "creating" /\ inbox[g][s][k].by = "caller" /\ "caller" \notin Left(p)
      BY <1>1, <1>2, <2>1 DEF CreatesUnderWay, Left
    <3>2. "abort" # "create"
      OBVIOUS
    <3>3. QED BY <1>1, <2>1, <3>1, <3>2, SendsCreates
  <2>5. IndexFollows(g)' /\ (at'[g]["shutdown"] # 0 => closing = "sweeping")
    <3>1. p # "shutdown" => at'[g]["shutdown"] = at[g]["shutdown"]
      BY <1>1, <2>2 DEF Left
    <3>2. p # "abort" => at'[g]["abort"] = at[g]["abort"]
      BY <1>1, <2>2 DEF Left
    <3>3. p = "abort" => at'[g]["abort"] # 0
      BY <1>1, <2>2
    <3>4. QED BY <1>1, <1>2, <2>1, <3>1, <3>2, <3>3 DEF IndexFollows
  <2>6. ASSUME g \notin tornGroups' \cup outpaced', NEW s \in Roles
        PROVE  Gone(g, s)' \/ Holds(g, s)' \/ \E q \in Parties : Sweeps(g, q, s)'
    <3>1. Gone(g, s) \/ Holds(g, s) \/ \E q \in Parties : Sweeps(g, q, s)
      BY <1>1, <1>2, <2>6 DEF Followed
    <3>2. Gone(g, s) => Gone(g, s)'
      BY <1>1, <2>1, SendsSweeps
    <3>3. Holds(g, s) => Holds(g, s)'
      <4>1. p = "shutdown" => at'[g]["caller"] = at[g]["caller"] /\ answer'[g]["caller"] = answer[g]["caller"]
        BY <1>1, <2>2 DEF Left
      <4>2. QED BY <1>4, <4>1 DEF Holds
    <3>4. ASSUME NEW q \in Parties, Sweeps(g, q, s) PROVE Sweeps(g, q, s)'
      <4>1. CASE q = p
        <5>1. s >= at[g][p] + 1
          BY <1>1, <1>3, <2>6, <3>4, <4>1
        <5>2. p = "caller" => caller'[g] = "sweeping"
          BY <2>1
        <5>3. QED BY <1>1, <2>1, <4>1, <5>1, <5>2, SendsSweeps
      <4>2. CASE q # p
        <5>1. q \in Parties \ Left(p) /\ (q = "caller" => caller'[g] = "sweeping")
          BY <1>5, <3>4, <4>2
        <5>2. QED BY <1>1, <2>1, <3>4, <5>1, SendsSweeps
      <4>3. QED BY <4>1, <4>2
    <3>5. QED BY <3>1, <3>2, <3>3, <3>4
  <2>7. g \notin tornGroups' \cup outpaced' => Followed(g)'
    BY <2>6 DEF Followed
  <2>8. QED BY <1>2, <2>3, <2>4, <2>5, <2>7, FollowedStep
<1>8. QED BY <1>6, <1>7

LEMMA SweepsFollowed ==
  ASSUME LoadInv, WholeInv, ReleaseInv, NEW g \in Groups,
         SweepAfterFinalize(g) \/ SweepOfAbort(g) \/ SweepOfShutdown(g)
  PROVE  ReleaseInv'
<1>1. /\ GroupTypes /\ Parties = {"caller", "abort", "shutdown"} /\ "abort" \in Ops
      /\ IndexFollows(g)
      /\ (at[g]["abort"] # 0 => caller[g] \in {"unwinding", "aborting", "failed"})
      /\ Roles = 1..RoleCount /\ RoleCount \in Nat
      /\ \A p \in Parties : at[g][p] \in 0..RoleCount
      /\ "failed" \in CallerStages
  BY GroupFacts DEF CallerStages, CallerOver
<1>2. ASSUME NEW p \in Parties, Swept(g, p)
      PROVE  Leaves(g, p) \/ \E r \in Roles : Sends(g, p, "abort", r)
  <2>1. ~LastRole(g, p) => at[g][p] + 1 \in Roles
    BY <1>1 DEF LastRole
  <2>2. QED BY <1>2, <2>1 DEF Swept
<1>3. CASE SweepAfterFinalize(g)
  <2>1. /\ Swept(g, "caller") /\ caller[g] = "sweeping" /\ UNCHANGED <<live, closing, outpaced>>
        /\ IF LastRole(g, "caller") THEN Drop(g) /\ Moves(g, "failed")
           ELSE UNCHANGED <<index, caller>>
    BY <1>3 DEF SweepAfterFinalize, EndsFailed
  <2>2. OthersAlone(g) /\ (LastRole(g, "caller") => index'[g] = NoIndex /\ caller'[g] = "failed")
    <3>1. Leaves(g, "caller") \/ \E r \in Roles : Sends(g, "caller", "abort", r)
      BY <1>1, <1>2, <2>1
    <3>2. OthersAlone(g)
      BY <1>1, <2>1, <3>1, DropIndex, AloneStep
    <3>3. QED BY <1>1, <2>1, <3>2, DropIndex DEF Moves, GroupTypes
  <2>3. QED BY <1>1, <2>1, <2>2, SweptFollowed
<1>4. CASE SweepOfAbort(g)
  <2>1. /\ Swept(g, "abort") /\ caller[g] \in {"unwinding", "aborting", "failed"}
        /\ UNCHANGED <<live, closing, outpaced>>
        /\ IF LastRole(g, "abort")
           THEN /\ Drop(g)
                /\ IF caller[g] = "aborting" THEN Moves(g, "failed") ELSE UNCHANGED caller
           ELSE UNCHANGED <<index, caller>>
    BY <1>1, <1>4 DEF SweepOfAbort, Swept, EndsFailed
  <2>2. /\ OthersAlone(g)
        /\ LastRole(g, "abort") => /\ index'[g] = NoIndex /\ caller'[g] \in {"failed", "unwinding"}
                                   /\ caller'[g] = "unwinding" <=> caller[g] = "unwinding"
    <3>1. Leaves(g, "abort") \/ \E r \in Roles : Sends(g, "abort", "abort", r)
      BY <1>1, <1>2, <2>1
    <3>2. OthersAlone(g)
      BY <1>1, <2>1, <3>1, DropIndex, AloneStep
    <3>3. QED BY <1>1, <2>1, <3>2, DropIndex DEF Moves, GroupTypes
  <2>3. QED BY <1>1, <2>1, <2>2, SweptFollowed
<1>5. CASE SweepOfShutdown(g)
  <2>1. Swept(g, "shutdown") /\ UNCHANGED <<caller, live, index, closing, outpaced>>
    BY <1>5 DEF SweepOfShutdown
  <2>2. Leaves(g, "shutdown") \/ \E r \in Roles : Sends(g, "shutdown", "abort", r)
    BY <1>1, <1>2, <2>1
  <2>3. OthersAlone(g)
    BY <1>1, <2>1, <2>2, AloneStep
  <2>4. QED BY <1>1, <2>1, <2>3, SweptFollowed
<1>6. QED BY <1>3, <1>4, <1>5

\* A sweep that is cut off tears the group.
LEMMA TornFollowed ==
  ASSUME LoadInv, WholeInv, ReleaseInv, NEW g \in Groups, NEW p \in {"caller", "abort"},
         caller[g] \in {"sweeping", "aborting"},
         Leaves(g, p), Drop(g), EndsFailed(g), tornGroups' = tornGroups \cup {g},
         UNCHANGED <<live, closing, outpaced>>
  PROVE  ReleaseInv'
<1>1. /\ GroupTypes /\ OneCall(g) /\ CreatesUnderWay(g) /\ p \in Parties /\ "shutdown" \in Parties \ {p}
      /\ (at[g]["shutdown"] # 0 => closing = "sweeping")
      /\ "failed" \in CallerStages /\ Moves(g, "failed")
  BY GroupFacts DEF EndsFailed, CallerStages, CallerOver
<1>2. OthersAlone(g) /\ index'[g] = NoIndex /\ caller'[g] = "failed"
  <2>1. OthersAlone(g) /\ index'[g] = NoIndex
    BY <1>1, DropIndex, AloneStep
  <2>2. QED BY <1>1, <2>1 DEF Moves, GroupTypes
<1>3. OneCall(g)' /\ CreatesUnderWay(g)' /\ at'[g]["shutdown"] = at[g]["shutdown"]
  BY <1>1, <1>2, LeavesOne, LeavesCreates, LeavesAt DEF CreatesUnderWay
<1>4. IndexFollows(g)'
  BY <1>2 DEF IndexFollows
<1>5. QED BY <1>1, <1>2, <1>3, <1>4, FollowedStep

LEMMA CancelFollowed ==
  ASSUME LoadInv, WholeInv, ReleaseInv, NEW g \in Groups, CancelCaller(g)
  PROVE  ReleaseInv'
<1>1. UNCHANGED <<live, closing, outpaced>>
  BY DEF CancelCaller
<1>2. /\ GroupTypes /\ IndexFollows(g) /\ Parties = {"caller", "abort", "shutdown"}
      /\ index[g] \in Pool \cup {NoIndex} /\ "failed" \in CallerStages
  BY GroupFacts DEF CallerStages, CallerOver
<1>3. CASE CancelCreate(g)
  BY <1>1, <1>3, UnwindsFollowed DEF CancelCreate
<1>4. CASE CancelUnwinding(g)
  BY <1>1, <1>4, UnwoundFollowed DEF CancelUnwinding
<1>5. CASE CancelRunner(g)
  BY <1>1, <1>5, RunnerFollowed DEF CancelRunner, BeginsAbort
<1>6. CASE CancelFinalize(g)
  <2>1. /\ Sends(g, "caller", "abort", 1) /\ Moves(g, "sweeping") /\ caller[g] = "finalizing"
        /\ UNCHANGED <<index, tornGroups>>
    BY <1>6 DEF CancelFinalize
  <2>2. closing # "down" => index[g] # NoIndex
    BY <1>2, <2>1 DEF IndexFollows
  <2>3. QED BY <1>1, <2>1, <2>2, AbortFollowed
<1>7. CASE CancelSweep(g)
  BY <1>1, <1>7, TornFollowed DEF CancelSweep
<1>8. CASE CancelAbort(g)
  <2>1. CASE shielded[g]
    <3>1. /\ caller[g] = "aborting" /\ Moves(g, "failed")
          /\ UNCHANGED <<at, answer, inbox, index, tornGroups>>
      BY <1>8, <2>1 DEF CancelAbort, EndsFailed
    <3>2. index[g] # NoIndex => at[g]["abort"] # 0
      BY <1>2, <3>1 DEF IndexFollows
    <3>3. OthersAlone(g)
      BY <1>2, <3>1, AloneStep
    <3>4. QED BY <1>1, <3>1, <3>2, <3>3, EndFollowed DEF CallerOver
  <2>2. CASE ~shielded[g]
    BY <1>1, <1>8, <2>2, TornFollowed DEF CancelAbort
  <2>3. QED BY <2>1, <2>2
<1>9. QED BY <1>3, <1>4, <1>5, <1>6, <1>7, <1>8 DEF CancelCaller

\* The actor answers the first call of a role.
LEMMA ReplyPending ==
  ASSUME GroupTypes, NEW g \in Groups, NEW r \in Roles, NEW result \in {"ok", "raised"},
         inbox[g][r] # <<>>, Reply(g, r, result)
  PROVE  /\ 1 \in Pending(g, r) /\ Head(inbox[g][r]) = inbox[g][r][1]
         /\ \A p \in Parties :
              answer'[g][p] = IF p = inbox[g][r][1].by THEN result ELSE answer[g][p]
         /\ \A h \in Groups \ {g} : answer'[h] = answer[h] /\ inbox'[h] = inbox[h]
         /\ \A s \in Roles \ {r} : inbox'[g][s] = inbox[g][s]
         /\ \A k \in DOMAIN inbox'[g][r] :
              k + 1 \in Pending(g, r) /\ k + 1 # 1 /\ inbox'[g][r][k] = inbox[g][r][k + 1]
         /\ \A k \in Pending(g, r) \ {1} :
              /\ k - 1 \in DOMAIN inbox'[g][r] /\ inbox'[g][r][k - 1] = inbox[g][r][k]
              /\ \A j \in DOMAIN inbox'[g][r] : j > k - 1 => j + 1 > k
         /\ \A k \in DOMAIN inbox'[g][r] : k + 1 > 1
         /\ \A k \in DOMAIN inbox'[g][r], j \in DOMAIN inbox'[g][r] : k + 1 = j + 1 => k = j
<1> DEFINE call == Head(inbox[g][r])
<1>1. inbox[g][r] \in Seq(Calls)
  BY DEF GroupTypes
<1>2. /\ call \in Calls /\ call = inbox[g][r][1] /\ Pending(g, r) = 1..Len(inbox[g][r])
      /\ Len(inbox[g][r]) \in Nat \ {0} /\ Len(Tail(inbox[g][r])) = Len(inbox[g][r]) - 1
      /\ Tail(inbox[g][r]) \in Seq(Calls)
      /\ DOMAIN Tail(inbox[g][r]) = 1..(Len(inbox[g][r]) - 1)
      /\ \A k \in DOMAIN Tail(inbox[g][r]) : Tail(inbox[g][r])[k] = inbox[g][r][k + 1]
  BY <1>1 DEF Pending
<1>3. /\ inbox' = [inbox EXCEPT ![g][r] = Tail(inbox[g][r])]
      /\ answer' = IF call.by = "nobody" THEN answer ELSE [answer EXCEPT ![g][call.by] = result]
  BY DEF Reply, GroupTypes
<1> HIDE DEF call
<1>4. \A p \in Parties : answer'[g][p] = IF p = call.by THEN result ELSE answer[g][p]
  <2>1. call.by \in Parties \cup {"nobody"} /\ "nobody" \notin Parties
    BY <1>2 DEF Calls, Parties
  <2>2. QED BY <1>3, <2>1 DEF GroupTypes
<1>5. /\ \A h \in Groups \ {g} : answer'[h] = answer[h] /\ inbox'[h] = inbox[h]
      /\ \A s \in Roles \ {r} : inbox'[g][s] = inbox[g][s]
      /\ inbox'[g][r] = Tail(inbox[g][r])
  BY <1>3 DEF GroupTypes
<1>6. /\ \A k \in DOMAIN inbox'[g][r] :
           k + 1 \in Pending(g, r) /\ k + 1 # 1 /\ inbox'[g][r][k] = inbox[g][r][k + 1]
      /\ \A k \in DOMAIN inbox'[g][r] : k + 1 > 1
      /\ \A k \in DOMAIN inbox'[g][r], j \in DOMAIN inbox'[g][r] : k + 1 = j + 1 => k = j
  BY <1>2, <1>5
<1>7. ASSUME NEW k \in Pending(g, r) \ {1}
      PROVE  /\ k - 1 \in DOMAIN inbox'[g][r] /\ inbox'[g][r][k - 1] = inbox[g][r][k]
             /\ \A j \in DOMAIN inbox'[g][r] : j > k - 1 => j + 1 > k
  <2>1. k \in Nat /\ k - 1 \in 1..(Len(inbox[g][r]) - 1) /\ (k - 1) + 1 = k
    BY <1>2
  <2>2. QED BY <1>2, <1>5, <2>1
<1>8. 1 \in Pending(g, r)
  BY <1>2
<1>9. QED BY <1>2, <1>4, <1>5, <1>6, <1>7, <1>8 DEF call

\* The actor answers the call, and does what it says.
Answers(g, r, result) ==
  /\ Reply(g, r, result)
  /\ live' \subseteq Groups \X Roles
  /\ \A h \in Groups, s \in Roles : <<h, s>> \in live' =>
       <<h, s>> \in live \/ (h = g /\ s = r /\ Head(inbox[g][r]).op = "create")
  /\ result = "ok" /\ Head(inbox[g][r]).op # "create" => <<g, r>> \notin live'

\* What a call that was answered means for whoever waited for it.
LEMMA ReplyFollowed ==
  ASSUME LoadInv, WholeInv, ReleaseInv, NEW g \in Groups, NEW r \in Roles,
         NEW result \in {"ok", "raised"},
         inbox[g][r] # <<>>, Answers(g, r, result),
         UNCHANGED <<caller, at, index, closing, tornGroups, outpaced>>
  PROVE  ReleaseInv'
<1>1. /\ GroupTypes /\ OneCall(g) /\ CreatesUnderWay(g) /\ IndexFollows(g)
      /\ Parties = {"caller", "abort", "shutdown"}
      /\ (at[g]["shutdown"] # 0 => closing = "sweeping")
      /\ (g \notin tornGroups \cup outpaced => Followed(g))
      /\ Roles = 1..RoleCount /\ RoleCount \in Nat
  BY GroupFacts
<1>a. /\ Reply(g, r, result)
      /\ live' \subseteq Groups \X Roles
      /\ \A h \in Groups, s \in Roles : <<h, s>> \in live' =>
           <<h, s>> \in live \/ (h = g /\ s = r /\ Head(inbox[g][r]).op = "create")
      /\ result = "ok" /\ Head(inbox[g][r]).op # "create" => <<g, r>> \notin live'
  BY DEF Answers
<1> DEFINE call == inbox[g][r][1]
<1>2. /\ 1 \in Pending(g, r) /\ Head(inbox[g][r]) = call
      /\ \A p \in Parties : answer'[g][p] = IF p = call.by THEN result ELSE answer[g][p]
      /\ \A s \in Roles \ {r} : inbox'[g][s] = inbox[g][s]
  BY <1>a, <1>1, ReplyPending
<1>3. /\ \A k \in DOMAIN inbox'[g][r] :
           k + 1 \in Pending(g, r) /\ k + 1 # 1 /\ inbox'[g][r][k] = inbox[g][r][k + 1]
      /\ \A k \in DOMAIN inbox'[g][r] : k + 1 > 1
      /\ \A k \in DOMAIN inbox'[g][r], j \in DOMAIN inbox'[g][r] : k + 1 = j + 1 => k = j
  BY <1>a, <1>1, ReplyPending
<1>4. \A k \in Pending(g, r) \ {1} :
        /\ k - 1 \in DOMAIN inbox'[g][r] /\ inbox'[g][r][k - 1] = inbox[g][r][k]
        /\ \A j \in DOMAIN inbox'[g][r] : j > k - 1 => j + 1 > k
  BY <1>a, <1>1, ReplyPending
<1> HIDE DEF call
<1>5. \A p \in Parties : call.by = p =>
        /\ at[g][p] = r /\ answer[g][p] = "none"
        /\ \A s \in Roles : \A k \in Pending(g, s) : inbox[g][s][k].by = p => s = r /\ k = 1
  BY <1>1, <1>2 DEF OneCall, call
<1>6. OneCall(g)'
  <2>1. ASSUME NEW p \in Parties, NEW s \in Roles, NEW k \in DOMAIN inbox'[g][s],
               inbox'[g][s][k].by = p
        PROVE  /\ s = at[g][p] /\ answer'[g][p] = "none"
               /\ \A j \in DOMAIN inbox'[g][s] : inbox'[g][s][j].by = p => j = k
    <3>1. CASE s = r
      <4>1. /\ k + 1 \in Pending(g, r) /\ inbox[g][r][k + 1].by = p /\ k + 1 # 1
            /\ \A j \in DOMAIN inbox'[g][r] : inbox'[g][r][j].by = p =>
                 j + 1 \in Pending(g, r) /\ inbox[g][r][j + 1].by = p
        BY <1>3, <2>1, <3>1
      <4>2. /\ s = at[g][p] /\ answer[g][p] = "none"
            /\ \A j \in DOMAIN inbox'[g][r] : inbox'[g][r][j].by = p => j + 1 = k + 1
        BY <1>1, <3>1, <4>1 DEF OneCall
      <4>3. call.by # p
        BY <1>5, <4>1
      <4>4. QED BY <1>2, <1>3, <2>1, <3>1, <4>2, <4>3
    <3>2. CASE s # r
      <4>1. inbox'[g][s] = inbox[g][s]
        BY <1>2, <3>2
      <4>2. call.by # p
        BY <1>5, <2>1, <3>2, <4>1 DEF Pending
      <4>3. QED BY <1>1, <1>2, <2>1, <4>1, <4>2 DEF OneCall, Pending
    <3>3. QED BY <3>1, <3>2
  <2>2. ASSUME NEW p \in Parties, at[g][p] = 0 PROVE answer'[g][p] = "none"
    <3>1. call.by # p
      BY <1>1, <1>5, <2>2
    <3>2. QED BY <1>1, <1>2, <2>2, <3>1 DEF OneCall
  <2>3. QED BY <2>1, <2>2 DEF OneCall, Pending
<1>7. \A s \in Roles : \A k \in DOMAIN inbox'[g][s] :
        \E j \in Pending(g, s) : inbox'[g][s][k] = inbox[g][s][j]
  BY <1>2, <1>3 DEF Pending
<1>8. CreatesUnderWay(g)'
  BY <1>1, <1>7 DEF CreatesUnderWay, Pending
<1>9. IndexFollows(g)'
  BY <1>1 DEF IndexFollows
<1>10. ASSUME g \notin tornGroups \cup outpaced, NEW s \in Roles
       PROVE  Gone(g, s)' \/ Holds(g, s)' \/ \E p \in Parties : Sweeps(g, p, s)'
  <2>1. Gone(g, s) \/ Holds(g, s) \/ \E p \in Parties : Sweeps(g, p, s)
    BY <1>1, <1>10 DEF Followed
  <2>2. CASE Gone(g, s)
    <3>1. s = r => call.op # "create"
      BY <1>2, <2>2 DEF Gone, call
    <3>2. <<g, s>> \notin live'
      BY <1>a, <1>2, <2>2, <3>1 DEF Gone
    <3>3. QED BY <1>7, <2>2, <3>2 DEF Gone, Pending
  <2>3. CASE Holds(g, s)
    <3>1. CASE ~ (caller[g] = "finalizing" /\ s = at[g]["caller"])
      BY <2>3, <3>1 DEF Holds
    <3>2. CASE caller[g] = "finalizing" /\ s = at[g]["caller"]
      <4>1. CASE answer'[g]["caller"] # "ok"
        BY <3>2, <4>1 DEF Holds
      <4>2. CASE answer'[g]["caller"] = "ok"
        <5>1. ~ (s > at[g]["caller"])
          BY <1>1, <3>2
        <5>2. answer[g]["caller"] # "ok"
          BY <2>3, <3>2, <5>1 DEF Holds
        <5>3. call.by = "caller" /\ result = "ok"
          BY <1>1, <1>2, <4>2, <5>2
        <5>4. r = s
          BY <1>1, <1>5, <3>2, <5>3
        <5>5. \A k \in DOMAIN inbox'[g][s] : inbox'[g][s][k].op # "create"
          BY <1>1, <1>7, <3>2 DEF CreatesUnderWay
        <5>6. call.op # "create"
          BY <1>1, <1>2, <3>2 DEF CreatesUnderWay, call
        <5>7. QED BY <1>a, <1>2, <5>3, <5>4, <5>5, <5>6 DEF Gone, Pending
      <4>3. QED BY <4>1, <4>2
    <3>3. QED BY <3>1, <3>2
  <2>4. ASSUME NEW p \in Parties, Sweeps(g, p, s) PROVE Gone(g, s)' \/ Sweeps(g, p, s)'
    <3>1. CASE s > at[g][p]
      BY <2>4, <3>1 DEF Sweeps
    <3>2. CASE s = at[g][p] /\ answer[g][p] = "raised"
      <4>1. call.by # p
        BY <1>5, <3>2
      <4>2. QED BY <1>2, <2>4, <3>2, <4>1 DEF Sweeps
    <3>3. CASE s = at[g][p] /\ answer[g][p] = "none" /\ AbortUnderWay(g, p, s)
      <4>1. PICK k \in Pending(g, s) :
              /\ inbox[g][s][k].op = "abort" /\ inbox[g][s][k].by = p
              /\ \A j \in Pending(g, s) : j > k => inbox[g][s][j].op # "create"
        BY <3>3 DEF AbortUnderWay
      <4>2. CASE s # r
        <5>1. inbox'[g][s] = inbox[g][s] /\ call.by # p
          BY <1>2, <1>5, <4>1, <4>2
        <5>2. AbortUnderWay(g, p, s)'
          BY <3>3, <5>1 DEF AbortUnderWay, Pending
        <5>3. QED BY <1>2, <2>4, <3>3, <5>1, <5>2 DEF Sweeps
      <4>3. CASE s = r /\ k = 1
        <5>1. call.by = p /\ call.op = "abort"
          BY <4>1, <4>3 DEF call
        <5>2. \A j \in DOMAIN inbox'[g][s] : inbox'[g][s][j].op # "create"
          BY <1>3, <4>1, <4>3
        <5>3. CASE result = "ok"
          BY <1>a, <1>2, <4>3, <5>1, <5>2, <5>3 DEF Gone, Pending
        <5>4. CASE result = "raised"
          BY <1>2, <2>4, <3>3, <5>1, <5>4 DEF Sweeps
        <5>5. QED BY <5>3, <5>4
      <4>4. CASE s = r /\ k # 1
        <5>1. call.by # p
          BY <1>5, <4>1, <4>4
        <5>2. /\ k - 1 \in DOMAIN inbox'[g][s] /\ inbox'[g][s][k - 1] = inbox[g][s][k]
              /\ \A j \in DOMAIN inbox'[g][s] : j > k - 1 => j + 1 > k
          BY <1>4, <4>1, <4>4
        <5>3. \A j \in DOMAIN inbox'[g][s] : j > k - 1 => inbox'[g][s][j].op # "create"
          BY <1>3, <4>1, <4>4, <5>2
        <5>4. AbortUnderWay(g, p, s)'
          BY <4>1, <5>2, <5>3 DEF AbortUnderWay, Pending
        <5>5. QED BY <1>2, <2>4, <3>3, <5>1, <5>4 DEF Sweeps
      <4>5. QED BY <4>2, <4>3, <4>4
    <3>4. QED BY <2>4, <3>1, <3>2, <3>3 DEF Sweeps
  <2>5. QED BY <2>1, <2>2, <2>3, <2>4
<1>11. GroupFollowed(g)'
  BY <1>1, <1>6, <1>8, <1>9, <1>10 DEF GroupFollowed, Followed
<1>12. \A h \in Groups \ {g} : answer'[h] = answer[h] /\ inbox'[h] = inbox[h]
  BY <1>a, <1>1, ReplyPending
<1>13. QED BY <1>a, <1>11, <1>12, OthersFollowed

LEMMA ServeFollowed ==
  ASSUME LoadInv, WholeInv, ReleaseInv, NEW g \in Groups, NEW r \in Roles,
         Serve(g, r) \/ ServeFails(g, r)
  PROVE  ReleaseInv'
<1>1. inbox[g][r] # <<>> /\ UNCHANGED <<caller, at, index, closing, tornGroups, outpaced>>
  BY DEF Serve, ServeFails
<1>2. live \subseteq Groups \X Roles
  BY DEF ReleaseInv
<1>3. \E result \in {"ok", "raised"} : Answers(g, r, result)
  <2>1. CASE ServeFails(g, r)
    BY <1>2, <2>1 DEF ServeFails, Answers
  <2>2. CASE Serve(g, r)
    <3>1. CASE /\ Head(inbox[g][r]).op = "create" /\ Reply(g, r, "ok")
               /\ live' = live \cup {<<g, r>>}
      BY <1>2, <3>1 DEF Answers
    <3>2. CASE \E result \in {"ok", "raised"} :
                 /\ Reply(g, r, result) /\ UNCHANGED live
                 /\ Head(inbox[g][r]).op = "create" \/ result = "raised"
      BY <1>2, <3>2 DEF Answers
    <3>3. CASE Reply(g, r, "ok") /\ live' = live \ {<<g, r>>}
      BY <1>2, <3>3 DEF Answers
    <3>4. QED BY <2>2, <3>1, <3>2, <3>3 DEF Serve
  <2>3. QED BY <2>1, <2>2
<1>4. PICK result \in {"ok", "raised"} : Answers(g, r, result)
  BY <1>3
<1>5. QED BY <1>1, <1>4, ReplyFollowed

\* shutdown() begins to sweep every group that is placed.
LEMMA BeginShutdownFollowed ==
  ASSUME LoadInv, WholeInv, ReleaseInv, BeginShutdown
  PROVE  ReleaseInv'
<1>1. /\ closing = "off" /\ closing' = "sweeping"
      /\ UNCHANGED <<caller, answer, live, index, tornGroups, outpaced>>
      /\ at' = [g \in Groups |-> [at[g] EXCEPT !["shutdown"] = IF index[g] = NoIndex THEN 0 ELSE 1]]
      /\ inbox' = [g \in Groups |->
           IF index[g] = NoIndex THEN inbox[g]
           ELSE [inbox[g] EXCEPT ![1] = Append(inbox[g][1], [op |-> "abort", by |-> "shutdown"])]]
  BY DEF BeginShutdown
<1> SUFFICES ASSUME NEW g \in Groups PROVE GroupFollowed(g)'
  BY <1>1 DEF ReleaseInv
<1>2. /\ GroupTypes /\ OneCall(g) /\ CreatesUnderWay(g) /\ IndexFollows(g)
      /\ Parties = {"caller", "abort", "shutdown"}
      /\ at[g]["shutdown"] = 0
      /\ (g \notin tornGroups \cup outpaced => Followed(g))
      /\ Roles = 1..RoleCount /\ RoleCount \in Nat /\ 1 \in Roles
  BY <1>1, GroupFacts
<1>3. /\ at'[g]["caller"] = at[g]["caller"] /\ at'[g]["abort"] = at[g]["abort"]
      /\ at'[g]["shutdown"] = IF index[g] = NoIndex THEN 0 ELSE 1
  BY <1>1, <1>2 DEF GroupTypes
<1>4. answer[g]["shutdown"] = "none"
      /\ \A s \in Roles : \A k \in Pending(g, s) : inbox[g][s][k].by # "shutdown"
  BY <1>2 DEF OneCall
<1>5. CASE index[g] = NoIndex
  <2>1. inbox'[g] = inbox[g] /\ \A p \in Parties : at'[g][p] = at[g][p]
    BY <1>1, <1>2, <1>3, <1>5
  <2>2. OneCall(g)' /\ CreatesUnderWay(g)' /\ IndexFollows(g)'
    BY <1>1, <1>2, <1>3, <1>5, <2>1 DEF OneCall, CreatesUnderWay, IndexFollows, Pending
  <2>3. ASSUME NEW s \in Roles
        PROVE  /\ Gone(g, s) => Gone(g, s)'
               /\ Holds(g, s) => Holds(g, s)'
               /\ \A p \in Parties : Sweeps(g, p, s) => Sweeps(g, p, s)'
    <3>1. Gone(g, s) => Gone(g, s)'
      BY <1>1, <2>1 DEF Gone, Pending
    <3>2. caller[g] \notin {"creating", "running"}
      BY <1>1, <1>2, <1>5 DEF IndexFollows
    <3>3. Holds(g, s) => Holds(g, s)'
      BY <1>1, <1>3, <3>2 DEF Holds
    <3>4. ASSUME NEW p \in Parties, Sweeps(g, p, s) PROVE Sweeps(g, p, s)'
      BY <1>1, <2>1, <3>4 DEF Sweeps, AbortUnderWay, Pending
    <3>5. QED BY <3>1, <3>3, <3>4
  <2>4. Followed(g) => Followed(g)'
    BY <2>3 DEF Followed
  <2>5. QED BY <1>1, <1>2, <2>2, <2>4 DEF GroupFollowed
<1>6. CASE index[g] # NoIndex
  <2> DEFINE call == [op |-> "abort", by |-> "shutdown"]
             n == Len(inbox[g][1]) + 1
  <2>1. /\ inbox'[g][1] = Append(inbox[g][1], call)
        /\ \A s \in Roles \ {1} : inbox'[g][s] = inbox[g][s]
        /\ inbox[g][1] \in Seq(Calls) /\ call.op = "abort" /\ call.by = "shutdown"
    BY <1>1, <1>2, <1>6 DEF GroupTypes
  <2> HIDE DEF call
  <2>2. /\ DOMAIN inbox'[g][1] = Pending(g, 1) \cup {n} /\ n \notin Pending(g, 1)
        /\ inbox'[g][1][n] = call
        /\ \A k \in Pending(g, 1) : inbox'[g][1][k] = inbox[g][1][k] /\ ~ (k > n)
        /\ ~ (n > n)
    <3>1. Len(inbox[g][1]) \in Nat /\ Pending(g, 1) = 1..Len(inbox[g][1])
      BY <2>1 DEF Pending
    <3>2. DOMAIN Append(inbox[g][1], call) = 1..n
      BY <2>1, <3>1
    <3>3. Append(inbox[g][1], call)[n] = call
      BY <2>1, <3>1
    <3>4. ASSUME NEW k \in Pending(g, 1)
          PROVE  Append(inbox[g][1], call)[k] = inbox[g][1][k] /\ ~ (k > n)
      BY <2>1, <3>1
    <3>5. 1..n = (1..Len(inbox[g][1])) \cup {n} /\ n \notin 1..Len(inbox[g][1]) /\ ~ (n > n)
      BY <3>1
    <3> HIDE DEF n
    <3>6. QED BY <2>1, <3>1, <3>2, <3>3, <3>4, <3>5
  <2> HIDE DEF n
  <2>3. \A s \in Roles : \A k \in DOMAIN inbox'[g][s] :
          \/ k \in Pending(g, s) /\ inbox'[g][s][k] = inbox[g][s][k]
          \/ s = 1 /\ k = n /\ inbox'[g][s][k].op = "abort" /\ inbox'[g][s][k].by = "shutdown"
    BY <2>1, <2>2 DEF Pending
  <2>4. OneCall(g)'
    <3>1. ASSUME NEW p \in Parties \ {"shutdown"}, NEW s \in Roles, NEW k \in DOMAIN inbox'[g][s],
                 inbox'[g][s][k].by = p
          PROVE  /\ s = at'[g][p] /\ answer'[g][p] = "none"
                 /\ \A j \in DOMAIN inbox'[g][s] : inbox'[g][s][j].by = p => j = k
      <4>1. k \in Pending(g, s) /\ inbox[g][s][k].by = p
        BY <2>3, <3>1
      <4>2. \A j \in DOMAIN inbox'[g][s] : inbox'[g][s][j].by = p =>
              j \in Pending(g, s) /\ inbox[g][s][j].by = p
        BY <2>3, <3>1
      <4>3. at'[g][p] = at[g][p]
        BY <1>2, <1>3
      <4>4. QED BY <1>1, <1>2, <4>1, <4>2, <4>3 DEF OneCall
    <3>2. ASSUME NEW s \in Roles, NEW k \in DOMAIN inbox'[g][s], inbox'[g][s][k].by = "shutdown"
          PROVE  s = 1 /\ k = n
      BY <1>4, <2>3, <3>2
    <3>3. at'[g]["shutdown"] = 1 /\ answer'[g]["shutdown"] = "none"
      BY <1>1, <1>3, <1>4, <1>6
    <3>4. \A p \in Parties : at'[g][p] = 0 => answer'[g][p] = "none"
      BY <1>1, <1>2, <1>3, <3>3 DEF OneCall
    <3>5. QED BY <1>2, <3>1, <3>2, <3>3, <3>4 DEF OneCall, Pending
  <2>5. CreatesUnderWay(g)'
    BY <1>1, <1>2, <2>3 DEF CreatesUnderWay, Pending
  <2>6. IndexFollows(g)'
    BY <1>1, <1>2, <1>3, <1>6 DEF IndexFollows
  <2>7. \A s \in Roles : Sweeps(g, "shutdown", s)'
    <3>1. TAKE s \in Roles
    <3>2. at'[g]["shutdown"] = 1 /\ answer'[g]["shutdown"] = "none"
      BY <1>1, <1>3, <1>4, <1>6
    <3>3. s = 1 => AbortUnderWay(g, "shutdown", s)'
      <4>1. n \in DOMAIN inbox'[g][1] /\ inbox'[g][1][n].op = "abort" /\ inbox'[g][1][n].by = "shutdown"
        BY <2>1, <2>2
      <4>2. \A j \in DOMAIN inbox'[g][1] : ~ (j > n)
        BY <2>2
      <4>3. QED BY <4>1, <4>2 DEF AbortUnderWay, Pending
    <3>4. s > 1 \/ s = 1
      BY <1>2
    <3>5. QED BY <3>2, <3>3, <3>4 DEF Sweeps
  <2>8. Followed(g)'
    BY <1>2, <2>7 DEF Followed
  <2>9. QED BY <1>1, <2>4, <2>5, <2>6, <2>8 DEF GroupFollowed
<1>7. QED BY <1>5, <1>6

\* A cancelled shutdown leaves the groups it has not swept torn.
LEMMA CancelShutdownFollowed ==
  ASSUME LoadInv, WholeInv, ReleaseInv, CancelShutdown
  PROVE  ReleaseInv'
<1> DEFINE kept(g, r) == Disowned(inbox[g][r], {"shutdown"})
<1>1. /\ closing = "sweeping" /\ closing' = "stopping"
      /\ tornGroups' = tornGroups \cup {g \in Groups : at[g]["shutdown"] > 0}
      /\ UNCHANGED <<caller, live, index, outpaced>>
      /\ at' = [g \in Groups |-> [at[g] EXCEPT !["shutdown"] = 0]]
      /\ answer' = [g \in Groups |-> [answer[g] EXCEPT !["shutdown"] = "none"]]
      /\ inbox' = [g \in Groups |-> [r \in Roles |-> kept(g, r)]]
  BY DEF CancelShutdown
<1> SUFFICES ASSUME NEW g \in Groups PROVE GroupFollowed(g)'
  BY <1>1 DEF ReleaseInv
<1>2. /\ GroupTypes /\ OneCall(g) /\ CreatesUnderWay(g) /\ IndexFollows(g)
      /\ Parties = {"caller", "abort", "shutdown"}
      /\ at[g]["shutdown"] \in 0..RoleCount /\ RoleCount \in Nat
      /\ (g \notin tornGroups \cup outpaced => Followed(g))
  BY GroupFacts
<1>3. /\ at'[g]["shutdown"] = 0 /\ answer'[g]["shutdown"] = "none"
      /\ \A p \in Parties \ {"shutdown"} : at'[g][p] = at[g][p] /\ answer'[g][p] = answer[g][p]
  BY <1>1, <1>2 DEF GroupTypes
<1>4. ASSUME NEW s \in Roles
      PROVE  /\ DOMAIN kept(g, s) = Pending(g, s)
             /\ \A k \in Pending(g, s) :
                  /\ kept(g, s)[k].op = inbox[g][s][k].op
                  /\ kept(g, s)[k].by = IF inbox[g][s][k].by \in {"shutdown"} THEN "nobody"
                                        ELSE inbox[g][s][k].by
  <2>1. inbox[g][s] \in Seq(Calls)
    BY <1>2 DEF GroupTypes
  <2>2. QED BY <2>1, DisownedCalls DEF Pending
<1> HIDE DEF kept
<1>5. \A s \in Roles : inbox'[g][s] = kept(g, s)
  BY <1>1
<1>6. \A s \in Roles :
        /\ DOMAIN inbox'[g][s] = Pending(g, s)
        /\ \A k \in Pending(g, s) :
             /\ inbox'[g][s][k].op = inbox[g][s][k].op
             /\ inbox'[g][s][k].by # "shutdown"
             /\ inbox[g][s][k].by # "shutdown" => inbox'[g][s][k].by = inbox[g][s][k].by
             /\ inbox'[g][s][k].by \in Parties => inbox'[g][s][k].by = inbox[g][s][k].by
  BY <1>2, <1>4, <1>5
<1>7. OneCall(g)'
  <2>1. ASSUME NEW p \in Parties, NEW s \in Roles, NEW k \in DOMAIN inbox'[g][s],
               inbox'[g][s][k].by = p
        PROVE  /\ s = at'[g][p] /\ answer'[g][p] = "none"
               /\ \A j \in DOMAIN inbox'[g][s] : inbox'[g][s][j].by = p => j = k
    <3>1. p # "shutdown" /\ k \in Pending(g, s) /\ inbox[g][s][k].by = p
      BY <1>6, <2>1
    <3>2. \A j \in DOMAIN inbox'[g][s] : inbox'[g][s][j].by = p =>
            j \in Pending(g, s) /\ inbox[g][s][j].by = p
      BY <1>6
    <3>3. QED BY <1>2, <1>3, <3>1, <3>2 DEF OneCall
  <2>2. \A p \in Parties : at'[g][p] = 0 => answer'[g][p] = "none"
    BY <1>2, <1>3 DEF OneCall
  <2>3. QED BY <2>1, <2>2 DEF OneCall, Pending
<1>8. CreatesUnderWay(g)'
  BY <1>1, <1>2, <1>6 DEF CreatesUnderWay, Pending
<1>9. IndexFollows(g)'
  BY <1>1, <1>2, <1>3 DEF IndexFollows
<1>10. ASSUME g \notin tornGroups' \cup outpaced' PROVE Followed(g)'
  <2>1. at[g]["shutdown"] = 0 /\ Followed(g)
    BY <1>1, <1>2, <1>10
  <2>2. ASSUME NEW s \in Roles
        PROVE  Gone(g, s)' \/ Holds(g, s)' \/ \E p \in Parties : Sweeps(g, p, s)'
    <3>1. Gone(g, s) => Gone(g, s)'
      BY <1>1, <1>6 DEF Gone, Pending
    <3>2. Holds(g, s) => Holds(g, s)'
      BY <1>1, <1>2, <1>3 DEF Holds
    <3>3. ASSUME NEW p \in Parties, Sweeps(g, p, s) PROVE Sweeps(g, p, s)'
      <4>1. p # "shutdown"
        BY <2>1, <3>3 DEF Sweeps
      <4>2. AbortUnderWay(g, p, s) => AbortUnderWay(g, p, s)'
        BY <1>6, <4>1 DEF AbortUnderWay, Pending
      <4>3. QED BY <1>1, <1>3, <3>3, <4>1, <4>2 DEF Sweeps
    <3>4. QED BY <2>1, <3>1, <3>2, <3>3 DEF Followed
  <2>3. QED BY <2>2 DEF Followed
<1>11. QED BY <1>3, <1>7, <1>8, <1>9, <1>10 DEF GroupFollowed

\* The actors are stopped, and the groups forgotten, when no sweep is left.
LEMMA StopsFollowed ==
  ASSUME LoadInv, WholeInv, ReleaseInv, StopActors \/ ShutDown \/ UNCHANGED groupvars
  PROVE  ReleaseInv'
<1>1. /\ UNCHANGED <<caller, at, answer, inbox, live, tornGroups, outpaced>>
      /\ \/ UNCHANGED <<index, closing>>
         \/ /\ closing = "sweeping" /\ closing' = "stopping" /\ UNCHANGED index
            /\ \A g \in Groups : at[g]["shutdown"] = 0
         \/ closing = "stopping" /\ closing' = "down" /\ index' = [g \in Groups |-> NoIndex]
  BY DEF StopActors, ShutDown, groupvars
<1>2. closing = "off" => UNCHANGED closing
  BY <1>1
<1>3. ASSUME NEW g \in Groups PROVE GroupFollowed(g)'
  <2>1. /\ OneCall(g) /\ CreatesUnderWay(g) /\ IndexFollows(g)
        /\ (at[g]["shutdown"] # 0 => closing = "sweeping")
        /\ (g \notin tornGroups \cup outpaced => Followed(g))
    BY GroupFacts
  <2>2. OneCall(g)' /\ CreatesUnderWay(g)'
    BY <1>1, <2>1 DEF OneCall, CreatesUnderWay, Pending
  <2>3. IndexFollows(g)'
    BY <1>1, <2>1 DEF IndexFollows
  <2>4. at'[g]["shutdown"] # 0 => closing' = "sweeping"
    BY <1>1, <2>1
  <2>5. ASSUME NEW s \in Roles
        PROVE  /\ Gone(g, s) => Gone(g, s)'
               /\ Holds(g, s) => Holds(g, s)'
               /\ \A p \in Parties : Sweeps(g, p, s) => Sweeps(g, p, s)'
    BY <1>1, <1>2 DEF Gone, Holds, Sweeps, AbortUnderWay, Pending
  <2>6. Followed(g) => Followed(g)'
    BY <2>5 DEF Followed
  <2>7. QED BY <1>1, <2>1, <2>2, <2>3, <2>4, <2>6 DEF GroupFollowed
<1>4. QED BY <1>1, <1>3 DEF ReleaseInv

\* Every step keeps it.
LEMMA ReleaseStep == LoadInv /\ WholeInv /\ ReleaseInv /\ [GroupNext]_groupvars => ReleaseInv'
<1> SUFFICES ASSUME LoadInv, WholeInv, ReleaseInv, [GroupNext]_groupvars PROVE ReleaseInv'
  OBVIOUS
<1>1. ASSUME NEW g \in Groups, CreateGroup(g) \/ RoleCreated(g) \/ RoleFinalized(g) PROVE ReleaseInv'
  BY <1>1, CreateFollowed, CreatedFollowed, FinalizedFollowed
<1>2. ASSUME NEW g \in Groups, CreateRoleFails(g) PROVE ReleaseInv'
  BY <1>2, UnwindsFollowed DEF CreateRoleFails
<1>3. ASSUME NEW g \in Groups, Unwound(g) PROVE ReleaseInv'
  BY <1>3, UnwoundFollowed DEF Unwound
<1>4. ASSUME NEW g \in Groups, RunnerReturns(g) \/ RunnerRaises(g) PROVE ReleaseInv'
  BY <1>4, RunnerFollowed DEF RunnerReturns, RunnerRaises, BeginsAbort
<1>5. ASSUME NEW g \in Groups, FinalizeRoleFails(g) PROVE ReleaseInv'
  <2>1. /\ Sends(g, "caller", "abort", 1) /\ Moves(g, "sweeping") /\ caller[g] = "finalizing"
        /\ UNCHANGED <<live, closing, index, tornGroups, outpaced>>
    BY <1>5 DEF FinalizeRoleFails
  <2>2. closing # "down" => index[g] # NoIndex
    BY <2>1, GroupFacts DEF IndexFollows
  <2>3. QED BY <2>1, <2>2, AbortFollowed
<1>6. ASSUME NEW g \in Groups, SweepAfterFinalize(g) \/ SweepOfAbort(g) \/ SweepOfShutdown(g)
      PROVE  ReleaseInv'
  BY <1>6, SweepsFollowed
<1>7. ASSUME NEW g \in Groups, CancelCaller(g) PROVE ReleaseInv'
  BY <1>7, CancelFollowed
<1>8. ASSUME NEW g \in Groups, NEW r \in Roles, Serve(g, r) \/ ServeFails(g, r) PROVE ReleaseInv'
  BY <1>8, ServeFollowed
<1>9. CASE BeginShutdown
  BY <1>9, BeginShutdownFollowed
<1>10. CASE CancelShutdown
  BY <1>10, CancelShutdownFollowed
<1>11. CASE StopActors \/ ShutDown \/ UNCHANGED groupvars
  BY <1>11, StopsFollowed
<1>12. QED
  BY <1>1, <1>2, <1>3, <1>4, <1>5, <1>6, <1>7, <1>8, <1>9, <1>10, <1>11 DEF GroupNext, GroupsOver

\* The types that the invariants above do not need.
GroupRestTypes ==
  /\ shielded \in [Groups -> BOOLEAN]
  /\ finalized \subseteq Groups \X Roles
  /\ tornGroups \subseteq Groups /\ outpaced \subseteq Groups
  /\ troubles \in 0..GroupTroubles

LEMMA RestTypesStep == GroupRestTypes /\ [GroupNext]_groupvars => GroupRestTypes'
<1> SUFFICES ASSUME GroupRestTypes, [GroupNext]_groupvars PROVE GroupRestTypes'
  OBVIOUS
<1>1. ASSUME Trouble \/ UNCHANGED troubles PROVE troubles' \in 0..GroupTroubles
  <2>1. GroupTroubles \in Nat
    BY GroupBoundsAssumption
  <2>2. QED BY <1>1, <2>1 DEF GroupRestTypes, Trouble
<1>2. ASSUME NEW g \in Groups, CreateGroup(g) \/ RoleCreated(g) PROVE GroupRestTypes'
  <2>1. UNCHANGED <<shielded, finalized, tornGroups>> /\ outpaced' \subseteq Groups
    BY <1>2 DEF CreateGroup, RoleCreated, GroupRestTypes
  <2>2. Trouble \/ UNCHANGED troubles
    BY <1>2 DEF CreateGroup, RoleCreated
  <2>3. QED BY <1>1, <2>1, <2>2 DEF GroupRestTypes
<1>3. ASSUME NEW g \in Groups, CreateRoleFails(g) \/ Unwound(g) \/ RunnerReturns(g) \/ RunnerRaises(g)
                                 \/ RoleFinalized(g) \/ FinalizeRoleFails(g)
      PROVE  GroupRestTypes'
  <2>1. UNCHANGED <<finalized, tornGroups, outpaced, troubles>>
    BY <1>3 DEF CreateRoleFails, Unwound, RunnerReturns, RunnerRaises, RoleFinalized, FinalizeRoleFails
  <2>2. shielded' \in [Groups -> BOOLEAN]
    BY <1>3 DEF CreateRoleFails, Unwound, RunnerReturns, RunnerRaises, RoleFinalized, FinalizeRoleFails,
                CreateUnwinds, BeginsAbort, GroupRestTypes
  <2>3. QED BY <2>1, <2>2 DEF GroupRestTypes
<1>4. ASSUME NEW g \in Groups, SweepAfterFinalize(g) \/ SweepOfAbort(g) \/ SweepOfShutdown(g)
      PROVE  GroupRestTypes'
  <2>1. UNCHANGED <<shielded, finalized, outpaced, troubles>> /\ \E p \in Parties : Swept(g, p)
    BY <1>4 DEF SweepAfterFinalize, SweepOfAbort, SweepOfShutdown, Parties
  <2>2. QED BY <2>1 DEF GroupRestTypes, Swept
<1>5. ASSUME NEW g \in Groups, CancelCaller(g) PROVE GroupRestTypes'
  <2>1. UNCHANGED <<finalized, outpaced>> /\ Trouble
    BY <1>5 DEF CancelCaller
  <2>2. shielded' \in [Groups -> BOOLEAN]
    BY <1>5 DEF CancelCaller, CancelCreate, CancelUnwinding, CancelRunner, CancelFinalize, CancelSweep,
                CancelAbort, CreateUnwinds, BeginsAbort, GroupRestTypes
  <2>3. tornGroups' \subseteq Groups
    BY <1>5 DEF CancelCaller, CancelCreate, CancelUnwinding, CancelRunner, CancelFinalize, CancelSweep,
                CancelAbort, GroupRestTypes
  <2>4. QED BY <1>1, <2>1, <2>2, <2>3 DEF GroupRestTypes
<1>6. ASSUME NEW g \in Groups, NEW r \in Roles, Serve(g, r) \/ ServeFails(g, r) PROVE GroupRestTypes'
  <2>1. UNCHANGED <<shielded, tornGroups, outpaced>> /\ finalized' \subseteq Groups \X Roles
    BY <1>6 DEF Serve, ServeFails, GroupRestTypes
  <2>2. Trouble \/ UNCHANGED troubles
    BY <1>6 DEF Serve, ServeFails
  <2>3. QED BY <1>1, <2>1, <2>2 DEF GroupRestTypes
<1>7. CASE BeginShutdown \/ StopActors \/ ShutDown \/ UNCHANGED groupvars
  BY <1>7 DEF BeginShutdown, StopActors, ShutDown, groupvars, GroupRestTypes
<1>8. CASE CancelShutdown
  <2>1. UNCHANGED <<shielded, finalized, outpaced>> /\ tornGroups' \subseteq Groups /\ Trouble
    BY <1>8 DEF CancelShutdown, GroupRestTypes
  <2>2. QED BY <1>1, <2>1 DEF GroupRestTypes
<1>9. QED
  BY <1>2, <1>3, <1>4, <1>5, <1>6, <1>7, <1>8 DEF GroupNext, GroupsOver

\* What the invariants come to: when the episode is over and no party is in its
\* loop, nothing is left of any role.
LEMMA GroupsSoundBy ==
  ASSUME LoadInv, WholeInv, ReleaseInv, GroupRestTypes
  PROVE  GroupsSound
<1>1. GroupTypeOK
  BY DEF GroupTypeOK, LoadInv, WholeInv, ReleaseInv, GroupRestTypes, GroupTypes, CallerStages
<1>2. GroupsReleased
  <2>1. ASSUME NEW g \in Groups \ (tornGroups \cup outpaced), Quiet(g)
        PROVE  index[g] = NoIndex /\ \A r \in Roles : <<g, r>> \notin live
    <3>1. /\ Followed(g) /\ IndexFollows(g) /\ caller[g] \in {"ok", "failed"}
          /\ \A p \in Parties : at[g][p] = 0
          /\ "abort" \in Parties
      BY <2>1, GroupFacts DEF Quiet, CallerOver
    <3>2. index[g] = NoIndex
      BY <3>1 DEF IndexFollows, CallerOver
    <3>3. \A r \in Roles : Gone(g, r)
      BY <3>1 DEF Followed, Holds, Sweeps
    <3>4. QED BY <3>2, <3>3 DEF Gone
  <2>2. QED BY <2>1 DEF GroupsReleased
<1>3. QED BY <1>1, <1>2 DEF GroupsSound, LoadInv, WholeInv

\* Each group is placed, served and released as a whole, whichever of the episode,
\* its shielded abort and shutdown() is cut short or overtaken: a rollout that is
\* over leaves no role session with an actor and no place in the load.
THEOREM GroupsAreSound == GroupSpec => []GroupsSound
<1>1. GroupInit => LoadInv /\ WholeInv /\ ReleaseInv /\ GroupRestTypes
  <2> SUFFICES ASSUME GroupInit PROVE LoadInv /\ WholeInv /\ ReleaseInv /\ GroupRestTypes
    OBVIOUS
  <2>1. LoadInv /\ WholeInv
    BY LoadInit, WholeInit
  <2>2. /\ caller = [g \in Groups |-> "idle"]
        /\ at = [g \in Groups |-> [p \in Parties |-> 0]]
        /\ answer = [g \in Groups |-> [p \in Parties |-> "none"]]
        /\ inbox = [g \in Groups |-> [r \in Roles |-> <<>>]]
        /\ index = [g \in Groups |-> NoIndex]
        /\ live = {} /\ closing = "off"
    BY DEF GroupInit
  <2>3. \A g \in Groups : GroupFollowed(g)
    BY <2>2 DEF GroupFollowed, OneCall, CreatesUnderWay, IndexFollows, Followed, Gone, Pending,
                CallerOver, Parties
  <2>4. ReleaseInv
    BY <2>2, <2>3 DEF ReleaseInv
  <2>5. GroupRestTypes
    BY GroupBoundsAssumption DEF GroupInit, GroupRestTypes
  <2>6. QED BY <2>1, <2>4, <2>5
<1>2. LoadInv /\ WholeInv /\ ReleaseInv /\ GroupRestTypes => GroupsSound
  BY GroupsSoundBy
<1>3. QED BY <1>1, <1>2, LoadStep, WholeStep, ReleaseStep, RestTypesStep, PTL DEF GroupSpec

-----------------------------------------------------------------------------
(* The trainer and its checkpoints. *)


(***************************************************************************)
(* The inductive invariant of the trainer and its checkpoints.             *)
(***************************************************************************)
Registers == {q \in UNION {[D -> Statuses] : D \in SUBSET Uids} : IsFiniteSet(DOMAIN q)}
PolicyParts == {NoPart} \cup [save : Nat \ {0}, value : SUBSET Positions]
DataParts == {NoPart} \cup [save : Nat \ {0}, value : Nat]
QueueParts == {NoPart} \cup
  [save : Nat \ {0}, value : [prompts : Registers, rows : SUBSET Rows]]
Directories == [policies : [Policies -> PolicyParts], data : DataParts,
                queue : QueueParts, complete : BOOLEAN]

Writings == [at : {"writing"}, next : 1..(Sessions + 1), good : Nat]

Idle == {"down", "reissue"}
Saving == {"save", "save_queue", "manifest", "tracker", "prune"}
Sampled == Saving \cup {"update", "clear"}
Stepping == Sampled \cup {"submit", "sample"}
Stages == Stepping \cup {"down", "reissue", "warmup", "done"}

Typed ==
  /\ pc \in Stages
  /\ life \in 0..MaxCrashes /\ step \in 0..(TotalSteps + 1) /\ position \in Nat
  /\ trained \in [Policies -> SUBSET Positions]
  /\ prompts \in Registers /\ rows \subseteq Rows
  /\ DOMAIN rollouts \subseteq DOMAIN prompts
  /\ rollouts \in [DOMAIN rollouts -> {Submitted} \cup Writings]
  /\ batch \in Uids \cup {NoUid} /\ unsaved \subseteq Policies
  /\ saves \in Nat /\ disk \in [Steps -> Directories] /\ tracker \in {0} \cup Steps
  /\ mixed \in BOOLEAN /\ behind \in BOOLEAN
  /\ failures \in Nat /\ stuck \in Nat /\ failures + stuck <= MaxFaults

(* what holds by where the trainer is *)
Staged ==
  /\ pc = "down" => prompts = <<>> /\ rows = {} /\ position = 0
  /\ pc \in Idle => rollouts = <<>>
  /\ pc \in Stepping => step \in Steps
  /\ pc # "down" => step > 0
  /\ pc \in Saving => SavesAt(step) /\ saves > 0
  /\ batch = NoUid <=> pc \notin Sampled

(* a rollout and the status of its prompt *)
Running ==
  \A u \in DOMAIN rollouts :
    \/ rollouts[u].at = "submitted" /\ prompts[u] = "pending"
    \/ /\ rollouts[u].at = "writing" /\ prompts[u] = "running"
       /\ rollouts[u].good < rollouts[u].next

(* a uid that the dataloader has handed out *)
Issued(u) == u[1] <= life /\ (u[1] = life => u[2] <= position)
Former(u) == u[1] < life

Known ==
  /\ \A u \in DOMAIN prompts : Issued(u)
  /\ \A r \in rows : Issued(r.uid)
  /\ batch # NoUid => Issued(batch) /\ batch \notin DOMAIN prompts
  /\ \A s \in Steps : Has(disk[s].queue) =>
       /\ \A u \in DOMAIN disk[s].queue.value.prompts :
            Issued(u) /\ (pc \in Idle => Former(u))
       /\ \A r \in disk[s].queue.value.rows :
            Issued(r.uid) /\ (pc \in Idle => Former(r.uid))

HasRow(u, rs) == \E r \in rs : r.uid = u

Recorded ==
  /\ \A u \in DOMAIN prompts : prompts[u] = "finished" => HasRow(u, rows)
  /\ \A u \in DOMAIN rollouts :
       rollouts[u].at = "writing" /\ rollouts[u].good > 0 => HasRow(u, rows)
  /\ pc = "update" => HasRow(batch, rows)
  /\ pc \notin Idle => \A r \in rows : r.uid \in InFlight => r.life = life
  /\ \A s \in Steps : Has(disk[s].queue) =>
       \A u \in DOMAIN disk[s].queue.value.prompts :
         disk[s].queue.value.prompts[u] = "finished" => HasRow(u, disk[s].queue.value.rows)

Abandoned == InFlight \ DOMAIN rollouts
Waiting(q) == Cardinality(DOMAIN q)

Counted ==
  /\ pc \in Idle \cup {"warmup"} => Waiting(prompts) <= Warmup * life
  /\ pc \notin Idle \cup {"warmup", "sample"} =>
       Warmup <= Waiting(prompts) /\ Waiting(prompts) <= Warmup * (life + 1)
  /\ pc = "sample" =>
       Warmup + 1 <= Waiting(prompts) /\ Waiting(prompts) <= Warmup * (life + 1) + 1
  /\ \A s \in Steps : Has(disk[s].queue) =>
       /\ Waiting(disk[s].queue.value.prompts) <= Warmup * (life + 1)
       /\ pc \in Idle => Waiting(disk[s].queue.value.prompts) <= Warmup * life
  /\ pc \notin Idle =>
       IF life = 0 THEN Cardinality(Abandoned) <= stuck ELSE Abandoned = {}

(* weights, dataloader and queue fit together *)
Fits(weights, reach, q) ==
  /\ \A p \in Policies : weights[p] \subseteq 1..reach
  /\ \A u \in DOMAIN q : u[2] <= reach /\ \A p \in Policies : u[2] \notin weights[p]
  /\ \A u, v \in DOMAIN q : u[2] = v[2] => u = v

Lost(weights, reach, q) ==
  {i \in 1..reach : (\A p \in Policies : i \notin weights[p]) /\ (\A u \in DOMAIN q : u[2] # i)}
Failed(q) == {u \in DOMAIN q : q[u] = "failure"}
Failing == {u \in DOMAIN rollouts : rollouts[u].at = "writing" /\ rollouts[u].good < rollouts[u].next - 1}
PositionsOf(U) == {u[2] : u \in U}

Charged == Missing \cup PositionsOf(Failed(prompts) \cup Failing)

Coherent ==
  /\ Fits(trained, position, prompts)
  /\ batch # NoUid =>
       /\ batch[2] <= position /\ \A u \in DOMAIN prompts : u[2] # batch[2]
       /\ \A p \in Policies : batch[2] \in trained[p] <=> pc # "update"
  /\ Cardinality(Charged) <= failures

Weights(s) == [p \in Policies |-> disk[s].policies[p].value]

Whole(s) ==
  /\ Has(disk[s].queue) /\ disk[s].data.save = disk[s].queue.save
  /\ \A p \in Policies : disk[s].policies[p].save = disk[s].queue.save

Kept(s) ==
  LET weights == Weights(s)
      reach == disk[s].data.value
      q == disk[s].queue.value.prompts IN
  /\ Fits(weights, reach, q)
  /\ Cardinality(Lost(weights, reach, q) \cup PositionsOf(Failed(q))) <= failures

Fitting == ~mixed => Coherent /\ \A s \in Steps : Whole(s) => Kept(s)

(* the save under way *)
Saved ==
  /\ \A s \in Steps :
       /\ disk[s].data.save <= saves /\ disk[s].queue.save <= saves
       /\ \A p \in Policies : disk[s].policies[p].save <= saves
  /\ pc \in Saving =>
       /\ \A p \in Policies : disk[step].policies[p].save = saves =>
            disk[step].policies[p].value = trained[p]
       /\ disk[step].data.save = saves => disk[step].data.value = position
  /\ pc = "save" => disk[step].data.save < saves
  /\ pc \in {"save", "save_queue"} => disk[step].queue.save < saves

Passed(s) == {t \in Committed : \E x \in Steps : s <= x /\ x < t /\ SavesAt(x)}

Tracked ==
  /\ \A s \in Committed :
       /\ \A p \in Policies : Has(disk[s].policies[p])
       /\ Has(disk[s].data) /\ Has(disk[s].queue)
  /\ pc \in Saving => \A p \in Policies \ unsaved : Has(disk[step].policies[p])
  /\ pc \in Saving \ {"save"} => unsaved = {} /\ Has(disk[step].data)
  /\ pc \in Saving \ {"save", "save_queue"} => Has(disk[step].queue)
  /\ pc \in {"tracker", "prune"} => step \in Committed
  /\ pc = "prune" => tracker = step
  /\ ~behind /\ tracker # 0 => tracker \in Committed
  /\ ~behind /\ pc # "down" => Cardinality(Passed(step)) < Keep

TrainInv == Typed /\ Staged /\ Running /\ Known /\ Recorded /\ Counted /\ Fitting /\ Saved /\ Tracked

-----------------------------------------------------------------------------
(* Facts about the operators of the model. *)

(* The parts of a directory are records of their kind.                     *)
LEMMA PartTypes ==
  ASSUME Typed, NEW s \in Steps
  PROVE  /\ disk[s] \in Directories
         /\ \A p \in Policies : /\ disk[s].policies[p].save \in Nat
                                /\ Has(disk[s].policies[p]) =>
                                     disk[s].policies[p].value \in SUBSET Positions
         /\ disk[s].data.save \in Nat
         /\ Has(disk[s].data) => disk[s].data.value \in Nat
         /\ disk[s].queue.save \in Nat
         /\ Has(disk[s].queue) => /\ disk[s].queue.value.prompts \in Registers
                                  /\ disk[s].queue.value.rows \in SUBSET Rows
<1>1. disk[s] \in Directories
  BY DEF Typed
<1>2. disk[s].policies \in [Policies -> PolicyParts] /\ disk[s].data \in DataParts
      /\ disk[s].queue \in QueueParts
  BY <1>1 DEF Directories
<1>3. \A p \in Policies : /\ disk[s].policies[p].save \in Nat
                          /\ Has(disk[s].policies[p]) =>
                               disk[s].policies[p].value \in SUBSET Positions
  <2> SUFFICES ASSUME NEW p \in Policies
      PROVE  /\ disk[s].policies[p].save \in Nat
             /\ Has(disk[s].policies[p]) => disk[s].policies[p].value \in SUBSET Positions
    OBVIOUS
  <2>1. PICK d : d = disk[s].policies[p]
    OBVIOUS
  <2>2. d \in PolicyParts
    BY <1>2, <2>1
  <2> QED BY <2>1, <2>2 DEF PolicyParts, NoPart, Has
<1>4. disk[s].data.save \in Nat /\ (Has(disk[s].data) => disk[s].data.value \in Nat)
  BY <1>2 DEF DataParts, NoPart, Has
<1>5. /\ disk[s].queue.save \in Nat
      /\ Has(disk[s].queue) => /\ disk[s].queue.value.prompts \in Registers
                               /\ disk[s].queue.value.rows \in SUBSET Rows
  BY <1>2 DEF QueueParts, NoPart, Has
<1> QED BY <1>1, <1>3, <1>4, <1>5

(* A register has a finite domain of uids and a status for each.           *)
LEMMA RegisterFacts ==
  ASSUME NEW q \in Registers
  PROVE  /\ q = [u \in DOMAIN q |-> q[u]]
         /\ DOMAIN q \subseteq Uids /\ IsFiniteSet(DOMAIN q)
         /\ \A u \in DOMAIN q : q[u] \in Statuses
         /\ Waiting(q) \in Nat
<1>1. PICK D \in SUBSET Uids : q \in [D -> Statuses]
  BY DEF Registers
<1>2. IsFiniteSet(DOMAIN q)
  BY DEF Registers
<1>3. Waiting(q) \in Nat
  BY <1>2, FS_CardinalityType DEF Waiting
<1> QED BY <1>1, <1>2, <1>3

(* A function of statuses on finitely many uids is a register.             *)
LEMMA IsRegister ==
  ASSUME NEW D \in SUBSET Uids, IsFiniteSet(D), NEW q \in [D -> Statuses]
  PROVE  q \in Registers /\ DOMAIN q = D
<1>1. DOMAIN q = D
  OBVIOUS
<1>2. q \in UNION {[E -> Statuses] : E \in SUBSET Uids}
  OBVIOUS
<1> QED BY <1>1, <1>2 DEF Registers

(* The uids of n prompts from a position on.                               *)
NewUids(n) == {<<life, position + i>> : i \in 1..n}

\* The uids of the next n prompts are new, one for each position.
LEMMA NewUidsFacts ==
  ASSUME Typed, NEW n \in Nat
  PROVE  /\ NewUids(n) \subseteq Uids
         /\ IsFiniteSet(NewUids(n)) /\ Cardinality(NewUids(n)) = n
         /\ \A u \in NewUids(n) : /\ u[1] = life /\ u[2] > position /\ u[2] <= position + n
                                  /\ ~Issued(u) /\ u # NoUid
         /\ \A u, v \in NewUids(n) : u[2] = v[2] => u = v
         /\ \A i \in (position + 1)..(position + n) : \E u \in NewUids(n) : u[2] = i
<1>0. life \in 0..MaxCrashes /\ position \in Nat
  BY DEF Typed
<1>1. NewUids(n) \subseteq Uids
  BY <1>0 DEF NewUids, Uids, Positions
<1>2. IsFiniteSet(1..n) /\ Cardinality(1..n) = n
  <2>1. 1 \in Int /\ n \in Int
    OBVIOUS
  <2>2. IsFiniteSet(1..n) /\ Cardinality(1..n) = IF 1 > n THEN 0 ELSE n - 1 + 1
    BY ONLY <2>1, FS_Interval
  <2>3. ~(1 > n) \/ n = 0
    OBVIOUS
  <2> QED BY <2>2, <2>3
<1>3. PICK f : f = [i \in 1..n |-> <<life, position + i>>]
  OBVIOUS
<1>4. f \in Bijection(1..n, NewUids(n))
  <2>1. f \in [1..n -> NewUids(n)]
    BY <1>3 DEF NewUids
  <2>2. \A i, j \in 1..n : f[i] = f[j] => i = j
    BY <1>0, <1>3
  <2>3. \A u \in NewUids(n) : \E i \in 1..n : f[i] = u
    BY <1>3 DEF NewUids
  <2> QED BY <2>1, <2>2, <2>3 DEF Bijection, Injection, Surjection, IsInjective
<1>5. IsFiniteSet(NewUids(n)) /\ Cardinality(NewUids(n)) = n
  BY <1>2, <1>4, FS_Bijection DEF ExistsBijection
<1>6. \A u \in NewUids(n) : /\ u[1] = life /\ u[2] > position /\ u[2] <= position + n
                            /\ ~Issued(u) /\ u # NoUid
  BY <1>0 DEF NewUids, Issued, NoUid
<1>7. \A u, v \in NewUids(n) : u[2] = v[2] => u = v
  BY <1>0 DEF NewUids
<1>8. \A i \in (position + 1)..(position + n) : \E u \in NewUids(n) : u[2] = i
  <2> SUFFICES ASSUME NEW i \in (position + 1)..(position + n)
               PROVE  \E u \in NewUids(n) : u[2] = i
    OBVIOUS
  <2>1. i - position \in 1..n /\ position + (i - position) = i
    BY <1>0
  <2>2. <<life, position + (i - position)>> \in NewUids(n)
    BY <2>1 DEF NewUids
  <2> QED BY <2>1, <2>2
<1> QED BY <1>1, <1>5, <1>6, <1>7, <1>8

(* What a submission of n more prompts than a register has does to it and   *)
(* to the rollouts.                                                        *)
SubmitsMore(n, q) ==
  /\ position' = position + n
  /\ prompts' \in Registers
  /\ DOMAIN prompts' = NewUids(n) \cup DOMAIN q
  /\ \A u \in NewUids(n) : prompts'[u] = "pending" /\ u \notin DOMAIN q
  /\ \A u \in DOMAIN q : prompts'[u] = q[u]
  /\ Waiting(prompts') = Waiting(q) + n
  /\ rollouts' \in [DOMAIN rollouts' -> {Submitted} \cup Writings]
  /\ DOMAIN rollouts' = NewUids(n) \cup DOMAIN rollouts
  /\ \A u \in NewUids(n) : rollouts'[u] = Submitted /\ u \notin DOMAIN rollouts
  /\ \A u \in DOMAIN rollouts : rollouts'[u] = rollouts[u]

\* Prompts that are submitted are pending and at positions of their own.
LEMMA SubmitEffects ==
  ASSUME Typed, NEW n \in Nat, NEW q \in Registers, Submit(n, q),
         DOMAIN rollouts \subseteq DOMAIN q, \A u \in DOMAIN q : Issued(u)
  PROVE  SubmitsMore(n, q)
<1>1. /\ position' = position + n
      /\ prompts' = [u \in NewUids(n) \cup DOMAIN q |-> IF u \in NewUids(n) THEN "pending" ELSE q[u]]
      /\ rollouts' = [u \in NewUids(n) \cup DOMAIN rollouts |->
                        IF u \in NewUids(n) THEN Submitted ELSE rollouts[u]]
  BY DEF Submit, Extend, NewUids
<1>2. /\ NewUids(n) \subseteq Uids /\ IsFiniteSet(NewUids(n)) /\ Cardinality(NewUids(n)) = n
      /\ \A u \in NewUids(n) : ~Issued(u)
  BY NewUidsFacts
<1>3. /\ DOMAIN q \subseteq Uids /\ IsFiniteSet(DOMAIN q)
      /\ \A u \in DOMAIN q : q[u] \in Statuses
  BY RegisterFacts
<1>4. \A u \in NewUids(n) : u \notin DOMAIN q /\ u \notin DOMAIN rollouts
  BY <1>2
<1>5. /\ IsFiniteSet(NewUids(n) \cup DOMAIN q)
      /\ Cardinality(NewUids(n) \cup DOMAIN q) = Cardinality(DOMAIN q) + n
  <2>1. NewUids(n) \cap DOMAIN q = {}
    BY <1>4
  <2>2. Cardinality({}) = 0
    BY FS_EmptySet
  <2>3. Cardinality(DOMAIN q) \in Nat
    BY <1>3, FS_CardinalityType
  <2>4. /\ IsFiniteSet(NewUids(n) \cup DOMAIN q)
        /\ Cardinality(NewUids(n) \cup DOMAIN q)
             = Cardinality(NewUids(n)) + Cardinality(DOMAIN q) - Cardinality(NewUids(n) \cap DOMAIN q)
    BY ONLY <1>2, <1>3, FS_Union
  <2>5. Cardinality(NewUids(n) \cap DOMAIN q) = 0
    BY <2>1, <2>2
  <2>6. Cardinality(NewUids(n)) = n
    BY <1>2
  <2> HIDE DEF NewUids
  <2>7. Cardinality(NewUids(n)) + Cardinality(DOMAIN q) - Cardinality(NewUids(n) \cap DOMAIN q)
          = Cardinality(DOMAIN q) + n
    BY <2>3, <2>5, <2>6
  <2> QED BY ONLY <2>4, <2>7
<1>6. prompts' \in [NewUids(n) \cup DOMAIN q -> Statuses]
  BY <1>1, <1>3 DEF Statuses
<1>7. prompts' \in Registers /\ DOMAIN prompts' = NewUids(n) \cup DOMAIN q
  BY <1>2, <1>3, <1>5, <1>6, IsRegister
<1>8. rollouts' \in [NewUids(n) \cup DOMAIN rollouts -> {Submitted} \cup Writings]
  BY <1>1 DEF Typed
<1>9. Waiting(prompts') = Waiting(q) + n
  BY <1>5, <1>7 DEF Waiting
<1> QED BY <1>1, <1>4, <1>7, <1>8, <1>9 DEF SubmitsMore

-----------------------------------------------------------------------------
(* What a step of a rollout does. *)

(* The rollout goes on to its next session.                                *)
GoesOn(u) ==
  /\ u \in DOMAIN rollouts' /\ rollouts'[u].at = "writing" /\ prompts'[u] = "running"
  /\ rollouts'[u].good < rollouts'[u].next
  /\ rollouts'[u].good > 0 => HasRow(u, rows')
  /\ \/ failures' = failures /\ (rollouts'[u].good < rollouts'[u].next - 1 => u \in Failing)
     \/ failures' = failures + 1
  /\ stuck' = stuck

(* The rollout ends with a status.                                         *)
EndsWithStatus(u) ==
  /\ u \notin DOMAIN rollouts' /\ prompts'[u] \in {"finished", "failure"}
  /\ prompts'[u] = "finished" => HasRow(u, rows')
  /\ prompts'[u] = "failure" => u \in Failing
  /\ failures' = failures /\ stuck' = stuck

(* The rollout ends without one.                                           *)
EndsWithout(u) ==
  /\ u \notin DOMAIN rollouts' /\ prompts' = prompts
  /\ life = 0 /\ failures' = failures /\ stuck' = stuck + 1

RolledOn(u) ==
  /\ u \in DOMAIN rollouts
  /\ UNCHANGED <<pc, life, trainer, files, history>>
  /\ prompts' \in Registers /\ DOMAIN prompts' = DOMAIN prompts
  /\ \A v \in DOMAIN prompts : v # u => prompts'[v] = prompts[v]
  /\ rows' \subseteq Rows
  /\ \A r \in rows' : r \in rows \/ (r.uid = u /\ r.life = life)
  /\ \A v : HasRow(v, rows) => HasRow(v, rows')
  /\ rollouts' \in [DOMAIN rollouts' -> {Submitted} \cup Writings]
  /\ DOMAIN rollouts' \cup {u} = DOMAIN rollouts
  /\ \A v \in DOMAIN rollouts : v # u => v \in DOMAIN rollouts' /\ rollouts'[v] = rollouts[v]
  /\ failures' \in Nat /\ stuck' \in Nat /\ failures' + stuck' <= MaxFaults
  /\ GoesOn(u) \/ EndsWithStatus(u) \/ EndsWithout(u)

(* The record of a rollout that writes.                                    *)
LEMMA WritingRollout ==
  ASSUME Typed, NEW u \in DOMAIN rollouts, rollouts[u].at = "writing"
  PROVE  /\ rollouts[u] \in Writings
         /\ rollouts[u].next \in 1..(Sessions + 1) /\ rollouts[u].good \in Nat
<1>1. rollouts[u] \in {Submitted} \cup Writings
  BY DEF Typed
<1>2. rollouts[u] # Submitted
  BY DEF Submitted
<1>3. rollouts[u] \in Writings
  BY <1>1, <1>2
<1> QED BY <1>3 DEF Writings

(* What the put of a row does to the records.                              *)
LEMMA PutEffects ==
  ASSUME Typed, NEW u \in DOMAIN rollouts, Writing(u)
  PROVE  /\ Put(u) \subseteq Rows
         /\ \A r \in Put(u) : r \in rows \/ (r.uid = u /\ r.life = life)
         /\ \A v : HasRow(v, rows) => HasRow(v, Put(u))
         /\ HasRow(u, Put(u))
<1>1. PICK row : row = [uid |-> u, session |-> rollouts[u].next, life |-> life]
  OBVIOUS
<1>2. Put(u) = {r \in rows : r.uid # u \/ r.session # row.session} \cup {row}
  BY <1>1 DEF Put
<1>3. row.uid = u /\ row.life = life
  BY <1>1
<1>4. u \in Uids
  BY RegisterFacts DEF Typed
<1>5. rollouts[u].next \in 1..Sessions
  BY WritingRollout, BoundsAssumption DEF Writing
<1>6. row \in Rows
  BY <1>1, <1>4, <1>5 DEF Rows, Typed
<1>7. Put(u) \subseteq Rows
  BY <1>2, <1>6 DEF Typed
<1>8. \A r \in Put(u) : r \in rows \/ (r.uid = u /\ r.life = life)
  BY <1>2, <1>3
<1>9. HasRow(u, Put(u))
  BY <1>2, <1>3 DEF HasRow
<1>10. \A v : HasRow(v, rows) => HasRow(v, Put(u))
  <2> SUFFICES ASSUME NEW v, HasRow(v, rows), v # u
               PROVE  HasRow(v, Put(u))
    BY <1>9
  <2> QED BY <1>2 DEF HasRow
<1> QED BY <1>7, <1>8, <1>9, <1>10

(* A prompt that is given another status.                                  *)
LEMMA StatusEffects ==
  ASSUME Typed, NEW u \in DOMAIN prompts, NEW status \in Statuses,
         prompts' = [prompts EXCEPT ![u] = status]
  PROVE  /\ prompts' \in Registers /\ DOMAIN prompts' = DOMAIN prompts
         /\ prompts'[u] = status
         /\ \A v \in DOMAIN prompts : v # u => prompts'[v] = prompts[v]
<1>1. DOMAIN prompts \subseteq Uids /\ IsFiniteSet(DOMAIN prompts)
      /\ prompts \in [DOMAIN prompts -> Statuses]
  BY RegisterFacts DEF Typed
<1>2. prompts' \in [DOMAIN prompts -> Statuses]
  BY <1>1
<1>3. prompts' \in Registers /\ DOMAIN prompts' = DOMAIN prompts
  BY <1>1, <1>2, IsRegister
<1> QED BY <1>1, <1>3

(* A rollout that goes on to its next session, its last one written or not. *)
LEMMA NextSession ==
  ASSUME Typed, NEW u \in DOMAIN rollouts, Writing(u), NEW d \in {0, 1},
         d = 1 => rollouts' = [rollouts EXCEPT ![u].next = @ + 1, ![u].good = @ + 1],
         d = 0 => rollouts' = [rollouts EXCEPT ![u].next = @ + 1]
  PROVE  /\ rollouts' \in [DOMAIN rollouts' -> {Submitted} \cup Writings]
         /\ DOMAIN rollouts' = DOMAIN rollouts
         /\ \A v \in DOMAIN rollouts : v # u => rollouts'[v] = rollouts[v]
         /\ rollouts'[u].at = "writing"
         /\ rollouts'[u].next = rollouts[u].next + 1
         /\ rollouts'[u].good = rollouts[u].good + d
<1>1. /\ rollouts[u] \in Writings
      /\ rollouts[u].next \in 1..Sessions /\ rollouts[u].good \in Nat
      /\ rollouts[u].at = "writing"
  BY WritingRollout, BoundsAssumption DEF Writing
<1>2. /\ DOMAIN rollouts' = DOMAIN rollouts
      /\ \A v \in DOMAIN rollouts : v # u => rollouts'[v] = rollouts[v]
      /\ rollouts' = [v \in DOMAIN rollouts' |-> rollouts'[v]]
  BY DEF Typed
<1>3. PICK before : before = rollouts[u]
  OBVIOUS
<1>4. before \in [at : {"writing"}, next : 1..(Sessions + 1), good : Nat]
  BY <1>1, <1>3 DEF Writings
<1>5. rollouts'[u] = IF d = 1 THEN [before EXCEPT !.next = @ + 1, !.good = @ + 1]
                              ELSE [before EXCEPT !.next = @ + 1]
  BY <1>3 DEF Typed
<1>6. /\ rollouts'[u] \in Writings /\ rollouts'[u].at = "writing"
      /\ rollouts'[u].next = rollouts[u].next + 1
      /\ rollouts'[u].good = rollouts[u].good + d
  <2>1. before.next + 1 \in 1..(Sessions + 1) /\ before.good + 1 \in Nat
    BY <1>1, <1>3, BoundsAssumption
  <2>2. CASE d = 1
    BY <1>1, <1>3, <1>4, <1>5, <2>1, <2>2 DEF Writings
  <2>3. CASE d = 0
    BY <1>1, <1>3, <1>4, <1>5, <2>1, <2>3 DEF Writings
  <2> QED BY <2>2, <2>3
<1>7. \A v \in DOMAIN rollouts' : rollouts'[v] \in {Submitted} \cup Writings
  BY <1>2, <1>6 DEF Typed
<1> QED BY <1>2, <1>6, <1>7

(* A rollout that is over.                                                 *)
LEMMA ForgetEffects ==
  ASSUME Typed, NEW u \in DOMAIN rollouts, rollouts' = Forget(u)
  PROVE  /\ rollouts' \in [DOMAIN rollouts' -> {Submitted} \cup Writings]
         /\ DOMAIN rollouts' = DOMAIN rollouts \ {u}
         /\ \A v \in DOMAIN rollouts : v # u => rollouts'[v] = rollouts[v]
<1>1. rollouts' = [v \in DOMAIN rollouts \ {u} |-> rollouts[v]]
  BY DEF Forget, Restrict
<1>2. \A v \in DOMAIN rollouts : rollouts[v] \in {Submitted} \cup Writings
  BY DEF Typed
<1> QED BY <1>1, <1>2

(* Every step of a rollout goes on, ends with a status or ends without.    *)
LEMMA RolloutStep ==
  ASSUME Typed, Running, Recorded, NEW u \in DOMAIN rollouts,
         Rollout(u) \/ SessionFails(u) \/ RolloutRaises(u)
  PROVE  RolledOn(u)
<1>1. u \in DOMAIN prompts /\ prompts \in Registers /\ rows \subseteq Rows
      /\ failures \in Nat /\ stuck \in Nat /\ failures + stuck <= MaxFaults
      /\ rollouts \in [DOMAIN rollouts -> {Submitted} \cup Writings]
  BY DEF Typed
<1>2. \A v : HasRow(v, rows) => HasRow(v, rows)
  OBVIOUS
<1>3. CASE RunSessions(u)
  <2>1. /\ UNCHANGED <<pc, life, trainer, files, history>>
        /\ rows' = rows /\ failures' = failures /\ stuck' = stuck
        /\ prompts' = [prompts EXCEPT ![u] = "running"]
        /\ rollouts' = [rollouts EXCEPT ![u] = [at |-> "writing", next |-> 1, good |-> 0]]
    BY <1>3 DEF RunSessions, budget
  <2>2. /\ prompts' \in Registers /\ DOMAIN prompts' = DOMAIN prompts
        /\ prompts'[u] = "running"
        /\ \A v \in DOMAIN prompts : v # u => prompts'[v] = prompts[v]
    BY <1>1, <2>1, StatusEffects DEF Statuses
  <2>3. PICK w : w = [at |-> "writing", next |-> 1, good |-> 0]
    OBVIOUS
  <2>4. w \in Writings /\ w.at = "writing" /\ w.next = 1 /\ w.good = 0
    BY <2>3, BoundsAssumption DEF Writings
  <2>5. /\ DOMAIN rollouts' = DOMAIN rollouts /\ rollouts'[u] = w
        /\ \A v \in DOMAIN rollouts : v # u => rollouts'[v] = rollouts[v]
        /\ rollouts' \in [DOMAIN rollouts' -> {Submitted} \cup Writings]
    BY <1>1, <2>1, <2>3, <2>4
  <2>6. GoesOn(u)
    BY <2>1, <2>2, <2>4, <2>5 DEF GoesOn
  <2> QED BY <1>1, <1>2, <2>1, <2>2, <2>5, <2>6 DEF RolledOn
<1>4. CASE WriteSession(u)
  <2>1. /\ UNCHANGED <<pc, life, trainer, files, history>> /\ Writing(u)
        /\ rows' = Put(u) /\ failures' = failures /\ stuck' = stuck /\ prompts' = prompts
        /\ rollouts' = [rollouts EXCEPT ![u].next = @ + 1, ![u].good = @ + 1]
    BY <1>4 DEF WriteSession, budget
  <2>2. /\ rows' \subseteq Rows
        /\ \A r \in rows' : r \in rows \/ (r.uid = u /\ r.life = life)
        /\ \A v : HasRow(v, rows) => HasRow(v, rows')
        /\ HasRow(u, rows')
    BY <2>1, PutEffects
  <2>3. /\ rollouts' \in [DOMAIN rollouts' -> {Submitted} \cup Writings]
        /\ DOMAIN rollouts' = DOMAIN rollouts
        /\ \A v \in DOMAIN rollouts : v # u => rollouts'[v] = rollouts[v]
        /\ rollouts'[u].at = "writing"
        /\ rollouts'[u].next = rollouts[u].next + 1
        /\ rollouts'[u].good = rollouts[u].good + 1
    <3>1. 1 \in {0, 1} /\ 1 # 0
      OBVIOUS
    <3> QED BY <2>1, <3>1, NextSession
  <2>4. rollouts[u].next \in Nat /\ rollouts[u].good \in Nat /\ rollouts[u].at = "writing"
    BY <2>1, WritingRollout DEF Writing
  <2>5. rollouts[u].good < rollouts[u].next /\ prompts[u] = "running"
    BY <2>4 DEF Running
  <2>6. rollouts'[u].good < rollouts'[u].next - 1 => u \in Failing
    BY <2>3, <2>4 DEF Failing
  <2>7. GoesOn(u)
    BY <2>1, <2>2, <2>3, <2>4, <2>5, <2>6 DEF GoesOn
  <2> QED BY <1>1, <2>1, <2>2, <2>3, <2>7 DEF RolledOn
<1>5. CASE SessionFails(u)
  <2>1. /\ UNCHANGED <<pc, life, trainer, files, history>> /\ Writing(u)
        /\ rows' \in {rows, Put(u)} /\ stuck' = stuck /\ prompts' = prompts
        /\ failures' = failures + (IF rollouts[u].good = rollouts[u].next - 1 THEN 1 ELSE 0)
        /\ failures' + stuck <= MaxFaults
        /\ rollouts' = [rollouts EXCEPT ![u].next = @ + 1]
    BY <1>5 DEF SessionFails
  <2>2. /\ rows' \subseteq Rows
        /\ \A r \in rows' : r \in rows \/ (r.uid = u /\ r.life = life)
        /\ \A v : HasRow(v, rows) => HasRow(v, rows')
    <3>1. CASE rows' = rows
      BY <1>1, <3>1
    <3>2. CASE rows' = Put(u)
      BY <2>1, <3>2, PutEffects
    <3> QED BY <2>1, <3>1, <3>2
  <2>3. /\ rollouts' \in [DOMAIN rollouts' -> {Submitted} \cup Writings]
        /\ DOMAIN rollouts' = DOMAIN rollouts
        /\ \A v \in DOMAIN rollouts : v # u => rollouts'[v] = rollouts[v]
        /\ rollouts'[u].at = "writing"
        /\ rollouts'[u].next = rollouts[u].next + 1
        /\ rollouts'[u].good = rollouts[u].good + 0
    <3>1. 0 \in {0, 1} /\ 0 # 1
      OBVIOUS
    <3> QED BY <2>1, <3>1, NextSession
  <2>4. rollouts[u].next \in Nat /\ rollouts[u].good \in Nat /\ rollouts[u].at = "writing"
    BY <2>1, WritingRollout DEF Writing
  <2>5. rollouts[u].good < rollouts[u].next /\ prompts[u] = "running"
        /\ (rollouts[u].good > 0 => HasRow(u, rows))
    BY <2>4 DEF Running, Recorded
  <2>6. \/ failures' = failures /\ u \in Failing
        \/ failures' = failures + 1
    BY <1>1, <2>1, <2>4, <2>5 DEF Failing
  <2>7. rollouts'[u].good < rollouts'[u].next /\ (rollouts'[u].good > 0 => HasRow(u, rows'))
    BY <2>2, <2>3, <2>4, <2>5
  <2>8. GoesOn(u)
    BY <2>1, <2>3, <2>5, <2>6, <2>7 DEF GoesOn
  <2>9. failures' \in Nat /\ stuck' \in Nat /\ failures' + stuck' <= MaxFaults
    BY <1>1, <2>1, <2>6
  <2> QED BY <1>1, <2>1, <2>2, <2>3, <2>8, <2>9 DEF RolledOn
<1>6. CASE FinishRollout(u)
  <2>1. /\ UNCHANGED <<pc, life, trainer, files, history>> /\ Written(u)
        /\ rows' = rows /\ failures' = failures /\ stuck' = stuck
        /\ prompts' = [prompts EXCEPT ![u] =
                         IF rollouts[u].good > 0 THEN "finished" ELSE "failure"]
        /\ rollouts' = Forget(u)
    BY <1>6 DEF FinishRollout, budget
  <2>2. /\ prompts' \in Registers /\ DOMAIN prompts' = DOMAIN prompts
        /\ prompts'[u] = IF rollouts[u].good > 0 THEN "finished" ELSE "failure"
        /\ \A v \in DOMAIN prompts : v # u => prompts'[v] = prompts[v]
    <3>1. (IF rollouts[u].good > 0 THEN "finished" ELSE "failure") \in Statuses
      BY DEF Statuses
    <3> QED BY <1>1, <2>1, <3>1, StatusEffects
  <2>3. /\ rollouts' \in [DOMAIN rollouts' -> {Submitted} \cup Writings]
        /\ DOMAIN rollouts' = DOMAIN rollouts \ {u}
        /\ \A v \in DOMAIN rollouts : v # u => rollouts'[v] = rollouts[v]
    BY <2>1, ForgetEffects
  <2>4. /\ rollouts[u].next \in Nat /\ rollouts[u].good \in Nat /\ rollouts[u].at = "writing"
        /\ rollouts[u].next > Sessions
    BY <2>1, WritingRollout DEF Written
  <2>5. rollouts[u].good > 0 => HasRow(u, rows)
    BY <2>4 DEF Recorded
  <2>6. ~(rollouts[u].good > 0) => u \in Failing
    BY <2>4, BoundsAssumption DEF Failing
  <2>7. EndsWithStatus(u)
    BY <2>1, <2>2, <2>3, <2>5, <2>6 DEF EndsWithStatus
  <2> QED BY <1>1, <1>2, <2>1, <2>2, <2>3, <2>7 DEF RolledOn
<1>7. CASE RolloutRaises(u)
  <2>1. /\ UNCHANGED <<pc, life, trainer, files, history>> /\ life = 0
        /\ rows' = rows /\ failures' = failures /\ stuck' = stuck + 1 /\ prompts' = prompts
        /\ failures + stuck < MaxFaults
        /\ rollouts' = Forget(u)
    BY <1>7 DEF RolloutRaises
  <2>3. /\ rollouts' \in [DOMAIN rollouts' -> {Submitted} \cup Writings]
        /\ DOMAIN rollouts' = DOMAIN rollouts \ {u}
        /\ \A v \in DOMAIN rollouts : v # u => rollouts'[v] = rollouts[v]
    BY <2>1, ForgetEffects
  <2>4. failures' \in Nat /\ stuck' \in Nat /\ failures' + stuck' <= MaxFaults
    BY <1>1, <2>1, BoundsAssumption
  <2>5. EndsWithout(u)
    BY <2>1, <2>3 DEF EndsWithout
  <2> QED BY <1>1, <1>2, <2>1, <2>3, <2>4, <2>5 DEF RolledOn
<1> QED BY <1>3, <1>4, <1>5, <1>6, <1>7 DEF Rollout

-----------------------------------------------------------------------------
(* What the writes of a checkpoint do. *)

(* Between them, the rest of the trainer stands still.                     *)
Still == UNCHANGED <<life, trainer, queue, saves, history, budget>>

OthersKept == \A s \in Steps : s # step => disk'[s] = disk[s]

StoredPolicy(p) ==
  /\ disk' \in [Steps -> Directories] /\ OthersKept
  /\ disk'[step].policies[p].save = saves
  /\ disk'[step].policies[p].value = trained[p]
  /\ \A q \in Policies : q # p => disk'[step].policies[q] = disk[step].policies[q]
  /\ disk'[step].data = disk[step].data /\ disk'[step].queue = disk[step].queue
  /\ disk'[step].complete = disk[step].complete

StoredData ==
  /\ disk' \in [Steps -> Directories] /\ OthersKept
  /\ disk'[step].data.save = saves /\ disk'[step].data.value = position
  /\ disk'[step].policies = disk[step].policies /\ disk'[step].queue = disk[step].queue
  /\ disk'[step].complete = disk[step].complete

StoredQueue ==
  /\ disk' \in [Steps -> Directories] /\ OthersKept
  /\ disk'[step].queue.save = saves
  /\ disk'[step].queue.value.prompts = prompts /\ disk'[step].queue.value.rows = rows
  /\ disk'[step].policies = disk[step].policies /\ disk'[step].data = disk[step].data
  /\ disk'[step].complete = disk[step].complete

StoredManifest ==
  /\ disk' \in [Steps -> Directories] /\ OthersKept
  /\ disk'[step].policies = disk[step].policies /\ disk'[step].data = disk[step].data
  /\ disk'[step].queue = disk[step].queue
  /\ disk'[step].complete = TRUE

(* A directory of which one field is written.                              *)
LEMMA FieldsKept ==
  ASSUME NEW d, d \in Directories
  PROVE  /\ \A x \in [Policies -> PolicyParts] :
              LET e == [d EXCEPT !.policies = x] IN
              /\ e \in Directories /\ e.policies = x
              /\ e.data = d.data /\ e.queue = d.queue /\ e.complete = d.complete
         /\ \A x \in DataParts :
              LET e == [d EXCEPT !.data = x] IN
              /\ e \in Directories /\ e.data = x
              /\ e.policies = d.policies /\ e.queue = d.queue /\ e.complete = d.complete
         /\ \A x \in QueueParts :
              LET e == [d EXCEPT !.queue = x] IN
              /\ e \in Directories /\ e.queue = x
              /\ e.policies = d.policies /\ e.data = d.data /\ e.complete = d.complete
         /\ LET e == [d EXCEPT !.complete = TRUE] IN
              /\ e \in Directories /\ e.complete = TRUE
              /\ e.policies = d.policies /\ e.data = d.data /\ e.queue = d.queue
BY DEF Directories

\* The weights of a policy are stored into the directory of the step.
LEMMA StoresPolicy ==
  ASSUME Typed, step \in Steps, saves > 0, NEW p \in Policies,
         disk' = [disk EXCEPT ![step].policies[p] = Part(trained[p])]
  PROVE  StoredPolicy(p)
<1>1. PICK d : d = disk[step]
  OBVIOUS
<1>2. PICK x : x = [d.policies EXCEPT ![p] = Part(trained[p])]
  OBVIOUS
<1>3. PICK e : e = [d EXCEPT !.policies = x]
  OBVIOUS
<1>4. d \in Directories /\ disk \in [Steps -> Directories]
  BY <1>1 DEF Typed
<1>5. d.policies \in [Policies -> PolicyParts]
  BY <1>4 DEF Directories
<1>6. PICK w : w = Part(trained[p])
  OBVIOUS
<1>7. w \in PolicyParts /\ w.save = saves /\ w.value = trained[p]
  BY <1>6 DEF Part, PolicyParts, Typed
<1>8. /\ x \in [Policies -> PolicyParts] /\ x[p] = w
      /\ \A q \in Policies : q # p => x[q] = d.policies[q]
  BY <1>2, <1>5, <1>6, <1>7
<1>9. /\ e \in Directories /\ e.policies = x
      /\ e.data = d.data /\ e.queue = d.queue /\ e.complete = d.complete
  <2>1. d \in Directories /\ x \in [Policies -> PolicyParts]
    BY <1>4, <1>8
  <2> QED BY ONLY <1>3, <2>1, FieldsKept
<1>10. disk' = [disk EXCEPT ![step] = e]
  BY <1>1, <1>2, <1>3, <1>4 DEF Directories
<1>11. disk'[step] = e /\ disk' \in [Steps -> Directories] /\ OthersKept
  BY <1>4, <1>9, <1>10 DEF OthersKept
<1> QED BY <1>1, <1>7, <1>8, <1>9, <1>11 DEF StoredPolicy

\* The position of the dataloader is stored into the directory of the step.
LEMMA StoresData ==
  ASSUME Typed, step \in Steps, saves > 0,
         disk' = [disk EXCEPT ![step].data = Part(position)]
  PROVE  StoredData
<1>1. PICK d : d = disk[step]
  OBVIOUS
<1>2. PICK w : w = Part(position)
  OBVIOUS
<1>3. PICK e : e = [d EXCEPT !.data = w]
  OBVIOUS
<1>4. d \in Directories /\ disk \in [Steps -> Directories]
  BY <1>1 DEF Typed
<1>5. w \in DataParts /\ w.save = saves /\ w.value = position
  BY <1>2 DEF Part, DataParts, Typed
<1>6. /\ e \in Directories /\ e.data = w
      /\ e.policies = d.policies /\ e.queue = d.queue /\ e.complete = d.complete
  BY <1>3, <1>4, <1>5, FieldsKept
<1>7. disk' = [disk EXCEPT ![step] = e]
  BY <1>1, <1>2, <1>3, <1>4 DEF Directories
<1>8. disk'[step] = e /\ disk' \in [Steps -> Directories] /\ OthersKept
  BY <1>4, <1>6, <1>7 DEF OthersKept
<1> QED BY <1>1, <1>5, <1>6, <1>8 DEF StoredData

\* The register and the records are stored into the directory of the step.
LEMMA StoresQueue ==
  ASSUME Typed, step \in Steps, saves > 0,
         disk' = [disk EXCEPT ![step].queue = Part([prompts |-> prompts, rows |-> rows])]
  PROVE  StoredQueue
<1>1. PICK d : d = disk[step]
  OBVIOUS
<1>2. PICK w : w = Part([prompts |-> prompts, rows |-> rows])
  OBVIOUS
<1>3. PICK e : e = [d EXCEPT !.queue = w]
  OBVIOUS
<1>4. d \in Directories /\ disk \in [Steps -> Directories]
  BY <1>1 DEF Typed
<1>5. /\ w \in QueueParts /\ w.save = saves
      /\ w.value.prompts = prompts /\ w.value.rows = rows
  BY <1>2 DEF Part, QueueParts, Typed
<1>6. /\ e \in Directories /\ e.queue = w
      /\ e.policies = d.policies /\ e.data = d.data /\ e.complete = d.complete
  BY <1>3, <1>4, <1>5, FieldsKept
<1>7. disk' = [disk EXCEPT ![step] = e]
  BY <1>1, <1>2, <1>3, <1>4 DEF Directories
<1>8. disk'[step] = e /\ disk' \in [Steps -> Directories] /\ OthersKept
  BY <1>4, <1>6, <1>7 DEF OthersKept
<1> QED BY <1>1, <1>5, <1>6, <1>8 DEF StoredQueue

\* The manifest of the directory of the step is written.
LEMMA StoresManifest ==
  ASSUME Typed, step \in Steps, disk' = [disk EXCEPT ![step].complete = TRUE]
  PROVE  StoredManifest
<1>1. PICK d : d = disk[step]
  OBVIOUS
<1>3. PICK e : e = [d EXCEPT !.complete = TRUE]
  OBVIOUS
<1>4. d \in Directories /\ disk \in [Steps -> Directories]
  BY <1>1 DEF Typed
<1>6. /\ e \in Directories /\ e.complete = TRUE
      /\ e.policies = d.policies /\ e.data = d.data /\ e.queue = d.queue
  BY <1>3, <1>4, FieldsKept
<1>7. disk' = [disk EXCEPT ![step] = e]
  BY <1>1, <1>3, <1>4 DEF Directories
<1>8. disk'[step] = e /\ disk' \in [Steps -> Directories] /\ OthersKept
  BY <1>4, <1>6, <1>7 DEF OthersKept
<1> QED BY <1>1, <1>6, <1>8 DEF StoredManifest

\* What is left of a pruned directory is a directory.
LEMMA NoDirectoryType == NoDirectory \in Directories
BY DEF NoDirectory, Directories, PolicyParts, DataParts, QueueParts

(* The writes of a checkpoint and what each leaves.                        *)
SavesPolicy(p) ==
  /\ pc = "save" /\ pc' = "save" /\ p \in unsaved /\ unsaved' = unsaved \ {p}
  /\ tracker' = tracker /\ StoredPolicy(p)
SavesData ==
  /\ pc = "save" /\ pc' = "save_queue" /\ unsaved = {} /\ unsaved' = {}
  /\ tracker' = tracker /\ StoredData
SavesQueue ==
  /\ pc = "save_queue" /\ pc' = "manifest" /\ unsaved' = unsaved
  /\ tracker' = tracker /\ StoredQueue
SavesManifest ==
  /\ pc = "manifest" /\ pc' = "tracker" /\ unsaved' = unsaved
  /\ tracker' = tracker /\ StoredManifest
SavesTracker ==
  /\ pc = "tracker" /\ pc' = "prune" /\ unsaved' = unsaved
  /\ tracker' = step /\ disk' = disk
Prunes ==
  /\ pc = "prune" /\ pc' = "clear" /\ unsaved' = unsaved /\ tracker' = tracker
  /\ disk' \in [Steps -> Directories]
  /\ \A s \in Steps : disk'[s] = IF s \in Outdated THEN NoDirectory ELSE disk[s]

Writes ==
  \/ \E p \in Policies : SavesPolicy(p)
  \/ SavesData \/ SavesQueue \/ SavesManifest \/ SavesTracker \/ Prunes

SaveAction ==
  \/ \E p \in Policies : SavePolicy(p)
  \/ SaveDataloader \/ SaveQueue \/ WriteManifest \/ PublishTracker \/ Prune

\* Each step of a save writes its part and leaves the trainer as it is.
LEMMA SaveStep ==
  ASSUME Typed, Staged, SaveAction
  PROVE  Still /\ Writes /\ step \in Steps /\ saves > 0 /\ pc \in Saving
<1>1. pc \in Saving
  BY DEF SaveAction, SavePolicy, SaveDataloader, SaveQueue, WriteManifest, PublishTracker,
         Prune, Saving
<1>2. step \in Steps /\ saves > 0
  BY <1>1 DEF Staged, Saving, Stepping, Sampled
<1>3. Still
  BY DEF SaveAction, SavePolicy, SaveDataloader, SaveQueue, WriteManifest, PublishTracker,
         Prune, Still
<1>4. ASSUME NEW p \in Policies, SavePolicy(p)
      PROVE  SavesPolicy(p)
  BY <1>2, <1>4, StoresPolicy DEF SavePolicy, SavesPolicy
<1>5. SaveDataloader => SavesData
  BY <1>2, StoresData DEF SaveDataloader, SavesData
<1>6. SaveQueue => SavesQueue
  BY <1>2, StoresQueue DEF SaveQueue, SavesQueue
<1>7. WriteManifest => SavesManifest
  BY <1>2, StoresManifest DEF WriteManifest, SavesManifest
<1>8. PublishTracker => SavesTracker
  BY DEF PublishTracker, SavesTracker
<1>9. Prune => Prunes
  BY NoDirectoryType DEF Prune, Prunes, Typed
<1> QED BY <1>1, <1>2, <1>3, <1>4, <1>5, <1>6, <1>7, <1>8, <1>9 DEF SaveAction, Writes

-----------------------------------------------------------------------------
(* What the other steps of the trainer do. *)

(* A prompt is taken out of the register.                                  *)
LEMMA WithoutEffects ==
  ASSUME Typed, NEW u \in DOMAIN prompts
  PROVE  /\ Without(u) \in Registers /\ DOMAIN Without(u) = DOMAIN prompts \ {u}
         /\ \A v \in DOMAIN prompts : v # u => Without(u)[v] = prompts[v]
         /\ Waiting(Without(u)) = Waiting(prompts) - 1
<1>1. Without(u) = [v \in DOMAIN prompts \ {u} |-> prompts[v]]
  BY DEF Without, Restrict
<1>2. /\ DOMAIN prompts \subseteq Uids /\ IsFiniteSet(DOMAIN prompts)
      /\ \A v \in DOMAIN prompts : prompts[v] \in Statuses
  BY RegisterFacts DEF Typed
<1>3. /\ IsFiniteSet(DOMAIN prompts \ {u})
      /\ Cardinality(DOMAIN prompts \ {u}) = Cardinality(DOMAIN prompts) - 1
  BY <1>2, FS_RemoveElement
<1>4. Without(u) \in [DOMAIN prompts \ {u} -> Statuses]
  BY <1>1, <1>2
<1>5. Without(u) \in Registers /\ DOMAIN Without(u) = DOMAIN prompts \ {u}
  <2>1. DOMAIN prompts \ {u} \in SUBSET Uids
    BY <1>2
  <2> QED BY ONLY <1>3, <1>4, <2>1, IsRegister
<1> QED BY <1>1, <1>3, <1>5 DEF Waiting

Reissued ==
  /\ pc = "reissue" /\ pc' = "warmup"
  /\ UNCHANGED <<life, trainer, files, history, budget>>
  /\ rows' = {r \in rows : r.uid \notin InFlight}
  /\ prompts' \in Registers /\ DOMAIN prompts' = DOMAIN prompts
  /\ \A u \in InFlight : prompts'[u] = "pending"
  /\ \A u \in DOMAIN prompts \ InFlight : prompts'[u] = prompts[u]
  /\ DOMAIN rollouts' = InFlight /\ \A u \in InFlight : rollouts'[u] = Submitted
  /\ rollouts' \in [DOMAIN rollouts' -> {Submitted} \cup Writings]

\* What a reissue leaves of the register and of the records.
LEMMA ReissueStep ==
  ASSUME Typed, Reissue
  PROVE  Reissued
<1>1. /\ DOMAIN prompts \subseteq Uids /\ IsFiniteSet(DOMAIN prompts)
      /\ \A v \in DOMAIN prompts : prompts[v] \in Statuses
  BY RegisterFacts DEF Typed
<1>2. InFlight \subseteq DOMAIN prompts
  BY DEF InFlight
<1>3. /\ prompts' = [u \in InFlight \cup DOMAIN prompts |->
                       IF u \in InFlight THEN "pending" ELSE prompts[u]]
      /\ rollouts' = [u \in InFlight |-> Submitted]
  BY DEF Reissue, Extend
<1>4. prompts' \in [DOMAIN prompts -> Statuses]
  BY <1>1, <1>2, <1>3 DEF Statuses
<1>5. prompts' \in Registers /\ DOMAIN prompts' = DOMAIN prompts
  BY <1>1, <1>4, IsRegister
<1>6. /\ pc = "reissue" /\ pc' = "warmup"
      /\ UNCHANGED <<life, trainer, files, history, budget>>
      /\ rows' = {r \in rows : r.uid \notin InFlight}
  BY DEF Reissue
<1> QED BY <1>2, <1>3, <1>5, <1>6 DEF Reissued

(* The trainer submits: the prompts of a warm up, of a step, and the one   *)
(* that replaces a failed prompt.                                          *)
WarmsUp ==
  /\ pc = "warmup" /\ pc' = (IF step > TotalSteps THEN "done" ELSE "submit")
  /\ SubmitsMore(Warmup, prompts)
AddsBatch ==
  /\ pc = "submit" /\ pc' = "sample" /\ SubmitsMore(1, prompts)
Refills(u) ==
  /\ pc = "sample" /\ pc' = "sample" /\ prompts[u] = "failure"
  /\ SubmitsMore(1, Without(u))
Standing == UNCHANGED <<life, step, trained, batch, rows, files, history, budget>>

\* What is submitted at the start, with each step and as a refill.
LEMMA SubmitStep ==
  ASSUME Typed, Running, Known
  PROVE  /\ WarmUp => Standing /\ WarmsUp
         /\ AddBatch => Standing /\ AddsBatch
         /\ \A u \in DOMAIN prompts : Refill(u) => Standing /\ Refills(u)
<1>1. /\ prompts \in Registers /\ DOMAIN rollouts \subseteq DOMAIN prompts
      /\ \A u \in DOMAIN prompts : Issued(u)
      /\ Warmup \in Nat
  BY BoundsAssumption DEF Typed, Known
<1>2. WarmUp => Standing /\ WarmsUp
  BY <1>1, SubmitEffects DEF WarmUp, Standing, WarmsUp
<1>3. AddBatch => Standing /\ AddsBatch
  BY <1>1, SubmitEffects DEF AddBatch, Standing, AddsBatch
<1>4. ASSUME NEW u \in DOMAIN prompts, Refill(u)
      PROVE  Standing /\ Refills(u)
  <2>1. /\ Without(u) \in Registers /\ DOMAIN Without(u) = DOMAIN prompts \ {u}
    BY WithoutEffects
  <2>2. prompts[u] = "failure" /\ Submit(1, Without(u)) /\ Standing
        /\ pc = "sample" /\ pc' = "sample"
    BY <1>4 DEF Refill, Standing
  <2>3. u \notin DOMAIN rollouts
    BY <2>2 DEF Running
  <2>4. DOMAIN rollouts \subseteq DOMAIN Without(u)
    BY <1>1, <2>1, <2>3
  <2>5. \A v \in DOMAIN Without(u) : Issued(v)
    BY <1>1, <2>1
  <2>6. SubmitsMore(1, Without(u))
    BY <2>1, <2>2, <2>4, <2>5, SubmitEffects
  <2> QED BY <2>2, <2>6 DEF Refills
<1> QED BY <1>2, <1>3, <1>4

(* Two members of a set of at most one are the same.                       *)
LEMMA AtMostOne ==
  ASSUME NEW S, IsFiniteSet(S), Cardinality(S) <= 1
  PROVE  \A x, y \in S : x = y
<1> SUFFICES ASSUME NEW x \in S, NEW y \in S, x # y
             PROVE  FALSE
  OBVIOUS
<1>1. IsFiniteSet({x}) /\ Cardinality({x}) = 1
  BY FS_Singleton
<1>2. IsFiniteSet({x} \cup {y}) /\ Cardinality({x} \cup {y}) = 2
  <2>1. y \notin {x}
    OBVIOUS
  <2>2. /\ IsFiniteSet({x} \cup {y})
        /\ Cardinality({x} \cup {y}) = IF y \in {x} THEN Cardinality({x}) ELSE Cardinality({x}) + 1
    BY <1>1, FS_AddElement
  <2> QED BY <1>1, <2>1, <2>2
<1>3. {x} \cup {y} \in SUBSET S
  OBVIOUS
<1>4. Cardinality({x} \cup {y}) <= Cardinality(S)
  BY <1>3, FS_Subset
<1>5. Cardinality(S) \in Nat
  BY FS_CardinalityType
<1> QED BY <1>2, <1>4, <1>5

(* A life that begins from a checkpoint.                                   *)
Resumes(s) ==
  /\ pc = "down" /\ pc' = "reissue" /\ step' = s + 1
  /\ behind' = (behind \/ Cardinality(Beyond(s)) >= Keep)
  /\ UNCHANGED <<life, rollouts, batch, files, budget>>

\* A trainer that resumes has what the directory has, or starts at nothing.
LEMMA ResumeStep ==
  ASSUME Typed, Staged, Saved, NEW s \in Steps, Load(s)
  PROVE  /\ Resumes(s) /\ Loadable(s)
         /\ trained' = Weights(s) /\ trained' \in [Policies -> SUBSET Positions]
         /\ \/ Has(disk[s].data) /\ position' = disk[s].data.value
            \/ ~Has(disk[s].data) /\ position' = 0
         /\ position' \in Nat
         /\ \/ /\ Has(disk[s].queue)
               /\ prompts' = disk[s].queue.value.prompts /\ rows' = disk[s].queue.value.rows
            \/ ~Has(disk[s].queue) /\ prompts' = <<>> /\ rows' = {}
         /\ prompts' \in Registers /\ rows' \subseteq Rows
         /\ mixed' \in BOOLEAN /\ (~mixed' => ~mixed /\ Whole(s))
<1>0. IsFiniteSet(SavesIn(s))
  <2>1. \A x \in SavesIn(s) : x \in Nat /\ x <= saves
    BY PartTypes DEF SavesIn, Saved
  <2>2. SavesIn(s) \in SUBSET Nat /\ saves \in Nat
    BY <2>1 DEF Typed
  <2> QED BY <2>1, <2>2, FS_BoundedSetOfNaturals
<1>1. Resumes(s) /\ Loadable(s)
  BY DEF Load, Begin, Resumes
<1>2. trained' = Weights(s)
  BY DEF Load, Weights
<1>3. trained' \in [Policies -> SUBSET Positions]
  BY <1>1, <1>2, PartTypes DEF Loadable, Weights
<1>4. /\ \/ Has(disk[s].data) /\ position' = disk[s].data.value
         \/ ~Has(disk[s].data) /\ position' = 0
      /\ position' \in Nat
  BY PartTypes DEF Load, Begin, Staged
<1>5. \/ /\ Has(disk[s].queue)
         /\ prompts' = disk[s].queue.value.prompts /\ rows' = disk[s].queue.value.rows
      \/ ~Has(disk[s].queue) /\ prompts' = <<>> /\ rows' = {}
  BY DEF Load, Begin, Staged
<1>6. prompts' \in Registers /\ rows' \subseteq Rows
  BY <1>5, PartTypes DEF Load, Typed
<1>7. mixed' \in BOOLEAN /\ (~mixed' => ~mixed /\ Cardinality(SavesIn(s)) <= 1)
  <2>1. Cardinality(SavesIn(s)) \in Nat
    BY <1>0, FS_CardinalityType
  <2>2. mixed' = (mixed \/ Cardinality(SavesIn(s)) > 1)
    BY DEF Load
  <2>3. ~(Cardinality(SavesIn(s)) > 1) => Cardinality(SavesIn(s)) <= 1
    BY <2>1
  <2>4. mixed' \in BOOLEAN
    BY <2>2, Zenon DEF Typed
  <2>5. ~mixed' => ~mixed /\ ~(Cardinality(SavesIn(s)) > 1)
    BY <2>2, Zenon
  <2> QED BY <2>3, <2>4, <2>5
<1>8. ASSUME Cardinality(SavesIn(s)) <= 1
      PROVE  Whole(s)
  <2>1. PICK S : S = SavesIn(s)
    OBVIOUS
  <2>2. IsFiniteSet(S) /\ Cardinality(S) <= 1
    BY <1>0, <1>8, <2>1
  <2>3. \A x, y \in S : x = y
    BY <2>2, AtMostOne
  <2>4. disk[s].data.save \in S /\ disk[s].queue.save \in S
        /\ \A p \in Policies : disk[s].policies[p].save \in S
    BY <2>1 DEF SavesIn
  <2>5. /\ disk[s].data.save = disk[s].queue.save
        /\ \A p \in Policies : disk[s].policies[p].save = disk[s].queue.save
    BY <2>3, <2>4
  <2>6. Has(disk[s].queue)
    BY <1>1, <2>5, BoundsAssumption DEF Loadable, Has
  <2> QED BY <2>5, <2>6 DEF Whole
<1> QED BY <1>1, <1>2, <1>3, <1>4, <1>5, <1>6, <1>7, <1>8

-----------------------------------------------------------------------------
(* The steps of the trainer, by what they do. *)

SamplesOne(u) ==
  /\ u \in DOMAIN prompts /\ prompts[u] = "finished"
  /\ pc = "sample" /\ pc' = "update" /\ batch' = u /\ prompts' = Without(u)
  /\ UNCHANGED <<life, step, position, trained, rows, rollouts, files, history, budget>>

Action ==
  \/ UNCHANGED vars
  \/ pc # "done" /\ \E u \in DOMAIN rollouts : RolledOn(u)
  \/ Reissued
  \/ Standing /\ (WarmsUp \/ AddsBatch \/ \E u \in DOMAIN prompts : Refills(u))
  \/ \E u \in DOMAIN prompts : SamplesOne(u)
  \/ UpdatePolicies
  \/ ClearBatch
  \/ Still /\ Writes /\ step \in Steps /\ saves > 0 /\ pc \in Saving
  \/ Crash
  \/ StartFromScratch
  \/ \E s \in Steps : Load(s)

\* Every step of the trainer is one of the actions named above.
LEMMA NextActions == TrainInv /\ [Next]_vars => Action
<1> SUFFICES ASSUME TrainInv, [Next]_vars
             PROVE  Action
  OBVIOUS
<1>0. Typed /\ Staged /\ Running /\ Known /\ Recorded
  BY DEF TrainInv
<1>1. CASE UNCHANGED vars
  BY <1>1 DEF Action
<1>2. CASE Rollouts \/ RolloutFaults
  BY <1>0, <1>2, RolloutStep DEF Rollouts, RolloutFaults, Action
<1>3. CASE Reissue
  BY <1>0, <1>3, ReissueStep DEF Action
<1>4. CASE WarmUp \/ AddBatch
  BY <1>0, <1>4, SubmitStep DEF Action
<1>5. CASE \E u \in DOMAIN prompts : Sample(u) \/ Refill(u)
  <2>1. PICK u \in DOMAIN prompts : Sample(u) \/ Refill(u)
    BY <1>5
  <2>2. CASE Sample(u)
    BY <2>2 DEF Sample, SamplesOne, Action
  <2>3. CASE Refill(u)
    BY <1>0, <2>3, SubmitStep DEF Action
  <2> QED BY <2>1, <2>2, <2>3
<1>6. CASE UpdatePolicies \/ ClearBatch \/ Crash \/ StartFromScratch \/ ResumePath
  BY <1>6 DEF Action, ResumePath
<1>7. CASE ResumeAuto
  BY <1>0, <1>7 DEF Action, ResumeAuto, Typed
<1>8. CASE SaveAction
  BY <1>0, <1>8, SaveStep DEF Action
<1> QED BY <1>1, <1>2, <1>3, <1>4, <1>5, <1>6, <1>7, <1>8 DEF Next, Train, SaveAction, Terminated

\* Every step keeps the types.
LEMMA TypedStep == TrainInv /\ [Next]_vars => Typed'
<1> SUFFICES ASSUME TrainInv, Action
             PROVE  Typed'
  BY NextActions
<1>0. Typed /\ Staged /\ Running /\ Saved
  BY DEF TrainInv
<1>1. CASE UNCHANGED vars
  BY <1>0, <1>1 DEF Typed, vars, trainer, queue, files, history, budget
<1>2. CASE \E u \in DOMAIN rollouts : RolledOn(u)
  <2>1. PICK u \in DOMAIN rollouts : RolledOn(u)
    BY <1>2
  <2>2. DOMAIN rollouts' \subseteq DOMAIN prompts'
    BY <1>0, <2>1 DEF RolledOn, Typed
  <2> QED BY <1>0, <2>1, <2>2 DEF Typed, RolledOn, trainer, files, history
<1>3. CASE Reissued
  <2>1. InFlight \subseteq DOMAIN prompts
    BY DEF InFlight
  <2>2. "warmup" \in Stages
    BY DEF Stages
  <2> QED BY <1>0, <1>3, <2>1, <2>2 DEF Typed, Reissued, trainer, files, history, budget
<1>4. CASE Standing /\ (WarmsUp \/ AddsBatch \/ \E u \in DOMAIN prompts : Refills(u))
  <2>1. PICK n, q : n \in Nat /\ SubmitsMore(n, q) /\ DOMAIN rollouts \subseteq DOMAIN q
                            /\ pc' \in {"done", "submit", "sample"}
    <3>1. CASE WarmsUp
      BY <1>0, <3>1, BoundsAssumption DEF WarmsUp, Typed
    <3>2. CASE AddsBatch
      BY <1>0, <3>2 DEF AddsBatch, Typed
    <3>3. CASE \E u \in DOMAIN prompts : Refills(u)
      <4>1. PICK u \in DOMAIN prompts : Refills(u)
        BY <3>3
      <4>2. DOMAIN Without(u) = DOMAIN prompts \ {u}
        BY <1>0, WithoutEffects
      <4>3. u \notin DOMAIN rollouts
        BY <1>0, <4>1 DEF Refills, Running
      <4> QED BY <1>0, <4>1, <4>2, <4>3 DEF Refills, Typed
    <3> QED BY <1>4, <3>1, <3>2, <3>3
  <2>2. DOMAIN rollouts' \subseteq DOMAIN prompts'
    BY <2>1 DEF SubmitsMore
  <2>3. position' \in Nat
    BY <1>0, <2>1 DEF SubmitsMore, Typed
  <2>4. pc' \in Stages
    BY <2>1 DEF Stages, Stepping
  <2> QED BY <1>0, <1>4, <2>1, <2>2, <2>3, <2>4
          DEF Typed, Standing, SubmitsMore, files, history, budget
<1>5. CASE \E u \in DOMAIN prompts : SamplesOne(u)
  <2>1. PICK u \in DOMAIN prompts : SamplesOne(u)
    BY <1>5
  <2>2. Without(u) \in Registers /\ DOMAIN Without(u) = DOMAIN prompts \ {u}
    BY <1>0, WithoutEffects
  <2>3. u \notin DOMAIN rollouts
    BY <1>0, <2>1 DEF SamplesOne, Running
  <2>4. u \in Uids
    BY <1>0, <2>1, RegisterFacts DEF Typed
  <2>5. pc' \in Stages
    BY <2>1 DEF SamplesOne, Stages, Stepping, Sampled
  <2> QED BY <1>0, <2>1, <2>2, <2>3, <2>4, <2>5 DEF Typed, SamplesOne, files, history, budget
<1>6. CASE UpdatePolicies
  <2>1. batch \in Uids
    BY <1>0, <1>6 DEF Typed, Staged, UpdatePolicies, Sampled
  <2>2. batch[2] \in Positions
    BY <2>1 DEF Uids
  <2>3. trained' \in [Policies -> SUBSET Positions]
    BY <1>0, <1>6, <2>2 DEF UpdatePolicies, Typed
  <2>4. /\ pc' \in Stages /\ unsaved' \subseteq Policies /\ saves' \in Nat
        /\ UNCHANGED <<life, step, position, batch, queue, disk, tracker, history, budget>>
    <3>1. CASE SavesAt(step)
      BY <1>0, <1>6, <3>1 DEF UpdatePolicies, Typed, Stages, Stepping, Sampled, Saving
    <3>2. CASE ~SavesAt(step)
      BY <1>0, <1>6, <3>2 DEF UpdatePolicies, Typed, Stages, Stepping, Sampled, Saving
    <3> QED BY <3>1, <3>2
  <2> QED BY <1>0, <2>3, <2>4 DEF Typed, queue, history, budget
<1>7. CASE ClearBatch
  <2>1. step \in Steps /\ step' = step + 1
    BY <1>0, <1>7 DEF ClearBatch, Staged, Stepping, Sampled
  <2>2. step' \in 0..(TotalSteps + 1)
    BY <2>1, BoundsAssumption DEF Steps
  <2>3. pc' \in Stages
    BY <1>7 DEF ClearBatch, Stages, Stepping
  <2>4. /\ rows' \subseteq rows /\ batch' = NoUid
        /\ UNCHANGED <<life, position, trained, prompts, rollouts, files, history, budget>>
    BY <1>7 DEF ClearBatch
  <2> QED BY <1>0, <2>2, <2>3, <2>4 DEF Typed, files, history, budget
<1>8. CASE Still /\ Writes /\ step \in Steps /\ saves > 0 /\ pc \in Saving
  <2>1. /\ pc' \in Stages /\ unsaved' \subseteq Policies /\ disk' \in [Steps -> Directories]
        /\ tracker' \in {0} \cup Steps
    <3>1. CASE \E p \in Policies : SavesPolicy(p)
      BY <1>0, <1>8, <3>1
         DEF SavesPolicy, StoredPolicy, Typed, Stages, Stepping, Sampled, Saving
    <3>2. CASE SavesData
      BY <1>0, <1>8, <3>2 DEF SavesData, StoredData, Typed, Stages, Stepping, Sampled, Saving
    <3>3. CASE SavesQueue
      BY <1>0, <1>8, <3>3 DEF SavesQueue, StoredQueue, Typed, Stages, Stepping, Sampled, Saving
    <3>4. CASE SavesManifest
      BY <1>0, <1>8, <3>4
         DEF SavesManifest, StoredManifest, Typed, Stages, Stepping, Sampled, Saving
    <3>5. CASE SavesTracker
      BY <1>0, <1>8, <3>5 DEF SavesTracker, Typed, Stages, Stepping, Sampled, Saving
    <3>6. CASE Prunes
      BY <1>0, <1>8, <3>6 DEF Prunes, Typed, Stages, Stepping, Sampled, Saving
    <3> QED BY <1>8, <3>1, <3>2, <3>3, <3>4, <3>5, <3>6 DEF Writes
  <2> QED BY <1>0, <1>8, <2>1 DEF Typed, Still, trainer, queue, history, budget
<1>9. CASE Crash
  <2>1. life' \in 0..MaxCrashes
    BY <1>0, <1>9, BoundsAssumption DEF Crash, Typed
  <2>2. prompts' \in Registers /\ DOMAIN prompts' = {}
    <3>1. IsFiniteSet({}) /\ {} \in SUBSET Uids /\ prompts' \in [{} -> Statuses]
      BY <1>9, FS_EmptySet DEF Crash
    <3> QED BY ONLY <3>1, IsRegister
  <2>3. trained' \in [Policies -> SUBSET Positions]
    BY <1>9 DEF Crash
  <2>4. /\ pc' \in Stages /\ step' \in 0..(TotalSteps + 1) /\ position' \in Nat
        /\ rows' \subseteq Rows /\ DOMAIN rollouts' = {}
        /\ rollouts' \in [DOMAIN rollouts' -> {Submitted} \cup Writings]
        /\ batch' = NoUid /\ unsaved' \subseteq Policies
        /\ UNCHANGED <<saves, disk, tracker, history, budget>>
    BY <1>9, BoundsAssumption DEF Crash, Stages
  <2> QED BY <1>0, <2>1, <2>2, <2>3, <2>4 DEF Typed, history, budget
<1>10. CASE StartFromScratch
  <2>1. /\ step' = 1 /\ pc' = "reissue" /\ behind' = (behind \/ Cardinality(Beyond(0)) >= Keep)
        /\ UNCHANGED <<life, position, trained, batch, queue, files, mixed, budget>>
    BY <1>10 DEF StartFromScratch, Begin
  <2>2. step' \in 0..(TotalSteps + 1) /\ pc' \in Stages
    BY <2>1, BoundsAssumption DEF Stages
  <2>3. behind' \in BOOLEAN
    BY <1>0, <2>1, Zenon DEF Typed
  <2> QED BY <1>0, <2>1, <2>2, <2>3 DEF Typed, queue, files, budget
<1>11. CASE \E s \in Steps : Load(s)
  <2>1. PICK s \in Steps : Load(s)
    BY <1>11
  <2>2. /\ Resumes(s) /\ trained' \in [Policies -> SUBSET Positions]
        /\ position' \in Nat /\ prompts' \in Registers /\ rows' \subseteq Rows
        /\ mixed' \in BOOLEAN
    BY <1>0, <2>1, ResumeStep
  <2>3. step' \in 0..(TotalSteps + 1) /\ pc' \in Stages
    BY <2>2, BoundsAssumption DEF Resumes, Steps, Stages
  <2>4. behind' \in BOOLEAN
    BY <1>0, <2>2, Zenon DEF Typed, Resumes
  <2>5. DOMAIN rollouts = {}
    BY <1>0, <2>2 DEF Resumes, Staged, Idle
  <2> QED BY <1>0, <2>2, <2>3, <2>4, <2>5 DEF Typed, Resumes, files, budget
<1> QED BY <1>1, <1>2, <1>3, <1>4, <1>5, <1>6, <1>7, <1>8, <1>9, <1>10, <1>11 DEF Action

\* Every step keeps what holds by where the trainer is.
LEMMA StagedStep == TrainInv /\ [Next]_vars => Staged'
<1> SUFFICES ASSUME TrainInv, Action
             PROVE  Staged'
  BY NextActions
<1>0. Typed /\ Staged
  BY DEF TrainInv
<1>a. step \in 0..(TotalSteps + 1) /\ TotalSteps \in Nat \ {0} /\ saves \in Nat
  BY <1>0, BoundsAssumption DEF Typed
<1>1. CASE UNCHANGED vars
  BY <1>0, <1>1 DEF Staged, vars, trainer, queue, files, history, budget
<1>2. CASE \E u \in DOMAIN rollouts : RolledOn(u)
  <2>1. PICK u \in DOMAIN rollouts : RolledOn(u)
    BY <1>2
  <2>2. pc \notin Idle
    BY <1>0 DEF Staged
  <2>3. UNCHANGED <<pc, step, position, batch, saves>>
    BY <2>1 DEF RolledOn, trainer, files
  <2> QED BY <1>0, <2>2, <2>3 DEF Staged, Idle
<1>3. CASE Reissued
  <2>1. UNCHANGED <<step, position, batch, saves>> /\ pc = "reissue" /\ pc' = "warmup"
    BY <1>3 DEF Reissued, trainer, files
  <2> QED BY <1>0, <2>1 DEF Staged, Idle, Stepping, Sampled, Saving
<1>4. CASE Standing /\ (WarmsUp \/ AddsBatch \/ \E u \in DOMAIN prompts : Refills(u))
  <2>1. UNCHANGED <<step, batch, saves>>
    BY <1>4 DEF Standing, files
  <2>2. CASE WarmsUp
    <3>1. pc = "warmup" /\ pc' = (IF step > TotalSteps THEN "done" ELSE "submit")
      BY <2>2 DEF WarmsUp
    <3>2. step > 0
      BY <1>0, <3>1 DEF Staged
    <3>3. pc' = "submit" => step \in Steps
      BY <1>a, <3>1, <3>2 DEF Steps
    <3> QED BY <1>0, <2>1, <3>1, <3>2, <3>3 DEF Staged, Idle, Stepping, Sampled, Saving
  <2>3. CASE AddsBatch
    BY <1>0, <2>1, <2>3 DEF Staged, AddsBatch, Idle, Stepping, Sampled, Saving
  <2>4. CASE \E u \in DOMAIN prompts : Refills(u)
    BY <1>0, <2>1, <2>4 DEF Staged, Refills, Idle, Stepping, Sampled, Saving
  <2> QED BY <1>4, <2>2, <2>3, <2>4
<1>5. CASE \E u \in DOMAIN prompts : SamplesOne(u)
  <2>1. PICK u \in DOMAIN prompts : SamplesOne(u)
    BY <1>5
  <2>2. u \in Uids
    BY <1>0, RegisterFacts DEF Typed
  <2>3. u # NoUid
    BY <2>2 DEF Uids, NoUid
  <2>4. UNCHANGED <<step, saves>> /\ pc = "sample" /\ pc' = "update" /\ batch' = u
    BY <2>1 DEF SamplesOne, files
  <2> QED BY <1>0, <2>3, <2>4 DEF Staged, Idle, Stepping, Sampled, Saving
<1>6. CASE UpdatePolicies
  <2>1. pc = "update" /\ UNCHANGED <<step, batch, rollouts>>
    BY <1>6 DEF UpdatePolicies, queue
  <2>2. \/ pc' = "save" /\ SavesAt(step) /\ saves' > 0
        \/ pc' = "clear"
    BY <1>6, <1>a DEF UpdatePolicies
  <2>3. SavesAt(step)' = SavesAt(step)
    BY <2>1 DEF SavesAt
  <2> QED BY <1>0, <2>1, <2>2, <2>3 DEF Staged, Idle, Stepping, Sampled, Saving
<1>7. CASE ClearBatch
  <2>1. pc = "clear" /\ batch' = NoUid /\ step' = step + 1
        /\ pc' = (IF step' > TotalSteps THEN "done" ELSE "submit")
    BY <1>7 DEF ClearBatch
  <2>2. step \in Steps
    BY <1>0, <2>1 DEF Staged, Stepping, Sampled
  <2>3. step' > 0 /\ (pc' = "submit" => step' \in Steps)
    BY <1>a, <2>1, <2>2 DEF Steps
  <2> QED BY <2>1, <2>3 DEF Staged, Idle, Stepping, Sampled, Saving
<1>8. CASE Still /\ Writes /\ step \in Steps /\ saves > 0 /\ pc \in Saving
  <2>1. UNCHANGED <<step, position, batch, saves>>
    BY <1>8 DEF Still, trainer
  <2>2. pc' \in Saving \cup {"clear"}
    BY <1>8 DEF Writes, SavesPolicy, SavesData, SavesQueue, SavesManifest, SavesTracker,
                Prunes, Saving
  <2>3. SavesAt(step)' = SavesAt(step)
    BY <2>1 DEF SavesAt
  <2> QED BY <1>0, <1>8, <2>1, <2>2, <2>3 DEF Staged, Idle, Stepping, Sampled, Saving
<1>9. CASE Crash
  <2>1. /\ pc' = "down" /\ prompts' = <<>> /\ rows' = {} /\ position' = 0
        /\ rollouts' = <<>> /\ batch' = NoUid
    BY <1>9 DEF Crash
  <2> QED BY <2>1 DEF Staged, Idle, Stepping, Sampled, Saving
<1>10. CASE StartFromScratch
  <2>1. /\ step' = 1 /\ pc = "down" /\ pc' = "reissue"
        /\ UNCHANGED <<rollouts, batch>>
    BY <1>10 DEF StartFromScratch, Begin, queue
  <2> QED BY <1>0, <2>1 DEF Staged, Idle, Stepping, Sampled, Saving
<1>11. CASE \E s \in Steps : Load(s)
  <2>1. PICK s \in Steps : Load(s)
    BY <1>11
  <2>2. /\ step' = s + 1 /\ pc = "down" /\ pc' = "reissue"
        /\ UNCHANGED <<rollouts, batch>>
    BY <2>1 DEF Load, Begin
  <2>3. step' > 0
    BY <2>2 DEF Steps
  <2> QED BY <1>0, <2>2, <2>3 DEF Staged, Idle, Stepping, Sampled, Saving
<1> QED BY <1>1, <1>2, <1>3, <1>4, <1>5, <1>6, <1>7, <1>8, <1>9, <1>10, <1>11 DEF Action

\* Every step keeps a rollout and the status of its prompt together.
LEMMA RunningStep == TrainInv /\ [Next]_vars => Running'
<1> SUFFICES ASSUME TrainInv, Action
             PROVE  Running'
  BY NextActions
<1>0. Typed /\ Staged /\ Running /\ Saved
  BY DEF TrainInv
<1>s. Submitted.at = "submitted"
  BY DEF Submitted
<1>1. CASE UNCHANGED <<prompts, rollouts>>
  BY <1>0, <1>1 DEF Running
<1>2. CASE \E u \in DOMAIN rollouts : RolledOn(u)
  <2>1. PICK u \in DOMAIN rollouts : RolledOn(u)
    BY <1>2
  <2> SUFFICES ASSUME NEW v \in DOMAIN rollouts'
      PROVE  \/ rollouts'[v].at = "submitted" /\ prompts'[v] = "pending"
             \/ /\ rollouts'[v].at = "writing" /\ prompts'[v] = "running"
                /\ rollouts'[v].good < rollouts'[v].next
    BY DEF Running
  <2>2. v \in DOMAIN rollouts /\ v \in DOMAIN prompts
    BY <1>0, <2>1 DEF RolledOn, Typed
  <2>3. CASE v = u
    BY <2>1, <2>3 DEF RolledOn, GoesOn, EndsWithStatus, EndsWithout
  <2>4. CASE v # u
    <3>1. rollouts'[v] = rollouts[v] /\ prompts'[v] = prompts[v]
      BY <2>1, <2>2, <2>4 DEF RolledOn
    <3> QED BY <1>0, <2>2, <3>1 DEF Running
  <2> QED BY <2>3, <2>4
<1>3. CASE Reissued
  BY <1>3, <1>s DEF Reissued, Running
<1>4. ASSUME NEW n, NEW q, SubmitsMore(n, q), DOMAIN rollouts \subseteq DOMAIN q,
             \A v \in DOMAIN q : q[v] = prompts[v]
      PROVE  Running'
  <2> SUFFICES ASSUME NEW v \in DOMAIN rollouts'
      PROVE  \/ rollouts'[v].at = "submitted" /\ prompts'[v] = "pending"
             \/ /\ rollouts'[v].at = "writing" /\ prompts'[v] = "running"
                /\ rollouts'[v].good < rollouts'[v].next
    BY DEF Running
  <2>1. CASE v \in NewUids(n)
    BY <1>4, <1>s, <2>1 DEF SubmitsMore
  <2>2. CASE v \notin NewUids(n)
    <3>1. v \in DOMAIN rollouts /\ rollouts'[v] = rollouts[v] /\ prompts'[v] = prompts[v]
      BY <1>4, <2>2 DEF SubmitsMore
    <3> QED BY <1>0, <3>1 DEF Running
  <2> QED BY <2>1, <2>2
<1>5. CASE WarmsUp \/ AddsBatch \/ \E u \in DOMAIN prompts : Refills(u)
  <2>1. CASE WarmsUp \/ AddsBatch
    BY <1>0, <1>4, <2>1 DEF WarmsUp, AddsBatch, Typed
  <2>2. CASE \E u \in DOMAIN prompts : Refills(u)
    <3>1. PICK u \in DOMAIN prompts : Refills(u)
      BY <2>2
    <3>2. /\ DOMAIN Without(u) = DOMAIN prompts \ {u}
          /\ \A v \in DOMAIN prompts : v # u => Without(u)[v] = prompts[v]
      BY <1>0, WithoutEffects
    <3>3. u \notin DOMAIN rollouts
      BY <1>0, <3>1 DEF Refills, Running
    <3>4. SubmitsMore(1, Without(u)) /\ DOMAIN rollouts \subseteq DOMAIN Without(u)
          /\ \A v \in DOMAIN Without(u) : Without(u)[v] = prompts[v]
      BY <1>0, <3>1, <3>2, <3>3 DEF Refills, Typed
    <3> QED BY <1>4, <3>4
  <2> QED BY <1>5, <2>1, <2>2
<1>6. CASE \E u \in DOMAIN prompts : SamplesOne(u)
  <2>1. PICK u \in DOMAIN prompts : SamplesOne(u)
    BY <1>6
  <2>2. /\ DOMAIN Without(u) = DOMAIN prompts \ {u}
        /\ \A v \in DOMAIN prompts : v # u => Without(u)[v] = prompts[v]
    BY <1>0, WithoutEffects
  <2>3. u \notin DOMAIN rollouts /\ rollouts' = rollouts /\ prompts' = Without(u)
    BY <1>0, <2>1 DEF SamplesOne, Running
  <2>4. \A v \in DOMAIN rollouts : prompts'[v] = prompts[v]
    BY <1>0, <2>2, <2>3 DEF Typed
  <2> QED BY <1>0, <2>3, <2>4 DEF Running
<1>7. CASE rollouts' = <<>>
  BY <1>7 DEF Running
<1>8. CASE StartFromScratch \/ \E s \in Steps : Load(s)
  <2>1. rollouts' = rollouts /\ pc = "down"
    BY <1>8 DEF StartFromScratch, Load, Begin, queue
  <2> QED BY <1>0, <1>7, <2>1 DEF Staged, Idle
<1>9. CASE UpdatePolicies \/ ClearBatch \/ Still
  BY <1>1, <1>9 DEF UpdatePolicies, ClearBatch, Still, queue
<1> QED BY <1>1, <1>2, <1>3, <1>5, <1>6, <1>7, <1>8, <1>9 DEF Action, Crash, vars, queue

-----------------------------------------------------------------------------
(* The uids that are known. *)

KnownOnDisk ==
  \A s \in Steps : Has(disk[s].queue) =>
    /\ \A u \in DOMAIN disk[s].queue.value.prompts :
         Issued(u) /\ (pc \in Idle => Former(u))
    /\ \A r \in disk[s].queue.value.rows :
         Issued(r.uid) /\ (pc \in Idle => Former(r.uid))

(* As a life goes on, the dataloader hands out more.                       *)
LEMMA IssuedKept ==
  ASSUME Typed, Typed', NEW u \in Uids, Issued(u)
  PROVE  /\ life' = life /\ position' >= position => Issued(u)'
         /\ life' = life + 1 => Former(u)' /\ Issued(u)'
         /\ life' = life /\ Former(u) => Issued(u)'
<1>1. u[1] \in Nat /\ u[2] \in Nat
  BY DEF Uids, Positions
<1>2. life \in Nat /\ life' \in Nat /\ position \in Nat /\ position' \in Nat
  BY BoundsAssumption DEF Typed
<1>3. Issued(u)' <=> u[1] <= life' /\ (u[1] = life' => u[2] <= position')
  BY DEF Issued
<1>4. Former(u)' <=> u[1] < life'
  BY DEF Former
<1> QED BY <1>1, <1>2, <1>3, <1>4 DEF Issued, Former

\* A record is a record of a prompt.
LEMMA RowUids ==
  ASSUME NEW rs \in SUBSET Rows, NEW r \in rs
  PROVE  r.uid \in Uids
BY DEF Rows

(* The disk keeps what it has and is given what the queue has.             *)
LEMMA KnownOnDiskStep ==
  ASSUME TrainInv, Typed', [Next]_vars
  PROVE  KnownOnDisk'
<1>0. Typed /\ Staged /\ Known /\ Saved /\ Action
  BY NextActions DEF TrainInv
<1>1. ASSUME NEW s \in Steps, Has(disk[s].queue)
      PROVE  /\ \A u \in DOMAIN disk[s].queue.value.prompts :
                  u \in Uids /\ Issued(u) /\ (pc \in Idle => Former(u))
             /\ \A r \in disk[s].queue.value.rows :
                  r.uid \in Uids /\ Issued(r.uid) /\ (pc \in Idle => Former(r.uid))
  <2>1. /\ disk[s].queue.value.prompts \in Registers
        /\ disk[s].queue.value.rows \in SUBSET Rows
    BY <1>0, <1>1, PartTypes
  <2> QED BY <1>0, <1>1, <2>1, RegisterFacts, RowUids DEF Known
<1>2. ASSUME disk' = disk, life' = life, position' >= position, pc' \in Idle => pc \in Idle
      PROVE  KnownOnDisk'
  <2> SUFFICES ASSUME NEW s \in Steps, Has(disk'[s].queue)
               PROVE  /\ \A u \in DOMAIN disk'[s].queue.value.prompts :
                           Issued(u)' /\ (pc' \in Idle => Former(u)')
                      /\ \A r \in disk'[s].queue.value.rows :
                           Issued(r.uid)' /\ (pc' \in Idle => Former(r.uid)')
    BY DEF KnownOnDisk, Has
  <2>1. \A u : Former(u) <=> Former(u)'
    BY <1>2 DEF Former
  <2> QED BY <1>0, <1>1, <1>2, <2>1, IssuedKept
<1>3. position >= position
  BY <1>0 DEF Typed
<1>4. CASE UNCHANGED vars
  BY <1>2, <1>3, <1>4 DEF vars, files, trainer
<1>5. CASE \E u \in DOMAIN rollouts : RolledOn(u)
  BY <1>2, <1>3, <1>5 DEF RolledOn, files, trainer
<1>6. CASE Reissued
  BY <1>2, <1>3, <1>6 DEF Reissued, files, trainer, Idle
<1>7. CASE Standing /\ (WarmsUp \/ AddsBatch \/ \E u \in DOMAIN prompts : Refills(u))
  <2>1. PICK n, q : n \in Nat /\ SubmitsMore(n, q)
    BY <1>7, BoundsAssumption DEF WarmsUp, AddsBatch, Refills
  <2>2. position' >= position
    BY <1>0, <2>1 DEF SubmitsMore, Typed
  <2>3. pc' \notin Idle
    BY <1>7 DEF WarmsUp, AddsBatch, Refills, Idle
  <2> QED BY <1>2, <1>7, <2>2, <2>3 DEF Standing, files
<1>8. CASE \E u \in DOMAIN prompts : SamplesOne(u)
  BY <1>2, <1>3, <1>8 DEF SamplesOne, files, Idle
<1>9. CASE UpdatePolicies
  <2>1. pc' \notin Idle /\ UNCHANGED <<disk, life, position>>
    BY <1>9 DEF UpdatePolicies, Idle
  <2> QED BY <1>2, <1>3, <2>1
<1>10. CASE ClearBatch
  <2>1. pc' \notin Idle /\ UNCHANGED <<disk, life, position>>
    BY <1>10 DEF ClearBatch, Idle, files
  <2> QED BY <1>2, <1>3, <2>1
<1>11. CASE Still /\ Writes /\ step \in Steps /\ saves > 0 /\ pc \in Saving
  <2>1. UNCHANGED <<life, position, prompts, rows>>
    BY <1>11 DEF Still, trainer, queue
  <2>2. pc' \notin Idle
    BY <1>11 DEF Writes, SavesPolicy, SavesData, SavesQueue, SavesManifest, SavesTracker,
                 Prunes, Idle
  <2>3. \A s \in Steps : \/ disk'[s].queue = disk[s].queue \/ ~Has(disk'[s].queue)
                         \/ /\ disk'[s].queue.value.prompts = prompts
                            /\ disk'[s].queue.value.rows = rows
    BY <1>11 DEF Writes, SavesPolicy, SavesData, SavesQueue, SavesManifest, SavesTracker,
                 Prunes, StoredPolicy, StoredData, StoredQueue, StoredManifest, OthersKept,
                 NoDirectory, NoPart, Has
  <2> SUFFICES ASSUME NEW s \in Steps, Has(disk'[s].queue)
               PROVE  /\ \A u \in DOMAIN disk'[s].queue.value.prompts : Issued(u)'
                      /\ \A r \in disk'[s].queue.value.rows : Issued(r.uid)'
    BY <2>2 DEF KnownOnDisk, Has
  <2>4. CASE disk'[s].queue = disk[s].queue
    BY <1>0, <1>1, <1>3, <2>1, <2>4, IssuedKept
  <2>5. CASE disk'[s].queue.value.prompts = prompts /\ disk'[s].queue.value.rows = rows
    <3>1. DOMAIN prompts \subseteq Uids /\ \A r \in rows : r.uid \in Uids
      BY <1>0, RegisterFacts, RowUids DEF Typed
    <3> QED BY <1>0, <1>3, <2>1, <2>5, <3>1, IssuedKept DEF Known
  <2> QED BY <2>3, <2>4, <2>5
<1>12. CASE Crash
  <2>1. disk' = disk /\ life' = life + 1
    BY <1>12 DEF Crash
  <2> SUFFICES ASSUME NEW s \in Steps, Has(disk'[s].queue)
               PROVE  /\ \A u \in DOMAIN disk'[s].queue.value.prompts :
                           Issued(u)' /\ (pc' \in Idle => Former(u)')
                      /\ \A r \in disk'[s].queue.value.rows :
                           Issued(r.uid)' /\ (pc' \in Idle => Former(r.uid)')
    BY DEF KnownOnDisk, Has
  <2> QED BY <1>0, <1>1, <2>1, IssuedKept
<1>13. CASE StartFromScratch \/ \E s \in Steps : Load(s)
  <2>1. disk' = disk /\ life' = life /\ pc \in Idle
    BY <1>13 DEF StartFromScratch, Load, Begin, files, Idle
  <2> SUFFICES ASSUME NEW s \in Steps, Has(disk'[s].queue)
               PROVE  /\ \A u \in DOMAIN disk'[s].queue.value.prompts :
                           Issued(u)' /\ (pc' \in Idle => Former(u)')
                      /\ \A r \in disk'[s].queue.value.rows :
                           Issued(r.uid)' /\ (pc' \in Idle => Former(r.uid)')
    BY DEF KnownOnDisk, Has
  <2>2. \A u : Former(u) <=> Former(u)'
    BY <2>1 DEF Former
  <2> QED BY <1>0, <1>1, <2>1, <2>2, IssuedKept
<1> QED BY <1>0, <1>4, <1>5, <1>6, <1>7, <1>8, <1>9, <1>10, <1>11, <1>12, <1>13 DEF Action

\* Every step keeps to uids that were handed out.
LEMMA KnownStep ==
  ASSUME TrainInv, Typed', Staged', [Next]_vars
  PROVE  Known'
<1>0. Typed /\ Staged /\ Running /\ Known /\ Saved /\ Action
  BY NextActions DEF TrainInv
<1>1. /\ DOMAIN prompts \subseteq Uids /\ DOMAIN prompts' \subseteq Uids
      /\ \A r \in rows : r.uid \in Uids
      /\ \A r \in rows' : r.uid \in Uids
      /\ position \in Nat
  <2>1. prompts \in Registers /\ prompts' \in Registers /\ rows \in SUBSET Rows
        /\ rows' \in SUBSET Rows /\ position \in Nat
    BY <1>0 DEF Typed
  <2> QED BY <2>1, RegisterFacts, RowUids
<1>2. batch # NoUid => batch \in Uids
  BY <1>0 DEF Typed
<1> SUFFICES /\ \A u \in DOMAIN prompts' : Issued(u)'
             /\ \A r \in rows' : Issued(r.uid)'
             /\ batch' # NoUid => Issued(batch)' /\ batch' \notin DOMAIN prompts'
  <2>1. KnownOnDisk'
    BY KnownOnDiskStep
  <2>2. (batch' # NoUid => Issued(batch)') <=> (batch # NoUid => Issued(batch))'
    OBVIOUS
  <2> QED BY <2>1 DEF Known, KnownOnDisk
<1>3. ASSUME life' = life, position' >= position,
             \A u \in DOMAIN prompts' : u \in DOMAIN prompts \/ Issued(u)',
             \A r \in rows' : r \in rows \/ r.uid \in DOMAIN prompts,
             batch' = NoUid \/ batch' = batch \/ batch' \in DOMAIN prompts
      PROVE  /\ \A u \in DOMAIN prompts' : Issued(u)'
             /\ \A r \in rows' : Issued(r.uid)'
             /\ batch' # NoUid => (Issued(batch))'
  <2>1. \A u \in DOMAIN prompts : Issued(u)'
    BY <1>0, <1>1, <1>3, IssuedKept DEF Known
  <2>2. \A r \in rows' : Issued(r.uid)'
    BY <1>0, <1>1, <1>3, <2>1, IssuedKept DEF Known
  <2>3. ASSUME batch' # NoUid
        PROVE  (Issued(batch))'
    <3>1. PICK b : b = batch'
      OBVIOUS
    <3>2. Issued(b)'
      <4>1. CASE batch' = batch
        BY <1>0, <1>2, <1>3, <2>3, <3>1, <4>1, IssuedKept DEF Known
      <4>2. CASE batch' \in DOMAIN prompts
        BY <2>1, <3>1, <4>2
      <4> QED BY <1>3, <2>3, <4>1, <4>2
    <3>3. Issued(b)' <=> b[1] <= life' /\ (b[1] = life' => b[2] <= position')
      BY DEF Issued
    <3>4. (Issued(batch))' <=> batch'[1] <= life' /\ (batch'[1] = life' => batch'[2] <= position')
      BY DEF Issued
    <3> QED BY <3>1, <3>2, <3>3, <3>4
  <2> QED BY <1>3, <2>1, <2>2, <2>3
<1>4. batch' = NoUid => (batch' # NoUid => (Issued(batch))' /\ batch' \notin DOMAIN prompts')
  OBVIOUS
<1>5. position >= position
  BY <1>1
<1>6. CASE UNCHANGED vars
  BY <1>0, <1>3, <1>5, <1>6 DEF vars, trainer, queue, Known
<1>7. CASE \E u \in DOMAIN rollouts : RolledOn(u)
  <2>1. PICK u \in DOMAIN rollouts : RolledOn(u)
    BY <1>7
  <2>2. /\ UNCHANGED <<life, position, batch>> /\ DOMAIN prompts' = DOMAIN prompts
        /\ \A r \in rows' : r \in rows \/ r.uid \in DOMAIN prompts
    BY <1>0, <2>1 DEF RolledOn, trainer, Typed
  <2> QED BY <1>0, <1>3, <1>5, <2>2 DEF Known
<1>8. CASE Reissued
  <2>1. /\ UNCHANGED <<life, position, batch>> /\ DOMAIN prompts' = DOMAIN prompts
        /\ rows' \subseteq rows
    BY <1>8 DEF Reissued, trainer
  <2> QED BY <1>0, <1>3, <1>5, <2>1 DEF Known
<1>9. CASE Standing /\ (WarmsUp \/ AddsBatch \/ \E u \in DOMAIN prompts : Refills(u))
  <2>1. PICK n, q : n \in Nat /\ SubmitsMore(n, q) /\ DOMAIN q \subseteq DOMAIN prompts
                    /\ pc' \in {"submit", "sample", "done"}
    <3>1. CASE WarmsUp
      BY <3>1, BoundsAssumption DEF WarmsUp
    <3>2. CASE AddsBatch
      BY <3>2 DEF AddsBatch
    <3>3. CASE \E u \in DOMAIN prompts : Refills(u)
      BY <1>0, <3>3, WithoutEffects DEF Refills
    <3> QED BY <1>9, <3>1, <3>2, <3>3
  <2>2. position' = position + n /\ DOMAIN prompts' = NewUids(n) \cup DOMAIN q
    BY <2>1 DEF SubmitsMore
  <2>3. UNCHANGED <<life, rows, batch>>
    BY <1>9 DEF Standing
  <2>4. batch' = NoUid
    BY <2>1 DEF Staged, Sampled, Saving
  <2>5. \A u \in NewUids(n) : Issued(u)'
    <3>1. \A u \in NewUids(n) : u[1] = life /\ u[2] <= position + n
      BY <1>0, <2>1, NewUidsFacts
    <3>2. life \in Nat
      BY <1>0, BoundsAssumption DEF Typed
    <3> QED BY <2>2, <2>3, <3>1, <3>2 DEF Issued
  <2>6. position' >= position
    BY <1>1, <2>1, <2>2
  <2> QED BY <1>3, <1>4, <2>1, <2>2, <2>3, <2>4, <2>5, <2>6
<1>10. CASE \E u \in DOMAIN prompts : SamplesOne(u)
  <2>1. PICK u \in DOMAIN prompts : SamplesOne(u)
    BY <1>10
  <2>2. /\ UNCHANGED <<life, position, rows>> /\ DOMAIN prompts' = DOMAIN prompts \ {u}
        /\ batch' = u
    BY <1>0, <2>1, WithoutEffects DEF SamplesOne
  <2> QED BY <1>3, <1>5, <2>2
<1>11. CASE UpdatePolicies
  BY <1>0, <1>3, <1>5, <1>11 DEF UpdatePolicies, queue, Known
<1>12. CASE ClearBatch
  <2>1. /\ UNCHANGED <<life, position, prompts>> /\ rows' \subseteq rows /\ batch' = NoUid
    BY <1>12 DEF ClearBatch
  <2> QED BY <1>3, <1>5, <2>1
<1>13. CASE Still
  BY <1>0, <1>3, <1>5, <1>13 DEF Still, trainer, queue, Known
<1>14. CASE Crash
  BY <1>14 DEF Crash
<1>15. CASE StartFromScratch
  <2>1. UNCHANGED <<life, position, batch, prompts, rows>>
    BY <1>15 DEF StartFromScratch, queue
  <2> QED BY <1>0, <1>3, <1>5, <2>1 DEF Known
<1>16. CASE \E s \in Steps : Load(s)
  <2>1. PICK s \in Steps : Load(s)
    BY <1>16
  <2>2. /\ Resumes(s)
        /\ \/ /\ Has(disk[s].queue)
              /\ prompts' = disk[s].queue.value.prompts /\ rows' = disk[s].queue.value.rows
           \/ ~Has(disk[s].queue) /\ prompts' = <<>> /\ rows' = {}
    BY <1>0, <2>1, ResumeStep
  <2>3. pc \in Idle /\ life' = life /\ batch' = NoUid
    BY <1>0, <2>2 DEF Resumes, Idle, Staged, Sampled, Saving
  <2>4. /\ \A u \in DOMAIN prompts' : Issued(u) /\ Former(u)
        /\ \A r \in rows' : Issued(r.uid) /\ Former(r.uid)
    BY <1>0, <2>2, <2>3 DEF Known
  <2> QED BY <1>0, <1>1, <2>3, <2>4, IssuedKept
<1> QED BY <1>0, <1>6, <1>7, <1>8, <1>9, <1>10, <1>11, <1>12, <1>13, <1>14, <1>15, <1>16 DEF Action

-----------------------------------------------------------------------------
(* The records of the queue. *)

RecordedOnDisk ==
  \A s \in Steps : Has(disk[s].queue) =>
    \A u \in DOMAIN disk[s].queue.value.prompts :
      disk[s].queue.value.prompts[u] = "finished" => HasRow(u, disk[s].queue.value.rows)


(* What becomes of the queues on disk in a step of the trainer.            *)
LEMMA QueuesOnDisk ==
  ASSUME TrainInv, Action, NEW s \in Steps
  PROVE  \/ disk'[s].queue = disk[s].queue
         \/ ~Has(disk'[s].queue)
         \/ /\ disk'[s].queue.value.prompts = prompts /\ disk'[s].queue.value.rows = rows
            /\ life' = life /\ pc \in Saving /\ pc' \notin Idle
<1>1. CASE disk' = disk
  BY <1>1
<1>2. CASE Still /\ Writes /\ step \in Steps /\ saves > 0 /\ pc \in Saving
  <2>1. pc' \notin Idle /\ life' = life
    BY <1>2 DEF Writes, SavesPolicy, SavesData, SavesQueue, SavesManifest, SavesTracker,
                Prunes, Idle, Still
  <2>2. CASE \E p \in Policies : SavesPolicy(p)
    BY <2>2 DEF SavesPolicy, StoredPolicy, OthersKept
  <2>3. CASE SavesData
    BY <2>3 DEF SavesData, StoredData, OthersKept
  <2>4. CASE SavesQueue
    BY <1>2, <2>1, <2>4 DEF SavesQueue, StoredQueue, OthersKept
  <2>5. CASE SavesManifest
    BY <2>5 DEF SavesManifest, StoredManifest, OthersKept
  <2>6. CASE SavesTracker
    BY <2>6 DEF SavesTracker
  <2>7. CASE Prunes
    BY <2>7 DEF Prunes, NoDirectory, NoPart, Has
  <2> QED BY <1>2, <2>2, <2>3, <2>4, <2>5, <2>6, <2>7 DEF Writes
<1> QED BY <1>1, <1>2
    DEF Action, vars, files, RolledOn, Reissued, Standing, SamplesOne, UpdatePolicies,
        ClearBatch, Crash, StartFromScratch, Load

\* Every step keeps the records of the prompts that finished.
LEMMA RecordedStep ==
  ASSUME TrainInv, Typed', Staged', Running', [Next]_vars
  PROVE  Recorded'
<1>0. Typed /\ Staged /\ Running /\ Known /\ Recorded /\ Saved /\ Action
  BY NextActions DEF TrainInv
<1>1. RecordedOnDisk'
  <2> SUFFICES ASSUME NEW s \in Steps, Has(disk'[s].queue),
                      NEW u \in DOMAIN disk'[s].queue.value.prompts,
                      disk'[s].queue.value.prompts[u] = "finished"
               PROVE  HasRow(u, disk'[s].queue.value.rows)
    BY DEF RecordedOnDisk, HasRow, Has
  <2>1. \/ disk'[s].queue = disk[s].queue
        \/ disk'[s].queue.value.prompts = prompts /\ disk'[s].queue.value.rows = rows
    BY <1>0, QueuesOnDisk
  <2> QED BY <1>0, <2>1 DEF Recorded
<1>2. /\ \A u \in DOMAIN prompts : prompts[u] = "finished" => HasRow(u, rows)
      /\ \A u \in DOMAIN rollouts :
           rollouts[u].at = "writing" /\ rollouts[u].good > 0 => HasRow(u, rows)
      /\ pc \notin Idle => \A r \in rows : r.uid \in InFlight => r.life = life
      /\ pc = "update" => HasRow(batch, rows)
      /\ DOMAIN rollouts \subseteq DOMAIN prompts
  BY <1>0 DEF Recorded, Typed
<1> DEFINE
  Now == /\ \A u \in DOMAIN prompts' : prompts'[u] = "finished" => HasRow(u, rows')
         /\ \A u \in DOMAIN rollouts' :
              rollouts'[u].at = "writing" /\ rollouts'[u].good > 0 => HasRow(u, rows')
         /\ pc' \notin Idle => \A r \in rows' : r.uid \in InFlight' => r.life = life'
         /\ pc' = "update" => HasRow(batch', rows')
<1> SUFFICES Now
  BY <1>1 DEF Recorded, RecordedOnDisk, HasRow
<1>a. InFlight' = {u \in DOMAIN prompts' : prompts'[u] \in {"pending", "running"}}
  BY DEF InFlight
<1>s. Submitted.at = "submitted"
  BY DEF Submitted
<1>3. CASE UNCHANGED vars
  BY <1>2, <1>3, <1>a DEF vars, trainer, queue, InFlight
<1>4. CASE \E u \in DOMAIN rollouts : RolledOn(u)
  <2>1. PICK u \in DOMAIN rollouts : RolledOn(u)
    BY <1>4
  <2>2. /\ pc' = pc /\ life' = life /\ batch' = batch
        /\ DOMAIN prompts' = DOMAIN prompts
        /\ \A v \in DOMAIN prompts : v # u => prompts'[v] = prompts[v]
        /\ \A r \in rows' : r \in rows \/ (r.uid = u /\ r.life = life)
        /\ \A v : HasRow(v, rows) => HasRow(v, rows')
        /\ \A v \in DOMAIN rollouts' : v \in DOMAIN rollouts
        /\ \A v \in DOMAIN rollouts : v # u => rollouts'[v] = rollouts[v]
        /\ GoesOn(u) \/ EndsWithStatus(u) \/ EndsWithout(u)
    BY <2>1 DEF RolledOn, trainer
  <2>3. pc \notin Idle /\ u \in InFlight
    BY <1>0 DEF Staged, Running, InFlight, Typed
  <2>4. \A v \in DOMAIN prompts' : prompts'[v] = "finished" => HasRow(v, rows')
    BY <1>2, <2>2 DEF GoesOn, EndsWithStatus, EndsWithout
  <2>5. \A v \in DOMAIN rollouts' :
          rollouts'[v].at = "writing" /\ rollouts'[v].good > 0 => HasRow(v, rows')
    <3> SUFFICES ASSUME NEW v \in DOMAIN rollouts', rollouts'[v].at = "writing", rollouts'[v].good > 0
                 PROVE  HasRow(v, rows')
      OBVIOUS
    <3>1. CASE v = u
      BY <2>2, <3>1 DEF GoesOn, EndsWithStatus, EndsWithout
    <3>2. CASE v # u
      BY <1>2, <2>2, <3>2
    <3> QED BY <3>1, <3>2
  <2>6. \A v \in InFlight' : v \in InFlight
    BY <1>a, <2>2, <2>3 DEF InFlight
  <2>7. \A r \in rows' : r.uid \in InFlight' => r.life = life'
    BY <1>2, <2>2, <2>3, <2>6
  <2>8. pc' = "update" => HasRow(batch', rows')
    BY <1>2, <2>2
  <2> QED BY <2>4, <2>5, <2>7, <2>8
<1>5. CASE Reissued
  <2>1. /\ pc' = "warmup" /\ DOMAIN prompts' = DOMAIN prompts
        /\ rows' = {r \in rows : r.uid \notin InFlight}
        /\ \A u \in InFlight : prompts'[u] = "pending"
        /\ \A u \in DOMAIN prompts \ InFlight : prompts'[u] = prompts[u]
        /\ \A u \in DOMAIN rollouts' : rollouts'[u] = Submitted
    BY <1>5 DEF Reissued
  <2>2. \A u \in DOMAIN prompts' : prompts'[u] = "finished" => HasRow(u, rows')
    BY <1>2, <2>1 DEF HasRow
  <2>3. InFlight' = InFlight
    BY <1>a, <2>1 DEF InFlight
  <2> QED BY <1>s, <2>1, <2>2, <2>3
<1>6. CASE Standing /\ (WarmsUp \/ AddsBatch \/ \E u \in DOMAIN prompts : Refills(u))
  <2>1. PICK n, q : /\ n \in Nat /\ SubmitsMore(n, q) /\ DOMAIN q \subseteq DOMAIN prompts
                    /\ \A v \in DOMAIN q : q[v] = prompts[v]
                    /\ pc \notin Idle /\ pc' # "update"
    <3>1. CASE WarmsUp
      BY <3>1, BoundsAssumption DEF WarmsUp, Idle
    <3>2. CASE AddsBatch
      BY <3>2 DEF AddsBatch, Idle
    <3>3. CASE \E u \in DOMAIN prompts : Refills(u)
      <4>1. PICK u \in DOMAIN prompts : Refills(u)
        BY <3>3
      <4>2. /\ DOMAIN Without(u) = DOMAIN prompts \ {u}
            /\ \A v \in DOMAIN prompts : v # u => Without(u)[v] = prompts[v]
        BY <1>0, WithoutEffects
      <4>3. SubmitsMore(1, Without(u)) /\ pc = "sample" /\ pc' = "sample"
        BY <4>1 DEF Refills
      <4> QED BY <4>2, <4>3 DEF Idle
    <3> QED BY <1>6, <3>1, <3>2, <3>3
  <2>2. /\ DOMAIN prompts' = NewUids(n) \cup DOMAIN q
        /\ \A u \in NewUids(n) : prompts'[u] = "pending"
        /\ \A u \in DOMAIN q : prompts'[u] = prompts[u]
        /\ DOMAIN rollouts' = NewUids(n) \cup DOMAIN rollouts
        /\ \A u \in NewUids(n) : rollouts'[u] = Submitted
        /\ \A u \in DOMAIN rollouts : rollouts'[u] = rollouts[u]
    BY <2>1 DEF SubmitsMore
  <2>3. rows' = rows /\ life' = life
    BY <1>6 DEF Standing
  <2>4. \A u \in DOMAIN prompts' : prompts'[u] = "finished" => HasRow(u, rows')
    BY <1>2, <2>1, <2>2, <2>3
  <2>5. \A u \in DOMAIN rollouts' :
          rollouts'[u].at = "writing" /\ rollouts'[u].good > 0 => HasRow(u, rows')
    BY <1>2, <1>s, <2>2, <2>3
  <2>6. \A r \in rows : r.uid \notin NewUids(n)
    BY <1>0, <2>1, NewUidsFacts DEF Known
  <2>7. \A r \in rows' : r.uid \in InFlight' => r.life = life'
    BY <1>2, <1>a, <2>1, <2>2, <2>3, <2>6 DEF InFlight
  <2> QED BY <2>1, <2>4, <2>5, <2>7
<1>7. CASE \E u \in DOMAIN prompts : SamplesOne(u)
  <2>1. PICK u \in DOMAIN prompts : SamplesOne(u)
    BY <1>7
  <2>2. /\ DOMAIN Without(u) = DOMAIN prompts \ {u}
        /\ \A v \in DOMAIN prompts : v # u => Without(u)[v] = prompts[v]
    BY <1>0, WithoutEffects
  <2>3. /\ prompts' = Without(u) /\ batch' = u /\ prompts[u] = "finished"
        /\ UNCHANGED <<life, rows, rollouts>> /\ pc \notin Idle
    BY <2>1 DEF SamplesOne, Idle
  <2> QED BY <1>2, <1>a, <2>2, <2>3 DEF InFlight
<1>8. CASE UpdatePolicies
  <2>1. /\ UNCHANGED <<life, prompts, rows, rollouts>> /\ pc \notin Idle /\ pc' # "update"
    BY <1>8 DEF UpdatePolicies, queue, Idle
  <2> QED BY <1>2, <1>a, <2>1 DEF InFlight
<1>9. CASE ClearBatch
  <2>1. /\ rows' = {r \in rows : r.uid # batch} /\ UNCHANGED <<life, prompts, rollouts>>
        /\ pc = "clear" /\ pc' # "update"
    BY <1>9 DEF ClearBatch
  <2>2. batch \notin DOMAIN prompts /\ pc \notin Idle
    BY <1>0, <2>1 DEF Known, Staged, Sampled, Idle
  <2>3. \A u \in DOMAIN prompts : HasRow(u, rows) => HasRow(u, rows')
    BY <2>1, <2>2 DEF HasRow
  <2> QED BY <1>2, <1>a, <2>1, <2>2, <2>3 DEF InFlight
<1>10. CASE Still /\ Writes /\ pc \in Saving
  <2>1. UNCHANGED <<life, prompts, rows, rollouts>>
    BY <1>10 DEF Still, queue
  <2>2. pc' # "update" /\ pc \notin Idle
    BY <1>10 DEF Writes, SavesPolicy, SavesData, SavesQueue, SavesManifest, SavesTracker,
                 Prunes, Idle
  <2> QED BY <1>2, <1>a, <2>1, <2>2 DEF InFlight
<1>11. CASE Crash
  <2>1. prompts' = <<>> /\ rows' = {} /\ rollouts' = <<>> /\ pc' = "down"
    BY <1>11 DEF Crash
  <2> QED BY <2>1
<1>12. CASE StartFromScratch
  <2>1. UNCHANGED <<prompts, rows, rollouts>> /\ pc' = "reissue"
    BY <1>12 DEF StartFromScratch, Begin, queue
  <2> QED BY <1>2, <2>1 DEF Idle
<1>13. CASE \E s \in Steps : Load(s)
  <2>1. PICK s \in Steps : Load(s)
    BY <1>13
  <2>2. /\ Resumes(s)
        /\ \/ /\ Has(disk[s].queue)
              /\ prompts' = disk[s].queue.value.prompts /\ rows' = disk[s].queue.value.rows
           \/ ~Has(disk[s].queue) /\ prompts' = <<>> /\ rows' = {}
    BY <1>0, <2>1, ResumeStep
  <2>3. pc' = "reissue" /\ rollouts' = <<>>
    BY <1>0, <2>2 DEF Resumes, Staged, Idle
  <2>4. \A u \in DOMAIN prompts' : prompts'[u] = "finished" => HasRow(u, rows')
    BY <1>0, <2>2 DEF Recorded
  <2> QED BY <2>3, <2>4 DEF Idle
<1> QED BY <1>0, <1>3, <1>4, <1>5, <1>6, <1>7, <1>8, <1>9, <1>10, <1>11, <1>12, <1>13 DEF Action

-----------------------------------------------------------------------------
(* How many prompts wait, and how many wait for nobody. *)

\* One life more warms up once more.
LEMMA Products ==
  ASSUME NEW a \in Nat, NEW b \in Nat
  PROVE  a * b \in Nat /\ a * (b + 1) \in Nat /\ a * (b + 1) = a * b + a
OBVIOUS

WaitingNow(n) ==
  /\ pc \in Idle \cup {"warmup"} => n <= Warmup * life
  /\ pc \notin Idle \cup {"warmup", "sample"} => Warmup <= n /\ n <= Warmup * (life + 1)
  /\ pc = "sample" => Warmup + 1 <= n /\ n <= Warmup * (life + 1) + 1

\* Every step keeps the bounds on how many prompts wait.
LEMMA WaitingStep ==
  ASSUME TrainInv, Typed', [Next]_vars
  PROVE  WaitingNow(Waiting(prompts))'
<1>0. Typed /\ Staged /\ Counted /\ Saved /\ Action
  BY NextActions DEF TrainInv
<1>1. Waiting(prompts) \in Nat /\ Waiting(prompts') \in Nat
  BY <1>0, RegisterFacts DEF Typed
<1>2. PICK n : n = Waiting(prompts)
  OBVIOUS
<1>3. PICK m : m = Waiting(prompts')
  OBVIOUS
<1>4. n \in Nat /\ m \in Nat /\ life \in Nat /\ Warmup \in Nat
  BY <1>0, <1>1, <1>2, <1>3, BoundsAssumption DEF Typed
<1>5. PICK most : most = Warmup * life
  OBVIOUS
<1>6. most \in Nat /\ Warmup * (life + 1) = most + Warmup
  BY <1>4, <1>5
<1>7. /\ pc \in Idle \cup {"warmup"} => n <= most
      /\ pc \notin Idle \cup {"warmup", "sample"} => Warmup <= n /\ n <= most + Warmup
      /\ pc = "sample" => Warmup + 1 <= n /\ n <= most + Warmup + 1
  BY <1>0, <1>2, <1>5, <1>6 DEF Counted
<1> DEFINE
  Goal == /\ pc' \in Idle \cup {"warmup"} => m <= Warmup * life'
          /\ pc' \notin Idle \cup {"warmup", "sample"} => Warmup <= m /\ m <= Warmup * (life' + 1)
          /\ pc' = "sample" => Warmup + 1 <= m /\ m <= Warmup * (life' + 1) + 1
<1> SUFFICES Goal
  <2>1. Waiting(prompts') = Waiting(prompts)'
    BY DEF Waiting
  <2> QED BY <1>3, <2>1 DEF WaitingNow, Waiting
<1>8. ASSUME life' = life,
             /\ pc' \in Idle \cup {"warmup"} => m <= most
             /\ pc' \notin Idle \cup {"warmup", "sample"} => Warmup <= m /\ m <= most + Warmup
             /\ pc' = "sample" => Warmup + 1 <= m /\ m <= most + Warmup + 1
      PROVE  Goal
  BY <1>5, <1>6, <1>8
<1> HIDE DEF Goal
<1>9. ASSUME life' = life, m = n, pc' = pc
      PROVE  Goal
  BY <1>7, <1>8, <1>9
<1>10. ASSUME life' = life, m = n, pc \notin Idle \cup {"warmup", "sample"},
              pc' \notin Idle \cup {"warmup", "sample"}
       PROVE  Goal
  BY <1>7, <1>8, <1>10
<1>11. CASE UNCHANGED vars
  BY <1>2, <1>3, <1>9, <1>11 DEF vars, queue
<1>12. CASE \E u \in DOMAIN rollouts : RolledOn(u)
  BY <1>2, <1>3, <1>9, <1>12 DEF RolledOn, Waiting
<1>13. CASE Reissued
  <2>1. m = n /\ life' = life /\ pc = "reissue" /\ pc' = "warmup"
    BY <1>2, <1>3, <1>13 DEF Reissued, Waiting
  <2> QED BY <1>7, <1>8, <2>1 DEF Idle
<1>14. CASE Standing /\ WarmsUp
  <2>1. m = n + Warmup /\ life' = life /\ pc = "warmup" /\ pc' \in {"done", "submit"}
    BY <1>2, <1>3, <1>14 DEF Standing, WarmsUp, SubmitsMore
  <2>2. Warmup <= m /\ m <= most + Warmup
    BY <1>4, <1>6, <1>7, <2>1
  <2> QED BY <1>8, <2>1, <2>2 DEF Idle
<1>15. CASE Standing /\ AddsBatch
  <2>1. m = n + 1 /\ life' = life /\ pc = "submit" /\ pc' = "sample"
    BY <1>2, <1>3, <1>15 DEF Standing, AddsBatch, SubmitsMore
  <2>2. Warmup + 1 <= m /\ m <= most + Warmup + 1
    BY <1>4, <1>6, <1>7, <2>1 DEF Idle
  <2> QED BY <1>8, <2>1, <2>2 DEF Idle
<1>16. CASE Standing /\ \E u \in DOMAIN prompts : Refills(u)
  <2>1. PICK u \in DOMAIN prompts : Refills(u)
    BY <1>16
  <2>2. Waiting(Without(u)) = n - 1
    BY <1>0, <1>2, WithoutEffects
  <2>3. m = Waiting(Without(u)) + 1
    BY <1>3, <2>1 DEF Refills, SubmitsMore
  <2>4. m = n /\ life' = life /\ pc' = pc
    BY <1>4, <1>16, <2>1, <2>2, <2>3 DEF Standing, Refills
  <2> QED BY <1>9, <2>4
<1>17. CASE \E u \in DOMAIN prompts : SamplesOne(u)
  <2>1. PICK u \in DOMAIN prompts : SamplesOne(u)
    BY <1>17
  <2>2. Waiting(Without(u)) = n - 1
    BY <1>0, <1>2, WithoutEffects
  <2>3. m = n - 1 /\ life' = life /\ pc = "sample" /\ pc' = "update"
    BY <1>3, <2>1, <2>2 DEF SamplesOne
  <2>4. Warmup <= m /\ m <= most + Warmup
    BY <1>4, <1>6, <1>7, <2>3
  <2> QED BY <1>8, <2>3, <2>4 DEF Idle
<1>18. CASE UpdatePolicies \/ ClearBatch
  <2>1. m = n /\ life' = life
    BY <1>2, <1>3, <1>18 DEF UpdatePolicies, ClearBatch, queue
  <2>2. pc \in {"update", "clear"} /\ pc' \in {"save", "clear", "submit", "done"}
    BY <1>18 DEF UpdatePolicies, ClearBatch
  <2> QED BY <1>10, <2>1, <2>2 DEF Idle
<1>19. CASE Still /\ Writes /\ pc \in Saving
  <2>1. m = n /\ life' = life
    BY <1>2, <1>3, <1>19 DEF Still, queue
  <2>2. pc' \in Saving \cup {"clear"}
    BY <1>19 DEF Writes, SavesPolicy, SavesData, SavesQueue, SavesManifest, SavesTracker,
                 Prunes, Saving
  <2> QED BY <1>10, <1>19, <2>1, <2>2 DEF Idle, Saving
<1>20. CASE Crash
  <2>1. m = 0
    BY <1>3, <1>20, FS_EmptySet DEF Crash, Waiting
  <2>2. life' \in Nat /\ pc' = "down"
    BY <1>4, <1>20 DEF Crash
  <2>3. PICK x : x = Warmup * life'
    OBVIOUS
  <2>4. x \in Nat
    BY <1>4, <2>2, <2>3, Products
  <2>5. 0 <= x
    BY <2>4
  <2> QED BY <2>1, <2>2, <2>3, <2>5 DEF Goal, Idle
<1>21. CASE StartFromScratch
  <2>1. m = n /\ life' = life /\ pc = "down" /\ pc' = "reissue"
    BY <1>2, <1>3, <1>21 DEF StartFromScratch, Begin, queue
  <2> QED BY <1>7, <1>8, <2>1 DEF Idle
<1>22. CASE \E s \in Steps : Load(s)
  <2>1. PICK s \in Steps : Load(s)
    BY <1>22
  <2>2. /\ Resumes(s)
        /\ \/ Has(disk[s].queue) /\ prompts' = disk[s].queue.value.prompts
           \/ prompts' = <<>>
    BY <1>0, <2>1, ResumeStep
  <2>3. pc = "down" /\ pc' = "reissue" /\ life' = life
    BY <2>2 DEF Resumes
  <2>4. m <= most
    <3>1. CASE Has(disk[s].queue) /\ prompts' = disk[s].queue.value.prompts
      BY <1>0, <1>3, <1>5, <2>3, <3>1 DEF Counted, Idle
    <3>2. CASE prompts' = <<>>
      BY <1>3, <1>6, <3>2, FS_EmptySet DEF Waiting
    <3> QED BY <2>2, <3>1, <3>2
  <2> QED BY <1>8, <2>3, <2>4 DEF Idle
<1> QED BY <1>0, <1>11, <1>12, <1>13, <1>14, <1>15, <1>16, <1>17, <1>18, <1>19, <1>20, <1>21,
           <1>22 DEF Action

WaitingOnDisk ==
  \A s \in Steps : Has(disk[s].queue) =>
    /\ Waiting(disk[s].queue.value.prompts) <= Warmup * (life + 1)
    /\ pc \in Idle => Waiting(disk[s].queue.value.prompts) <= Warmup * life

\* Every step keeps them for the registers on disk.
LEMMA WaitingOnDiskStep ==
  ASSUME TrainInv, Typed', [Next]_vars
  PROVE  WaitingOnDisk'
<1>0. Typed /\ Staged /\ Counted /\ Saved /\ Action
  BY NextActions DEF TrainInv
<1>1. life \in Nat /\ life' \in Nat /\ Warmup \in Nat
  BY <1>0, BoundsAssumption DEF Typed
<1>2. \/ life' = life /\ (pc' \in Idle => pc \in Idle)
      \/ life' = life + 1
  <2>1. Still /\ Writes => life' = life /\ pc' \notin Idle
    BY DEF Still, Writes, SavesPolicy, SavesData, SavesQueue, SavesManifest, SavesTracker,
           Prunes, Idle
  <2>2. UpdatePolicies \/ ClearBatch => life' = life /\ pc' \notin Idle
    BY DEF UpdatePolicies, ClearBatch, Idle
  <2>3. Standing /\ (WarmsUp \/ AddsBatch \/ \E u \in DOMAIN prompts : Refills(u))
          => life' = life /\ pc' \notin Idle
    BY DEF Standing, WarmsUp, AddsBatch, Refills, Idle
  <2>4. StartFromScratch \/ (\E s \in Steps : Load(s)) => life' = life /\ pc \in Idle
    BY DEF StartFromScratch, Load, Begin, Idle
  <2>5. UNCHANGED vars \/ (\E u \in DOMAIN rollouts : RolledOn(u)) => life' = life /\ pc' = pc
    BY DEF vars, RolledOn
  <2>6. Reissued \/ (\E u \in DOMAIN prompts : SamplesOne(u)) => life' = life /\ pc' \notin Idle
    BY DEF Reissued, SamplesOne, Idle
  <2>7. Crash => life' = life + 1
    BY DEF Crash
  <2> QED BY <1>0, <2>1, <2>2, <2>3, <2>4, <2>5, <2>6, <2>7 DEF Action
<1> SUFFICES ASSUME NEW s \in Steps, Has(disk'[s].queue)
             PROVE  /\ Waiting(disk'[s].queue.value.prompts) <= Warmup * (life' + 1)
                    /\ pc' \in Idle =>
                         Waiting(disk'[s].queue.value.prompts) <= Warmup * life'
  BY DEF WaitingOnDisk, Waiting, Has
<1>3. PICK m : m = Waiting(disk'[s].queue.value.prompts)
  OBVIOUS
<1>4. CASE disk'[s].queue = disk[s].queue
  <2>1. m = Waiting(disk[s].queue.value.prompts) /\ Has(disk[s].queue)
    BY <1>3, <1>4
  <2>2. m \in Nat
    BY <1>0, <2>1, PartTypes, RegisterFacts
  <2>3. m <= Warmup * (life + 1) /\ (pc \in Idle => m <= Warmup * life)
    BY <1>0, <2>1 DEF Counted
  <2>4. CASE life' = life /\ (pc' \in Idle => pc \in Idle)
    BY <1>3, <2>3, <2>4
  <2>5. CASE life' = life + 1
    <3>1. m <= Warmup * life'
      BY <2>3, <2>5
    <3>2. /\ Warmup * life' \in Nat /\ Warmup * (life' + 1) \in Nat
          /\ Warmup * (life' + 1) = Warmup * life' + Warmup
      BY <1>1, Products
    <3>3. PICK x : x = Warmup * life'
      OBVIOUS
    <3>4. PICK y : y = Warmup * (life' + 1)
      OBVIOUS
    <3>5. x \in Nat /\ y = x + Warmup /\ m <= x
      BY <3>1, <3>2, <3>3, <3>4
    <3>6. m <= y
      BY <1>1, <2>2, <3>5
    <3> QED BY <1>3, <3>1, <3>4, <3>6
  <2> QED BY <1>2, <2>4, <2>5
<1>5. CASE disk'[s].queue.value.prompts = prompts /\ life' = life /\ pc \in Saving /\ pc' \notin Idle
  BY <1>0, <1>5 DEF Counted, Saving, Idle
<1> QED BY <1>0, <1>4, <1>5, QueuesOnDisk

(* A prompt in flight without a rollout was left by one that raised.       *)
LEMMA AbandonedStep ==
  ASSUME TrainInv, Typed', [Next]_vars
  PROVE  pc' \notin Idle =>
           IF life' = 0 THEN Cardinality(Abandoned') <= stuck' ELSE Abandoned' = {}
<1>0. Typed /\ Staged /\ Running /\ Counted /\ Action
  BY NextActions DEF TrainInv
<1> SUFFICES ASSUME pc' \notin Idle
             PROVE  IF life' = 0 THEN Cardinality(Abandoned') <= stuck' ELSE Abandoned' = {}
  OBVIOUS
<1>1. Abandoned' = {u \in DOMAIN prompts' : prompts'[u] \in {"pending", "running"} /\ u \notin DOMAIN rollouts'}
  BY DEF Abandoned, InFlight
<1>2. Abandoned = {u \in DOMAIN prompts : prompts[u] \in {"pending", "running"} /\ u \notin DOMAIN rollouts}
  BY DEF Abandoned, InFlight
<1>3. IsFiniteSet(Abandoned) /\ Cardinality(Abandoned) \in Nat
  <2>1. IsFiniteSet(DOMAIN prompts)
    BY <1>0, RegisterFacts DEF Typed
  <2>2. Abandoned \in SUBSET DOMAIN prompts
    BY <1>2
  <2> QED BY <2>1, <2>2, FS_Subset, FS_CardinalityType
<1>4. pc \notin Idle => IF life = 0 THEN Cardinality(Abandoned) <= stuck ELSE Abandoned = {}
  BY <1>0 DEF Counted
<1>5. ASSUME pc \notin Idle, life' = life, stuck' = stuck, \A u \in Abandoned' : u \in Abandoned
      PROVE  IF life' = 0 THEN Cardinality(Abandoned') <= stuck' ELSE Abandoned' = {}
  <2>1. PICK S : S = Abandoned'
    OBVIOUS
  <2>2. S \in SUBSET Abandoned
    BY <1>5, <2>1
  <2>3. Cardinality(S) <= Cardinality(Abandoned) /\ Cardinality(S) \in Nat
    BY <1>3, <2>2, FS_Subset, FS_CardinalityType
  <2>4. stuck \in Nat
    BY <1>0 DEF Typed
  <2>5. CASE life = 0
    BY <1>3, <1>4, <1>5, <2>1, <2>3, <2>4, <2>5
  <2>6. CASE life # 0
    BY <1>4, <1>5, <2>1, <2>2, <2>6
  <2> QED BY <2>5, <2>6
<1>6. CASE UNCHANGED vars
  BY <1>1, <1>2, <1>5, <1>6 DEF vars, queue, budget
<1>7. CASE \E u \in DOMAIN rollouts : RolledOn(u)
  <2>1. PICK u \in DOMAIN rollouts : RolledOn(u)
    BY <1>7
  <2>2. /\ pc \notin Idle /\ life' = life
        /\ DOMAIN prompts' = DOMAIN prompts
        /\ \A v \in DOMAIN prompts : v # u => prompts'[v] = prompts[v]
        /\ \A v \in DOMAIN rollouts : v # u => v \in DOMAIN rollouts'
        /\ GoesOn(u) \/ EndsWithStatus(u) \/ EndsWithout(u)
    BY <1>0, <2>1 DEF RolledOn, Staged
  <2>3. \A v \in Abandoned' : v # u => v \in Abandoned
    BY <1>1, <1>2, <2>2
  <2>4. CASE GoesOn(u) \/ EndsWithStatus(u)
    <3>1. u \notin Abandoned' /\ stuck' = stuck
      BY <1>1, <2>4 DEF GoesOn, EndsWithStatus
    <3> QED BY <1>5, <2>2, <2>3, <3>1
  <2>5. CASE EndsWithout(u)
    <3>1. life = 0 /\ stuck' = stuck + 1
      BY <2>5 DEF EndsWithout
    <3>2. PICK S : S = Abandoned'
      OBVIOUS
    <3>3. S \in SUBSET (Abandoned \cup {u})
      BY <2>3, <3>2
    <3>4. /\ IsFiniteSet(Abandoned \cup {u})
          /\ Cardinality(Abandoned \cup {u}) \in Nat
          /\ Cardinality(Abandoned \cup {u}) <= Cardinality(Abandoned) + 1
      <4>1. /\ IsFiniteSet(Abandoned \cup {u})
            /\ Cardinality(Abandoned \cup {u}) =
                 IF u \in Abandoned THEN Cardinality(Abandoned) ELSE Cardinality(Abandoned) + 1
        BY <1>3, FS_AddElement
      <4>2. Cardinality(Abandoned \cup {u}) \in Nat
        BY <4>1, FS_CardinalityType
      <4> QED BY <1>3, <4>1, <4>2
    <3>5. Cardinality(S) <= Cardinality(Abandoned \cup {u}) /\ Cardinality(S) \in Nat
      BY <3>3, <3>4, FS_Subset, FS_CardinalityType
    <3>6. stuck \in Nat /\ Cardinality(Abandoned) <= stuck
      BY <1>0, <1>4, <2>2, <3>1 DEF Typed
    <3>7. Cardinality(S) <= stuck + 1
      BY <1>3, <3>4, <3>5, <3>6
    <3> QED BY <2>2, <3>1, <3>2, <3>7
  <2> QED BY <2>2, <2>4, <2>5
<1>8. CASE Reissued
  <2>1. /\ DOMAIN prompts' = DOMAIN prompts
        /\ \A u \in DOMAIN prompts \ InFlight : prompts'[u] = prompts[u]
        /\ DOMAIN rollouts' = InFlight /\ stuck' = stuck
    BY <1>8 DEF Reissued, budget
  <2>2. Abandoned' = {}
    BY <1>1, <2>1 DEF InFlight
  <2>3. stuck' \in Nat
    BY <1>0, <2>1 DEF Typed
  <2>4. PICK S : S = Abandoned'
    OBVIOUS
  <2>5. Cardinality(S) = 0
    BY <2>2, <2>4, FS_EmptySet
  <2> QED BY <2>2, <2>3, <2>4, <2>5
<1>9. CASE Standing /\ (WarmsUp \/ AddsBatch \/ \E u \in DOMAIN prompts : Refills(u))
  <2>1. PICK n, q : /\ n \in Nat /\ SubmitsMore(n, q) /\ DOMAIN q \subseteq DOMAIN prompts
                    /\ \A v \in DOMAIN q : q[v] = prompts[v]
                    /\ pc \notin Idle
    <3>1. CASE WarmsUp
      BY <3>1, BoundsAssumption DEF WarmsUp, Idle
    <3>2. CASE AddsBatch
      BY <3>2 DEF AddsBatch, Idle
    <3>3. CASE \E u \in DOMAIN prompts : Refills(u)
      <4>1. PICK u \in DOMAIN prompts : Refills(u)
        BY <3>3
      <4>2. /\ DOMAIN Without(u) = DOMAIN prompts \ {u}
            /\ \A v \in DOMAIN prompts : v # u => Without(u)[v] = prompts[v]
        BY <1>0, WithoutEffects
      <4>3. SubmitsMore(1, Without(u)) /\ pc = "sample"
        BY <4>1 DEF Refills
      <4> QED BY <4>2, <4>3 DEF Idle
    <3> QED BY <1>9, <3>1, <3>2, <3>3
  <2>2. /\ DOMAIN prompts' = NewUids(n) \cup DOMAIN q
        /\ \A u \in DOMAIN q : prompts'[u] = prompts[u]
        /\ DOMAIN rollouts' = NewUids(n) \cup DOMAIN rollouts
    BY <2>1 DEF SubmitsMore
  <2>3. \A u \in Abandoned' : u \in Abandoned
    BY <1>1, <1>2, <2>1, <2>2
  <2>4. life' = life /\ stuck' = stuck
    BY <1>9 DEF Standing, budget
  <2> QED BY <1>5, <2>1, <2>3, <2>4
<1>10. CASE \E u \in DOMAIN prompts : SamplesOne(u)
  <2>1. PICK u \in DOMAIN prompts : SamplesOne(u)
    BY <1>10
  <2>2. /\ DOMAIN Without(u) = DOMAIN prompts \ {u}
        /\ \A v \in DOMAIN prompts : v # u => Without(u)[v] = prompts[v]
    BY <1>0, WithoutEffects
  <2>3. /\ prompts' = Without(u) /\ pc = "sample"
        /\ UNCHANGED <<life, rollouts, stuck>>
    BY <2>1 DEF SamplesOne, budget
  <2>4. \A v \in Abandoned' : v \in Abandoned
    BY <1>1, <1>2, <2>2, <2>3
  <2> QED BY <1>5, <2>3, <2>4 DEF Idle
<1>11. CASE UpdatePolicies \/ ClearBatch
  <2>1. pc \notin Idle /\ UNCHANGED <<life, stuck, prompts, rollouts>>
    BY <1>11 DEF UpdatePolicies, ClearBatch, Idle, queue, budget
  <2> QED BY <1>1, <1>2, <1>5, <2>1
<1>12. CASE Still /\ Writes /\ pc \in Saving
  <2>1. pc \notin Idle /\ UNCHANGED <<life, stuck, prompts, rollouts>>
    BY <1>12 DEF Still, Idle, Saving, queue, budget
  <2> QED BY <1>1, <1>2, <1>5, <2>1
<1>13. CASE Crash \/ StartFromScratch \/ \E s \in Steps : Load(s)
  BY <1>13 DEF Crash, StartFromScratch, Load, Begin, Idle
<1> QED BY <1>0, <1>6, <1>7, <1>8, <1>9, <1>10, <1>11, <1>12, <1>13 DEF Action

\* Every step keeps the counts.
LEMMA CountedStep ==
  ASSUME TrainInv, Typed', [Next]_vars
  PROVE  Counted'
<1>1. WaitingNow(Waiting(prompts))' /\ WaitingOnDisk'
  BY WaitingStep, WaitingOnDiskStep
<1>2. (pc \notin Idle =>
         IF life = 0 THEN Cardinality(Abandoned) <= stuck ELSE Abandoned = {})'
  BY AbandonedStep
<1> QED BY <1>1, <1>2 DEF Counted, WaitingNow, WaitingOnDisk

-----------------------------------------------------------------------------
(* Weights, dataloader and queue fit together. *)

(* The prompts that are charged to a failure are among those handed out.   *)
LEMMA ChargedFinite ==
  ASSUME Typed, Fits(trained, position, prompts)
  PROVE  IsFiniteSet(Charged) /\ Cardinality(Charged) \in Nat
<1>1. position \in Nat /\ DOMAIN rollouts \subseteq DOMAIN prompts /\ prompts \in Registers
  BY DEF Typed
<1>2. \A u \in DOMAIN prompts : u[2] \in 1..position
  <2>1. \A u \in DOMAIN prompts : u \in Uids
    BY <1>1, RegisterFacts
  <2>2. \A u \in Uids : u[2] \in Nat \ {0}
    BY DEF Uids, Positions
  <2> QED BY <1>1, <2>1, <2>2 DEF Fits
<1>3. Charged \in SUBSET (1..position)
  BY <1>1, <1>2 DEF Charged, Missing, PositionsOf, Failed, Failing
<1>4. IsFiniteSet(1..position)
  BY <1>1, FS_Interval
<1> QED BY <1>3, <1>4, FS_Subset, FS_CardinalityType

\* No more prompts are charged to failures than there were failures.
LEMMA ChargedLess ==
  ASSUME Typed, Coherent, NEW S \in SUBSET Charged
  PROVE  IsFiniteSet(S) /\ Cardinality(S) <= failures /\ Cardinality(S) \in Nat
<1>1. IsFiniteSet(Charged) /\ Cardinality(Charged) \in Nat
  BY ChargedFinite DEF Coherent
<1>2. Cardinality(S) <= Cardinality(Charged) /\ IsFiniteSet(S)
  BY <1>1, FS_Subset
<1>3. Cardinality(S) \in Nat
  BY <1>2, FS_CardinalityType
<1>4. Cardinality(Charged) <= failures /\ failures \in Nat
  BY DEF Coherent, Typed
<1> QED BY <1>1, <1>2, <1>3, <1>4

\* The positions that are missing, one by one.
LEMMA MissingIs ==
  \A i : i \in Missing <=>
    /\ i \in 1..position /\ \A p \in Policies : i \notin trained[p]
    /\ batch[2] # i /\ \A u \in DOMAIN prompts : u[2] # i
BY DEF Missing

\* The positions that are charged, one by one.
LEMMA ChargedIs ==
  \A i : i \in Charged <=>
    \/ i \in Missing
    \/ \E u \in DOMAIN prompts : prompts[u] = "failure" /\ u[2] = i
    \/ \E u \in DOMAIN rollouts : rollouts[u].at = "writing"
         /\ rollouts[u].good < rollouts[u].next - 1 /\ u[2] = i
BY DEF Charged, PositionsOf, Failed, Failing

(* The rest of Coherent, without the charges.                              *)
Matched ==
  /\ Fits(trained, position, prompts)
  /\ batch # NoUid =>
       /\ batch[2] <= position /\ \A u \in DOMAIN prompts : u[2] # batch[2]
       /\ \A p \in Policies : batch[2] \in trained[p] <=> pc # "update"

(* A step of a rollout: nothing but the charges can change, and one that   *)
(* charges another prompt is counted.                                      *)
LEMMA CoherentRolls ==
  ASSUME Typed, Typed', Coherent, NEW u \in DOMAIN rollouts, RolledOn(u)
  PROVE  Coherent' /\ failures' >= failures
<1>1. /\ UNCHANGED <<pc, trained, position, batch>>
      /\ DOMAIN prompts' = DOMAIN prompts
      /\ \A v \in DOMAIN prompts : v # u => prompts'[v] = prompts[v]
      /\ \A v \in DOMAIN rollouts' : v \in DOMAIN rollouts
      /\ \A v \in DOMAIN rollouts : v # u => rollouts'[v] = rollouts[v]
      /\ GoesOn(u) \/ EndsWithStatus(u) \/ EndsWithout(u)
  BY DEF RolledOn, trainer
<1>2. Matched'
  BY <1>1 DEF Coherent, Matched, Fits
<1>3. failures \in Nat /\ u \in DOMAIN prompts
  BY DEF Typed
<1>4. \A i : i \in Missing' => i \in Missing
  BY <1>1 DEF Missing
<1>5. \A i \in Charged' : i \in Charged \/ i = u[2]
  <2> SUFFICES ASSUME NEW i \in Charged'
               PROVE  i \in Charged \/ i = u[2]
    OBVIOUS
  <2>1. CASE i \in Missing'
    BY <1>4, <2>1, ChargedIs
  <2>2. CASE \E v \in DOMAIN prompts' : prompts'[v] = "failure" /\ v[2] = i
    BY <1>1, <2>2, ChargedIs
  <2>3. CASE \E v \in DOMAIN rollouts' : rollouts'[v].at = "writing"
               /\ rollouts'[v].good < rollouts'[v].next - 1 /\ v[2] = i
    <3>1. PICK v \in DOMAIN rollouts' : rollouts'[v].at = "writing"
                 /\ rollouts'[v].good < rollouts'[v].next - 1 /\ v[2] = i
      BY <2>3
    <3>2. CASE v # u
      BY <1>1, <3>1, <3>2, ChargedIs
    <3>3. CASE v = u
      BY <3>1, <3>3
    <3> QED BY <3>2, <3>3
  <2>4. \/ i \in Missing'
        \/ \E v \in DOMAIN prompts' : prompts'[v] = "failure" /\ v[2] = i
        \/ \E v \in DOMAIN rollouts' : rollouts'[v].at = "writing"
             /\ rollouts'[v].good < rollouts'[v].next - 1 /\ v[2] = i
    BY DEF Charged, PositionsOf, Failed, Failing
  <2> QED BY <2>1, <2>2, <2>3, <2>4
<1>6. PICK S : S = Charged'
  OBVIOUS
<1>7. CASE failures' = failures + 1
  <2>1. S \in SUBSET (Charged \cup {u[2]})
    BY <1>5, <1>6
  <2>2. IsFiniteSet(Charged) /\ Cardinality(Charged) <= failures /\ Cardinality(Charged) \in Nat
    BY ChargedLess
  <2>3. PICK T : T = Charged
    OBVIOUS
  <2>4. /\ IsFiniteSet(T \cup {u[2]})
        /\ Cardinality(T \cup {u[2]}) = IF u[2] \in T THEN Cardinality(T) ELSE Cardinality(T) + 1
    BY <2>2, <2>3, FS_AddElement
  <2>5. Cardinality(S) <= Cardinality(T \cup {u[2]})
    BY <2>1, <2>3, <2>4, FS_Subset
  <2>6. Cardinality(S) \in Nat
    BY <2>1, <2>3, <2>4, FS_Subset, FS_CardinalityType
  <2>7. Cardinality(S) <= failures + 1
    BY <1>3, <2>2, <2>3, <2>4, <2>5, <2>6
  <2> QED BY <1>2, <1>3, <1>6, <1>7, <2>7 DEF Coherent, Matched
<1>8. CASE failures' = failures /\ (GoesOn(u) => (rollouts'[u].good < rollouts'[u].next - 1 => u \in Failing))
  <2>1. u \in Failing => u[2] \in Charged
    BY DEF Charged, PositionsOf
  <2>2. u \in DOMAIN rollouts' => GoesOn(u)
    BY <1>1 DEF EndsWithStatus, EndsWithout
  <2>3. \A i \in Charged' : i \in Charged
    <3> SUFFICES ASSUME NEW i \in Charged'
                 PROVE  i \in Charged
      OBVIOUS
    <3>1. CASE i \in Missing'
      BY <1>4, <3>1, ChargedIs
    <3>2. CASE \E v \in DOMAIN prompts' : prompts'[v] = "failure" /\ v[2] = i
      <4>1. PICK v \in DOMAIN prompts' : prompts'[v] = "failure" /\ v[2] = i
        BY <3>2
      <4>2. CASE v # u
        BY <1>1, <4>1, <4>2, ChargedIs
      <4>3. CASE v = u
        <5>1. prompts'[u] = "failure"
          BY <4>1, <4>3
        <5>2. ~GoesOn(u)
          BY <5>1 DEF GoesOn
        <5>3. CASE EndsWithStatus(u)
          BY <2>1, <4>1, <4>3, <5>1, <5>3 DEF EndsWithStatus
        <5>4. CASE EndsWithout(u)
          BY <1>3, <4>1, <4>3, <5>1, <5>4, ChargedIs DEF EndsWithout
        <5> QED BY <1>1, <5>2, <5>3, <5>4
      <4> QED BY <4>2, <4>3
    <3>3. CASE \E v \in DOMAIN rollouts' : rollouts'[v].at = "writing"
                 /\ rollouts'[v].good < rollouts'[v].next - 1 /\ v[2] = i
      <4>1. PICK v \in DOMAIN rollouts' : rollouts'[v].at = "writing"
                   /\ rollouts'[v].good < rollouts'[v].next - 1 /\ v[2] = i
        BY <3>3
      <4>2. CASE v # u
        BY <1>1, <4>1, <4>2, ChargedIs
      <4>3. CASE v = u
        BY <1>8, <2>1, <2>2, <4>1, <4>3
      <4> QED BY <4>2, <4>3
    <3>4. \/ i \in Missing'
          \/ \E v \in DOMAIN prompts' : prompts'[v] = "failure" /\ v[2] = i
          \/ \E v \in DOMAIN rollouts' : rollouts'[v].at = "writing"
               /\ rollouts'[v].good < rollouts'[v].next - 1 /\ v[2] = i
      BY DEF Charged, PositionsOf, Failed, Failing
    <3> QED BY <3>1, <3>2, <3>3, <3>4
  <2>4. S \in SUBSET Charged
    BY <1>6, <2>3
  <2>5. Cardinality(S) <= failures
    BY <2>4, ChargedLess
  <2> QED BY <1>2, <1>3, <1>6, <1>8, <2>5 DEF Coherent, Matched
<1>9. \/ failures' = failures + 1
      \/ failures' = failures /\ (GoesOn(u) => (rollouts'[u].good < rollouts'[u].next - 1 => u \in Failing))
  <2>1. CASE GoesOn(u)
    BY <2>1 DEF GoesOn
  <2>2. CASE EndsWithStatus(u) \/ EndsWithout(u)
    BY <2>2 DEF EndsWithStatus, EndsWithout, GoesOn
  <2> QED BY <1>1, <2>1, <2>2
<1> QED BY <1>7, <1>8, <1>9

(* Any other step within a life charges nothing.                           *)
LEMMA CoherentBy ==
  ASSUME Typed, Typed', Coherent, Matched', failures' = failures,
         \A i \in Missing' : i \in Charged,
         \A v \in DOMAIN prompts' : prompts'[v] = "failure" =>
           v \in DOMAIN prompts /\ prompts[v] = "failure",
         \A v \in DOMAIN rollouts' : rollouts'[v].at = "writing" =>
           v \in DOMAIN rollouts /\ rollouts'[v] = rollouts[v]
  PROVE  Coherent'
<1>1. \A i \in Charged' : i \in Charged
  <2> SUFFICES ASSUME NEW i \in Charged'
               PROVE  i \in Charged
    OBVIOUS
  <2>1. \/ i \in Missing'
        \/ \E v \in DOMAIN prompts' : prompts'[v] = "failure" /\ v[2] = i
        \/ \E v \in DOMAIN rollouts' : rollouts'[v].at = "writing"
             /\ rollouts'[v].good < rollouts'[v].next - 1 /\ v[2] = i
    BY DEF Charged, PositionsOf, Failed, Failing
  <2> QED BY <2>1, ChargedIs
<1>2. PICK S : S = Charged'
  OBVIOUS
<1>3. S \in SUBSET Charged
  BY <1>1, <1>2
<1>4. Cardinality(S) <= failures
  BY <1>3, ChargedLess
<1> QED BY <1>2, <1>4 DEF Coherent, Matched

\* Every step within a life keeps weights, dataloader and register together.
LEMMA CoherentStep ==
  ASSUME TrainInv, Typed', Staged', [Next]_vars, ~mixed'
  PROVE  ~mixed /\ Coherent' /\ failures' >= failures
<1>0. Typed /\ Staged /\ Running /\ Known /\ Fitting /\ Saved /\ Action
  BY NextActions DEF TrainInv
<1>1. ~mixed
  <2>1. (\E s \in Steps : Load(s)) => ~mixed
    BY <1>0, ResumeStep
  <2> QED BY <1>0, <2>1 DEF Action, vars, history, RolledOn, Reissued, Standing, SamplesOne,
             UpdatePolicies, ClearBatch, Still, Crash, StartFromScratch
<1>2. Coherent /\ (\A s \in Steps : Whole(s) => Kept(s))
  BY <1>0, <1>1 DEF Fitting
<1>3. /\ position \in Nat /\ position' \in Nat /\ failures \in Nat
      /\ trained \in [Policies -> SUBSET Positions]
      /\ DOMAIN rollouts \subseteq DOMAIN prompts /\ DOMAIN prompts \subseteq Uids
      /\ DOMAIN prompts' \subseteq Uids
      /\ batch \in Uids \cup {NoUid}
  BY <1>0, RegisterFacts DEF Typed
<1>4. /\ \A p \in Policies : trained[p] \subseteq 1..position
      /\ \A u \in DOMAIN prompts : u[2] <= position /\ \A p \in Policies : u[2] \notin trained[p]
      /\ \A u, v \in DOMAIN prompts : u[2] = v[2] => u = v
      /\ batch # NoUid =>
           /\ batch[2] <= position /\ \A u \in DOMAIN prompts : u[2] # batch[2]
           /\ \A p \in Policies : batch[2] \in trained[p] <=> pc # "update"
  BY <1>2 DEF Coherent, Fits
<1>5. failures >= failures
  BY <1>3
<1>6. \A u \in Uids : u[2] \in Nat \ {0} /\ u # NoUid
  BY DEF Uids, Positions, NoUid
<1>7. NoUid[2] = 0
  BY DEF NoUid
<1>8. CASE UNCHANGED vars
  <2>1. /\ UNCHANGED <<pc, trained, position, batch, prompts, rollouts, failures>>
    BY <1>8 DEF vars, trainer, queue, budget
  <2>2. Matched'
    BY <1>2, <2>1 DEF Matched, Fits, Coherent
  <2>3. \A i \in Missing' : i \in Charged
    BY <2>1, ChargedIs DEF Missing
  <2> QED BY <1>0, <1>1, <1>2, <1>5, <2>1, <2>2, <2>3, CoherentBy
<1>9. CASE \E u \in DOMAIN rollouts : RolledOn(u)
  BY <1>0, <1>1, <1>2, <1>9, CoherentRolls
<1>10. CASE Reissued
  <2>1. /\ UNCHANGED <<trained, position, batch, failures>> /\ DOMAIN prompts' = DOMAIN prompts
        /\ \A u \in InFlight : prompts'[u] = "pending"
        /\ \A u \in DOMAIN prompts \ InFlight : prompts'[u] = prompts[u]
        /\ \A u \in DOMAIN rollouts' : rollouts'[u].at = "submitted"
        /\ batch = NoUid
    BY <1>0, <1>10 DEF Reissued, trainer, budget, Submitted, Staged, Sampled, Saving
  <2>2. Matched'
    BY <1>4, <2>1 DEF Matched, Fits
  <2>3. \A i \in Missing' : i \in Charged
    BY <2>1, ChargedIs DEF Missing
  <2>4. \A v \in DOMAIN prompts' : prompts'[v] = "failure" =>
          v \in DOMAIN prompts /\ prompts[v] = "failure"
    BY <2>1
  <2> QED BY <1>0, <1>1, <1>2, <1>5, <2>1, <2>2, <2>3, <2>4, CoherentBy
<1>11. CASE Standing /\ (WarmsUp \/ AddsBatch \/ \E u \in DOMAIN prompts : Refills(u))
  <2>1. PICK n, q : /\ n \in Nat /\ SubmitsMore(n, q) /\ DOMAIN q \subseteq DOMAIN prompts
                    /\ \A v \in DOMAIN q : q[v] = prompts[v]
                    /\ \A v \in DOMAIN prompts \ DOMAIN q : prompts[v] = "failure"
                    /\ pc' \in {"submit", "sample", "done"}
    <3>1. CASE WarmsUp
      BY <3>1, BoundsAssumption DEF WarmsUp
    <3>2. CASE AddsBatch
      BY <3>2 DEF AddsBatch
    <3>3. CASE \E u \in DOMAIN prompts : Refills(u)
      <4>1. PICK u \in DOMAIN prompts : Refills(u)
        BY <3>3
      <4>2. /\ DOMAIN Without(u) = DOMAIN prompts \ {u}
            /\ \A v \in DOMAIN prompts : v # u => Without(u)[v] = prompts[v]
        BY <1>0, WithoutEffects
      <4>3. SubmitsMore(1, Without(u)) /\ pc' = "sample" /\ prompts[u] = "failure"
        BY <4>1 DEF Refills
      <4>4. 1 \in Nat /\ (\A v \in DOMAIN Without(u) : Without(u)[v] = prompts[v])
            /\ \A v \in DOMAIN prompts \ DOMAIN Without(u) : prompts[v] = "failure"
        BY <4>2, <4>3
      <4> QED BY <4>2, <4>3, <4>4
    <3> QED BY <1>11, <3>1, <3>2, <3>3
  <2>2. /\ position' = position + n
        /\ DOMAIN prompts' = NewUids(n) \cup DOMAIN q
        /\ \A u \in NewUids(n) : prompts'[u] = "pending"
        /\ \A u \in DOMAIN q : prompts'[u] = prompts[u]
        /\ DOMAIN rollouts' = NewUids(n) \cup DOMAIN rollouts
        /\ \A u \in NewUids(n) : rollouts'[u].at = "submitted"
        /\ \A u \in DOMAIN rollouts : rollouts'[u] = rollouts[u]
    BY <2>1 DEF SubmitsMore, Submitted
  <2>3. UNCHANGED <<trained, batch, failures>> /\ batch = NoUid /\ batch' = NoUid
    <3>1. UNCHANGED <<trained, batch, failures>>
      BY <1>11 DEF Standing, budget
    <3>2. batch' = NoUid
      BY <2>1 DEF Staged, Sampled, Saving
    <3> QED BY <3>1, <3>2
  <2>4. /\ \A u \in NewUids(n) : u[2] > position /\ u[2] <= position + n
        /\ \A u, v \in NewUids(n) : u[2] = v[2] => u = v
        /\ \A i \in (position + 1)..(position + n) : \E u \in NewUids(n) : u[2] = i
    BY <1>0, <2>1, NewUidsFacts
  <2>5. \A p \in Policies : trained'[p] \subseteq 1..position'
    <3> SUFFICES ASSUME NEW p \in Policies, NEW x \in trained'[p]
                 PROVE  x \in 1..position'
      OBVIOUS
    <3>1. x \in 1..position
      BY <1>4, <2>3
    <3> QED BY <1>3, <2>1, <2>2, <3>1
  <2>6. \A u \in DOMAIN prompts' : u[2] <= position' /\ \A p \in Policies : u[2] \notin trained'[p]
    <3> SUFFICES ASSUME NEW u \in DOMAIN prompts'
                 PROVE  u[2] <= position' /\ \A p \in Policies : u[2] \notin trained'[p]
      OBVIOUS
    <3>1. u[2] \in Nat
      BY <1>3, <1>6
    <3>2. CASE u \in NewUids(n)
      <4>1. u[2] > position /\ u[2] <= position'
        BY <2>2, <2>4, <3>2
      <4>2. \A p \in Policies : u[2] \notin 1..position
        BY <1>3, <3>1, <4>1
      <4> QED BY <1>4, <2>3, <4>1, <4>2
    <3>3. CASE u \in DOMAIN q
      <4>1. u[2] <= position /\ \A p \in Policies : u[2] \notin trained[p]
        BY <1>4, <2>1, <3>3
      <4> QED BY <1>3, <2>1, <2>2, <2>3, <3>1, <4>1
    <3> QED BY <2>2, <3>2, <3>3
  <2>7. \A u, v \in DOMAIN prompts' : u[2] = v[2] => u = v
    <3> SUFFICES ASSUME NEW u \in DOMAIN prompts', NEW v \in DOMAIN prompts', u[2] = v[2]
                 PROVE  u = v
      OBVIOUS
    <3>1. u[2] \in Nat /\ v[2] \in Nat
      BY <1>3, <1>6
    <3>2. \A x \in DOMAIN q : x[2] <= position
      BY <1>4, <2>1
    <3>3. CASE u \in NewUids(n) /\ v \in NewUids(n)
      BY <2>4, <3>3
    <3>4. CASE u \in DOMAIN q /\ v \in DOMAIN q
      BY <1>4, <2>1, <3>4
    <3>5. ~(u \in NewUids(n) /\ v \in DOMAIN q) /\ ~(v \in NewUids(n) /\ u \in DOMAIN q)
      BY <1>3, <2>4, <3>1, <3>2
    <3> QED BY <2>2, <3>3, <3>4, <3>5
  <2>8. Matched'
    <3>1. Fits(trained, position, prompts)'
      BY <2>5, <2>6, <2>7 DEF Fits
    <3> QED BY <2>3, <3>1 DEF Matched
  <2>9. \A i \in Missing' : i \in Charged
    <3> SUFFICES ASSUME NEW i \in Missing'
                 PROVE  i \in Charged
      OBVIOUS
    <3>1. /\ i \in 1..position' /\ \A p \in Policies : i \notin trained'[p]
          /\ batch'[2] # i /\ \A u \in DOMAIN prompts' : u[2] # i
      BY DEF Missing
    <3>2. i \in 1..position
      <4>1. i \notin (position + 1)..(position + n)
        BY <2>2, <2>4, <3>1
      <4> QED BY <1>3, <2>1, <2>2, <3>1, <4>1
    <3>3. CASE \E v \in DOMAIN prompts : v[2] = i
      <4>1. PICK v \in DOMAIN prompts : v[2] = i
        BY <3>3
      <4>2. v \notin DOMAIN q
        BY <2>2, <3>1, <4>1
      <4> QED BY <2>1, <4>1, <4>2, ChargedIs
    <3>4. CASE \A v \in DOMAIN prompts : v[2] # i
      BY <2>3, <3>1, <3>2, <3>4, MissingIs, ChargedIs
    <3> QED BY <3>3, <3>4
  <2>10. \A v \in DOMAIN prompts' : prompts'[v] = "failure" =>
           v \in DOMAIN prompts /\ prompts[v] = "failure"
    BY <2>1, <2>2
  <2>11. \A v \in DOMAIN rollouts' : rollouts'[v].at = "writing" =>
           v \in DOMAIN rollouts /\ rollouts'[v] = rollouts[v]
    BY <2>2
  <2>12. failures' = failures
    BY <2>3
  <2> QED BY <1>0, <1>1, <1>2, <1>5, <2>8, <2>9, <2>10, <2>11, <2>12, CoherentBy
<1>12. CASE \E u \in DOMAIN prompts : SamplesOne(u)
  <2>1. PICK u \in DOMAIN prompts : SamplesOne(u)
    BY <1>12
  <2>2. /\ DOMAIN Without(u) = DOMAIN prompts \ {u}
        /\ \A v \in DOMAIN prompts : v # u => Without(u)[v] = prompts[v]
    BY <1>0, WithoutEffects
  <2>3. /\ prompts' = Without(u) /\ batch' = u /\ pc' = "update" /\ batch = NoUid
        /\ UNCHANGED <<trained, position, rollouts, failures>>
    BY <1>0, <2>1 DEF SamplesOne, budget, Staged, Sampled, Saving
  <2>4. Fits(trained, position, prompts)'
    BY <1>4, <2>2, <2>3 DEF Fits
  <2>5. /\ batch'[2] <= position' /\ \A v \in DOMAIN prompts' : v[2] # batch'[2]
        /\ \A p \in Policies : batch'[2] \notin trained'[p]
    BY <1>4, <2>2, <2>3
  <2>6. Matched'
    BY <2>3, <2>4, <2>5 DEF Matched
  <2>7. \A i \in Missing' : i \in Charged
    <3> SUFFICES ASSUME NEW i \in Missing'
                 PROVE  i \in Charged
      OBVIOUS
    <3>1. /\ i \in 1..position' /\ \A p \in Policies : i \notin trained'[p]
          /\ batch'[2] # i /\ \A v \in DOMAIN prompts' : v[2] # i
      BY DEF Missing
    <3>2. \A v \in DOMAIN prompts : v[2] # i
      BY <2>2, <2>3, <3>1
    <3>3. i # 0
      BY <3>1
    <3> QED BY <1>7, <2>3, <3>1, <3>2, <3>3, MissingIs, ChargedIs
  <2>8. \A v \in DOMAIN prompts' : prompts'[v] = "failure" =>
          v \in DOMAIN prompts /\ prompts[v] = "failure"
    BY <2>2, <2>3
  <2> QED BY <1>0, <1>1, <1>2, <1>5, <2>3, <2>6, <2>7, <2>8, CoherentBy
<1>13. CASE UpdatePolicies
  <2>1. /\ trained' = [p \in Policies |-> trained[p] \cup {batch[2]}]
        /\ pc = "update" /\ pc' # "update"
        /\ UNCHANGED <<position, batch, prompts, rollouts, failures>>
    BY <1>13 DEF UpdatePolicies, queue, budget
  <2>2. batch # NoUid
    BY <1>0, <2>1 DEF Staged, Sampled
  <2>3. batch[2] \in 1..position /\ \A u \in DOMAIN prompts : u[2] # batch[2]
    BY <1>3, <1>4, <1>6, <2>2
  <2>4. Fits(trained, position, prompts)'
    BY <1>4, <2>1, <2>3 DEF Fits
  <2>5. Matched'
    BY <2>1, <2>2, <2>3, <2>4 DEF Matched
  <2>6. \A i \in Missing' : i \in Charged
    <3> SUFFICES ASSUME NEW i \in Missing'
                 PROVE  i \in Charged
      OBVIOUS
    <3>1. /\ i \in 1..position' /\ \A p \in Policies : i \notin trained'[p]
          /\ batch'[2] # i /\ \A v \in DOMAIN prompts' : v[2] # i
      BY DEF Missing
    <3>2. \A p \in Policies : i \notin trained[p]
      BY <2>1, <3>1
    <3> QED BY <2>1, <3>1, <3>2, MissingIs, ChargedIs
  <2> QED BY <1>0, <1>1, <1>2, <1>5, <2>1, <2>5, <2>6, CoherentBy
<1>14. CASE ClearBatch
  <2>1. /\ pc = "clear" /\ batch' = NoUid
        /\ UNCHANGED <<position, trained, prompts, rollouts, failures>>
    BY <1>14 DEF ClearBatch, budget
  <2>2. batch # NoUid
    BY <1>0, <2>1 DEF Staged, Sampled
  <2>3. \A p \in Policies : batch[2] \in trained[p]
    BY <1>4, <2>1, <2>2
  <2>4. Matched'
    BY <1>4, <2>1 DEF Matched, Fits
  <2>5. \A i \in Missing' : i \in Charged
    <3> SUFFICES ASSUME NEW i \in Missing'
                 PROVE  i \in Charged
      OBVIOUS
    <3>1. /\ i \in 1..position /\ \A p \in Policies : i \notin trained[p]
          /\ \A v \in DOMAIN prompts : v[2] # i
      BY <2>1 DEF Missing
    <3>2. batch[2] # i
      BY <2>3, <3>1, BoundsAssumption
    <3> QED BY <3>1, <3>2, MissingIs, ChargedIs
  <2> QED BY <1>0, <1>1, <1>2, <1>5, <2>1, <2>4, <2>5, CoherentBy
<1>15. CASE Still /\ Writes /\ pc \in Saving
  <2>1. UNCHANGED <<trained, position, batch, prompts, rollouts, failures>>
    BY <1>15 DEF Still, trainer, queue, budget
  <2>2. pc # "update" /\ pc' # "update"
    BY <1>15 DEF Writes, SavesPolicy, SavesData, SavesQueue, SavesManifest, SavesTracker,
                 Prunes, Saving
  <2>3. Matched'
    BY <1>4, <2>1, <2>2 DEF Matched, Fits
  <2>4. \A i \in Missing' : i \in Charged
    BY <2>1, ChargedIs DEF Missing
  <2> QED BY <1>0, <1>1, <1>2, <1>5, <2>1, <2>3, <2>4, CoherentBy
<1>16. CASE Crash
  <2>1. /\ trained' = [p \in Policies |-> {}] /\ position' = 0 /\ prompts' = <<>>
        /\ rollouts' = <<>> /\ batch' = NoUid /\ failures' = failures
    BY <1>16 DEF Crash, budget
  <2>2. Matched'
    BY <2>1 DEF Matched, Fits
  <2>3. \A i \in Missing' : i \in Charged
    BY <2>1 DEF Missing
  <2> QED BY <1>0, <1>1, <1>2, <1>5, <2>1, <2>2, <2>3, CoherentBy
<1>17. CASE StartFromScratch
  <2>1. /\ UNCHANGED <<trained, position, batch, prompts, rollouts, failures>> /\ pc = "down"
    BY <1>17 DEF StartFromScratch, Begin, queue, budget
  <2>2. batch = NoUid
    BY <1>0, <2>1 DEF Staged, Sampled, Saving
  <2>3. Matched'
    BY <1>4, <2>1, <2>2 DEF Matched, Fits
  <2>4. \A i \in Missing' : i \in Charged
    BY <2>1, ChargedIs DEF Missing
  <2> QED BY <1>0, <1>1, <1>2, <1>5, <2>1, <2>3, <2>4, CoherentBy
<1>18. CASE \E s \in Steps : Load(s)
  <2>1. PICK s \in Steps : Load(s)
    BY <1>18
  <2>2. /\ Resumes(s) /\ trained' = Weights(s) /\ Whole(s)
        /\ \/ Has(disk[s].data) /\ position' = disk[s].data.value
           \/ ~Has(disk[s].data) /\ position' = 0
        /\ \/ Has(disk[s].queue) /\ prompts' = disk[s].queue.value.prompts
           \/ ~Has(disk[s].queue) /\ prompts' = <<>> 
    BY <1>0, <2>1, ResumeStep
  <2>3. Has(disk[s].queue) /\ Has(disk[s].data)
    BY <2>2 DEF Whole, Has
  <2>4. /\ trained' = Weights(s) /\ position' = disk[s].data.value
        /\ prompts' = disk[s].queue.value.prompts /\ failures' = failures
    BY <2>2, <2>3 DEF Resumes, budget
  <2>5. DOMAIN rollouts' = {} /\ batch' = NoUid
    BY <1>0, <2>2 DEF Resumes, Staged, Idle, Sampled, Saving
  <2>6. /\ Fits(trained', position', prompts')
        /\ Cardinality(Lost(trained', position', prompts') \cup PositionsOf(Failed(prompts'))) <= failures'
    BY <1>2, <2>2, <2>4 DEF Kept
  <2>7. Fits(trained, position, prompts)'
    BY <2>6 DEF Fits
  <2>8. Charged' = Lost(trained', position', prompts') \cup PositionsOf(Failed(prompts'))
    <3>1. Missing' = Lost(trained', position', prompts')
      BY <1>7, <2>5 DEF Missing, Lost
    <3>2. Failing' = {}
      BY <2>5 DEF Failing
    <3> QED BY <3>1, <3>2 DEF Charged, PositionsOf, Failed
  <2> QED BY <1>1, <1>3, <2>4, <2>5, <2>6, <2>7, <2>8 DEF Coherent
<1> QED BY <1>0, <1>8, <1>9, <1>10, <1>11, <1>12, <1>13, <1>14, <1>15, <1>16, <1>17, <1>18 DEF Action

(* What is kept of a directory whose parts stay.                           *)
LEMMA KeptSame ==
  ASSUME Typed, Typed', NEW s \in Steps, disk'[s].policies = disk[s].policies,
         disk'[s].data = disk[s].data, disk'[s].queue = disk[s].queue, failures' >= failures
  PROVE  /\ Whole(s)' => Whole(s)
         /\ Whole(s) /\ Kept(s) => Kept(s)'
<1>1. Whole(s)' => Whole(s)
  BY DEF Whole, Has
<1>2. Weights(s)' = Weights(s)
  BY DEF Weights
<1> SUFFICES ASSUME Whole(s), Kept(s)
             PROVE  Kept(s)'
  BY <1>1
<1>3. PICK weights : weights = Weights(s)
  OBVIOUS
<1>4. PICK reach : reach = disk[s].data.value
  OBVIOUS
<1>5. PICK q : q = disk[s].queue.value.prompts
  OBVIOUS
<1>6. PICK lost : lost = Lost(weights, reach, q) \cup PositionsOf(Failed(q))
  OBVIOUS
<1>7. Fits(weights, reach, q) /\ Cardinality(lost) <= failures
  BY <1>3, <1>4, <1>5, <1>6 DEF Kept
<1>8. Cardinality(lost) \in Nat
  <2>1. q \in Registers /\ reach \in Nat
    <3>1. Has(disk[s].queue) /\ Has(disk[s].data)
      BY DEF Whole, Has
    <3> QED BY <1>4, <1>5, <3>1, PartTypes
  <2>2. \A u \in DOMAIN q : u[2] \in 1..reach
    <3>1. \A u \in DOMAIN q : u \in Uids
      BY <2>1, RegisterFacts
    <3>2. \A u \in Uids : u[2] \in Nat \ {0}
      BY DEF Uids, Positions
    <3> QED BY <1>7, <2>1, <3>1, <3>2 DEF Fits
  <2>3. lost \in SUBSET (1..reach)
    BY <1>6, <2>2 DEF Lost, PositionsOf, Failed
  <2>4. IsFiniteSet(1..reach)
    BY <2>1, FS_Interval
  <2>5. IsFiniteSet(lost)
    BY <2>3, <2>4, FS_Subset
  <2> QED BY <2>5, FS_CardinalityType
<1>9. Cardinality(lost) <= failures'
  <2>1. failures \in Nat /\ failures' \in Nat
    BY DEF Typed
  <2> QED BY <1>7, <1>8, <2>1
<1>10. /\ weights = Weights(s)' /\ reach = disk'[s].data.value /\ q = disk'[s].queue.value.prompts
  BY <1>2, <1>3, <1>4, <1>5
<1>11. Kept(s)' <=>
         /\ Fits(Weights(s)', disk'[s].data.value, disk'[s].queue.value.prompts)
         /\ Cardinality(Lost(Weights(s)', disk'[s].data.value, disk'[s].queue.value.prompts)
                          \cup PositionsOf(Failed(disk'[s].queue.value.prompts))) <= failures'
  BY DEF Kept, Fits, Lost, PositionsOf, Failed
<1> QED BY <1>6, <1>7, <1>9, <1>10, <1>11

(* A complete set of parts of one save is what the trainer had.            *)
LEMMA KeptSaved ==
  ASSUME Typed, Typed', Staged, Saved, Coherent, Still, SavesQueue,
         saves > 0, NEW s \in Steps, s = step, Whole(s)'
  PROVE  Kept(s)'
<1>1. /\ disk'[s].queue.save = saves
      /\ disk'[s].queue.value.prompts = prompts
      /\ disk'[s].policies = disk[s].policies /\ disk'[s].data = disk[s].data
      /\ pc = "save_queue" /\ failures' = failures
  BY DEF SavesQueue, StoredQueue, Still, budget
<1>2. /\ disk[s].data.save = saves
      /\ \A p \in Policies : disk[s].policies[p].save = saves
  BY <1>1 DEF Whole, Has
<1>3. /\ disk[s].data.value = position
      /\ \A p \in Policies : disk[s].policies[p].value = trained[p]
  BY <1>1, <1>2 DEF Saved, Saving
<1>4. Weights(s)' = trained
  BY <1>1, <1>3 DEF Weights, Typed
<1>5. /\ Fits(trained, position, prompts)
      /\ batch # NoUid => \A p \in Policies : batch[2] \in trained[p]
  BY <1>1 DEF Coherent
<1>6. batch # NoUid
  BY <1>1 DEF Staged, Sampled, Saving
<1>7. PICK lost : lost = Lost(trained, position, prompts) \cup PositionsOf(Failed(prompts))
  OBVIOUS
<1>8. lost \in SUBSET Charged
  <2>1. \A i \in Lost(trained, position, prompts) : i \in Missing
    <3> SUFFICES ASSUME NEW i \in Lost(trained, position, prompts)
                 PROVE  i \in Missing
      OBVIOUS
    <3>1. /\ i \in 1..position /\ \A p \in Policies : i \notin trained[p]
          /\ \A u \in DOMAIN prompts : u[2] # i
      BY DEF Lost
    <3>2. batch[2] # i
      BY <1>5, <1>6, <3>1, BoundsAssumption
    <3> QED BY <3>1, <3>2, MissingIs
  <2> QED BY <1>7, <2>1, ChargedIs DEF PositionsOf, Failed
<1>9. Cardinality(lost) <= failures
  BY <1>8, ChargedLess
<1>10. Kept(s)' <=>
         /\ Fits(Weights(s)', disk'[s].data.value, disk'[s].queue.value.prompts)
         /\ Cardinality(Lost(Weights(s)', disk'[s].data.value, disk'[s].queue.value.prompts)
                          \cup PositionsOf(Failed(disk'[s].queue.value.prompts))) <= failures'
  BY DEF Kept, Fits, Lost, PositionsOf, Failed
<1> QED BY <1>1, <1>3, <1>4, <1>5, <1>7, <1>9, <1>10

\* Every step keeps them together, in the trainer and in whole directories.
LEMMA FittingStep ==
  ASSUME TrainInv, Typed', Staged', [Next]_vars
  PROVE  Fitting'
<1>0. Typed /\ Staged /\ Fitting /\ Saved /\ Action
  BY NextActions DEF TrainInv
<1> SUFFICES ASSUME ~mixed'
             PROVE  Coherent' /\ \A s \in Steps : Whole(s)' => Kept(s)'
  BY DEF Fitting
<1>1. ~mixed /\ Coherent' /\ failures' >= failures
  BY CoherentStep
<1>2. Coherent /\ \A s \in Steps : Whole(s) => Kept(s)
  BY <1>0, <1>1 DEF Fitting
<1> SUFFICES ASSUME NEW s \in Steps, Whole(s)'
             PROVE  Kept(s)'
  BY <1>1
<1>3. ASSUME disk'[s].policies = disk[s].policies, disk'[s].data = disk[s].data,
             disk'[s].queue = disk[s].queue
      PROVE  Kept(s)'
  BY <1>0, <1>1, <1>2, <1>3, KeptSame
<1>4. CASE disk'[s] = disk[s]
  BY <1>3, <1>4
<1>5. CASE Still /\ Writes /\ step \in Steps /\ saves > 0
  <2>1. /\ Has(disk'[s].queue) /\ disk'[s].data.save = disk'[s].queue.save
        /\ \A p \in Policies : disk'[s].policies[p].save = disk'[s].queue.save
    BY DEF Whole, Has
  <2>2. CASE \E p \in Policies : SavesPolicy(p)
    <3>1. PICK p \in Policies : SavesPolicy(p)
      BY <2>2
    <3>2. CASE s = step
      <4>1. disk'[s].policies[p].save = saves /\ disk'[s].queue = disk[s].queue /\ pc = "save"
        BY <3>1, <3>2 DEF SavesPolicy, StoredPolicy
      <4>2. disk[s].queue.save < saves
        BY <1>0, <3>2, <4>1 DEF Saved
      <4>3. disk[s].queue.save \in Nat /\ saves \in Nat
        BY <1>0, PartTypes DEF Typed
      <4>4. disk'[s].queue.save = saves
        BY <2>1, <4>1
      <4> QED BY <4>1, <4>2, <4>3, <4>4
    <3>3. CASE s # step
      BY <1>4, <3>1, <3>3 DEF SavesPolicy, StoredPolicy, OthersKept
    <3> QED BY <3>2, <3>3
  <2>3. CASE SavesData
    <3>1. CASE s = step
      <4>1. disk'[s].data.save = saves /\ disk'[s].queue = disk[s].queue /\ pc = "save"
        BY <2>3, <3>1 DEF SavesData, StoredData
      <4>2. disk[s].queue.save < saves
        BY <1>0, <3>1, <4>1 DEF Saved
      <4>3. disk[s].queue.save \in Nat /\ saves \in Nat
        BY <1>0, PartTypes DEF Typed
      <4>4. disk'[s].queue.save = saves
        BY <2>1, <4>1
      <4> QED BY <4>1, <4>2, <4>3, <4>4
    <3>2. CASE s # step
      BY <1>4, <2>3, <3>2 DEF SavesData, StoredData, OthersKept
    <3> QED BY <3>1, <3>2
  <2>4. CASE SavesQueue
    <3>1. CASE s = step
      BY <1>0, <1>2, <1>5, <2>4, <3>1, KeptSaved
    <3>2. CASE s # step
      BY <1>4, <2>4, <3>2 DEF SavesQueue, StoredQueue, OthersKept
    <3> QED BY <3>1, <3>2
  <2>5. CASE SavesManifest
    BY <1>3, <1>4, <2>5 DEF SavesManifest, StoredManifest, OthersKept
  <2>6. CASE SavesTracker
    BY <1>4, <2>6 DEF SavesTracker
  <2>7. CASE Prunes
    <3>1. s \notin Outdated
      BY <2>1, <2>7 DEF Prunes, NoDirectory, NoPart, Has
    <3> QED BY <1>4, <2>7, <3>1 DEF Prunes
  <2> QED BY <1>5, <2>2, <2>3, <2>4, <2>5, <2>6, <2>7 DEF Writes
<1> QED BY <1>0, <1>4, <1>5
    DEF Action, vars, files, RolledOn, Reissued, Standing, SamplesOne, UpdatePolicies,
        ClearBatch, Crash, StartFromScratch, Load

-----------------------------------------------------------------------------
(* The save under way. *)

\* Every step keeps what is known of the save under way.
LEMMA SavedStep ==
  ASSUME TrainInv, Typed', Staged', [Next]_vars
  PROVE  Saved'
<1>0. Typed /\ Staged /\ Saved /\ Action
  BY NextActions DEF TrainInv
<1>1. saves \in Nat /\ saves' \in Nat
  BY <1>0 DEF Typed
<1>2. \A s \in Steps :
        /\ disk[s].data.save \in Nat /\ disk[s].queue.save \in Nat
        /\ disk[s].data.save <= saves /\ disk[s].queue.save <= saves
        /\ \A p \in Policies : disk[s].policies[p].save <= saves
                               /\ disk[s].policies[p].save \in Nat
  BY <1>0, PartTypes DEF Saved
<1> DEFINE
  Numbers == \A s \in Steps :
               /\ disk'[s].data.save <= saves' /\ disk'[s].queue.save <= saves'
               /\ \A p \in Policies : disk'[s].policies[p].save <= saves'
  Under == pc' \in Saving =>
             /\ \A p \in Policies : disk'[step'].policies[p].save = saves' =>
                  disk'[step'].policies[p].value = trained'[p]
             /\ disk'[step'].data.save = saves' => disk'[step'].data.value = position'
  Before == /\ pc' = "save" => disk'[step'].data.save < saves'
            /\ pc' \in {"save", "save_queue"} => disk'[step'].queue.save < saves'
<1> SUFFICES Numbers /\ Under /\ Before
  BY DEF Saved
<1>3. CASE disk' = disk /\ saves' = saves /\ pc' \notin Saving
  <2>1. Numbers
    BY <1>2, <1>3
  <2> QED BY <1>3, <2>1 DEF Saving
<1>4. CASE UNCHANGED <<pc, step, position, trained, saves, disk>>
  <2>1. Numbers
    BY <1>2, <1>4
  <2>2. Under /\ Before
    BY <1>0, <1>4 DEF Saved
  <2> QED BY <2>1, <2>2
<1>5. CASE UpdatePolicies
  <2>1. /\ \/ pc' = "save" /\ saves' = saves + 1
           \/ pc' = "clear" /\ saves' = saves
        /\ disk' = disk /\ step' = step /\ pc = "update"
    BY <1>5 DEF UpdatePolicies
  <2>2. CASE pc' = "clear" /\ saves' = saves
    BY <1>3, <2>1, <2>2 DEF Saving
  <2>3. CASE pc' = "save" /\ saves' = saves + 1
    <3>1. step \in Steps
      BY <1>0, <2>1 DEF Staged, Stepping, Sampled
    <3>2. \A s \in Steps :
            /\ disk'[s].data.save < saves' /\ disk'[s].queue.save < saves'
            /\ \A p \in Policies : disk'[s].policies[p].save < saves'
      BY <1>1, <1>2, <2>1, <2>3
    <3>3. Numbers
      BY <1>1, <1>2, <2>1, <2>3
    <3>4. Before
      BY <2>1, <3>1, <3>2
    <3>5. Under
      <4>1. /\ disk'[step].data.save # saves'
            /\ \A p \in Policies : disk'[step].policies[p].save # saves'
        BY <1>1, <1>2, <2>1, <2>3, <3>1
      <4> QED BY <2>1, <4>1
    <3> QED BY <3>3, <3>4, <3>5
  <2> QED BY <2>1, <2>2, <2>3
<1>6. CASE Still /\ Writes /\ step \in Steps /\ saves > 0 /\ pc \in Saving
  <2>0. UNCHANGED <<step, position, trained, saves>>
    BY <1>6 DEF Still, trainer
  <2>1. /\ \A p \in Policies : disk[step].policies[p].save = saves =>
              disk[step].policies[p].value = trained[p]
        /\ disk[step].data.save = saves => disk[step].data.value = position
        /\ pc = "save" => disk[step].data.save < saves
        /\ pc \in {"save", "save_queue"} => disk[step].queue.save < saves
    BY <1>0, <1>6 DEF Saved
  <2> HIDE DEF Numbers, Under, Before
  <2>2. CASE \E p \in Policies : SavesPolicy(p)
    <3>1. PICK p \in Policies : SavesPolicy(p)
      BY <2>2
    <3>2. /\ \A s \in Steps : s # step => disk'[s] = disk[s]
          /\ disk'[step].policies[p].save = saves /\ disk'[step].policies[p].value = trained[p]
          /\ \A q \in Policies : q # p => disk'[step].policies[q] = disk[step].policies[q]
          /\ disk'[step].data = disk[step].data /\ disk'[step].queue = disk[step].queue
          /\ pc = "save" /\ pc' = "save"
      BY <3>1 DEF SavesPolicy, StoredPolicy, OthersKept
    <3>3. Numbers
      BY <1>1, <1>2, <1>6, <2>0, <3>2 DEF Numbers
    <3>4. Under
      BY <1>6, <2>0, <2>1, <3>2 DEF Under
    <3>5. Before
      BY <1>6, <2>0, <2>1, <3>2 DEF Before
    <3> QED BY <3>3, <3>4, <3>5
  <2>3. CASE SavesData
    <3>2. /\ \A s \in Steps : s # step => disk'[s] = disk[s]
          /\ disk'[step].data.save = saves /\ disk'[step].data.value = position
          /\ disk'[step].policies = disk[step].policies /\ disk'[step].queue = disk[step].queue
          /\ pc = "save" /\ pc' = "save_queue"
      BY <2>3 DEF SavesData, StoredData, OthersKept
    <3>3. Numbers
      BY <1>1, <1>2, <1>6, <2>0, <3>2 DEF Numbers
    <3>4. Under
      BY <1>6, <2>0, <2>1, <3>2 DEF Under
    <3>5. Before
      BY <1>6, <2>0, <2>1, <3>2 DEF Before
    <3> QED BY <3>3, <3>4, <3>5
  <2>4. CASE SavesQueue
    <3>2. /\ \A s \in Steps : s # step => disk'[s] = disk[s]
          /\ disk'[step].queue.save = saves
          /\ disk'[step].policies = disk[step].policies /\ disk'[step].data = disk[step].data
          /\ pc' = "manifest"
      BY <2>4 DEF SavesQueue, StoredQueue, OthersKept
    <3>3. Numbers
      BY <1>1, <1>2, <1>6, <2>0, <3>2 DEF Numbers
    <3>4. Under
      BY <1>6, <2>0, <2>1, <3>2 DEF Under
    <3>5. Before
      BY <3>2 DEF Before
    <3> QED BY <3>3, <3>4, <3>5
  <2>5. CASE SavesManifest
    <3>2. /\ \A s \in Steps : s # step => disk'[s] = disk[s]
          /\ disk'[step].policies = disk[step].policies /\ disk'[step].data = disk[step].data
          /\ disk'[step].queue = disk[step].queue
          /\ pc' = "tracker"
      BY <2>5 DEF SavesManifest, StoredManifest, OthersKept
    <3>3. Numbers
      BY <1>1, <1>2, <1>6, <2>0, <3>2 DEF Numbers
    <3>4. Under
      BY <1>6, <2>0, <2>1, <3>2 DEF Under
    <3>5. Before
      BY <3>2 DEF Before
    <3> QED BY <3>3, <3>4, <3>5
  <2>6. CASE SavesTracker
    <3>2. disk' = disk /\ pc' = "prune"
      BY <2>6 DEF SavesTracker
    <3>3. Numbers
      BY <1>2, <2>0, <3>2 DEF Numbers
    <3>4. Under
      BY <2>0, <2>1, <3>2 DEF Under
    <3>5. Before
      BY <3>2 DEF Before
    <3> QED BY <3>3, <3>4, <3>5
  <2>7. CASE Prunes
    <3>2. /\ \A s \in Steps : disk'[s] = disk[s] \/ disk'[s] = NoDirectory
          /\ pc' = "clear"
      BY <2>7 DEF Prunes
    <3>3. Numbers
      <4>1. /\ NoDirectory.data.save = 0 /\ NoDirectory.queue.save = 0
            /\ \A p \in Policies : NoDirectory.policies[p].save = 0
        BY DEF NoDirectory, NoPart
      <4> QED BY <1>1, <1>2, <2>0, <3>2, <4>1 DEF Numbers
    <3>4. Under /\ Before
      BY <3>2 DEF Under, Before, Saving
    <3> QED BY <3>3, <3>4
  <2> QED BY <1>6, <2>2, <2>3, <2>4, <2>5, <2>6, <2>7 DEF Writes
<1>7. CASE UNCHANGED vars \/ \E u \in DOMAIN rollouts : RolledOn(u)
  BY <1>4, <1>7 DEF vars, RolledOn, trainer, files
<1>8. CASE Reissued
  BY <1>3, <1>8 DEF Reissued, files, Saving
<1>9. CASE Standing /\ (WarmsUp \/ AddsBatch \/ \E u \in DOMAIN prompts : Refills(u))
  <2>1. disk' = disk /\ saves' = saves
    BY <1>9 DEF Standing, files
  <2>2. pc' \notin Saving
    BY <1>9 DEF WarmsUp, AddsBatch, Refills, Saving
  <2> QED BY <1>3, <2>1, <2>2
<1>10. CASE \E u \in DOMAIN prompts : SamplesOne(u)
  BY <1>3, <1>10 DEF SamplesOne, files, Saving
<1>11. CASE ClearBatch
  <2>1. disk' = disk /\ saves' = saves /\ pc' \notin Saving
    BY <1>11 DEF ClearBatch, files, Saving
  <2> QED BY <1>3, <2>1
<1>12. CASE Crash
  <2>1. disk' = disk /\ saves' = saves /\ pc' \notin Saving
    BY <1>12 DEF Crash, Saving
  <2> QED BY <1>3, <2>1
<1>13. CASE StartFromScratch \/ \E s \in Steps : Load(s)
  <2>1. disk' = disk /\ saves' = saves /\ pc' \notin Saving
    BY <1>13 DEF StartFromScratch, Load, Begin, files, Saving
  <2> QED BY <1>3, <2>1
<1> QED BY <1>0, <1>5, <1>6, <1>7, <1>8, <1>9, <1>10, <1>11, <1>12, <1>13 DEF Action

-----------------------------------------------------------------------------
(* What the tracker names. *)

\* Sets of steps are finite.
LEMMA PassedFinite ==
  \A S \in SUBSET Steps : IsFiniteSet(S) /\ Cardinality(S) \in Nat
<1>1. IsFiniteSet(1..TotalSteps)
  <2>1. 1 \in Int /\ TotalSteps \in Int
    BY BoundsAssumption
  <2> QED BY <2>1, FS_Interval
<1> QED BY <1>1, FS_Subset, FS_CardinalityType DEF Steps

(* The directories that the life has passed become fewer.                  *)
LEMMA PassedLess ==
  ASSUME Typed, Typed', step' >= step, \A s \in Committed' : s \in Committed \/ s <= step',
         Cardinality(Passed(step)) < Keep
  PROVE  Cardinality(Passed(step)') < Keep
<1>1. step \in Int /\ step' \in Int
  BY BoundsAssumption DEF Typed
<1>2. Passed(step) = {t \in Committed : \E x \in Steps : step <= x /\ x < t /\ SavesAt(x)}
  BY DEF Passed
<1>3. Passed(step)' = {t \in Committed' : \E x \in Steps : step' <= x /\ x < t /\ SavesAt(x)}
  BY DEF Passed, SavesAt
<1>4. \A t \in Passed(step)' : t \in Passed(step)
  <2> SUFFICES ASSUME NEW t \in Passed(step)'
               PROVE  t \in Passed(step)
    OBVIOUS
  <2>1. PICK x \in Steps : step' <= x /\ x < t /\ SavesAt(x)
    BY <1>3
  <2>2. t \in Committed' /\ t \in Int /\ x \in Int
    BY <1>3, BoundsAssumption DEF Committed, Steps
  <2>3. t \in Committed
    BY <1>1, <2>1, <2>2
  <2>4. step <= x
    BY <1>1, <2>1, <2>2
  <2> QED BY <1>2, <2>1, <2>3, <2>4
<1>5. PICK S : S = Passed(step)'
  OBVIOUS
<1>6. S \in SUBSET Passed(step) /\ Passed(step) \in SUBSET Steps
  BY <1>2, <1>4, <1>5 DEF Committed
<1>7. Cardinality(S) <= Cardinality(Passed(step))
  BY <1>6, PassedFinite, FS_Subset
<1>8. Cardinality(S) \in Nat /\ Cardinality(Passed(step)) \in Nat /\ Keep \in Nat
  <2>1. S \in SUBSET Steps
    BY <1>6
  <2> QED BY <1>6, <2>1, PassedFinite, BoundsAssumption
<1> QED BY <1>5, <1>7, <1>8

\* Every step keeps what is known of the directories and of the tracker.
LEMMA TrackedStep ==
  ASSUME TrainInv, Typed', Staged', [Next]_vars
  PROVE  Tracked'
<1>0. Typed /\ Staged /\ Saved /\ Tracked /\ Action
  BY NextActions DEF TrainInv
<1>1. /\ \A s \in Committed :
           /\ \A p \in Policies : Has(disk[s].policies[p])
           /\ Has(disk[s].data) /\ Has(disk[s].queue)
      /\ pc \in Saving => \A p \in Policies \ unsaved : Has(disk[step].policies[p])
      /\ pc \in Saving \ {"save"} => unsaved = {} /\ Has(disk[step].data)
      /\ pc \in Saving \ {"save", "save_queue"} => Has(disk[step].queue)
      /\ pc \in {"tracker", "prune"} => step \in Committed
      /\ pc = "prune" => tracker = step
      /\ ~behind /\ tracker # 0 => tracker \in Committed
      /\ ~behind /\ pc # "down" => Cardinality(Passed(step)) < Keep
  BY <1>0 DEF Tracked
<1> DEFINE
  Parts == \A s \in Committed' :
             /\ \A p \in Policies : Has(disk'[s].policies[p])
             /\ Has(disk'[s].data) /\ Has(disk'[s].queue)
  Under == /\ pc' \in Saving => \A p \in Policies \ unsaved' : Has(disk'[step'].policies[p])
           /\ pc' \in Saving \ {"save"} => unsaved' = {} /\ Has(disk'[step'].data)
           /\ pc' \in Saving \ {"save", "save_queue"} => Has(disk'[step'].queue)
           /\ pc' \in {"tracker", "prune"} => step' \in Committed'
           /\ pc' = "prune" => tracker' = step'
  Named == ~behind' /\ tracker' # 0 => tracker' \in Committed'
  Few == ~behind' /\ pc' # "down" => Cardinality(Passed(step)') < Keep
<1> SUFFICES Parts /\ Under /\ Named /\ Few
  BY DEF Tracked, Has
<1>2. Committed' = {s \in Steps : disk'[s].complete}
  BY DEF Committed
<1>3. Committed = {s \in Steps : disk[s].complete}
  BY DEF Committed
<1>4. step \in Nat /\ step' \in Nat
  BY <1>0, BoundsAssumption DEF Typed
<1>5. ASSUME disk' = disk
      PROVE  Committed' = Committed /\ Parts
  BY <1>1, <1>2, <1>3, <1>5
<1>6. ASSUME pc # "down", behind' = behind, step' >= step,
             \A s \in Committed' : s \in Committed \/ s <= step'
      PROVE  Few
  BY <1>0, <1>1, <1>6, PassedLess
<1>7. step >= step /\ step + 1 >= step
  BY <1>4
<1> HIDE DEF Few
<1>8. CASE /\ disk' = disk /\ tracker' = tracker /\ behind' = behind /\ step' = step
           /\ pc # "down" /\ pc' \notin Saving
  <2>1. Committed' = Committed /\ Parts
    BY <1>5, <1>8
  <2>2. Few
    BY <1>6, <1>7, <1>8, <2>1
  <2>3. Named
    BY <1>1, <1>8, <2>1
  <2> QED BY <1>8, <2>1, <2>2, <2>3 DEF Saving
<1>9. CASE UNCHANGED <<pc, step, unsaved, disk, tracker, behind>>
  <2>1. Committed' = Committed /\ Parts
    BY <1>5, <1>9
  <2>2. Named /\ Under
    BY <1>1, <1>9, <2>1
  <2>3. Few
    <3>1. CASE pc = "down"
      BY <1>9, <3>1 DEF Few
    <3>2. CASE pc # "down"
      BY <1>6, <1>7, <1>9, <2>1, <3>2
    <3> QED BY <3>1, <3>2
  <2> QED BY <2>1, <2>2, <2>3
<1>10. CASE UNCHANGED vars \/ \E u \in DOMAIN rollouts : RolledOn(u)
  BY <1>9, <1>10 DEF vars, RolledOn, trainer, files, history
<1>11. CASE Reissued
  BY <1>8, <1>11 DEF Reissued, trainer, files, history, Saving
<1>12. CASE Standing /\ (WarmsUp \/ AddsBatch \/ \E u \in DOMAIN prompts : Refills(u))
  <2>1. disk' = disk /\ tracker' = tracker /\ behind' = behind /\ step' = step
    BY <1>12 DEF Standing, files, history
  <2>2. pc # "down" /\ pc' \notin Saving
    BY <1>12 DEF WarmsUp, AddsBatch, Refills, Saving
  <2> QED BY <1>8, <2>1, <2>2
<1>13. CASE \E u \in DOMAIN prompts : SamplesOne(u)
  BY <1>8, <1>13 DEF SamplesOne, files, history, Saving
<1>14. CASE UpdatePolicies
  <2>1. /\ disk' = disk /\ tracker' = tracker /\ behind' = behind /\ step' = step
        /\ pc = "update"
        /\ (pc' = "save" /\ unsaved' = Policies) \/ pc' = "clear"
    BY <1>14 DEF UpdatePolicies, history
  <2>2. CASE pc' = "clear"
    BY <1>8, <2>1, <2>2 DEF Saving
  <2>3. CASE pc' = "save" /\ unsaved' = Policies
    <3>1. Committed' = Committed /\ Parts
      BY <1>5, <2>1
    <3>2. Few
      BY <1>6, <1>7, <2>1, <3>1
    <3>3. Named /\ Under
      BY <1>1, <2>1, <2>3, <3>1
    <3> QED BY <3>1, <3>2, <3>3
  <2> QED BY <2>1, <2>2, <2>3
<1>15. CASE ClearBatch
  <2>1. /\ disk' = disk /\ tracker' = tracker /\ behind' = behind /\ step' = step + 1
        /\ pc = "clear" /\ pc' \notin Saving
    BY <1>15 DEF ClearBatch, files, history, Saving
  <2>2. Committed' = Committed /\ Parts
    BY <1>5, <2>1
  <2>3. Few
    BY <1>6, <1>7, <2>1, <2>2
  <2>4. Named
    BY <1>1, <2>1, <2>2
  <2> QED BY <2>1, <2>2, <2>3, <2>4 DEF Saving
<1>16. CASE Still /\ Writes /\ step \in Steps /\ saves > 0 /\ pc \in Saving
  <2>0. UNCHANGED <<step, saves, behind>> /\ pc # "down"
    BY <1>16 DEF Still, trainer, history, Saving
  <2> HIDE DEF Named, Under, Parts
  <2>1. CASE \E p \in Policies : SavesPolicy(p)
    <3>1. PICK p \in Policies : SavesPolicy(p)
      BY <2>1
    <3>2. /\ \A s \in Steps : s # step => disk'[s] = disk[s]
          /\ Has(disk'[step].policies[p])
          /\ \A q \in Policies : q # p => disk'[step].policies[q] = disk[step].policies[q]
          /\ disk'[step].data = disk[step].data /\ disk'[step].queue = disk[step].queue
          /\ disk'[step].complete = disk[step].complete
          /\ pc = "save" /\ pc' = "save" /\ tracker' = tracker /\ unsaved' = unsaved \ {p}
      BY <1>16, <3>1 DEF SavesPolicy, StoredPolicy, OthersKept, Has
    <3>3. Committed' = Committed
      BY <1>2, <1>3, <1>16, <3>2
    <3>4. Parts
      <4> SUFFICES ASSUME NEW s \in Committed'
                   PROVE  /\ \A q \in Policies : Has(disk'[s].policies[q])
                          /\ Has(disk'[s].data) /\ Has(disk'[s].queue)
        BY DEF Parts
      <4>1. CASE s = step
        BY <1>1, <3>2, <3>3, <4>1 DEF Has
      <4>2. CASE s # step
        <5>1. disk'[s] = disk[s]
          BY <1>2, <3>2, <4>2
        <5> QED BY <1>1, <3>3, <5>1
      <4> QED BY <4>1, <4>2
    <3>5. Under
      BY <1>1, <1>16, <2>0, <3>2 DEF Under, Saving, Has
    <3>6. Named
      BY <1>1, <2>0, <3>2, <3>3 DEF Named
    <3>7. Few
      BY <1>6, <1>7, <2>0, <3>3
    <3> QED BY <3>4, <3>5, <3>6, <3>7
  <2>2. CASE SavesData
    <3>2. /\ \A s \in Steps : s # step => disk'[s] = disk[s]
          /\ Has(disk'[step].data)
          /\ disk'[step].policies = disk[step].policies /\ disk'[step].queue = disk[step].queue
          /\ disk'[step].complete = disk[step].complete
          /\ pc = "save" /\ pc' = "save_queue" /\ tracker' = tracker
          /\ unsaved = {} /\ unsaved' = {}
      BY <1>16, <2>2 DEF SavesData, StoredData, OthersKept, Has
    <3>3. Committed' = Committed
      BY <1>2, <1>3, <1>16, <3>2
    <3>4. Parts
      <4> SUFFICES ASSUME NEW s \in Committed'
                   PROVE  /\ \A q \in Policies : Has(disk'[s].policies[q])
                          /\ Has(disk'[s].data) /\ Has(disk'[s].queue)
        BY DEF Parts
      <4>1. CASE s = step
        BY <1>1, <3>2, <3>3, <4>1
      <4>2. CASE s # step
        <5>1. disk'[s] = disk[s]
          BY <1>2, <3>2, <4>2
        <5> QED BY <1>1, <3>3, <5>1
      <4> QED BY <4>1, <4>2
    <3>5. Under
      BY <1>1, <1>16, <2>0, <3>2 DEF Under, Saving
    <3>6. Named
      BY <1>1, <2>0, <3>2, <3>3 DEF Named
    <3>7. Few
      BY <1>6, <1>7, <2>0, <3>3
    <3> QED BY <3>4, <3>5, <3>6, <3>7
  <2>3. CASE SavesQueue
    <3>2. /\ \A s \in Steps : s # step => disk'[s] = disk[s]
          /\ Has(disk'[step].queue)
          /\ disk'[step].policies = disk[step].policies /\ disk'[step].data = disk[step].data
          /\ disk'[step].complete = disk[step].complete
          /\ pc = "save_queue" /\ pc' = "manifest" /\ tracker' = tracker
          /\ unsaved' = unsaved
      BY <1>16, <2>3 DEF SavesQueue, StoredQueue, OthersKept, Has
    <3>3. Committed' = Committed
      BY <1>2, <1>3, <1>16, <3>2
    <3>4. Parts
      <4> SUFFICES ASSUME NEW s \in Committed'
                   PROVE  /\ \A q \in Policies : Has(disk'[s].policies[q])
                          /\ Has(disk'[s].data) /\ Has(disk'[s].queue)
        BY DEF Parts
      <4>1. CASE s = step
        BY <1>1, <3>2, <3>3, <4>1
      <4>2. CASE s # step
        <5>1. disk'[s] = disk[s]
          BY <1>2, <3>2, <4>2
        <5> QED BY <1>1, <3>3, <5>1
      <4> QED BY <4>1, <4>2
    <3>5. Under
      BY <1>1, <1>16, <2>0, <3>2 DEF Under, Saving
    <3>6. Named
      BY <1>1, <2>0, <3>2, <3>3 DEF Named
    <3>7. Few
      BY <1>6, <1>7, <2>0, <3>3
    <3> QED BY <3>4, <3>5, <3>6, <3>7
  <2>4. CASE SavesManifest
    <3>2. /\ \A s \in Steps : s # step => disk'[s] = disk[s]
          /\ disk'[step].policies = disk[step].policies /\ disk'[step].data = disk[step].data
          /\ disk'[step].queue = disk[step].queue /\ disk'[step].complete = TRUE
          /\ pc = "manifest" /\ pc' = "tracker" /\ tracker' = tracker
          /\ unsaved' = unsaved
      BY <2>4 DEF SavesManifest, StoredManifest, OthersKept
    <3>3. Committed' = Committed \cup {step}
      BY <1>2, <1>3, <1>16, <3>2
    <3>4. Parts
      <4> SUFFICES ASSUME NEW s \in Committed'
                   PROVE  /\ \A q \in Policies : Has(disk'[s].policies[q])
                          /\ Has(disk'[s].data) /\ Has(disk'[s].queue)
        BY DEF Parts
      <4>1. CASE s = step
        BY <1>1, <1>16, <3>2, <4>1 DEF Saving
      <4>2. CASE s # step
        <5>1. disk'[s] = disk[s]
          BY <1>2, <3>2, <4>2
        <5> QED BY <1>1, <3>3, <4>2, <5>1
      <4> QED BY <4>1, <4>2
    <3>5. Under
      BY <1>1, <1>16, <2>0, <3>2, <3>3 DEF Under, Saving
    <3>6. Named
      BY <1>1, <2>0, <3>2, <3>3 DEF Named
    <3>7. Few
      <4>1. \A s \in Committed' : s \in Committed \/ s <= step'
        BY <1>4, <2>0, <3>3
      <4> QED BY <1>6, <1>7, <2>0, <4>1
    <3> QED BY <3>4, <3>5, <3>6, <3>7
  <2>5. CASE SavesTracker
    <3>2. disk' = disk /\ pc = "tracker" /\ pc' = "prune" /\ tracker' = step /\ unsaved' = unsaved
      BY <2>5 DEF SavesTracker
    <3>3. Committed' = Committed /\ Parts
      BY <1>5, <3>2
    <3>4. Under
      BY <1>1, <1>16, <2>0, <3>2, <3>3 DEF Under, Saving
    <3>5. Named
      BY <1>1, <3>2, <3>3 DEF Named
    <3>6. Few
      BY <1>6, <1>7, <2>0, <3>3
    <3> QED BY <3>3, <3>4, <3>5, <3>6
  <2>6. CASE Prunes
    <3>2. /\ \A s \in Steps : disk'[s] = IF s \in Outdated THEN NoDirectory ELSE disk[s]
          /\ pc = "prune" /\ pc' = "clear" /\ tracker' = tracker
      BY <2>6 DEF Prunes
    <3>3. ~NoDirectory.complete
      BY DEF NoDirectory
    <3>4. Committed' = Committed \ Outdated
      BY <1>2, <1>3, <3>2, <3>3
    <3>5. Parts
      BY <1>1, <1>2, <3>2, <3>3, <3>4 DEF Parts
    <3>6. Under
      BY <3>2 DEF Under, Saving
    <3>7. Few
      BY <1>6, <1>7, <2>0, <3>4
    <3>8. Named
      <4> SUFFICES ASSUME ~behind
                   PROVE  step \notin Outdated
        BY <1>1, <2>0, <3>2, <3>4 DEF Named
      <4>1. PICK later : later = {t \in Committed : t > step}
        OBVIOUS
      <4>2. SavesAt(step)
        BY <1>0, <1>16 DEF Staged
      <4>3. \A t \in later : t \in Passed(step)
        <5> SUFFICES ASSUME NEW t \in later
                     PROVE  t \in Passed(step)
          OBVIOUS
        <5>1. t \in Committed /\ t > step
          BY <4>1
        <5>2. t \in Int
          BY <1>3, <5>1, BoundsAssumption DEF Steps
        <5>3. step <= step /\ step < t
          BY <1>4, <5>1, <5>2
        <5> QED BY <1>16, <4>2, <5>1, <5>3 DEF Passed
      <4>4. later \in SUBSET Passed(step) /\ Passed(step) \in SUBSET Steps
        BY <1>3, <4>3 DEF Passed
      <4>5. later \in SUBSET Steps
        BY <4>4
      <4>6. Cardinality(later) <= Cardinality(Passed(step))
        BY <4>4, PassedFinite, FS_Subset
      <4>7. /\ Cardinality(later) \in Nat /\ Cardinality(Passed(step)) \in Nat
            /\ Keep \in Nat /\ Cardinality(Passed(step)) < Keep
        BY <1>1, <2>0, <4>4, <4>5, PassedFinite, BoundsAssumption
      <4>8. ~(Cardinality(later) >= Keep)
        BY <4>6, <4>7
      <4> QED BY <4>1, <4>8 DEF Outdated
    <3> QED BY <3>5, <3>6, <3>7, <3>8
  <2> QED BY <1>16, <2>1, <2>2, <2>3, <2>4, <2>5, <2>6 DEF Writes
<1>17. CASE Crash
  <2>1. disk' = disk /\ tracker' = tracker /\ behind' = behind /\ pc' = "down"
    BY <1>17 DEF Crash, history
  <2>2. Committed' = Committed /\ Parts
    BY <1>5, <2>1
  <2>3. Few
    BY <2>1 DEF Few
  <2>4. Named /\ Under
    BY <1>1, <2>1, <2>2 DEF Saving
  <2> QED BY <2>2, <2>3, <2>4
<1>18. ASSUME NEW s, s \in Steps \cup {0}, disk' = disk, tracker' = tracker, step' = s + 1,
              pc' = "reissue", behind' = (behind \/ Cardinality(Beyond(s)) >= Keep)
       PROVE  Parts /\ Under /\ Named /\ Few
  <2>1. Committed' = Committed /\ Parts
    BY <1>5, <1>18
  <2>2. ~behind' => ~behind
    BY <1>18, Zenon
  <2>3. Named /\ Under
    BY <1>1, <1>18, <2>1, <2>2 DEF Saving
  <2>4. Few
    <3> SUFFICES ASSUME ~behind'
                 PROVE  Cardinality(Passed(step)') < Keep
      BY DEF Few
    <3>1. PICK B : B = Beyond(s)
      OBVIOUS
    <3>2. ~(Cardinality(B) >= Keep)
      BY <1>18, <3>1, Zenon
    <3>3. B \in SUBSET Steps
      BY <1>3, <3>1 DEF Beyond
    <3>4. Cardinality(B) \in Nat /\ Keep \in Nat
      BY <3>3, PassedFinite, BoundsAssumption
    <3>5. Passed(step)' = {t \in Committed' : \E x \in Steps : step' <= x /\ x < t /\ SavesAt(x)}
      BY DEF Passed, SavesAt
    <3>6. s \in Int /\ \A x \in Steps : x \in Int
      BY <1>18, BoundsAssumption DEF Steps
    <3>7. \A x \in Steps : step' <= x <=> s < x
      BY <1>18, <3>6
    <3>8. Passed(step)' = B
      BY <2>1, <3>1, <3>5, <3>7 DEF Beyond
    <3>9. Cardinality(B) < Keep
      BY <3>2, <3>4
    <3> QED BY <3>8, <3>9
  <2> QED BY <2>1, <2>3, <2>4
<1>19. CASE StartFromScratch
  <2>1. /\ disk' = disk /\ tracker' = tracker /\ step' = 0 + 1 /\ pc' = "reissue"
        /\ behind' = (behind \/ Cardinality(Beyond(0)) >= Keep)
    BY <1>19 DEF StartFromScratch, Begin, files
  <2> QED BY <1>18, <2>1
<1>20. CASE \E s \in Steps : Load(s)
  <2>1. PICK s \in Steps : Load(s)
    BY <1>20
  <2>2. /\ disk' = disk /\ tracker' = tracker /\ step' = s + 1 /\ pc' = "reissue"
        /\ behind' = (behind \/ Cardinality(Beyond(s)) >= Keep)
    BY <2>1 DEF Load, Begin, files
  <2> QED BY <1>18, <2>2
<1> QED BY <1>0, <1>10, <1>11, <1>12, <1>13, <1>14, <1>15, <1>16, <1>17, <1>19, <1>20 DEF Action

-----------------------------------------------------------------------------
(* The invariant and what follows from it. *)

\* The invariant holds as the first life begins.
LEMMA TrainInit == Init => TrainInv
<1> SUFFICES ASSUME Init
             PROVE  TrainInv
  OBVIOUS
<1>1. /\ pc = "down" /\ life = 0 /\ step = 0 /\ position = 0
      /\ trained = [p \in Policies |-> {}]
      /\ prompts = <<>> /\ rows = {} /\ rollouts = <<>>
      /\ batch = NoUid /\ unsaved = {} /\ saves = 0
      /\ disk = [s \in Steps |-> NoDirectory] /\ tracker = 0
      /\ mixed = FALSE /\ behind = FALSE /\ failures = 0 /\ stuck = 0
  BY DEF Init
<1>2. \A s \in Steps : /\ disk[s] = NoDirectory /\ ~Has(disk[s].queue) /\ ~disk[s].complete
                       /\ disk[s].data.save = 0 /\ disk[s].queue.save = 0
                       /\ \A p \in Policies : disk[s].policies[p].save = 0
  BY <1>1 DEF NoDirectory, NoPart, Has
<1>3. IsFiniteSet({}) /\ Cardinality({}) = 0
  BY FS_EmptySet
<1>4. prompts \in Registers /\ DOMAIN prompts = {}
  <2>1. IsFiniteSet({}) /\ {} \in SUBSET Uids /\ prompts \in [{} -> Statuses]
    BY <1>1, <1>3
  <2> QED BY ONLY <2>1, IsRegister
<1>5. Typed
  <2>1. disk \in [Steps -> Directories]
    BY <1>1, NoDirectoryType
  <2>2. pc \in Stages /\ life \in 0..MaxCrashes /\ step \in 0..(TotalSteps + 1)
        /\ failures + stuck <= MaxFaults
    BY <1>1, BoundsAssumption DEF Stages
  <2>3. DOMAIN rollouts = {} /\ rollouts \in [DOMAIN rollouts -> {Submitted} \cup Writings]
    BY <1>1
  <2> QED BY <1>1, <1>4, <2>1, <2>2, <2>3 DEF Typed
<1>6. Staged
  BY <1>1 DEF Staged, Stepping, Sampled, Saving
<1>7. Running
  BY <1>1 DEF Running
<1>8. Known
  BY <1>1, <1>2 DEF Known
<1>9. Recorded
  BY <1>1, <1>2 DEF Recorded, Idle
<1>10. Counted
  <2>1. Waiting(prompts) = 0
    BY <1>3, <1>4 DEF Waiting
  <2>2. 0 <= Warmup * life
    BY <1>1, BoundsAssumption
  <2> QED BY <1>1, <1>2, <2>1, <2>2 DEF Counted, Idle
<1>11. Fitting
  <2>1. Fits(trained, position, prompts)
    BY <1>1 DEF Fits
  <2>2. Charged = {}
    BY <1>1 DEF Charged, Missing, PositionsOf, Failed, Failing
  <2>3. Cardinality(Charged) <= failures
    BY <1>1, <1>3, <2>2
  <2> QED BY <1>1, <1>2, <2>1, <2>3 DEF Fitting, Coherent, Whole
<1>12. Saved
  BY <1>1, <1>2 DEF Saved, Saving
<1>13. Tracked
  BY <1>1, <1>2 DEF Tracked, Committed, Saving
<1> QED BY <1>5, <1>6, <1>7, <1>8, <1>9, <1>10, <1>11, <1>12, <1>13 DEF TrainInv

\* Every step keeps the invariant.
LEMMA TrainInvStep == TrainInv /\ [Next]_vars => TrainInv'
<1> SUFFICES ASSUME TrainInv, [Next]_vars
             PROVE  TrainInv'
  OBVIOUS
<1>1. Typed' /\ Staged' /\ Running'
  BY TypedStep, StagedStep, RunningStep
<1>2. Known'
  BY <1>1, KnownStep
<1>3. Recorded'
  BY <1>1, RecordedStep
<1>4. Counted'
  BY <1>1, CountedStep
<1>5. Fitting'
  BY <1>1, FittingStep
<1>6. Saved'
  BY <1>1, SavedStep
<1>7. Tracked'
  BY <1>1, TrackedStep
<1> QED BY <1>1, <1>2, <1>3, <1>4, <1>5, <1>6, <1>7 DEF TrainInv

\* The invariant holds in every training run.
LEMMA TrainInvariant == Spec => []TrainInv
<1>1. Init => TrainInv
  BY TrainInit
<1>2. TrainInv /\ [Next]_vars => TrainInv'
  BY TrainInvStep
<1> QED BY <1>1, <1>2, PTL DEF Spec

\* A trainer that waits has prompts under way unless enough rollouts raised.
LEMMA ServedBy == TrainInv => TrainerServed
<1> SUFFICES ASSUME TrainInv, pc = "sample", stuck <= Warmup, rollouts = <<>>,
                    \A u \in DOMAIN prompts : prompts[u] \notin {"finished", "failure"}
             PROVE  FALSE
  BY DEF TrainerServed
<1>1. Typed /\ Counted
  BY DEF TrainInv
<1>2. \A u \in DOMAIN prompts : prompts[u] \in Statuses
  BY <1>1, RegisterFacts DEF Typed
<1>3. Abandoned = DOMAIN prompts
  <2>1. DOMAIN rollouts = {}
    OBVIOUS
  <2> QED BY <1>2, <2>1 DEF Abandoned, InFlight, Statuses
<1>4. Cardinality(Abandoned) >= Warmup + 1 /\ Cardinality(Abandoned) \in Nat
  BY <1>1, <1>3, RegisterFacts DEF Counted, Waiting, Typed
<1>5. IF life = 0 THEN Cardinality(Abandoned) <= stuck ELSE Abandoned = {}
  BY <1>1 DEF Counted, Idle
<1>6. stuck \in Nat /\ Warmup \in Nat
  BY <1>1, BoundsAssumption DEF Typed
<1>7. CASE life = 0
  BY <1>4, <1>5, <1>6, <1>7
<1>8. CASE life # 0
  <2>1. Cardinality(Abandoned) = 0
    BY <1>5, <1>8, FS_EmptySet
  <2> QED BY <1>4, <1>6, <2>1
<1> QED BY <1>7, <1>8

\* The invariant implies that what is trained on is new.
LEMMA BatchesBy == TrainInv => BatchesSound
<1> SUFFICES ASSUME TrainInv
             PROVE  BatchesSound
  OBVIOUS
<1>1. Typed /\ Staged /\ Fitting
  BY DEF TrainInv
<1>2. TypeOK
  <2>1. DOMAIN prompts \subseteq Uids /\ Range(prompts) \subseteq Statuses
    BY <1>1, RegisterFacts DEF Typed, Range
  <2>2. failures \in 0..MaxFaults /\ stuck \in 0..MaxFaults
    BY <1>1, BoundsAssumption DEF Typed
  <2> QED BY <1>1, <2>1, <2>2 DEF Typed, TypeOK, Stages, Stepping, Sampled, Saving
<1>3. TrainedOnce
  BY <1>1 DEF TrainedOnce, Fitting, Coherent, Staged, Sampled
<1> QED BY <1>2, <1>3, ServedBy DEF BatchesSound

\* The invariant implies that every prompt is accounted for.
LEMMA PromptsBy == TrainInv => PromptsSound
<1> SUFFICES ASSUME TrainInv
             PROVE  PromptsSound
  OBVIOUS
<1>1. Typed /\ Known /\ Recorded /\ Counted /\ Fitting
  BY DEF TrainInv
<1>2. PromptsAccounted
  <2> SUFFICES ASSUME ~mixed
               PROVE  Cardinality(Missing) <= failures
    BY DEF PromptsAccounted
  <2>1. Coherent /\ Missing \in SUBSET Charged
    BY <1>1 DEF Fitting, Charged
  <2> QED BY <1>1, <2>1, ChargedLess
<1>3. OneAttempt
  BY <1>1 DEF OneAttempt, Recorded, HasRow, Idle
<1>4. InFlightBounded
  <2>1. batch \notin DOMAIN prompts
    <3>1. NoUid \notin Uids /\ DOMAIN prompts \subseteq Uids
      BY <1>1, RegisterFacts DEF Typed, NoUid, Uids
    <3> QED BY <1>1, <3>1 DEF Known
  <2>2. PICK n : n = Waiting(prompts)
    OBVIOUS
  <2>3. n \in Nat
    BY <1>1, <2>2, RegisterFacts DEF Typed
  <2>4. life \in Nat /\ Warmup \in Nat
    BY <1>1, BoundsAssumption DEF Typed
  <2>5. PICK x : x = Warmup * life
    OBVIOUS
  <2>6. PICK y : y = Warmup * (life + 1)
    OBVIOUS
  <2>7. x \in Nat /\ y \in Nat /\ y = x + Warmup
    BY <2>4, <2>5, <2>6, Products
  <2>8. n <= x \/ n <= y \/ n <= y + 1
    BY <1>1, <2>2, <2>5, <2>6 DEF Counted
  <2>9. n <= y + 1
    BY <2>3, <2>4, <2>7, <2>8
  <2> QED BY <2>1, <2>2, <2>6, <2>9 DEF InFlightBounded, Waiting
<1> QED BY <1>2, <1>3, <1>4 DEF PromptsSound

\* The invariant implies that the tracker names a whole checkpoint.
LEMMA TrackerBy == TrainInv => TrackerLoadable
<1> SUFFICES ASSUME TrainInv, tracker # 0, ~behind
             PROVE  disk[tracker].complete /\ Loadable(tracker)
  BY DEF TrackerLoadable
<1>1. tracker \in Committed
  BY DEF TrainInv, Tracked
<1> QED BY <1>1 DEF TrainInv, Tracked, Committed, Loadable

(* In every training run what is sampled was not trained on before, across *)
(* crashes and resumes (separate_async fit, the replay buffer's sample and *)
(* the checkpoints), and a trainer that waits for a prompt gets one.       *)
THEOREM TrainsOnce == Spec => []BatchesSound
<1>1. Spec => []TrainInv
  BY TrainInvariant
<1>2. TrainInv => BatchesSound
  BY BatchesBy
<1> QED BY <1>1, <1>2, PTL

(* In every training run each prompt the dataloader has handed out is      *)
(* trained on, waits, or is counted as failed (_reissue_inflight_prompts,  *)
(* the refill of failed prompts and the snapshots of the queue), with the  *)
(* records of one attempt, and no more prompts wait than were warmed up.   *)
THEOREM AccountsForPrompts == Spec => []PromptsSound
<1>1. Spec => []TrainInv
  BY TrainInvariant
<1>2. TrainInv => PromptsSound
  BY PromptsBy
<1> QED BY <1>1, <1>2, PTL

(* In every training run the checkpoint the tracker names can be loaded,   *)
(* whatever was overwritten, interrupted or pruned since it was published, *)
(* as long as no life began below Keep directories that its next save does *)
(* not reach.                                                              *)
THEOREM TrackerNamesWhole == Spec => []TrackerLoadable
<1>1. Spec => []TrainInv
  BY TrainInvariant
<1>2. TrainInv => TrackerLoadable
  BY TrackerBy
<1> QED BY <1>1, <1>2, PTL

-----------------------------------------------------------------------------
(* Both halves of the example. *)

\* A step of the pair is a step of each half, or leaves the half as it was.
LEMMA HalvesStep ==
  [MultiPolicyNext]_<<vars, groupvars, half>> => [Next]_vars /\ [GroupNext]_groupvars
BY DEF MultiPolicyNext, TrainerStep, GroupStep

(* The trainer and the groups of its rollouts, run from where each begins, *)
(* keep what each promises: batches, prompts and the tracker of the        *)
(* trainer, and groups that are placed, served and released as a whole.    *)
THEOREM MultiPolicyIsSound ==
  MultiPolicySpec => [](BatchesSound /\ PromptsSound /\ TrackerLoadable /\ GroupsSound)
<1>1. MultiPolicyInit => Init /\ GroupInit
  BY DEF MultiPolicyInit
<1>2. MultiPolicySpec => Spec /\ GroupSpec
  BY <1>1, HalvesStep, PTL DEF MultiPolicySpec, Spec, GroupSpec
<1> QED BY <1>2, TrainsOnce, AccountsForPrompts, TrackerNamesWhole, GroupsAreSound, PTL

=============================================================================
