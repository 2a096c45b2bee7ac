---------------------------- MODULE TaskRunsProofs ----------------------------
(***************************************************************************)
(* Proofs about the parts of TaskRuns, each first about a part by itself:  *)
(* the leases of evaluator NPUs (NpuLease), Harbor trials (HarborTrial),   *)
(* episodes of a command-line agent (TaskEpisode over AgentRun), loops of  *)
(* the library (AgentLoop), the logs (RunLogging) and sessions of the      *)
(* kernel task (KernelVerify).  The properties of TaskRuns follow at the   *)
(* end.                                                                    *)
(***************************************************************************)
EXTENDS TaskRuns, SequenceTheorems, FiniteSetTheorems, WellFoundedInduction, TLAPS

-----------------------------------------------------------------------------
(* Leases. *)

LeaseStages == Gone \cup {"idle", "waiting", "leased", "spawned", "registered",
                          "guarding", "draining", "closing"}

\* Types; who has no lease works nowhere.
LeaseState ==
  /\ wrapper \in [Wrappers -> LeaseStages]
  /\ device \in [Wrappers -> Devices \cup {NoDevice}]
  /\ members \in [Wrappers -> SUBSET Members]
  /\ bare \subseteq {w \in Wrappers : "helper" \in members[w]}
  /\ \A w \in Wrappers :
       /\ wrapper[w] \in {"idle", "waiting"} => device[w] = NoDevice
       /\ wrapper[w] \in {"leased", "spawned", "registered", "guarding", "draining",
                          "closing"} => device[w] \in Devices
       /\ members[w] # {} => device[w] \in Devices
       /\ wrapper[w] \in {"idle", "waiting", "leased", "closing", "gone"} => members[w] = {}

\* A device whose lock is open has one wrapper whose it is.
OneHolder ==
  \A v, w \in Wrappers :
    Holders(v) # {} /\ Holders(w) # {} /\ device[v] \in Devices /\ device[v] = device[w]
      => v = w

LeaseInv == LeaseState /\ OneHolder

-----------------------------------------------------------------------------
\* A killed wrapper changes its stage only.
LEMMA KilledStage ==
  ASSUME LeaseState, NEW w \in Wrappers, Killed(w)
  PROVE  \/ wrapper' = wrapper
         \/ /\ wrapper[w] \notin {"idle"} \cup Gone
            /\ wrapper' = [wrapper EXCEPT ![w] = "killed"]
BY DEF Killed, WrapperGoes

\* What is left of a group is a part of it.
LEMMA GroupShrinks ==
  ASSUME LeaseState, NEW w \in Wrappers, NEW rest, GroupKeeps(w, rest)
  PROVE  /\ members' = [members EXCEPT ![w] = members[w] \cap rest]
         /\ bare' = IF "helper" \in rest THEN bare ELSE bare \ {w}
         /\ bare' \subseteq {v \in Wrappers : "helper" \in members'[v]}
<1>1. /\ members' = [members EXCEPT ![w] = members[w] \cap rest]
      /\ bare' = IF "helper" \in rest THEN bare ELSE bare \ {w}
  BY DEF GroupKeeps
<1>2. bare' \subseteq {v \in Wrappers : "helper" \in members'[v]}
  BY <1>1 DEF LeaseState
<1>3. QED BY <1>1, <1>2

\* A step that gives no wrapper a device, stage by stage, keeps the invariant:
\* nobody has a lock open that had none open before.
LEMMA QuietStep ==
  ASSUME LeaseInv, LeaseState', UNCHANGED device,
         \A w \in Wrappers : device[w] \in Devices /\ Holders(w)' # {} => Holders(w) # {}
  PROVE  OneHolder'
BY DEF LeaseInv, OneHolder

\* A wrapper that goes from one stage to the next keeps its lock open.
LEMMA StageStep ==
  ASSUME LeaseInv, NEW w \in Wrappers, NEW stage \in LeaseStages,
         wrapper[w] \notin {"idle", "waiting"} \cup Gone,
         WrapperGoes(w, stage), stage \notin {"idle", "waiting", "leased"},
         stage \in {"closing", "gone"} => members[w] = {},
         UNCHANGED <<device, members, bare>>
  PROVE  LeaseInv'
<1>1. LeaseState'
  BY DEF LeaseInv, LeaseState, WrapperGoes, LeaseStages, Gone
<1>2. \A v \in Wrappers : Holders(v)' # {} => Holders(v) # {}
  BY DEF LeaseInv, LeaseState, WrapperGoes, Holders, LeaseStages, Gone
<1>3. QED BY <1>1, <1>2, QuietStep DEF LeaseInv

\* Signals end members and wrappers; they open no lock.
LEMMA SignalStep ==
  ASSUME LeaseInv, NEW w \in Wrappers, NEW rest,
         Killed(w) \/ UNCHANGED wrapper,
         GroupKeeps(w, rest) \/ UNCHANGED Group,
         UNCHANGED device
  PROVE  LeaseInv'
<1>1. LeaseState /\ OneHolder
  BY DEF LeaseInv
<1>2. \/ wrapper' = wrapper
      \/ /\ wrapper[w] \notin {"idle"} \cup Gone
         /\ wrapper' = [wrapper EXCEPT ![w] = "killed"]
  BY <1>1, KilledStage
<1>3. /\ \A v \in Wrappers : members'[v] \subseteq members[v]
      /\ members' \in [Wrappers -> SUBSET Members]
      /\ bare' \subseteq bare
      /\ bare' \subseteq {v \in Wrappers : "helper" \in members'[v]}
      /\ \A v \in Wrappers : "helper" \in members'[v] /\ v \in bare => v \in bare'
  <2>1. CASE GroupKeeps(w, rest)
    BY <1>1, <2>1, GroupShrinks DEF LeaseState
  <2>2. CASE UNCHANGED Group
    BY <1>1, <2>2 DEF LeaseState, Group
  <2>3. QED BY <2>1, <2>2
<1>4. LeaseState'
  <2>1. wrapper' \in [Wrappers -> LeaseStages]
    BY <1>1, <1>2 DEF LeaseState, LeaseStages, Gone
  <2>2. \A v \in Wrappers : wrapper'[v] = wrapper[v] \/ wrapper'[v] = "killed"
    BY <1>1, <1>2 DEF LeaseState
  <2>3. QED BY <1>1, <1>3, <2>1, <2>2 DEF LeaseState
<1>5. \A v \in Wrappers : Holders(v)' # {} => Holders(v) # {}
  <2>1. \A v \in Wrappers :
          wrapper'[v] \notin {"idle"} \cup Gone => wrapper[v] = wrapper'[v]
    BY <1>1, <1>2 DEF LeaseState, Gone
  <2>2. \A v \in Wrappers :
          (IF v \in bare THEN members[v] \ {"helper"} ELSE members[v])'
             \subseteq (IF v \in bare THEN members[v] \ {"helper"} ELSE members[v])
    BY <1>3
  <2>3. QED BY <2>1, <2>2 DEF Holders
<1>6. QED BY <1>4, <1>5, QuietStep DEF LeaseInv

-----------------------------------------------------------------------------
\* Only a free device is leased, and its lock stays open until nobody is left.
LEMMA LeaseKeepsInv == LeaseInv /\ [LeaseNext]_leasevars => LeaseInv'
<1> SUFFICES ASSUME LeaseInv, [LeaseNext]_leasevars PROVE LeaseInv'
  OBVIOUS
<1>a. LeaseState /\ OneHolder
  BY DEF LeaseInv
<1>1. ASSUME NEW w \in Wrappers, BeginWrapper(w) PROVE LeaseInv'
  <2>1. /\ wrapper[w] = "idle" /\ wrapper' = [wrapper EXCEPT ![w] = "waiting"]
        /\ UNCHANGED <<device, members, bare>>
    BY <1>1 DEF BeginWrapper, WrapperGoes, Group
  <2>2. LeaseState'
    BY <1>a, <2>1 DEF LeaseState, LeaseStages, Gone
  <2>3. \A v \in Wrappers : device[v] \in Devices /\ Holders(v)' # {} => Holders(v) # {}
    BY <1>a, <2>1, LeaseAssumption DEF LeaseState, Holders, Gone
  <2>4. QED BY <2>1, <2>2, <2>3, QuietStep DEF LeaseInv
<1>2. ASSUME NEW w \in Wrappers, Acquire(w) PROVE LeaseInv'
  <2>1. PICK d \in Devices : ~Taken(d) /\ device' = [device EXCEPT ![w] = d]
    BY <1>2 DEF Acquire
  <2>2. /\ wrapper[w] = "waiting" /\ wrapper' = [wrapper EXCEPT ![w] = "leased"]
        /\ UNCHANGED <<members, bare>>
    BY <1>2 DEF Acquire, WrapperGoes, Group
  <2>3. LeaseState'
    BY <1>a, <2>1, <2>2 DEF LeaseState, LeaseStages, Gone
  <2>4. \A v \in Wrappers \ {w} : Holders(v)' = Holders(v) /\ device'[v] = device[v]
    BY <1>a, <2>1, <2>2 DEF LeaseState, Holders
  <2>5. device'[w] = d
    BY <1>a, <2>1 DEF LeaseState
  <2>6. \A v \in Wrappers \ {w} : device[v] = d => Holders(v) = {}
    BY <2>1 DEF Taken
  <2>7. OneHolder'
    BY <1>a, <2>4, <2>5, <2>6 DEF OneHolder
  <2>8. QED BY <2>3, <2>7 DEF LeaseInv
<1>3. ASSUME NEW w \in Wrappers, LeaseTimeout(w) PROVE LeaseInv'
  <2>1. /\ wrapper[w] = "waiting" /\ wrapper' = [wrapper EXCEPT ![w] = "gone"]
        /\ UNCHANGED <<device, members, bare>>
    BY <1>3 DEF LeaseTimeout, WrapperGoes, Group
  <2>2. LeaseState'
    BY <1>a, <2>1 DEF LeaseState, LeaseStages, Gone
  <2>3. \A v \in Wrappers : Holders(v)' # {} => Holders(v) # {}
    BY <1>a, <2>1 DEF LeaseState, Holders, Gone
  <2>4. QED BY <2>1, <2>2, <2>3, QuietStep DEF LeaseInv
<1>4. ASSUME NEW w \in Wrappers, Spawn(w) PROVE LeaseInv'
  <2>1. /\ wrapper[w] = "leased" /\ wrapper' = [wrapper EXCEPT ![w] = "spawned"]
        /\ members' = [members EXCEPT ![w] = {"child"}]
        /\ UNCHANGED <<device, bare>>
    BY <1>4 DEF Spawn, WrapperGoes
  <2>2. LeaseState'
    BY <1>a, <2>1 DEF LeaseState, LeaseStages, Gone, Members
  <2>3. \A v \in Wrappers : Holders(v)' # {} => Holders(v) # {}
    BY <1>a, <2>1 DEF LeaseState, Holders, Gone
  <2>4. QED BY <2>1, <2>2, <2>3, QuietStep DEF LeaseInv
<1>5. ASSUME NEW w \in Wrappers,
             Register(w) \/ InstallHandlers(w) \/ ChildReaped(w) PROVE LeaseInv'
  <2>1. \E stage \in {"registered", "guarding", "draining"} :
          /\ WrapperGoes(w, stage)
          /\ wrapper[w] \in {"spawned", "registered", "guarding"}
          /\ UNCHANGED <<device, members, bare>>
    BY <1>5 DEF Register, InstallHandlers, ChildReaped, Group
  <2>2. QED BY <2>1, StageStep DEF LeaseStages, Gone
<1>6. ASSUME NEW w \in Wrappers, TerminateGroup(w) PROVE LeaseInv'
  <2>1. /\ wrapper[w] = "draining" /\ wrapper' = [wrapper EXCEPT ![w] = "closing"]
        /\ GroupKeeps(w, {}) /\ UNCHANGED device
    BY <1>6 DEF TerminateGroup, WrapperGoes
  <2>2. /\ members' = [members EXCEPT ![w] = {}] /\ bare' = bare \ {w}
    BY <1>a, <2>1, GroupShrinks
  <2>3. LeaseState'
    BY <1>a, <2>1, <2>2 DEF LeaseState, LeaseStages, Gone
  <2>4. \A v \in Wrappers : Holders(v)' # {} => Holders(v) # {}
    BY <1>a, <2>1, <2>2 DEF LeaseState, Holders, Gone
  <2>5. QED BY <2>1, <2>3, <2>4, QuietStep DEF LeaseInv
<1>7. ASSUME NEW w \in Wrappers, EndWrapper(w) PROVE LeaseInv'
  <2>1. /\ wrapper[w] = "closing" /\ WrapperGoes(w, "gone")
        /\ UNCHANGED <<device, members, bare>>
    BY <1>7 DEF EndWrapper, Group
  <2>2. members[w] = {}
    BY <1>a, <2>1 DEF LeaseState
  <2>3. QED BY <2>1, <2>2, StageStep DEF LeaseStages, Gone
<1>8. ASSUME NEW w \in Wrappers, StartMember(w) PROVE LeaseInv'
  <2>1. /\ members[w] = {"child"} /\ members' = [members EXCEPT ![w] = Members]
        /\ bare' \in {bare, bare \cup {w}} /\ UNCHANGED <<device, wrapper>>
    BY <1>8 DEF StartMember
  <2>2. w \notin bare
    BY <1>a, <2>1 DEF LeaseState
  <2>3. LeaseState'
    BY <1>a, <2>1 DEF LeaseState, Members
  <2>4. \A v \in Wrappers : Holders(v)' # {} => Holders(v) # {}
    BY <1>a, <2>1, <2>2 DEF LeaseState, Holders, Gone
  <2>5. QED BY <2>1, <2>3, <2>4, QuietStep DEF LeaseInv
<1>9. ASSUME NEW w \in Wrappers, NEW m \in Members, MemberExits(w, m) PROVE LeaseInv'
  BY <1>9, SignalStep DEF MemberExits
<1>10. ASSUME NEW w \in Wrappers, KillWrapper(w) PROVE LeaseInv'
  BY <1>10, SignalStep DEF KillWrapper
<1>11. ASSUME NEW w \in Wrappers, SignalTerm(w) PROVE LeaseInv'
  <2>1. /\ Killed(w) \/ UNCHANGED wrapper
        /\ GroupKeeps(w, stubborn[w]) \/ UNCHANGED Group
        /\ UNCHANGED device
    BY <1>11 DEF SignalTerm
  <2>2. QED BY <2>1, SignalStep
<1>12. ASSUME NEW w \in Wrappers, SignalKill(w) PROVE LeaseInv'
  <2>1. /\ Killed(w) \/ UNCHANGED wrapper
        /\ GroupKeeps(w, {}) \/ UNCHANGED Group
        /\ UNCHANGED device
    BY <1>12 DEF SignalKill
  <2>2. QED BY <2>1, SignalStep
<1>13. CASE BeginCleanup \/ RoundEnds \/ WaitEnds \/ UNCHANGED leasevars
  <2>1. UNCHANGED <<wrapper, device, members, bare>>
    BY <1>13 DEF BeginCleanup, RoundEnds, WaitEnds, leasevars, Group
  <2>2. QED BY <1>a, <2>1 DEF LeaseInv, LeaseState, OneHolder, Holders
<1>14. QED
  BY <1>1, <1>2, <1>3, <1>4, <1>5, <1>6, <1>7, <1>8, <1>9, <1>10, <1>11, <1>12, <1>13
     DEF LeaseNext, LeaseOver

\* The leases are in order in every state.
LEMMA LeaseCorrect == LeaseSpec => []LeaseInv
<1>1. LeaseInit => LeaseInv
  BY LeaseAssumption DEF LeaseInit, LeaseInv, LeaseState, OneHolder, Holders, LeaseStages, Gone, Members
<1>2. QED BY <1>1, LeaseKeepsInv, PTL DEF LeaseSpec

\* Two verifiers never work on one device, whatever is killed and in whatever
\* order: the lock stays open until the last process that inherited it is gone.
THEOREM LeasesAreExclusive == LeaseSpec => []LeaseExclusive
<1>1. LeaseInv => LeaseExclusive
  <2> SUFFICES ASSUME LeaseInv PROVE LeaseExclusive
    OBVIOUS
  <2> DEFINE Work(w) ==
        IF w \in bare /\ wrapper[w] = "killed" THEN members[w] \ {"helper"} ELSE members[w]
  <2>1. \A w \in Wrappers : Work(w) # {} => Holders(w) # {} /\ device[w] \in Devices
    BY DEF LeaseInv, LeaseState, Holders, Gone
  <2>2. QED BY <2>1 DEF LeaseInv, OneHolder, LeaseExclusive
<1>2. QED BY <1>1, LeaseCorrect, PTL

-----------------------------------------------------------------------------
(* The clean-up of a workspace. *)

\* Whose state file says less than what runs.
Told(w) ==
  /\ file[w] = "absent" => wrapper[w] \in {"idle", "gone"} \/ (cleaning = "ok" /\ w \in Mine)
  /\ file[w] = "alone" =>
       \/ wrapper[w] \in {"waiting", "leased", "spawned"}
       \/ wrapper[w] = "killed" /\ (members[w] = {} \/ w \in orphans)

\* Nothing runs for the wrapper, and nothing will unless it begins.
Ended(w) == wrapper[w] \in {"idle"} \cup Gone /\ members[w] = {}

CleanupInv ==
  /\ file \in [Wrappers -> {"absent", "alone", "group"}]
  /\ \A w \in Wrappers : Told(w)
  /\ cleaning = "ok" => \A w \in Mine \ (orphans \cup late) : Ended(w)

\* A step of one wrapper: what it has to show for it.
LEMMA WrapperKept ==
  ASSUME CleanupInv, NEW w \in Wrappers,
         file' \in [Wrappers -> {"absent", "alone", "group"}],
         \A v \in Wrappers \ {w} : /\ wrapper'[v] = wrapper[v] /\ members'[v] = members[v]
                                   /\ file'[v] = file[v],
         UNCHANGED cleaning, orphans \subseteq orphans', late \subseteq late',
         Told(w)',
         cleaning = "ok" /\ Ended(w) => Ended(w)' \/ w \in late' \/ w \notin Mine
  PROVE  CleanupInv'
<1>1. \A v \in Wrappers : Told(v)'
  BY DEF CleanupInv, Told
<1>2. cleaning' = "ok" => \A v \in Mine \ (orphans' \cup late') : Ended(v)'
  BY LeaseAssumption DEF CleanupInv, Ended
<1>3. QED BY <1>1, <1>2 DEF CleanupInv

\* A signal, or the end of a member.
LEMMA SignalKept ==
  ASSUME LeaseInv, CleanupInv, NEW w \in Wrappers, NEW rest,
         Killed(w) \/ UNCHANGED <<wrapper, orphans>>,
         GroupKeeps(w, rest) \/ UNCHANGED Group,
         UNCHANGED <<file, cleaning, late>>
  PROVE  CleanupInv'
<1>1. /\ LeaseState /\ \A v \in Wrappers : Told(v)
      /\ file \in [Wrappers -> {"absent", "alone", "group"}]
  BY DEF LeaseInv, CleanupInv
<1>2. /\ \A v \in Wrappers \ {w} : wrapper'[v] = wrapper[v]
      /\ orphans \subseteq orphans'
      /\ \/ wrapper'[w] = wrapper[w]
         \/ /\ wrapper'[w] = "killed" /\ wrapper[w] \notin {"idle"} \cup Gone
            /\ wrapper[w] = "spawned" => w \in orphans'
  BY <1>1 DEF Killed, WrapperGoes, LeaseState
<1>3. /\ \A v \in Wrappers \ {w} : members'[v] = members[v]
      /\ members'[w] \subseteq members[w]
  <2>1. CASE GroupKeeps(w, rest)
    BY <1>1, <2>1, GroupShrinks DEF LeaseState
  <2>2. CASE UNCHANGED Group
    BY <2>2 DEF Group
  <2>3. QED BY <2>1, <2>2
<1>4. Told(w)'
  <2>1. wrapper[w] \in {"waiting", "leased"} => members[w] = {}
    BY <1>1 DEF LeaseState
  <2>2. QED BY <1>1, <1>2, <1>3, <2>1 DEF Told, Gone
<1>5. Ended(w) => Ended(w)'
  BY <1>2, <1>3 DEF Ended, Gone
<1>6. QED BY <1>1, <1>2, <1>3, <1>4, <1>5, WrapperKept

\* The wrapper's own steps say in its file what they begin.
LEMMA CleanupStep == LeaseInv /\ CleanupInv /\ [LeaseNext]_leasevars => CleanupInv'
<1> SUFFICES ASSUME LeaseInv, CleanupInv, [LeaseNext]_leasevars PROVE CleanupInv'
  OBVIOUS
<1>a. /\ LeaseState /\ \A v \in Wrappers : Told(v)
      /\ wrapper \in [Wrappers -> LeaseStages] /\ members \in [Wrappers -> SUBSET Members]
      /\ file \in [Wrappers -> {"absent", "alone", "group"}]
  BY DEF LeaseInv, LeaseState, CleanupInv
<1>1. ASSUME NEW w \in Wrappers, BeginWrapper(w) PROVE CleanupInv'
  <2>1. /\ wrapper' = [wrapper EXCEPT ![w] = "waiting"] /\ file' = [file EXCEPT ![w] = "alone"]
        /\ UNCHANGED <<members, cleaning, orphans>> /\ late \subseteq late'
        /\ cleaning = "ok" => w \in late' \/ w \notin Mine
    BY <1>1 DEF BeginWrapper, WrapperGoes, Group, CleanupVars
  <2>2. Told(w)'
    BY <1>a, <2>1 DEF Told
  <2>3. QED BY <1>a, <2>1, <2>2, WrapperKept
<1>2. ASSUME NEW w \in Wrappers,
             Acquire(w) \/ Spawn(w) \/ Register(w) \/ InstallHandlers(w) \/ ChildReaped(w)
               \/ TerminateGroup(w) \/ LeaseTimeout(w) \/ EndWrapper(w)
      PROVE  CleanupInv'
  <2>1. /\ wrapper[w] \notin {"idle"} \cup Gone
        /\ \/ /\ wrapper[w] \in {"waiting", "leased"} /\ UNCHANGED file
              /\ \E stage \in {"leased", "spawned"} : wrapper' = [wrapper EXCEPT ![w] = stage]
           \/ /\ wrapper[w] = "spawned" /\ file' = [file EXCEPT ![w] = "group"]
              /\ wrapper' = [wrapper EXCEPT ![w] = "registered"]
           \/ /\ wrapper[w] \in {"registered", "guarding", "draining"} /\ UNCHANGED file
              /\ \E stage \in {"guarding", "draining", "closing"} :
                   wrapper' = [wrapper EXCEPT ![w] = stage]
           \/ /\ file' = [file EXCEPT ![w] = "absent"]
              /\ wrapper' = [wrapper EXCEPT ![w] = "gone"]
        /\ UNCHANGED <<cleaning, orphans, late>>
    BY <1>2 DEF Acquire, Spawn, Register, InstallHandlers, ChildReaped, TerminateGroup,
                LeaseTimeout, EndWrapper, WrapperGoes, Gone, CleanupVars
  <2>2. \A v \in Wrappers \ {w} : members'[v] = members[v]
    BY <1>2, <1>a DEF Acquire, Spawn, Register, InstallHandlers, ChildReaped, TerminateGroup,
                LeaseTimeout, EndWrapper, Group, GroupKeeps
  <2>3. /\ \A v \in Wrappers \ {w} : wrapper'[v] = wrapper[v] /\ file'[v] = file[v]
        /\ file' \in [Wrappers -> {"absent", "alone", "group"}]
    BY <1>a, <2>1
  <2>4. ~Ended(w)
    BY <2>1 DEF Ended
  <2>5. cleaning = "ok" => w \notin Mine \/ w \in orphans \cup late
    BY <2>4, LeaseAssumption DEF CleanupInv
  <2>6. Told(w)'
    <3>1. Told(w) /\ wrapper[w] \notin Gone
      BY <1>a, <2>1
    <3>2. \/ wrapper'[w] \in {"leased", "spawned"} /\ file'[w] = file[w]
          \/ file'[w] = "group"
          \/ /\ wrapper[w] \in {"registered", "guarding", "draining"}
             /\ file'[w] = file[w]
          \/ file'[w] = "absent" /\ wrapper'[w] = "gone"
      BY <1>a, <2>1
    <3>3. wrapper[w] \in {"registered", "guarding", "draining"} => file[w] # "alone"
      BY <3>1 DEF Told
    <3>4. file[w] = "absent" => cleaning' = "ok" /\ w \in Mine
      BY <2>1, <3>1 DEF Told, Gone
    <3>5. QED BY <3>2, <3>3, <3>4 DEF Told
  <2>7. QED BY <2>1, <2>2, <2>3, <2>4, <2>6, WrapperKept
<1>3. ASSUME NEW w \in Wrappers, StartMember(w) PROVE CleanupInv'
  <2>1. /\ members[w] = {"child"} /\ members' = [members EXCEPT ![w] = Members]
        /\ UNCHANGED <<wrapper, file, cleaning, orphans, late>>
    BY <1>3 DEF StartMember, CleanupVars
  <2>2. Told(w) /\ members[w] # {}
    BY <1>a, <2>1
  <2>3. Told(w)'
    BY <2>1, <2>2 DEF Told
  <2>4. ~Ended(w) /\ \A v \in Wrappers \ {w} : members'[v] = members[v]
    BY <1>a, <2>1, <2>2 DEF Ended
  <2>5. file' \in [Wrappers -> {"absent", "alone", "group"}]
    BY <1>a, <2>1
  <2>6. QED BY <2>1, <2>3, <2>4, <2>5, WrapperKept
<1>4. ASSUME NEW w \in Wrappers, NEW m \in Members, MemberExits(w, m) PROVE CleanupInv'
  BY <1>4, SignalKept DEF MemberExits, CleanupVars
<1>5. ASSUME NEW w \in Wrappers, KillWrapper(w) PROVE CleanupInv'
  BY <1>5, SignalKept DEF KillWrapper, CleanupVars
<1>6. ASSUME NEW w \in Wrappers, SignalTerm(w) \/ SignalKill(w) PROVE CleanupInv'
  <2>1. /\ Killed(w) \/ UNCHANGED <<wrapper, orphans>>
        /\ \E rest \in {stubborn[w], {}} : GroupKeeps(w, rest) \/ UNCHANGED Group
        /\ UNCHANGED <<file, cleaning, late>>
    BY <1>6 DEF SignalTerm, SignalKill
  <2>2. QED BY <2>1, SignalKept
<1>7. CASE WaitEnds
  <2>1. UNCHANGED <<wrapper, members, orphans, late>> /\ cleaning # "ok"
    BY <1>7 DEF WaitEnds, Group
  <2>2. CASE cleaning' # "ok"
    <3>1. UNCHANGED file
      BY <1>7, <2>2 DEF WaitEnds
    <3>2. QED BY <2>1, <2>2, <3>1 DEF CleanupInv, Told
  <2>3. CASE cleaning' = "ok"
    <3>1. /\ Alive = {}
          /\ file' = [w \in Wrappers |-> IF w \in Mine THEN "absent" ELSE file[w]]
      BY <1>7, <2>3 DEF WaitEnds
    <3>2. ASSUME NEW w \in Mine \ (orphans \cup late) PROVE Ended(w)
      <4>1. w \in Wrappers /\ Told(w)
        BY <1>a, LeaseAssumption
      <4>2. CASE file[w] = "absent"
        BY <1>a, <2>1, <4>1, <4>2 DEF Told, Ended, Gone, LeaseState
      <4>3. CASE file[w] = "alone"
        <5>1. wrapper[w] \in Gone
          BY <3>1, <4>3 DEF Alive, Files
        <5>2. QED BY <3>2, <4>1, <4>3, <5>1 DEF Told, Ended, Gone
      <4>4. CASE file[w] = "group"
        BY <3>1, <4>4 DEF Alive, Files, Ended
      <4>5. QED BY <1>a, <4>1, <4>2, <4>3, <4>4
    <3>3. \A w \in Wrappers : Told(w)'
      BY <1>a, <2>1, <2>3, <3>1 DEF Told
    <3>4. QED BY <1>a, <2>1, <3>1, <3>2, <3>3 DEF CleanupInv, Ended
  <2>4. QED BY <2>2, <2>3
<1>8. CASE BeginCleanup \/ RoundEnds \/ UNCHANGED leasevars
  <2>1. UNCHANGED <<wrapper, members, file, orphans, late>>
    BY <1>8 DEF BeginCleanup, RoundEnds, leasevars, Group
  <2>2. UNCHANGED cleaning \/ (cleaning # "ok" /\ cleaning' # "ok")
    BY <1>8 DEF BeginCleanup, RoundEnds, leasevars
  <2>3. QED BY <2>1, <2>2 DEF CleanupInv, Told, Ended
<1>9. QED
  BY <1>1, <1>2, <1>3, <1>4, <1>5, <1>6, <1>7, <1>8 DEF LeaseNext, LeaseOver

\* A clean-up that succeeds has ended every verifier of its workspace, except
\* those named by orphans and late.
THEOREM CleanupIsComplete == LeaseSpec => []CleanupComplete
<1>1. LeaseInit => CleanupInv
  BY DEF LeaseInit, CleanupInv, Told
<1>2. CleanupInv => CleanupComplete
  BY DEF CleanupInv, CleanupComplete, Ended
<1>3. LeaseInit => LeaseInv
  BY LeaseAssumption DEF LeaseInit, LeaseInv, LeaseState, OneHolder, Holders, LeaseStages, Gone, Members
<1>4. LeaseInv /\ [LeaseNext]_leasevars => LeaseInv'
  BY LeaseKeepsInv
<1>5. QED BY <1>1, <1>2, <1>3, <1>4, CleanupStep, PTL DEF LeaseSpec

-----------------------------------------------------------------------------
(* The types of a lease. *)

\* What the signals and the clean-up keep; who ignores SIGTERM runs.
LeaseTypes ==
  /\ stubborn \in [Wrappers -> SUBSET Members]
  /\ \A w \in Wrappers : stubborn[w] \subseteq members[w]
  /\ cleaning \in {"no", "term", "wait", "kill", "wait_killed", "ok", "failed"}
  /\ todo \subseteq Mine /\ orphans \subseteq Wrappers /\ late \subseteq Mine

\* The types of a lease.
LEMMA LeaseTypesKept ==
  ASSUME LeaseInv, LeaseTypes, [LeaseNext]_leasevars
  PROVE  LeaseTypes'
<1>a. /\ LeaseState /\ Mine \subseteq Wrappers
      /\ wrapper \in [Wrappers -> LeaseStages] /\ members \in [Wrappers -> SUBSET Members]
  BY LeaseAssumption DEF LeaseInv, LeaseState
<1>b. ASSUME NEW w \in Wrappers, NEW rest, GroupKeeps(w, rest) \/ UNCHANGED Group
      PROVE  /\ stubborn' \in [Wrappers -> SUBSET Members]
             /\ \A v \in Wrappers : stubborn'[v] \subseteq members'[v]
  <2>1. CASE GroupKeeps(w, rest)
    <3>1. /\ members' = [members EXCEPT ![w] = @ \cap rest]
          /\ stubborn' = [stubborn EXCEPT ![w] = @ \cap rest]
      BY <2>1 DEF GroupKeeps
    <3>2. QED BY <1>a, <3>1 DEF LeaseTypes
  <2>2. CASE UNCHANGED Group
    BY <2>2 DEF LeaseTypes, Group
  <2>3. QED BY <1>b, <2>1, <2>2
<1>c. ASSUME NEW w \in Wrappers, Killed(w) \/ UNCHANGED orphans
      PROVE  orphans' \subseteq Wrappers
  BY <1>c DEF Killed, LeaseTypes
<1>1. ASSUME NEW w \in Wrappers,
             \/ BeginWrapper(w) \/ Acquire(w) \/ LeaseTimeout(w) \/ Register(w)
             \/ InstallHandlers(w) \/ ChildReaped(w) \/ EndWrapper(w)
      PROVE  LeaseTypes'
  <2>1. /\ UNCHANGED <<stubborn, members, cleaning, todo, orphans>>
        /\ late' \in {late, late \cup ({w} \cap Mine)}
    BY <1>1 DEF BeginWrapper, Acquire, LeaseTimeout, Register, InstallHandlers, ChildReaped,
                EndWrapper, Group, CleanupVars
  <2>2. QED BY <2>1 DEF LeaseTypes
<1>2. ASSUME NEW w \in Wrappers, Spawn(w) PROVE LeaseTypes'
  <2>1. /\ members' = [members EXCEPT ![w] = {"child"}]
        /\ stubborn' \in {stubborn, [stubborn EXCEPT ![w] = {"child"}]}
        /\ members[w] = {} /\ UNCHANGED <<cleaning, todo, orphans, late>>
    BY <1>2, <1>a DEF Spawn, CleanupVars, LeaseState
  <2>2. QED BY <1>a, <2>1 DEF LeaseTypes, Members
<1>3. ASSUME NEW w \in Wrappers, StartMember(w) PROVE LeaseTypes'
  <2>1. /\ members' = [members EXCEPT ![w] = Members]
        /\ stubborn' \in {stubborn, [stubborn EXCEPT ![w] = @ \cup {"helper"}]}
        /\ UNCHANGED <<cleaning, todo, orphans, late>>
    BY <1>3 DEF StartMember, CleanupVars
  <2>2. QED BY <1>a, <2>1 DEF LeaseTypes, Members
<1>4. ASSUME NEW w \in Wrappers, NEW m \in Members,
             TerminateGroup(w) \/ MemberExits(w, m) \/ KillWrapper(w)
      PROVE  LeaseTypes'
  <2>1. /\ Killed(w) \/ UNCHANGED orphans
        /\ (\E rest : GroupKeeps(w, rest)) \/ UNCHANGED Group
        /\ UNCHANGED <<cleaning, todo, late>>
    <3>1. CASE TerminateGroup(w)
      BY <3>1 DEF TerminateGroup, WrapperGoes, CleanupVars
    <3>2. CASE MemberExits(w, m)
      BY <3>2 DEF MemberExits, CleanupVars
    <3>3. CASE KillWrapper(w)
      BY <3>3 DEF KillWrapper, CleanupVars
    <3>4. QED BY <1>4, <3>1, <3>2, <3>3
  <2>2. QED BY <1>b, <1>c, <2>1 DEF LeaseTypes
<1>5. ASSUME NEW w \in Wrappers, SignalTerm(w) \/ SignalKill(w) PROVE LeaseTypes'
  <2>1. /\ Killed(w) \/ UNCHANGED <<wrapper, orphans>>
        /\ (\E rest : GroupKeeps(w, rest)) \/ UNCHANGED Group
        /\ todo' = todo \ {w} /\ UNCHANGED <<cleaning, late>>
    BY <1>5 DEF SignalTerm, SignalKill
  <2>2. QED BY <1>b, <1>c, <2>1 DEF LeaseTypes
<1>6. CASE BeginCleanup \/ RoundEnds \/ WaitEnds \/ UNCHANGED leasevars
  <2>1. /\ UNCHANGED <<stubborn, members, orphans, late>>
        /\ todo' = todo \/ todo' = Files
        /\ cleaning' \in {cleaning, "term", "wait", "kill", "wait_killed", "ok", "failed"}
    BY <1>6 DEF BeginCleanup, RoundEnds, WaitEnds, leasevars, Group
  <2>2. Files \subseteq Mine
    BY DEF Files
  <2>3. QED BY <2>1, <2>2 DEF LeaseTypes
<1>7. QED
  BY <1>1, <1>2, <1>3, <1>4, <1>5, <1>6 DEF LeaseNext, LeaseOver, Members

\* And so in every state.
LEMMA LeaseTyped == LeaseSpec => []LeaseTypeOK
<1>1. LeaseInit => LeaseTypes
  BY DEF LeaseInit, LeaseTypes
<1>2. LeaseInit => CleanupInv
  BY LeaseAssumption DEF LeaseInit, CleanupInv, Told
<1>3. LeaseInv /\ LeaseTypes /\ CleanupInv => LeaseTypeOK
  BY DEF LeaseInv, LeaseState, LeaseTypes, CleanupInv, LeaseTypeOK, LeaseStages
<1>4. QED BY <1>1, <1>2, <1>3, LeaseCorrect, LeaseTypesKept, CleanupStep, PTL DEF LeaseSpec

-----------------------------------------------------------------------------
(* Harbor trials. *)

HarborSpec == HarborInit /\ [][HarborNext \/ HarborOver]_harborVars

\* The CLI runs only while it is waited for, and a trial that is over has
\* neither; what was read of it was read after the CLI had exited.
HarborInv ==
  /\ HarborTypeOK
  /\ place \in {"begin", "raised"} => harbor = "absent" /\ trial = <<>>
  /\ place = "running" => harbor # "absent"
  /\ place \in {"read", "clean", "over"} => harbor = "exited"
  /\ place = "over" => trial = <<>>
  /\ outcome.resolved => exit = "zero"
  /\ outcome.resolved => place \in {"clean", "over"}

\* Every step of a trial keeps it.
LEMMA HarborKeepsInv == HarborInv /\ [HarborNext \/ HarborOver]_harborVars => HarborInv'
<1> SUFFICES ASSUME HarborInv, [HarborNext \/ HarborOver]_harborVars PROVE HarborInv'
  OBVIOUS
<1> USE DEF HarborInv, HarborTypeOK
<1>1. CASE HarborBegin
  BY <1>1 DEF HarborBegin
<1>2. CASE HarborWrites
  BY <1>2 DEF HarborWrites
<1>3. CASE HarborExits
  BY <1>3 DEF HarborExits
<1>4. CASE HarborMoves
  BY <1>4 DEF HarborMoves
<1>5. CASE HarborReads
  <2>1. /\ place = "read" /\ place' = "clean"
        /\ UNCHANGED <<logged, harbor, exit, trial, kept>>
        /\ \/ UNCHANGED outcome
           \/ \E t \in Trials :
                outcome' = [completed |-> Completed(t),
                            resolved |-> Completed(t) /\ t.reward = 1]
    <3> DEFINE found == IF kept # <<>> THEN kept ELSE trial
    <3>1. found # <<>> => found[1] \in Trials
      <4>1. kept # <<>> => kept[1] \in Trials
        <5>1. \A t \in Trials : <<t>>[1] = t
          OBVIOUS
        <5>2. QED BY <5>1
      <4>2. trial # <<>> => trial[1] \in Trials
        OBVIOUS
      <4>3. QED BY <4>1, <4>2
    <3>2. QED BY <1>5, <3>1 DEF HarborReads
  <2>2. \A t \in Trials : Completed(t) \in BOOLEAN /\ (Completed(t) => exit = "zero")
    BY DEF Completed
  <2>3. /\ outcome' \in [completed : BOOLEAN, resolved : BOOLEAN]
        /\ outcome'.resolved => exit = "zero"
    BY <2>1, <2>2
  <2>4. QED BY <2>1, <2>3
<1>6. CASE HarborCancel
  BY <1>6 DEF HarborCancel, CliKilled
<1>7. CASE HarborCleans
  BY <1>7 DEF HarborCleans
<1>8. CASE UNCHANGED harborVars
  BY <1>8 DEF harborVars
<1>9. QED
  BY <1>1, <1>2, <1>3, <1>4, <1>5, <1>6, <1>7, <1>8 DEF HarborNext, HarborOver

\* So it holds in every state of a trial.
LEMMA HarborCorrect == HarborSpec => []HarborInv
<1>1. HarborInit => HarborInv
  BY DEF HarborInit, HarborInv, HarborTypeOK, NoOutcome
<1>2. QED BY <1>1, HarborKeepsInv, PTL DEF HarborSpec

-----------------------------------------------------------------------------
(* The agent of an episode. *)

\* What there is of a report is the CLI's last one, and it stays so.
ReportsFollow ==
  /\ {resultFile, said, heard} \subseteq {NoReport, draft}
  /\ heard # NoReport => said # NoReport \/ resultFile # NoReport
  /\ returned.finished /\ kind = "hermes" => heard # NoReport

\* Where an adapter may be, and what the CLI is before it is launched.
BeforeLaunch == {"idle", "probe", "install", "upload", "mkdir", "config", "prompt", "launch"}
AdapterPlaces ==
  /\ kind = "openclaw" => host \notin {"probe", "install", "upload", "fetch"}
  /\ host \in {"mkdir", "config", "prompt", "cleanup"} => kind = "openclaw"
  /\ host \in BeforeLaunch => cli = "absent" /\ code = "none"
  /\ host \in BeforeLaunch \cup {"running"} => failure = "none"
  /\ host = "running" => cli # "absent"
  /\ cli = "absent" => draft = NoReport /\ said = NoReport /\ resultFile = NoReport

\* An exit status of 0 is that of a CLI which ended by itself.
ExitHonest ==
  /\ code \in {"zero", "nonzero"} =>
       cli = "exited" /\ rc = code /\ host \notin BeforeLaunch \cup {"running"}
  /\ rc = "zero" => said # NoReport
  /\ rc = "zero" /\ kind \in {"claude_code", "codex", "deepseek_harness"} => draft.status = "solved"

\* The credentials are there only for openclaw's CLI, or for want of a clean-up.
SecretKept ==
  /\ secret => kind = "openclaw" /\ host \notin {"idle", "mkdir"}
  /\ secret /\ host \in {"judge", "over", "raised"} => ~tidy
  /\ returned.finished /\ kind = "openclaw" => tidy

ReturnedType == returned.finished \in BOOLEAN

AgentInv ==
  /\ AgentTypeOK /\ ReturnedType
  /\ ReportsFollow /\ AdapterPlaces /\ ExitHonest /\ SecretKept
  /\ FinishedMeansSolved /\ FailureExplained

AgentStep == Adapter \/ Cli \/ Cancel

\* An adapter reports what its CLI has come to.
LEMMA AgentKeepsInv == AgentInv /\ [AgentStep]_agentVars => AgentInv'
<1> SUFFICES ASSUME AgentInv, [AgentStep]_agentVars PROVE AgentInv'
  OBVIOUS
<1>a. /\ MaxSteps \in Nat
      /\ host # "over" => returned = NoResult /\ ~returned.finished
  <2>1. ~NoResult.finished
    BY DEF NoResult
  <2>2. QED BY <2>1, StepsAssumption DEF AgentInv, AgentTypeOK
<1> USE DEF AgentInv, AgentTypeOK, ReturnedType, ReportsFollow, AdapterPlaces, ExitHonest, SecretKept,
            FinishedMeansSolved, FailureExplained, BeforeLaunch, NoReport, Kinds, config, cliVars, hostVars
<1>1. CASE CliStep
  <2>1. AgentTypeOK'
    BY <1>a, <1>1 DEF CliStep, Running
  <2>2. ReturnedType'
    BY <1>a, <1>1 DEF CliStep, Running
  <2>3. ReportsFollow'
    BY <1>a, <1>1 DEF CliStep, Running
  <2>4. AdapterPlaces'
    BY <1>a, <1>1 DEF CliStep, Running
  <2>5. ExitHonest'
    BY <1>a, <1>1 DEF CliStep, Running
  <2>6. SecretKept'
    BY <1>a, <1>1 DEF CliStep, Running
  <2>7. FinishedMeansSolved'
    BY <1>a, <1>1 DEF CliStep, Running
  <2>8. FailureExplained'
    BY <1>a, <1>1 DEF CliStep, Running
  <2>9. QED BY <2>1, <2>2, <2>3, <2>4, <2>5, <2>6, <2>7, <2>8
<1>2. CASE CliEnds
  BY <1>2 DEF CliEnds, Running, Reports
<1>3. CASE SidecarWrites
  <2>1. AgentTypeOK'
    <3>1. draft \in Reports /\ heard = NoReport /\ said = NoReport
      BY <1>3 DEF SidecarWrites
    <3>2. [status |-> "broken", run |-> "blank", odd |-> FALSE] \in Reports
      BY DEF Reports
    <3>3. draft' \in Reports /\ resultFile' \in Reports \cup {NoReport}
      BY <1>3, <3>1, <3>2 DEF SidecarWrites
    <3>4. UNCHANGED <<kind, provider, foreign, cli, steps, touched, said, rc, watchdog, host,
                      secret, code, heard, failure, tidy, returned>>
      BY <1>3 DEF SidecarWrites
    <3>5. QED BY <3>1, <3>3, <3>4
  <2>2. ReturnedType'
    BY <1>a, <1>3 DEF SidecarWrites, Reports
  <2>3. ReportsFollow'
    BY <1>a, <1>3 DEF SidecarWrites, Reports
  <2>4. AdapterPlaces'
    BY <1>a, <1>3 DEF SidecarWrites, Reports
  <2>5. ExitHonest'
    BY <1>a, <1>3 DEF SidecarWrites, Reports
  <2>6. SecretKept'
    BY <1>a, <1>3 DEF SidecarWrites, Reports
  <2>7. FinishedMeansSolved'
    <3>1. kind = "hermes" /\ ~returned.finished /\ UNCHANGED <<kind, returned>>
      BY <1>3 DEF SidecarWrites
    <3>2. QED BY <3>1
  <2>8. FailureExplained'
    BY <1>a, <1>3 DEF SidecarWrites, Reports
  <2>9. QED BY <2>1, <2>2, <2>3, <2>4, <2>5, <2>6, <2>7, <2>8
<1>4. CASE CliPrints
  BY <1>4 DEF CliPrints
<1>5. CASE CliExits
  BY <1>5 DEF CliExits
<1>6. CASE CliDies
  BY <1>6 DEF CliDies
<1>7. CASE WatchdogFires
  BY <1>7 DEF WatchdogFires
<1>8. CASE Call
  BY <1>8 DEF Call, ClaudeStarts, CodexStarts, HermesStarts, OpenClawStarts, DshStarts, MiniStarts
<1>9. CASE Ready
  BY <1>9 DEF Ready
<1>10. CASE MakeRoot
  <2>1. AgentTypeOK'
    BY <1>a, <1>10 DEF MakeRoot, NoResult
  <2>2. ReturnedType'
    <3>1. CASE UNCHANGED returned
      BY <3>1
    <3>2. CASE returned' = [finished |-> FALSE, error |-> "startup_failure"]
      BY <3>2
    <3>3. QED BY <1>10, <3>1, <3>2 DEF MakeRoot
  <2>3. ReportsFollow'
    BY <1>a, <1>10 DEF MakeRoot, NoResult
  <2>4. AdapterPlaces'
    BY <1>a, <1>10 DEF MakeRoot, NoResult
  <2>5. ExitHonest'
    BY <1>a, <1>10 DEF MakeRoot, NoResult
  <2>6. SecretKept'
    BY <1>a, <1>10 DEF MakeRoot, NoResult
  <2>7. FinishedMeansSolved'
    BY <1>a, <1>10 DEF MakeRoot, NoResult
  <2>8. FailureExplained'
    BY <1>a, <1>10 DEF MakeRoot, NoResult
  <2>9. QED BY <2>1, <2>2, <2>3, <2>4, <2>5, <2>6, <2>7, <2>8
<1>11. CASE WriteInputs
  <2>1. AgentTypeOK'
    BY <1>a, <1>11 DEF WriteInputs
  <2>2. ReturnedType'
    BY <1>a, <1>11 DEF WriteInputs
  <2>3. ReportsFollow'
    BY <1>a, <1>11 DEF WriteInputs
  <2>4. AdapterPlaces'
    BY <1>a, <1>11 DEF WriteInputs
  <2>5. ExitHonest'
    BY <1>a, <1>11 DEF WriteInputs
  <2>6. SecretKept'
    <3>1. /\ host' \in {"prompt", "launch", "cleanup"}
          /\ UNCHANGED <<kind, tidy, returned>>
      BY <1>11 DEF WriteInputs
    <3>2. kind = "openclaw"
      BY <1>11 DEF WriteInputs
    <3>3. QED BY <3>1, <3>2
  <2>7. FinishedMeansSolved'
    BY <1>a, <1>11 DEF WriteInputs
  <2>8. FailureExplained'
    BY <1>a, <1>11 DEF WriteInputs
  <2>9. QED BY <2>1, <2>2, <2>3, <2>4, <2>5, <2>6, <2>7, <2>8
<1>12. CASE Launch
  BY <1>12 DEF Launch
<1>13. CASE ExecReturns
  <2>1. AgentTypeOK'
    BY <1>a, <1>13 DEF ExecReturns, ShellOver, NextAfterExec
  <2>2. ReturnedType'
    BY <1>a, <1>13 DEF ExecReturns, ShellOver, NextAfterExec
  <2>3. ReportsFollow'
    BY <1>a, <1>13 DEF ExecReturns, ShellOver, NextAfterExec
  <2>4. AdapterPlaces'
    BY <1>a, <1>13 DEF ExecReturns, ShellOver, NextAfterExec
  <2>5. ExitHonest'
    BY <1>a, <1>13 DEF ExecReturns, ShellOver, NextAfterExec
  <2>6. SecretKept'
    BY <1>a, <1>13 DEF ExecReturns, ShellOver, NextAfterExec
  <2>7. FinishedMeansSolved'
    BY <1>a, <1>13 DEF ExecReturns, ShellOver, NextAfterExec
  <2>8. FailureExplained'
    BY <1>a, <1>13 DEF ExecReturns, ShellOver, NextAfterExec
  <2>9. QED BY <2>1, <2>2, <2>3, <2>4, <2>5, <2>6, <2>7, <2>8
<1>14. CASE ExecTimesOut
  <2>1. AgentTypeOK'
    BY <1>a, <1>14 DEF ExecTimesOut, Stopped, NextAfterExec, OutputAfterTimeout
  <2>2. ReturnedType'
    BY <1>a, <1>14 DEF ExecTimesOut, Stopped, NextAfterExec, OutputAfterTimeout
  <2>3. ReportsFollow'
    BY <1>a, <1>14 DEF ExecTimesOut, Stopped, NextAfterExec, OutputAfterTimeout
  <2>4. AdapterPlaces'
    BY <1>a, <1>14 DEF ExecTimesOut, Stopped, NextAfterExec, OutputAfterTimeout
  <2>5. ExitHonest'
    BY <1>a, <1>14 DEF ExecTimesOut, Stopped, NextAfterExec, OutputAfterTimeout
  <2>6. SecretKept'
    BY <1>a, <1>14 DEF ExecTimesOut, Stopped, NextAfterExec, OutputAfterTimeout
  <2>7. FinishedMeansSolved'
    BY <1>a, <1>14 DEF ExecTimesOut, Stopped, NextAfterExec, OutputAfterTimeout
  <2>8. FailureExplained'
    BY <1>a, <1>14 DEF ExecTimesOut, Stopped, NextAfterExec, OutputAfterTimeout
  <2>9. QED BY <2>1, <2>2, <2>3, <2>4, <2>5, <2>6, <2>7, <2>8
<1>15. CASE ExecLost
  BY <1>15 DEF ExecLost, Stopped, NextAfterExec
<1>16. CASE RemoveConfig
  <2>1. AgentTypeOK'
    <3>1. secret' \in BOOLEAN /\ tidy' \in BOOLEAN
      <4>1. CASE secret' = FALSE /\ tidy' = TRUE
        BY <4>1
      <4>2. CASE secret' = secret /\ tidy' = FALSE
        BY <4>2
      <4>3. QED BY <1>16, <4>1, <4>2 DEF RemoveConfig, CleansUp
    <3>2. /\ host' \in {"judge", "raised"} /\ host = "cleanup"
          /\ UNCHANGED <<kind, provider, foreign, cli, steps, touched, draft, resultFile, said, rc,
                        watchdog, code, heard, failure, returned>>
      BY <1>16 DEF RemoveConfig
    <3>3. QED BY <3>1, <3>2
  <2>2. ReturnedType'
    BY <1>a, <1>16 DEF RemoveConfig, CleansUp
  <2>3. ReportsFollow'
    BY <1>a, <1>16 DEF RemoveConfig, CleansUp
  <2>4. AdapterPlaces'
    BY <1>a, <1>16 DEF RemoveConfig, CleansUp
  <2>5. ExitHonest'
    BY <1>a, <1>16 DEF RemoveConfig, CleansUp
  <2>6. SecretKept'
    <3>1. /\ host' \in {"judge", "raised"} /\ host = "cleanup"
          /\ UNCHANGED <<kind, returned>> /\ ~returned.finished
      BY <1>16 DEF RemoveConfig, NoResult
    <3>2. CASE secret' = FALSE /\ tidy' = TRUE
      BY <3>1, <3>2
    <3>3. CASE secret' = secret /\ tidy' = FALSE
      BY <3>1, <3>3
    <3>4. QED BY <1>16, <3>2, <3>3 DEF RemoveConfig, CleansUp
  <2>7. FinishedMeansSolved'
    BY <1>a, <1>16 DEF RemoveConfig, CleansUp
  <2>8. FailureExplained'
    BY <1>a, <1>16 DEF RemoveConfig, CleansUp
  <2>9. QED BY <2>1, <2>2, <2>3, <2>4, <2>5, <2>6, <2>7, <2>8
<1>17. CASE Fetch
  BY <1>17 DEF Fetch
<1>18. CASE Judge
  <2>1. AgentTypeOK'
    BY <1>a, <1>18 DEF Judge, Finished, ErrorKind, OpenClawError, Envelope, CodexOk, OpenClawOk, MiniOk, ClaudeOk, DshOk, Reports
  <2>2. ReturnedType'
    BY <1>a, <1>18 DEF Judge, Finished, ErrorKind, OpenClawError, Envelope, CodexOk, OpenClawOk, MiniOk, ClaudeOk, DshOk, Reports
  <2>3. ReportsFollow'
    BY <1>a, <1>18 DEF Judge, Finished, ErrorKind, OpenClawError, Envelope, CodexOk, OpenClawOk, MiniOk, ClaudeOk, DshOk, Reports
  <2>4. AdapterPlaces'
    BY <1>a, <1>18 DEF Judge, Finished, ErrorKind, OpenClawError, Envelope, CodexOk, OpenClawOk, MiniOk, ClaudeOk, DshOk, Reports
  <2>5. ExitHonest'
    BY <1>a, <1>18 DEF Judge, Finished, ErrorKind, OpenClawError, Envelope, CodexOk, OpenClawOk, MiniOk, ClaudeOk, DshOk, Reports
  <2>6. SecretKept'
    BY <1>a, <1>18 DEF Judge, Finished, ErrorKind, OpenClawError, Envelope, CodexOk, OpenClawOk, MiniOk, ClaudeOk, DshOk, Reports
  <2>7. FinishedMeansSolved'
    <3>1. returned'.finished = Finished /\ UNCHANGED <<kind, draft>>
      BY <1>18 DEF Judge
    <3>2. ASSUME Finished PROVE draft.status = "solved" /\ (kind = "openclaw" => ~draft.odd)
      <4>1. heard.status = "solved" => heard = draft
        OBVIOUS
      <4>2. CASE kind = "hermes"
        <5>1. Envelope = "solved"
          BY <3>2, <4>2 DEF Finished
        <5>2. heard.status = "solved"
          BY <5>1 DEF Envelope
        <5>3. QED BY <4>1, <4>2, <5>2
      <4>3. CASE kind = "codex"
        BY <3>2, <4>1, <4>3 DEF Finished, CodexOk
      <4>4. CASE kind = "openclaw"
        BY <3>2, <4>1, <4>4 DEF Finished, OpenClawOk
      <4>5. CASE kind = "mini_swe_agent"
        BY <3>2, <4>1, <4>5 DEF Finished, MiniOk
      <4>6. CASE kind = "claude_code"
        BY <3>2, <4>6 DEF Finished, ClaudeOk
      <4>7. CASE kind = "deepseek_harness"
        BY <3>2, <4>7 DEF Finished, DshOk
      <4>8. QED BY <4>2, <4>3, <4>4, <4>5, <4>6, <4>7
    <3>3. QED BY <3>1, <3>2
  <2>8. FailureExplained'
    <3>1. /\ returned'.finished = Finished /\ returned'.error = ErrorKind
          /\ kind' = kind
      BY <1>18 DEF Judge
    <3>2. CASE kind = "openclaw"
      <4>1. heard # NoReport => heard.status \in {"solved", "cut", "broken"}
        BY DEF Reports
      <4>2. heard.status = "solved" => heard # NoReport
        OBVIOUS
      <4>3. Finished <=> (failure = "none" /\ OpenClawOk)
        BY <3>2 DEF Finished
      <4>4. (ErrorKind = "none") <=> (failure = "none" /\ OpenClawOk)
        BY <3>2, <4>1, <4>2 DEF ErrorKind, OpenClawError, OpenClawOk
      <4>5. QED BY <3>1, <4>3, <4>4
    <3>3. CASE kind \in {"codex", "hermes"}
      <4>1. (ErrorKind = "none") <=> Finished
        BY <3>3 DEF ErrorKind
      <4>2. QED BY <3>1, <4>1
    <3>4. QED BY <3>1, <3>2, <3>3
  <2>9. QED BY <2>1, <2>2, <2>3, <2>4, <2>5, <2>6, <2>7, <2>8
<1>19. CASE Cancel
  <2>1. AgentTypeOK'
    <3>1. /\ cli' \in {"absent", "running", "exited"} /\ rc' \in {"none", "zero", "nonzero"}
          /\ (cli' = "exited") <=> (rc' # "none")
          /\ watchdog' \in {"none", "watching", "gone"}
      <4>1. CASE KilledByCancel
        <5>1. /\ cli' = IF cli = "running" THEN "exited" ELSE cli
              /\ rc' = IF cli = "running" THEN "nonzero" ELSE rc
              /\ watchdog' = IF watchdog = "watching" THEN "gone" ELSE watchdog
          BY <1>19, <4>1 DEF Cancel, Stopped
        <5>2. QED BY <5>1
      <4>2. CASE ~KilledByCancel
        <5>1. UNCHANGED <<cli, rc, watchdog>>
          BY <1>19, <4>2 DEF Cancel, Stopped
        <5>2. QED BY <5>1
      <4>3. QED BY <4>1, <4>2
    <3>2. /\ host' \in {"cleanup", "raised"} /\ failure' = "raise" /\ host # "over"
          /\ UNCHANGED <<kind, provider, foreign, steps, touched, draft, resultFile, said, secret, code,
                        heard, tidy, returned>>
      BY <1>19 DEF Cancel
    <3>3. QED BY <3>1, <3>2
  <2>2. ReturnedType'
    BY <1>a, <1>19 DEF Cancel, Stopped
  <2>3. ReportsFollow'
    BY <1>a, <1>19 DEF Cancel, Stopped
  <2>4. AdapterPlaces'
    BY <1>a, <1>19 DEF Cancel, Stopped
  <2>5. ExitHonest'
    BY <1>a, <1>19 DEF Cancel, Stopped
  <2>6. SecretKept'
    BY <1>a, <1>19 DEF Cancel, Stopped
  <2>7. FinishedMeansSolved'
    BY <1>a, <1>19 DEF Cancel, Stopped
  <2>8. FailureExplained'
    BY <1>a, <1>19 DEF Cancel, Stopped
  <2>9. QED BY <2>1, <2>2, <2>3, <2>4, <2>5, <2>6, <2>7, <2>8
<1>20. CASE UNCHANGED agentVars
  BY <1>20 DEF agentVars
<1>21. QED
  BY <1>1, <1>2, <1>3, <1>4, <1>5, <1>6, <1>7, <1>8, <1>9, <1>10, <1>11, <1>12, <1>13, <1>14, <1>15, <1>16, <1>17, <1>18, <1>19, <1>20 DEF AgentStep, Adapter, Cli

-----------------------------------------------------------------------------
(* The episode around it. *)

EpisodeSpec == TaskInit /\ [][TaskStep \/ TaskOver]_episodevars

\* The agent acts in its phase, on a repository without the solution.
AgentInPhase ==
  /\ phase \in {"start", "prepare"} => host = "idle" /\ cli = "absent"
  /\ family \in {"swe_rebench", "swe_bench_pro"} =>
       /\ phase \in {"solve", "grade", "patch", "test", "read"} => history = "pruned"
       /\ host # "idle" => history = "pruned"

\* What a CLI that came back by itself left is what there is until the end.
WorkFollows ==
  /\ tested # NoTree => phase \notin {"start", "prepare", "solve", "grade", "patch"}
  /\ phase \in {"grade", "patch", "test", "read"} /\ Ordinary => left = steps
  /\ GradedAsLeft

\* The output of the tests and the reward are of this episode.
OutcomeFollows ==
  /\ phase \in {"start", "prepare", "solve", "grade", "patch"} => log = "none"
  /\ family = "swe_bench_pro" /\ (phase = "test" \/ log # "none") => tests = "official"
  /\ family = "terminal_bench" /\ Ordinary /\ phase \in {"patch", "test", "read"}
       => reward \in {"none", "verifier"}
  /\ graded.resolved => phase = "over"
  /\ RewardOfVerifier /\ ResolvedMeansTested

EpisodeInv ==
  /\ AgentInv /\ EpisodeTypeOK
  /\ AgentInPhase /\ WorkFollows /\ OutcomeFollows

\* It holds before the agent starts.
LEMMA AgentStarts == AgentInit => AgentInv
<1> SUFFICES ASSUME AgentInit PROVE AgentInv
  OBVIOUS
<1> USE DEF AgentInit
<1>1. AgentTypeOK
  <2>1. foreign \in 0..1 /\ 0 \in 0..MaxSteps
    <3>1. foreign \in {0, 1}
      OBVIOUS
    <3>2. QED BY <3>1, StepsAssumption
  <2>2. rc = "none" /\ cli = "absent"
    OBVIOUS
  <2>3. QED BY <2>1, <2>2 DEF AgentTypeOK
<1>2. ReturnedType /\ ~returned.finished
  BY DEF ReturnedType, NoResult
<1>3. ReportsFollow
  BY <1>2 DEF ReportsFollow
<1>4. AdapterPlaces
  BY DEF AdapterPlaces, BeforeLaunch
<1>5. ExitHonest
  BY DEF ExitHonest
<1>6. SecretKept
  BY <1>2 DEF SecretKept
<1>7. FinishedMeansSolved /\ FailureExplained
  BY <1>2 DEF FinishedMeansSolved, FailureExplained
<1>8. QED BY <1>1, <1>2, <1>3, <1>4, <1>5, <1>6, <1>7 DEF AgentInv

\* An episode is graded on what its agent left, by the tests that it ran.
LEMMA EpisodeKeepsInv ==
  EpisodeInv /\ [TaskStep \/ TaskOver]_episodevars => EpisodeInv'
<1> SUFFICES ASSUME EpisodeInv, [TaskStep \/ TaskOver]_episodevars PROVE EpisodeInv'
  OBVIOUS
<1>a. AgentInv'
  <2>1. [AgentStep]_agentVars
    BY DEF TaskStep, TaskOver, Start, Prepare, Gold, AgentPhase, AgentExpires, AgentReturns,
           LeftBehind, Grading, Upload, Apply, RunTests, EndTests, EvalTimesOut, Score,
           AgentStep, Cli, episodevars
  <2>2. QED BY <2>1, AgentKeepsInv DEF EpisodeInv
<1>b. /\ kind \in Kinds /\ provider \in Providers /\ steps \in 0..MaxSteps /\ steps \in Nat
      /\ touched \subseteq {"tests", "reward"} /\ MaxSteps \in Nat
      /\ Ordinary => cli = "exited"
  BY StepsAssumption DEF EpisodeInv, AgentInv, AgentTypeOK, ExitHonest, Ordinary
<1> DEFINE Episode == AgentInPhase /\ WorkFollows /\ OutcomeFollows
<1> SUFFICES EpisodeTypeOK' /\ Episode'
  BY <1>a DEF EpisodeInv
<1> USE DEF EpisodeTypeOK, AgentInPhase, WorkFollows, OutcomeFollows, GradedAsLeft, RewardOfVerifier,
            ResolvedMeansTested, Ordinary, Families, NoTree, taskConfig
<1>c. EpisodeTypeOK /\ Episode /\ AgentTypeOK'
  BY <1>a DEF EpisodeInv, AgentInv
<1>1. CASE Start
  BY <1>1, <1>b, <1>c DEF Start, Accepted, agentVars
<1>2. CASE Prepare
  BY <1>2, <1>b, <1>c DEF Prepare, GoesOn, Prepares, CleanRebench, PreparePro, CleanMultilingual, PrepareR2E, PrepareTerminal, Checked, agentVars
<1>3. CASE Gold
  BY <1>3, <1>b, <1>c DEF Gold, GoldPatch, GoldScript, agentVars
<1>4. CASE AgentPhase
  BY <1>4, <1>b, <1>c DEF AgentPhase, Exposed
<1>5. CASE AgentExpires
  BY <1>5, <1>b, <1>c DEF AgentExpires
<1>6. CASE AgentReturns
  BY <1>6, <1>b, <1>c DEF AgentReturns, AgentOver, agentVars
<1>7. CASE LeftBehind
  <2>1. /\ cli = "running" /\ ~Ordinary /\ code' = code /\ host' = host
        /\ cli' \in {"running", "exited"}
        /\ UNCHANGED <<family, oracle, phase, history, finished, left, tests, log, tested, passes,
                      evalCode, graded>>
        /\ reward' \in {"agent", reward}
    BY <1>7, <1>b, <1>c DEF LeftBehind, CliStep, CliDies, hostVars
  <2>2. EpisodeTypeOK'
    BY <1>c, <2>1
  <2>3. AgentInPhase' /\ WorkFollows'
    BY <1>c, <2>1
  <2>4. OutcomeFollows'
    BY <1>c, <2>1
  <2>5. QED BY <2>2, <2>3, <2>4
<1>8. CASE Upload
  BY <1>8, <1>b, <1>c DEF Upload, Reset, agentVars
<1>9. CASE Apply
  BY <1>9, <1>b, <1>c DEF Apply, Patched, ByPatch, PutAside, ByArchive, agentVars
<1>10. CASE RunTests
  BY <1>10, <1>b, <1>c DEF RunTests, agentVars
<1>11. CASE EndTests
  BY <1>11, <1>b, <1>c DEF EndTests, agentVars
<1>12. CASE EvalTimesOut
  BY <1>12, <1>b, <1>c DEF EvalTimesOut, Remains, agentVars
<1>13. CASE Score
  <2>1. /\ phase = "read" /\ phase' \in {"over", "failed"}
        /\ UNCHANGED <<family, oracle, history, finished, left, tests, log, tested, passes, reward,
                      evalCode>>
        /\ UNCHANGED agentVars
    BY <1>13 DEF Score
  <2>2. \/ UNCHANGED graded
        \/ phase' = "over" /\ \E resolved \in Grades : graded' = [resolved |-> resolved, finished |-> finished]
    BY <1>13 DEF Score
  <2>3. ~graded.resolved
    BY <1>c, <2>1
  <2>4. ASSUME NEW resolved \in Grades
        PROVE  /\ resolved \in BOOLEAN
               /\ resolved /\ family = "terminal_bench" => reward # "none" /\ (reward = "verifier" => passes)
               /\ resolved /\ family # "terminal_bench" =>
                    /\ passes /\ log # "none"
                    /\ log = "ended" \/ family = "swe_bench_multilingual"
    <3>1. CASE family \in {"swe_bench", "swe_rebench"}
      BY <1>c, <3>1 DEF Grades, Marked
    <3>2. CASE family = "swe_bench_multilingual"
      BY <1>c, <3>2 DEF Grades, Parsed
    <3>3. CASE family = "swe_bench_pro"
      BY <1>c, <3>3 DEF Grades, ParserFile
    <3>4. CASE family = "r2e_gym"
      BY <1>c, <3>4 DEF Grades, Summary
    <3>5. CASE family = "terminal_bench"
      BY <1>c, <3>5 DEF Grades, Verdict
    <3>6. QED BY <1>c, <3>1, <3>2, <3>3, <3>4, <3>5
  <2>5. /\ graded' \in [resolved : BOOLEAN, finished : BOOLEAN]
        /\ graded'.resolved =>
             /\ phase' = "over"
             /\ family = "terminal_bench" => reward # "none" /\ (reward = "verifier" => passes)
             /\ family # "terminal_bench" =>
                  /\ passes /\ log # "none"
                  /\ log = "ended" \/ family = "swe_bench_multilingual"
    BY <1>c, <2>2, <2>3, <2>4
  <2>6. /\ UNCHANGED code /\ UNCHANGED <<host, steps, cli>>
    BY <2>1 DEF agentVars
  <2>7. EpisodeTypeOK'
    BY <1>c, <2>1, <2>5
  <2>8. AgentInPhase' /\ WorkFollows'
    BY <1>c, <2>1, <2>6
  <2>9. RewardOfVerifier' /\ ResolvedMeansTested'
    BY <1>c, <2>1, <2>5, <2>6
  <2>10. OutcomeFollows'
    BY <1>c, <2>1, <2>5, <2>6, <2>9
  <2>11. QED BY <2>7, <2>8, <2>10
<1>14. CASE UNCHANGED episodevars
  BY <1>14, <1>c DEF episodevars, agentVars, taskVars
<1>15. QED
  BY <1>1, <1>2, <1>3, <1>4, <1>5, <1>6, <1>7, <1>8, <1>9, <1>10, <1>11, <1>12, <1>13, <1>14 DEF TaskStep, TaskOver, Grading, episodevars

\* It holds in every state of an episode.
LEMMA EpisodeCorrect == EpisodeSpec => []EpisodeInv
<1>1. ASSUME TaskInit PROVE EpisodeInv
  <2>1. AgentInv /\ AgentTypeOK /\ host = "idle" /\ cli = "absent" /\ code = "none" /\ ~graded.resolved
    BY <1>1, AgentStarts DEF TaskInit, AgentInit, AgentInv, NoScore
  <2>2. NoTree \in 0..NoTree
    BY StepsAssumption DEF NoTree
  <2>3. EpisodeTypeOK
    BY <1>1, <2>1, <2>2 DEF TaskInit, EpisodeTypeOK, NoScore
  <2>4. AgentInPhase /\ WorkFollows
    BY <1>1, <2>1 DEF TaskInit, AgentInPhase, WorkFollows, GradedAsLeft
  <2>5. OutcomeFollows
    BY <1>1, <2>1 DEF TaskInit, OutcomeFollows, RewardOfVerifier, ResolvedMeansTested
  <2>6. QED BY <2>1, <2>3, <2>4, <2>5 DEF EpisodeInv
<1>2. QED BY <1>1, EpisodeKeepsInv, PTL DEF EpisodeSpec

-----------------------------------------------------------------------------
(* Sequences: FlattenSeq, of which AgentLoop makes the calls of a conversation. *)

\* A set of naturals that is not empty has a least one.
LEMMA LeastNatural ==
  ASSUME NEW B \in SUBSET Nat, B # {}
  PROVE  \E n \in B : \A m \in B : ~(m < n)
<1> DEFINE R == OpToRel(<, Nat)
<1>1. IsWellFoundedOn(R, Nat)
  BY NatLessThanWellFounded
<1>2. PICK n \in B : \A m \in B : ~(<<m, n>> \in R)
  <2> HIDE DEF R
  <2>1. PICK b \in B : TRUE
    OBVIOUS
  <2>2. QED BY <1>1, <2>1, WFMin
<1>3. \A m \in B : m < n => <<m, n>> \in R
  BY DEF OpToRel
<1>4. QED BY <1>2, <1>3

IsFlat(f, s) == f = [i \in 1..Len(s) |-> IF i = 1 THEN s[i] ELSE f[i - 1] \o s[i]]

\* The recursion of FlattenSeq has one solution.
LEMMA FlatExists ==
  ASSUME NEW X, NEW s \in Seq(Seq(X))
  PROVE  \E f \in [1..Len(s) -> Seq(X)] : IsFlat(f, s)
<1> DEFINE Partial(n) == {f \in [1..n -> Seq(X)] :
                            f = [i \in 1..n |-> IF i = 1 THEN s[i] ELSE f[i - 1] \o s[i]]}
           B == {n \in 0..Len(s) : Partial(n) = {}}
<1>1. B = {}
  <2> SUFFICES ASSUME B # {} PROVE FALSE
    OBVIOUS
  <2>1. B \in SUBSET Nat
    <3>1. B \subseteq 0..Len(s)
      OBVIOUS
    <3>2. 0..Len(s) \subseteq Nat
      OBVIOUS
    <3> HIDE DEF B
    <3>3. QED BY <3>1, <3>2
  <2>2. PICK n \in B : \A m \in B : ~(m < n)
    <3> HIDE DEF B
    <3>1. QED BY <2>1, LeastNatural
  <2>3. n \in 0..Len(s) /\ Partial(n) = {}
    OBVIOUS
  <2>4. CASE n = 0
    <3> DEFINE f == [i \in 1..0 |-> <<>>]
    <3>1. f \in Partial(0)
      OBVIOUS
    <3>2. QED BY <2>3, <2>4, <3>1
  <2>5. CASE n # 0
    <3>1. n - 1 \in 0..Len(s) /\ n - 1 < n /\ n \in 1..Len(s)
      BY <2>3, <2>5
    <3>2. Partial(n - 1) # {}
      BY <2>2, <3>1
    <3>3. PICK f \in Partial(n - 1) : TRUE
      BY <3>2
    <3>4. /\ f \in [1..n - 1 -> Seq(X)]
          /\ \A i \in 1..n - 1 : f[i] = IF i = 1 THEN s[i] ELSE f[i - 1] \o s[i]
      BY <3>3
    <3> DEFINE g == [i \in 1..n |-> IF i < n THEN f[i] ELSE IF n = 1 THEN s[n] ELSE f[n - 1] \o s[n]]
    <3>5. s[n] \in Seq(X)
      BY <3>1
    <3>6. n # 1 => f[n - 1] \in Seq(X)
      BY <3>1, <3>4
    <3>7. \A i \in 1..n : g[i] \in Seq(X)
      BY <3>1, <3>4, <3>5, <3>6
    <3>8. g \in [1..n -> Seq(X)]
      BY <3>7
    <3>9. \A i \in 1..n : g[i] = IF i = 1 THEN s[i] ELSE g[i - 1] \o s[i]
      <4> SUFFICES ASSUME NEW i \in 1..n PROVE g[i] = IF i = 1 THEN s[i] ELSE g[i - 1] \o s[i]
        OBVIOUS
      <4>1. i # 1 => g[i - 1] = f[i - 1]
        BY <3>1
      <4>2. CASE i < n
        <5>1. g[i] = f[i] /\ i \in 1..n - 1
          BY <3>1, <4>2
        <5>2. f[i] = IF i = 1 THEN s[i] ELSE f[i - 1] \o s[i]
          BY <3>4, <5>1
        <5> HIDE DEF g
        <5>3. QED BY <4>1, <5>1, <5>2
      <4>3. CASE i = n
        BY <3>1, <4>1, <4>3
      <4>4. QED BY <3>1, <4>2, <4>3
    <3>10. g \in Partial(n)
      BY <3>8, <3>9
    <3>11. QED BY <2>3, <3>10
  <2>6. QED BY <2>4, <2>5
<1>2. Len(s) \in 0..Len(s)
  OBVIOUS
<1>3. Partial(Len(s)) # {}
  BY <1>1, <1>2
<1>4. QED BY <1>3 DEF IsFlat

\* What one step of the flattening adds.
LEMMA FlatStep ==
  ASSUME NEW f, NEW s, IsFlat(f, s)
  PROVE  \A k \in 1..Len(s) : f[k] = IF k = 1 THEN s[k] ELSE f[k - 1] \o s[k]
BY DEF IsFlat

Agree(f, g, n) == \A i \in 1..n : f[i] = g[i]

\* Two sequences that it is the flattening of agree where both are defined.
LEMMA FlatAgrees ==
  ASSUME NEW X, NEW s \in Seq(Seq(X)), NEW t \in Seq(Seq(X)), NEW f, NEW g,
         IsFlat(f, s), IsFlat(g, t), Len(s) <= Len(t),
         Agree(s, t, Len(s))
  PROVE  Agree(f, g, Len(s))
<1> DEFINE B == {n \in 1..Len(s) : f[n] # g[n]}
<1>1. B = {}
  <2> SUFFICES ASSUME B # {} PROVE FALSE
    OBVIOUS
  <2>1. B \in SUBSET Nat
    <3>1. B \subseteq 1..Len(s) /\ 1..Len(s) \subseteq Nat
      OBVIOUS
    <3> HIDE DEF B
    <3>2. QED BY <3>1
  <2>2. PICK n \in B : \A m \in B : ~(m < n)
    <3> HIDE DEF B
    <3>1. QED BY <2>1, LeastNatural
  <2>3. n \in 1..Len(s) /\ n \in 1..Len(t) /\ f[n] # g[n]
    OBVIOUS
  <2>4. /\ f[n] = IF n = 1 THEN s[n] ELSE f[n - 1] \o s[n]
        /\ g[n] = IF n = 1 THEN t[n] ELSE g[n - 1] \o t[n]
    BY <2>3 DEF IsFlat
  <2>b. s[n] = t[n]
    BY <2>3 DEF Agree
  <2>5. n # 1 => n - 1 \in 1..Len(s) /\ n - 1 < n
    BY <2>3
  <2>6. n # 1 => f[n - 1] = g[n - 1]
    BY <2>2, <2>5
  <2>7. QED BY <2>3, <2>4, <2>6, <2>b
<1>2. QED BY <1>1 DEF Agree

\* FlattenSeq is that solution.
LEMMA FlattenIsFlat ==
  ASSUME NEW X, NEW s \in Seq(Seq(X)), s # <<>>
  PROVE  \E f \in [1..Len(s) -> Seq(X)] : IsFlat(f, s) /\ FlattenSeq(s) = f[Len(s)]
<1> DEFINE f == CHOOSE f : f = [i \in 1..Len(s) |-> IF i = 1 THEN s[i] ELSE f[i - 1] \o s[i]]
<1>1. PICK h \in [1..Len(s) -> Seq(X)] : IsFlat(h, s)
  BY FlatExists
<1>2. IsFlat(f, s)
  BY <1>1 DEF IsFlat
<1>3. Len(s) # 0
  OBVIOUS
<1>4. FlattenSeq(s) = f[Len(s)]
  BY <1>3 DEF FlattenSeq
<1>5. DOMAIN f = 1..Len(s) /\ DOMAIN h = 1..Len(s)
  BY <1>1, <1>2 DEF IsFlat
<1> HIDE DEF f
<1>6. \A i \in 1..Len(s) : f[i] = h[i]
  <2>1. Agree(s, s, Len(s)) /\ Len(s) <= Len(s)
    BY DEF Agree
  <2>2. Agree(f, h, Len(s))
    BY <1>1, <1>2, <2>1, FlatAgrees
  <2>3. QED BY <2>2 DEF Agree
<1>7. f \in [1..Len(s) -> Seq(X)]
  <2>1. f = [i \in 1..Len(s) |-> f[i]]
    BY <1>2 DEF IsFlat
  <2>2. QED BY <1>6, <2>1
<1>8. QED BY <1>2, <1>4, <1>7

\* Flattening takes a further sequence at its end.
LEMMA FlattenLonger ==
  ASSUME NEW X, NEW s \in Seq(Seq(X)), NEW t \in Seq(Seq(X)), NEW n \in Nat,
         Len(s) = n, Len(t) = n + 1, \A i \in 1..n : s[i] = t[i]
  PROVE  FlattenSeq(s) \in Seq(X) /\ FlattenSeq(t) = FlattenSeq(s) \o t[n + 1]
<1>1. n + 1 \in 1..n + 1 /\ t[n + 1] \in Seq(X) /\ t # <<>>
  OBVIOUS
<1>2. PICK g \in [1..Len(t) -> Seq(X)] : IsFlat(g, t) /\ FlattenSeq(t) = g[Len(t)]
  BY <1>1, FlattenIsFlat
<1>3. \A k \in 1..Len(t) : g[k] = IF k = 1 THEN t[k] ELSE g[k - 1] \o t[k]
  <2>1. IsFlat(g, t)
    BY <1>2
  <2>2. QED BY <2>1 DEF IsFlat
<1>4. CASE n = 0
  <2>1. FlattenSeq(s) = <<>> /\ <<>> \in Seq(X) /\ <<>> \o t[n + 1] = t[n + 1]
    <3>1. s = <<>>
      BY <1>4
    <3>2. FlattenSeq(s) = <<>>
      BY <3>1 DEF FlattenSeq
    <3>3. QED BY <1>1, <3>2
  <2>2. FlattenSeq(t) = t[n + 1]
    BY <1>2, <1>3, <1>4
  <2>3. QED BY <2>1, <2>2
<1>5. CASE n # 0
  <2>1. n \in 1..n /\ s # <<>> /\ n + 1 # 1 /\ (n + 1) - 1 = n
    BY <1>5
  <2>2. PICK f \in [1..Len(s) -> Seq(X)] : IsFlat(f, s) /\ FlattenSeq(s) = f[Len(s)]
    BY <2>1, FlattenIsFlat
  <2>3. f[n] = g[n]
    <3>1. Len(s) <= Len(t)
      OBVIOUS
    <3>2. IsFlat(f, s) /\ IsFlat(g, t)
      BY <1>2, <2>2
    <3>3. Agree(s, t, Len(s))
      BY DEF Agree
    <3>4. Agree(f, g, Len(s))
      BY <3>1, <3>2, <3>3, FlatAgrees
    <3>5. QED BY <2>1, <3>4 DEF Agree
  <2>4. g[n + 1] = g[n] \o t[n + 1]
    <3>1. n + 1 \in 1..Len(t)
      BY <1>1
    <3>2. g[n + 1] = IF n + 1 = 1 THEN t[n + 1] ELSE g[(n + 1) - 1] \o t[n + 1]
      BY <1>3, <3>1, Zenon
    <3>3. QED BY <2>1, <3>2
  <2>5. f[n] \in Seq(X)
    BY <2>1
  <2>6. QED BY <1>2, <2>2, <2>3, <2>4, <2>5
<1>6. QED BY <1>4, <1>5

-----------------------------------------------------------------------------
(* Conversations. *)

ToolCalls == Nat \X Nat
Turns == [who : {"user", "assistant", "tool"}, calls : Seq(ToolCalls), cut : BOOLEAN]

\* What a turn adds to the calls that were asked for, or answered.
AskedBy(m)    == IF m.who = "assistant" THEN m.calls ELSE <<>>
AnsweredBy(m) == IF m.who = "tool" THEN m.calls ELSE <<>>

\* A further turn adds its calls.
LEMMA TurnAdds ==
  ASSUME NEW t \in Seq(Turns), NEW m \in Turns
  PROVE  /\ Append(t, m) \in Seq(Turns)
         /\ Asked(t) \in Seq(ToolCalls) /\ Asked(Append(t, m)) = Asked(t) \o AskedBy(m)
         /\ Answered(t) \in Seq(ToolCalls) /\ Answered(Append(t, m)) = Answered(t) \o AnsweredBy(m)
<1>1. PICK u : u = Append(t, m)
  OBVIOUS
<1>2. PICK n \in Nat : n = Len(t)
  OBVIOUS
<1>3. u \in Seq(Turns) /\ Len(u) = n + 1
  BY <1>1, <1>2
<1>4. (\A i \in 1..n : u[i] = t[i]) /\ u[n + 1] = m
  <2>1. \A i \in 1..n : u[i] = t[i]
    BY <1>1, <1>2
  <2>2. u[n + 1] = m
    BY <1>1, <1>2
  <2>3. QED BY <2>1, <2>2
<1>5. \A x \in Turns : AskedBy(x) \in Seq(ToolCalls) /\ AnsweredBy(x) \in Seq(ToolCalls)
  BY DEF Turns, AskedBy, AnsweredBy
<1> DEFINE p == [i \in 1..Len(t) |-> AskedBy(t[i])]
           q == [i \in 1..Len(u) |-> AskedBy(u[i])]
           v == [i \in 1..Len(t) |-> AnsweredBy(t[i])]
           w == [i \in 1..Len(u) |-> AnsweredBy(u[i])]
<1>6. /\ Asked(t) = FlattenSeq(p) /\ Asked(u) = FlattenSeq(q)
      /\ Answered(t) = FlattenSeq(v) /\ Answered(u) = FlattenSeq(w)
  BY DEF Asked, Answered, AskedBy, AnsweredBy
<1>7. /\ p \in Seq(Seq(ToolCalls)) /\ Len(p) = n
      /\ v \in Seq(Seq(ToolCalls)) /\ Len(v) = n
  BY <1>2, <1>5
<1>8. /\ q \in Seq(Seq(ToolCalls)) /\ Len(q) = n + 1
      /\ w \in Seq(Seq(ToolCalls)) /\ Len(w) = n + 1
  BY <1>3, <1>5
<1>9. /\ \A i \in 1..n : p[i] = q[i] /\ v[i] = w[i]
      /\ q[n + 1] = AskedBy(m) /\ w[n + 1] = AnsweredBy(m)
  BY <1>2, <1>3, <1>4
<1> HIDE DEF p, q, v, w
<1>10. /\ FlattenSeq(p) \in Seq(ToolCalls) /\ FlattenSeq(q) = FlattenSeq(p) \o q[n + 1]
  BY <1>7, <1>8, <1>9, FlattenLonger
<1>11. /\ FlattenSeq(v) \in Seq(ToolCalls) /\ FlattenSeq(w) = FlattenSeq(v) \o w[n + 1]
  BY <1>7, <1>8, <1>9, FlattenLonger
<1>12. QED BY <1>1, <1>3, <1>6, <1>9, <1>10, <1>11

\* The calls that are skipped are answered, one after another.
LEMMA SkippedAnswers ==
  ASSUME NEW t \in Seq(Turns), NEW rest \in Seq(ToolCalls)
  PROVE  /\ t \o Skipped(rest) \in Seq(Turns)
         /\ Asked(t \o Skipped(rest)) = Asked(t)
         /\ Answered(t \o Skipped(rest)) = Answered(t) \o rest
<1> DEFINE N == Len(rest)
           K == Skipped(rest)
           Up(k) == t \o SubSeq(K, 1, k)
           Good(k) == /\ Up(k) \in Seq(Turns)
                      /\ Asked(Up(k)) = Asked(t)
                      /\ Answered(Up(k)) \o SubSeq(rest, k + 1, N) = Answered(t) \o rest
           B == {k \in 0..N : ~Good(k)}
<1>0. N \in Nat
  OBVIOUS
<1>a. \A j \in 1..N : Says("tool", <<rest[j]>>, FALSE) \in Turns /\ <<rest[j]>> \in Seq(ToolCalls)
  BY DEF Says, Turns
<1>b. K \in Seq(Turns) /\ Len(K) = N /\ \A j \in 1..N : K[j] = Says("tool", <<rest[j]>>, FALSE)
  <2>1. K = [j \in 1..N |-> Says("tool", <<rest[j]>>, FALSE)]
    BY DEF Skipped
  <2>2. K \in [1..N -> Turns] /\ \A j \in 1..N : K[j] = Says("tool", <<rest[j]>>, FALSE)
    BY <1>a, <2>1
  <2> HIDE DEF K, N
  <2>3. K \in Seq(Turns) /\ Len(K) = N
    BY <1>0, <2>2
  <2>4. QED BY <2>2, <2>3
<1> HIDE DEF K
<1>1. Good(0)
  <2>1. Up(0) = t
    <3>1. SubSeq(K, 1, 0) = <<>>
      BY SubSeqEmpty
    <3>2. QED BY <3>1, ConcatEmptySeq
  <2>2. SubSeq(rest, 1, N) = rest
    BY SubSeqFull
  <2>3. 0 + 1 = 1
    OBVIOUS
  <2> HIDE DEF Up
  <2>4. QED BY <2>1, <2>2, <2>3
<1>2. ASSUME NEW k \in 0..N, k # N, Good(k) PROVE Good(k + 1)
  <2> DEFINE m == Says("tool", <<rest[k + 1]>>, FALSE)
  <2>1. k + 1 \in 1..N /\ rest[k + 1] \in ToolCalls
    BY <1>2
  <2>2. m \in Turns /\ <<rest[k + 1]>> \in Seq(ToolCalls)
    BY <1>a, <2>1
  <2>3. AskedBy(m) = <<>> /\ AnsweredBy(m) = <<rest[k + 1]>>
    BY DEF Says, AskedBy, AnsweredBy
  <2>4. Up(k + 1) = Append(Up(k), m)
    <3>1. PICK y \in Turns : y = m
      BY <2>2
    <3>2. K[k + 1] = y /\ (k + 1) - 1 = k /\ k + 1 \in 1..Len(K) /\ 1 \in 1..Len(K) /\ k \in Nat
      <4>1. (k + 1) - 1 = k /\ k + 1 \in 1..N /\ 1 \in 1..N /\ k \in Nat
        BY <1>0, <2>1
      <4>2. K[k + 1] = m
        BY <1>b, <2>1
      <4> HIDE DEF m, N
      <4>3. QED BY <1>b, <3>1, <4>1, <4>2
    <3> HIDE DEF m
    <3>3. SubSeq(K, 1, k + 1) = SubSeq(K, 1, (k + 1) - 1) \o <<K[k + 1]>>
      BY <1>b, <3>2, SubSeqRecursiveSecond
    <3>4. PICK p \in Seq(Turns) : p = SubSeq(K, 1, k)
      <4>1. \A i \in 1..k : K[i] \in Turns
        BY <1>b, <3>2
      <4>2. SubSeq(K, 1, k) \in Seq(Turns)
        BY <3>2, <4>1, SubSeqProperties
      <4>3. QED BY <4>2, Zenon
    <3>5. PICK e \in Seq(Turns) : e = <<y>>
      <4>1. <<y>> \in Seq(Turns)
        OBVIOUS
      <4>2. QED BY <4>1, Zenon
    <3>6. (t \o p) \o e = t \o (p \o e) /\ t \o p \in Seq(Turns)
      BY ConcatAssociative, ConcatProperties
    <3>7. Append(t \o p, y) = (t \o p) \o e
      BY <3>5, <3>6, AppendIsConcat
    <3>8. QED BY <3>1, <3>2, <3>3, <3>4, <3>5, <3>6, <3>7
  <2>5. SubSeq(rest, k + 1, N) = <<rest[k + 1]>> \o SubSeq(rest, k + 2, N) /\ SubSeq(rest, k + 2, N) \in Seq(ToolCalls)
    BY <2>1
  <2> HIDE DEF Up, m
  <2>6. /\ Up(k) \in Seq(Turns) /\ Asked(Up(k)) = Asked(t)
        /\ Answered(Up(k)) \o SubSeq(rest, k + 1, N) = Answered(t) \o rest
    BY <1>2
  <2>7. /\ Up(k + 1) \in Seq(Turns) /\ Asked(Up(k)) \in Seq(ToolCalls) /\ Answered(Up(k)) \in Seq(ToolCalls)
        /\ Asked(Up(k + 1)) = Asked(Up(k)) \o <<>>
        /\ Answered(Up(k + 1)) = Answered(Up(k)) \o <<rest[k + 1]>>
    BY <2>2, <2>3, <2>4, <2>6, TurnAdds
  <2>8. Asked(Up(k + 1)) = Asked(t)
    BY <2>6, <2>7, ConcatEmptySeq
  <2>9. Answered(Up(k + 1)) \o SubSeq(rest, k + 2, N) = Answered(t) \o rest
    <3>1. PICK r \in Seq(ToolCalls) : r = SubSeq(rest, k + 2, N)
      BY <2>5
    <3>2. PICK e \in Seq(ToolCalls) : e = <<rest[k + 1]>>
      BY <2>2
    <3>3. PICK a \in Seq(ToolCalls) : a = Answered(Up(k))
      BY <2>7
    <3>4. (a \o e) \o r = a \o (e \o r)
      BY ConcatAssociative
    <3>5. QED BY <2>5, <2>6, <2>7, <3>1, <3>2, <3>3, <3>4
  <2>10. (k + 1) + 1 = k + 2
    OBVIOUS
  <2>11. QED BY <2>7, <2>8, <2>9, <2>10
<1>3. B = {}
  <2> HIDE DEF Good, N
  <2> SUFFICES ASSUME B # {} PROVE FALSE
    OBVIOUS
  <2>1. B \in SUBSET Nat
    <3>1. B \subseteq 0..N /\ 0..N \subseteq Nat
      BY <1>0
    <3> HIDE DEF B
    <3>2. QED BY <3>1
  <2>2. PICK n \in B : \A m \in B : ~(m < n)
    <3> HIDE DEF B
    <3>1. QED BY <2>1, LeastNatural
  <2>3. n \in 0..N /\ ~Good(n) /\ n # 0
    BY <1>1
  <2>4. n - 1 \in 0..N /\ n - 1 < n /\ n - 1 # N /\ (n - 1) + 1 = n
    BY <1>0, <2>3
  <2>5. Good(n - 1)
    BY <2>2, <2>4
  <2>6. Good((n - 1) + 1)
    BY <1>2, <2>4, <2>5
  <2>7. QED BY <2>3, <2>4, <2>6
<1>4. Good(N)
  <2>1. N \in 0..N
    BY <1>0
  <2>2. QED BY <1>3, <2>1
<1>5. Up(N) = t \o Skipped(rest)
  <2>1. SubSeq(K, 1, N) = K
    BY <1>b, SubSeqFull
  <2>2. QED BY <2>1 DEF K
<1>6. SubSeq(rest, N + 1, N) = <<>>
  BY <1>0, SubSeqEmpty
<1> HIDE DEF Up
<1>7. Answered(Up(N)) \in Seq(ToolCalls)
  <2>1. PICK m \in Turns : m = Says("tool", <<>>, FALSE)
    <3>1. <<>> \in Seq(ToolCalls)
      OBVIOUS
    <3>2. QED BY <3>1 DEF Says, Turns
  <2>2. QED BY <1>4, <2>1, TurnAdds
<1>8. Answered(Up(N)) = Answered(t) \o rest
  BY <1>4, <1>6, <1>7, ConcatEmptySeq
<1>9. QED BY <1>4, <1>5, <1>8

-----------------------------------------------------------------------------
(* The agents that are loops. *)

LoopSpec == LoopInit /\ [][LoopNext \/ LoopOver]_loopVars

Acting == at \in {"begin", "context", "query", "dispatch"}

\* Where a loop may be; it stops within its budgets.
LoopPlaces ==
  /\ Acting => reason = "unknown" /\ timeouts <= TimeoutBudget
  /\ at = "context" => loop = "mem_agent"
  /\ at = "dispatch" => loop # "mem_agent" /\ queue # <<>>
  /\ at \in {"begin", "context", "query"} => queue = <<>>
  /\ at \in {"begin", "query"} => spent < TokenBudget
  /\ loop # "deepeyes" => spent = 0
  /\ at = "begin" => turn = 0
  /\ at = "query" => turn # 0

\* Its calls are asked for in order; those not answered yet are queued.
Conversation ==
  /\ transcript \in Seq(Turns) /\ queue \in Seq(ToolCalls)
  /\ at \in {"begin", "query"} => Answered(transcript) = Asked(transcript)
  /\ at = "dispatch" => Asked(transcript) = Answered(transcript) \o queue

\* A turn that was cut is followed by another one only in deepeyes, for its calls.
Uncut ==
  \A i \in 1..Len(transcript) :
    transcript[i].who = "assistant" /\ transcript[i].cut
      => loop = "deepeyes" /\ transcript[i].calls # <<>>
CutsFollow == at \in {"begin", "query", "dispatch"} /\ loop # "mem_agent" => Uncut

\* mem_agent: the segments collected are those of the turns before this one.
Answering == turn # 0 /\ Len(trajectory) = turn - 1 /\ segment = <<turn>>
Asking    == turn # 0 /\ Len(trajectory) = turn - 1 /\ segment = <<>>
Refused   == turn # 0 /\ Len(trajectory) = turn /\ segment = <<>>
Segments ==
  /\ trajectory \in Seq(Seq(Nat)) /\ segment \in Seq(Nat)
  /\ loop # "mem_agent" => segment = NoSegment
  /\ loop = "mem_agent" =>
       /\ \A i \in 1..Len(trajectory) : trajectory[i] = <<i>>
       /\ at = "begin" => trajectory = <<>> /\ segment = NoSegment
       /\ at = "context" => Answering \/ (turn = 0 /\ trajectory = <<>> /\ segment = NoSegment)
       /\ at = "query" => Asking
       /\ at = "close" => Answering \/ (reason # "finished" /\ (Asking \/ Refused))

LoopInv ==
  /\ LoopTypeOK /\ LoopPlaces /\ Conversation /\ CutsFollow /\ Segments
  /\ CallsAnswered /\ FinishedByPolicy /\ SegmentsOnce

\* At the top of the loop a turn begins, or a budget is used up.
LEMMA NextTurnGoes ==
  ASSUME LoopTypeOK, LoopPlaces, loop # "mem_agent", NextTurn
  PROVE  \/ /\ at' = "query" /\ turn' = turn + 1 /\ turn' \in 1..MaxTurns /\ reason' = reason
            /\ spent < TokenBudget
         \/ /\ at' = "close" /\ turn' \in 0..MaxTurns
            /\ reason' \in {"max_steps", "max_turns", "token_limit"}
<1>0. /\ MaxTurns \in Nat \ {0} /\ TokenBudget \in Nat \ {0} /\ turn \in 0..MaxTurns
      /\ loop \in {"react", "deepeyes"} /\ spent \in 0..TokenBudget + 1
  BY LoopAssumption DEF LoopTypeOK
<1>1. CASE turn = MaxTurns /\ loop = "react"
  BY <1>0, <1>1 DEF NextTurn, Stop
<1>2. CASE turn = MaxTurns /\ loop = "deepeyes"
  BY <1>0, <1>2 DEF NextTurn, Stop
<1>3. CASE turn < MaxTurns /\ loop = "deepeyes" /\ spent >= TokenBudget
  <2>1. Stop("token_limit") /\ turn' = turn + 1
    BY <1>0, <1>3 DEF NextTurn
  <2>2. QED BY <1>0, <1>3, <2>1 DEF Stop
<1>4. CASE turn < MaxTurns /\ ~(loop = "deepeyes" /\ spent >= TokenBudget)
  <2>1. at' = "query" /\ turn' = turn + 1 /\ UNCHANGED reason
    BY <1>0, <1>4 DEF NextTurn
  <2>2. spent < TokenBudget
    BY <1>0, <1>4 DEF LoopPlaces
  <2>3. QED BY <1>0, <1>4, <2>1, <2>2
<1>5. QED BY <1>0, <1>1, <1>2, <1>3, <1>4

\* A turn is added whose calls are asked for, or which answers one.
LEMMA Says1 ==
  ASSUME NEW c \in Seq(ToolCalls), NEW cut \in BOOLEAN
  PROVE  /\ Says("assistant", c, cut) \in Turns
         /\ AskedBy(Says("assistant", c, cut)) = c
         /\ AnsweredBy(Says("assistant", c, cut)) = <<>>
         /\ Says("tool", c, cut) \in Turns
         /\ AskedBy(Says("tool", c, cut)) = <<>>
         /\ AnsweredBy(Says("tool", c, cut)) = c
BY DEF Says, Turns, AskedBy, AnsweredBy

\* A conversation starts with a prompt, that asks and answers nothing.
LEMMA NothingAsked ==
  /\ Prompt \in Seq(Turns)
  /\ Asked(Prompt) = <<>> /\ Answered(Prompt) = <<>>
  /\ Len(Prompt) = 1 /\ Prompt[1].who = "user"
<1>1. PICK m \in Turns : m = Says("user", <<>>, FALSE)
  <2>1. <<>> \in Seq(ToolCalls)
    OBVIOUS
  <2>2. Says("user", <<>>, FALSE) \in Turns
    BY <2>1 DEF Says, Turns
  <2>3. QED BY <2>2, Zenon
<1>2. AskedBy(m) = <<>> /\ AnsweredBy(m) = <<>> /\ m.who = "user"
  BY <1>1 DEF Says, AskedBy, AnsweredBy
<1>3. Prompt = Append(<<>>, m)
  BY <1>1 DEF Prompt
<1>4. <<>> \in Seq(Turns) /\ Asked(<<>>) = <<>> /\ Answered(<<>>) = <<>>
  <2>1. Len(<<>>) = 0 /\ <<>> \in Seq(Turns)
    OBVIOUS
  <2>2. [i \in 1..Len(<<>>) |-> IF <<>>[i].who = "assistant" THEN <<>>[i].calls ELSE <<>>] = <<>>
    BY <2>1
  <2>3. [i \in 1..Len(<<>>) |-> IF <<>>[i].who = "tool" THEN <<>>[i].calls ELSE <<>>] = <<>>
    BY <2>1
  <2>4. FlattenSeq(<<>>) = <<>>
    BY DEF FlattenSeq
  <2>5. QED BY <2>1, <2>2, <2>3, <2>4 DEF Asked, Answered
<1>5. Asked(Prompt) = <<>> \o <<>> /\ Answered(Prompt) = <<>> \o <<>> /\ Prompt \in Seq(Turns)
  BY <1>2, <1>3, <1>4, TurnAdds
<1>6. <<>> \o <<>> = <<>>
  OBVIOUS
<1>7. Len(Prompt) = 1 /\ Prompt[1] = m
  BY <1>1 DEF Prompt
<1>8. QED BY <1>2, <1>5, <1>6, <1>7

\* What is collected when a context ends.
LEMMA SegmentCollected ==
  ASSUME LoopInv, at \in {"context", "close"}
  PROVE  /\ Collected \in Seq(Seq(Nat))
         /\ loop = "mem_agent" =>
              /\ \A i \in 1..Len(Collected) : Collected[i] = <<i>>
              /\ Len(Collected) \in {turn, IF turn = 0 THEN 0 ELSE turn - 1}
              /\ at = "context" \/ reason = "finished" => Len(Collected) = turn
<1>0. turn \in Nat /\ trajectory \in Seq(Seq(Nat)) /\ segment \in Seq(Nat)
  BY LoopAssumption DEF LoopInv, LoopTypeOK, Segments
<1>1. CASE segment \in {NoSegment, <<>>}
  <2>1. Collected = trajectory
    BY <1>1 DEF Collected
  <2>2. turn # 0 => segment # <<turn>>
    <3>1. turn # 0 => <<0>> # <<turn>> /\ <<>> # <<turn>>
      <4>1. <<0>>[1] = 0 /\ <<turn>>[1] = turn /\ Len(<<turn>>) = 1 /\ Len(<<>>) = 0
        OBVIOUS
      <4>2. QED BY <4>1
    <3>2. QED BY <1>1, <3>1 DEF NoSegment
  <2>3. QED BY <1>0, <2>1, <2>2 DEF LoopInv, Segments, Answering, Asking, Refused
<1>2. CASE segment \notin {NoSegment, <<>>}
  <2>1. Collected = Append(trajectory, segment)
    BY <1>2 DEF Collected
  <2>2. /\ Collected \in Seq(Seq(Nat)) /\ Len(Collected) = Len(trajectory) + 1
        /\ \A i \in 1..Len(trajectory) : Collected[i] = trajectory[i]
        /\ Collected[Len(trajectory) + 1] = segment
    BY <1>0, <2>1, AppendProperties
  <2>3. loop = "mem_agent" => Answering
    BY <1>2 DEF LoopInv, Segments, Asking, Refused
  <2>4. ASSUME loop = "mem_agent" PROVE \A i \in 1..Len(Collected) : Collected[i] = <<i>>
    <3>1. Len(trajectory) + 1 = turn /\ segment = <<turn>>
      BY <1>0, <2>3, <2>4 DEF Answering
    <3>2. \A i \in 1..Len(trajectory) : trajectory[i] = <<i>>
      BY <2>4 DEF LoopInv, Segments
    <3>3. ASSUME NEW i \in 1..Len(Collected) PROVE Collected[i] = <<i>>
      <4>1. i \in 1..Len(trajectory) \/ i = Len(trajectory) + 1
        BY <1>0, <2>2
      <4>2. CASE i \in 1..Len(trajectory)
        BY <2>2, <3>2, <4>2
      <4>3. CASE i = Len(trajectory) + 1
        BY <2>2, <3>1, <4>3
      <4>4. QED BY <4>1, <4>2, <4>3
    <3>4. QED BY <3>3
  <2>5. QED BY <1>0, <2>2, <2>3, <2>4 DEF Answering
<1>3. QED BY <1>1, <1>2

\* A loop that stops keeps its conversation as it was.
LEMMA LoopStops ==
  ASSUME LoopInv, LoopTypeOK', at' = "close", at # "over",
         UNCHANGED <<loop, transcript, queue, timeouts, trajectory, segment, spent>>,
         reason' \notin {"finished", "timeout_limit"},
         loop = "mem_agent" => at = "query" /\ UNCHANGED turn
  PROVE  LoopInv'
<1>1. LoopPlaces'
  BY DEF LoopInv, LoopPlaces, Acting
<1>2. Conversation' /\ CallsAnswered'
  BY DEF LoopInv, Conversation, CallsAnswered
<1>3. CutsFollow' /\ FinishedByPolicy' /\ SegmentsOnce'
  BY DEF CutsFollow, FinishedByPolicy, SegmentsOnce
<1>4. Segments'
  BY DEF LoopInv, Segments, Asking, Answering, Refused
<1>5. QED BY <1>1, <1>2, <1>3, <1>4 DEF LoopInv

\* A loop's conversation answers its calls, and ends as it says.
LEMMA LoopKeepsInv == LoopInv /\ [LoopNext \/ LoopOver]_loopVars => LoopInv'
<1> SUFFICES ASSUME LoopInv, [LoopNext \/ LoopOver]_loopVars PROVE LoopInv'
  OBVIOUS
<1>a. /\ {MaxTurns, MaxCalls, TokenBudget, MaxChunks} \subseteq Nat \ {0}
      /\ {TimeoutBudget, MaxRetries} \subseteq Nat
  BY LoopAssumption
<1>b. /\ LoopTypeOK /\ LoopPlaces /\ Conversation /\ CutsFollow /\ Segments
      /\ CallsAnswered /\ FinishedByPolicy /\ SegmentsOnce
  BY DEF LoopInv
<1>c. Failing \in {"unknown_error", "raised"}
  BY DEF Failing
<1>1. CASE BeginLoop
  <2>1. /\ at = "begin" /\ turn = 0 /\ reason = "unknown"
        /\ UNCHANGED <<loop, chunks, attempt, transcript, queue, timeouts, sawFinish, spent,
                      trajectory, segment, http>>
    BY <1>1, <1>b DEF BeginLoop, LoopPlaces, Acting
  <2>2. CASE loop = "mem_agent"
    <3>1. at' = "context" /\ UNCHANGED <<turn, reason>>
      BY <1>1, <2>2 DEF BeginLoop
    <3>2. LoopTypeOK'
      BY <1>b, <2>1, <3>1 DEF LoopTypeOK
    <3>3. LoopPlaces' /\ Conversation' /\ CutsFollow' /\ CallsAnswered' /\ FinishedByPolicy' /\ SegmentsOnce'
      BY <1>b, <2>1, <2>2, <3>1 DEF LoopPlaces, Acting, Conversation, CutsFollow, CallsAnswered,
                                    FinishedByPolicy, SegmentsOnce
    <3>4. Segments'
      BY <1>b, <2>1, <2>2, <3>1 DEF Segments, Answering
    <3>5. QED BY <3>2, <3>3, <3>4 DEF LoopInv
  <2>3. CASE loop # "mem_agent"
    <3>1. NextTurn \/ (Stop(Failing) /\ UNCHANGED turn)
      BY <1>1, <2>3 DEF BeginLoop
    <3>2. CASE NextTurn /\ at' = "query"
      <4>1. /\ at' = "query" /\ turn' = turn + 1 /\ turn' \in 1..MaxTurns /\ reason' = reason
            /\ spent < TokenBudget
        BY <1>b, <2>3, <3>2, NextTurnGoes
      <4>2. queue = <<>>
        BY <1>b, <2>1 DEF LoopPlaces
      <4>3. LoopTypeOK'
        BY <1>a, <1>b, <2>1, <4>1, <4>2 DEF LoopTypeOK
      <4>4. LoopPlaces' /\ Conversation' /\ CallsAnswered'
        BY <1>b, <2>1, <2>3, <4>1 DEF LoopPlaces, Acting, Conversation, CallsAnswered
      <4>5. CutsFollow' /\ FinishedByPolicy' /\ SegmentsOnce'
        BY <1>b, <2>1, <2>3, <4>1 DEF CutsFollow, Uncut, FinishedByPolicy, SegmentsOnce
      <4>6. Segments'
        BY <1>b, <2>1, <2>3, <4>1 DEF Segments
      <4>7. QED BY <4>3, <4>4, <4>5, <4>6 DEF LoopInv
    <3>3. CASE at' = "close" /\ turn' \in 0..MaxTurns
               /\ reason' \in {"max_steps", "max_turns", "token_limit", "unknown_error", "raised"}
      <4>1. LoopTypeOK'
        BY <1>b, <2>1, <3>3 DEF LoopTypeOK
      <4>2. QED BY <2>1, <2>3, <3>3, <4>1, LoopStops
    <3>4. CASE Stop(Failing) /\ UNCHANGED turn
      BY <1>b, <1>c, <3>3, <3>4 DEF Stop, LoopTypeOK
    <3>5. QED BY <1>b, <2>3, <3>1, <3>2, <3>3, <3>4, NextTurnGoes
  <2>4. QED BY <2>2, <2>3
<1>2. CASE Context
  <2>1. /\ at = "context" /\ loop = "mem_agent" /\ reason = "unknown" /\ timeouts <= TimeoutBudget
        /\ trajectory' = Collected /\ segment' = <<>> /\ transcript' = Prompt
        /\ UNCHANGED <<loop, chunks, attempt, queue, timeouts, sawFinish, spent, http>>
    BY <1>2, <1>b DEF Context, LoopPlaces, Acting
  <2>2. /\ Collected \in Seq(Seq(Nat)) /\ Len(Collected) = turn
        /\ \A i \in 1..Len(Collected) : Collected[i] = <<i>>
    BY <2>1, SegmentCollected
  <2>3. \/ turn = MaxTurns /\ at' = "close" /\ reason' = "raised" /\ UNCHANGED turn
        \/ turn # MaxTurns /\ at' = "query" /\ turn' = turn + 1 /\ UNCHANGED reason
    BY <1>2 DEF Context, Stop
  <2>4. /\ queue = <<>> /\ spent = 0 /\ spent < TokenBudget
    BY <1>a, <1>b, <2>1 DEF LoopPlaces
  <2>5. turn \in 0..MaxTurns /\ turn' \in 1..MaxTurns
    BY <1>a, <1>b, <2>3 DEF LoopTypeOK
  <2>6. LoopTypeOK'
    BY <1>a, <1>b, <2>1, <2>3, <2>4, <2>5 DEF LoopTypeOK
  <2>7. LoopPlaces'
    BY <1>b, <2>1, <2>3, <2>4, <2>5 DEF LoopPlaces, Acting
  <2>8. Conversation' /\ CallsAnswered'
    BY <1>b, <2>1, <2>3, NothingAsked DEF Conversation, CallsAnswered
  <2>9. CutsFollow' /\ FinishedByPolicy' /\ SegmentsOnce'
    BY <2>1, <2>3 DEF CutsFollow, FinishedByPolicy, SegmentsOnce
  <2>10. Segments'
    <3>1. segment' \in Seq(Nat) /\ trajectory' \in Seq(Seq(Nat))
      BY <2>1, <2>2
    <3>2. IF at' = "query" THEN Asking' ELSE Refused' /\ at' = "close" /\ reason' = "raised"
      <4>1. turn \in Nat /\ Len(trajectory') = turn /\ segment' = <<>> /\ turn' # 0
        BY <1>a, <2>1, <2>2, <2>5
      <4>2. CASE at' = "query"
        BY <2>3, <4>1, <4>2 DEF Asking
      <4>3. CASE at' = "close"
        BY <2>3, <4>1, <4>3 DEF Refused
      <4>4. QED BY <2>3, <4>2, <4>3
    <3>3. QED BY <2>1, <2>2, <2>3, <3>1, <3>2 DEF Segments
  <2>11. QED BY <2>6, <2>7, <2>8, <2>9, <2>10 DEF LoopInv
<1>3. CASE QueryRetried
  <2>1. /\ at = "query" /\ attempt' = attempt + 1 /\ attempt < MaxRetries /\ http' = "open"
        /\ UNCHANGED <<loop, chunks, at, turn, transcript, queue, timeouts, sawFinish, spent,
                      trajectory, segment, reason>>
    BY <1>3 DEF QueryRetried
  <2>2. LoopTypeOK'
    BY <1>a, <1>b, <2>1 DEF LoopTypeOK
  <2>3. LoopPlaces' /\ Conversation' /\ CutsFollow' /\ CallsAnswered' /\ FinishedByPolicy' /\ SegmentsOnce'
    BY <1>b, <2>1 DEF LoopPlaces, Acting, Conversation, CutsFollow, Uncut, CallsAnswered,
                      FinishedByPolicy, SegmentsOnce
  <2>4. Segments'
    BY <1>b, <2>1 DEF Segments, Asking
  <2>5. QED BY <2>2, <2>3, <2>4 DEF LoopInv
<1>4. CASE QueryFails \/ DispatchFails \/ LoopCancel
  <2>1. /\ at \in {"query", "dispatch"} /\ at' = "close" /\ reason' \in {"unknown_error", "raised"}
        /\ attempt' \in {0, attempt} /\ http' \in {http, "open"}
        /\ UNCHANGED <<loop, chunks, turn, transcript, queue, timeouts, sawFinish, spent,
                      trajectory, segment>>
    BY <1>4, <1>c DEF QueryFails, DispatchFails, LoopCancel, Stop
  <2>2. LoopTypeOK'
    BY <1>a, <1>b, <2>1 DEF LoopTypeOK
  <2>3. loop = "mem_agent" => at = "query"
    BY <1>b, <2>1 DEF LoopPlaces
  <2>4. QED BY <2>1, <2>2, <2>3, LoopStops
<1>5. CASE QueryReturns
  <2>1. /\ at = "query" /\ http' = "open" /\ attempt' = 0 /\ sawFinish' = FALSE
        /\ UNCHANGED <<loop, chunks, turn, timeouts, trajectory>>
        /\ segment' = IF loop = "mem_agent" THEN Append(segment, turn) ELSE segment
        /\ reason = "unknown" /\ timeouts <= TimeoutBudget /\ queue = <<>>
        /\ spent < TokenBudget /\ turn # 0
    BY <1>5, <1>b DEF QueryReturns, LoopPlaces, Acting
  <2>2. PICK n \in 0..(IF loop = "mem_agent" THEN 0 ELSE MaxCalls), cut \in BOOLEAN, tokens \in 1..2 :
          LET made == [k \in 1..n |-> <<turn, k>>]
          IN  /\ tokens = 1 \/ loop = "deepeyes"
              /\ transcript' = Append(transcript, Says("assistant", made, cut))
              /\ spent' = IF loop = "deepeyes" THEN spent + tokens ELSE spent
              /\ CASE loop = "mem_agent" ->
                        IF turn > chunks \/ turn > MaxChunks
                        THEN Stop("finished") /\ UNCHANGED queue
                        ELSE at' = "context" /\ UNCHANGED <<reason, queue>>
                   [] loop # "mem_agent" /\ (n = 0 \/ (loop = "react" /\ cut)) ->
                        Stop(PlainReason(cut)) /\ UNCHANGED queue
                   [] loop = "deepeyes" /\ n > 0 /\ turn = MaxTurns ->
                        Stop("max_turns") /\ UNCHANGED queue
                   [] OTHER -> at' = "dispatch" /\ queue' = made /\ UNCHANGED reason
    BY <1>5 DEF QueryReturns
  <2>3. n \in Nat /\ turn \in Nat
    <3>1. n \in 0..0 \/ n \in 0..MaxCalls
      OBVIOUS
    <3>2. QED BY <1>a, <1>b, <3>1 DEF LoopTypeOK
  <2>4. PICK made \in Seq(ToolCalls) :
          made = [k \in 1..n |-> <<turn, k>>] /\ (made = <<>> <=> n = 0)
    <3>1. [k \in 1..n |-> <<turn, k>>] \in Seq(ToolCalls)
      BY <2>3 DEF ToolCalls
    <3>2. Len([k \in 1..n |-> <<turn, k>>]) = n
      BY <2>3
    <3>3. [k \in 1..n |-> <<turn, k>>] = <<>> <=> n = 0
      BY <2>3, <3>1, <3>2
    <3>4. QED BY <3>1, <3>3, Zenon
  <2>5. /\ tokens = 1 \/ loop = "deepeyes"
        /\ transcript' = Append(transcript, Says("assistant", made, cut))
        /\ spent' = IF loop = "deepeyes" THEN spent + tokens ELSE spent
    BY <2>2, <2>4
  <2>6. \/ /\ loop = "mem_agent" /\ queue' = queue
           /\ \/ at' = "close" /\ reason' = "finished"
              \/ at' = "context" /\ reason' = reason
        \/ /\ loop # "mem_agent" /\ queue' = queue /\ at' = "close"
           /\ \/ reason' = "finished" /\ n = 0 /\ ~cut
              \/ reason' \in {"token_limit", "max_turns"}
        \/ /\ loop # "mem_agent" /\ n # 0 /\ ~(loop = "react" /\ cut)
           /\ at' = "dispatch" /\ queue' = made /\ reason' = reason
    <3>1. CASE loop = "mem_agent"
      BY <2>2, <3>1 DEF Stop
    <3>2. CASE loop # "mem_agent" /\ (n = 0 \/ (loop = "react" /\ cut))
      <4>1. Stop(PlainReason(cut)) /\ UNCHANGED queue
        BY <2>2, <2>3, <3>2
      <4>2. QED BY <3>2, <4>1 DEF Stop, PlainReason
    <3>3. CASE loop = "deepeyes" /\ n > 0 /\ turn = MaxTurns
      BY <2>2, <2>3, <3>3 DEF Stop
    <3>4. CASE /\ loop # "mem_agent" /\ n # 0 /\ ~(loop = "react" /\ cut)
               /\ ~(loop = "deepeyes" /\ n > 0 /\ turn = MaxTurns)
      BY <2>2, <2>3, <2>4, <3>4
    <3>5. QED BY <2>3, <3>1, <3>2, <3>3, <3>4
  <2>7. /\ transcript' \in Seq(Turns)
        /\ Asked(transcript') = Asked(transcript) \o made
        /\ Answered(transcript') = Answered(transcript) \o <<>>
        /\ Asked(transcript) \in Seq(ToolCalls) /\ Answered(transcript) \in Seq(ToolCalls)
        /\ Asked(transcript) = Answered(transcript)
    <3>1. transcript \in Seq(Turns) /\ Answered(transcript) = Asked(transcript)
      BY <1>b, <2>1 DEF Conversation
    <3>2. PICK m \in Turns : /\ m = Says("assistant", made, cut)
                             /\ AskedBy(m) = made /\ AnsweredBy(m) = <<>>
      <4>1. Says("assistant", made, cut) \in Turns
        BY Says1
      <4>2. QED BY <4>1, Says1, Zenon
    <3>3. QED BY <2>5, <3>1, <3>2, TurnAdds
  <2>8. /\ Asked(transcript') = Answered(transcript') \o made
        /\ n = 0 => Answered(transcript') = Asked(transcript')
    <3>1. Answered(transcript') = Answered(transcript)
      BY <2>7, ConcatEmptySeq
    <3>2. QED BY <2>4, <2>7, <3>1, ConcatEmptySeq
  <2>9. LoopTypeOK'
    <3>1. spent' \in 0..TokenBudget + 1
      <4>1. /\ spent \in 0..TokenBudget + 1 /\ spent < TokenBudget
            /\ TokenBudget \in Nat \ {0} /\ tokens \in {1, 2}
        BY <1>a, <1>b, <2>1 DEF LoopTypeOK
      <4>2. spent' \in {spent, spent + tokens}
        BY <2>5
      <4>3. QED BY <4>1, <4>2
    <3>2. at' # "query" /\ at' # "over" /\ at' \in {"close", "context", "dispatch"}
          /\ reason' \in {"finished", "unknown", "token_limit", "max_turns"}
      BY <2>1, <2>6
    <3>3. attempt' \in 0..MaxRetries
      BY <1>a, <2>1
    <3>4. /\ loop' \in {"react", "deepeyes", "mem_agent"} /\ chunks' \in 0..MaxChunks + 1
          /\ turn' \in 0..MaxTurns /\ timeouts' \in 0..TimeoutBudget + 1
      BY <1>b, <2>1 DEF LoopTypeOK
    <3>5. QED BY <2>1, <3>1, <3>2, <3>3, <3>4 DEF LoopTypeOK
  <2>10. LoopPlaces'
    <3>1. loop # "deepeyes" => spent' = 0
      BY <1>b, <2>5 DEF LoopPlaces
    <3>2. at' = "dispatch" => queue' # <<>>
      BY <2>4, <2>6
    <3>3. QED BY <2>1, <2>6, <3>1, <3>2 DEF LoopPlaces, Acting
  <2>11. Conversation' /\ CallsAnswered'
    <3>1. queue' \in Seq(ToolCalls)
      BY <1>b, <2>6 DEF Conversation
    <3>2. at' \notin {"begin", "query"} /\ reason' # "timeout_limit"
      BY <2>1, <2>6
    <3>3. at' = "dispatch" => queue' = made
      BY <2>6
    <3>4. Asked(transcript)' = Asked(transcript') /\ Answered(transcript)' = Answered(transcript')
      BY DEF Asked, Answered
    <3>5. QED BY <2>7, <2>8, <3>1, <3>2, <3>3, <3>4 DEF Conversation, CallsAnswered
  <2>12. ASSUME loop # "mem_agent", at' = "dispatch" \/ reason' = "finished" PROVE Uncut'
    <3>1. Uncut /\ transcript \in Seq(Turns)
      BY <1>b, <2>1, <2>12 DEF CutsFollow, Conversation
    <3>2. PICK m \in Turns : m = Says("assistant", made, cut) /\ m.calls = made /\ m.cut = cut
      <4>1. Says("assistant", made, cut) \in Turns
        BY Says1
      <4>2. QED BY <4>1, Zenon DEF Says
    <3>3. cut => loop = "deepeyes" /\ made # <<>>
      BY <1>b, <2>4, <2>6, <2>12 DEF LoopTypeOK
    <3>4. /\ Len(transcript') = Len(transcript) + 1 /\ transcript'[Len(transcript) + 1] = m
          /\ \A i \in 1..Len(transcript) : transcript'[i] = transcript[i]
      BY <2>5, <3>1, <3>2, AppendProperties
    <3>5. ASSUME NEW i \in 1..Len(transcript'), transcript'[i].who = "assistant", transcript'[i].cut
          PROVE  loop = "deepeyes" /\ transcript'[i].calls # <<>>
      <4>1. CASE i \in 1..Len(transcript)
        BY <3>1, <3>4, <3>5, <4>1 DEF Uncut
      <4>2. CASE i = Len(transcript) + 1
        BY <3>2, <3>3, <3>4, <3>5, <4>2
      <4>3. Len(transcript) \in Nat
        BY <3>1
      <4>4. QED BY <3>4, <3>5, <4>1, <4>2, <4>3
    <3>6. loop' = loop
      BY <2>1
    <3>7. QED BY <3>5, <3>6 DEF Uncut
  <2>13. CutsFollow' /\ FinishedByPolicy' /\ SegmentsOnce'
    <3>1. CutsFollow'
      BY <2>1, <2>6, <2>12 DEF CutsFollow
    <3>2. FinishedByPolicy'
      BY <2>1, <2>6, <2>8, <2>12 DEF FinishedByPolicy, Uncut
    <3>3. SegmentsOnce'
      BY <2>6 DEF SegmentsOnce
    <3>4. QED BY <3>1, <3>2, <3>3
  <2>14. Segments'
    <3>1. CASE loop = "mem_agent"
      <4>1. Asking
        BY <1>b, <2>1, <3>1 DEF Segments
      <4>2. segment' = <<turn>> /\ segment' \in Seq(Nat)
        BY <2>1, <2>3, <3>1, <4>1 DEF Asking
      <4>3. Answering'
        BY <2>1, <4>1, <4>2 DEF Asking, Answering
      <4>4. QED BY <1>b, <2>1, <2>6, <3>1, <4>2, <4>3 DEF Segments
    <3>2. CASE loop # "mem_agent"
      BY <1>b, <2>1, <3>2 DEF Segments
    <3>3. QED BY <3>1, <3>2
  <2>15. QED BY <2>9, <2>10, <2>11, <2>13, <2>14 DEF LoopInv
<1>6. CASE Dispatch
  <2>1. /\ at = "dispatch" /\ loop # "mem_agent" /\ reason = "unknown" /\ timeouts <= TimeoutBudget
        /\ UNCHANGED <<loop, chunks, attempt, spent, trajectory, segment, http>>
    BY <1>6, <1>b DEF Dispatch, LoopPlaces, Acting
  <2>2. /\ queue \in Seq(ToolCalls) /\ queue # <<>> /\ transcript \in Seq(Turns)
        /\ Asked(transcript) = Answered(transcript) \o queue
        /\ Uncut
    BY <1>b, <2>1 DEF LoopPlaces, Conversation, CutsFollow
  <2>3. PICK answer \in Turns, head \in Seq(ToolCalls), rest \in Seq(ToolCalls) :
          /\ answer = Says("tool", <<Head(queue)>>, FALSE) /\ rest = Tail(queue)
          /\ head = <<Head(queue)>> /\ queue = head \o rest
    <3>1. <<Head(queue)>> \in Seq(ToolCalls) /\ Tail(queue) \in Seq(ToolCalls)
      BY <2>2
    <3>2. queue = <<Head(queue)>> \o Tail(queue)
      BY <2>2
    <3>3. Says("tool", <<Head(queue)>>, FALSE) \in Turns
      BY <3>1, Says1
    <3>4. QED BY <3>1, <3>2, <3>3, Zenon
  <2>4. PICK up : up = Append(transcript, answer)
    OBVIOUS
  <2>5. /\ up \in Seq(Turns) /\ Asked(up) = Answered(up) \o rest
        /\ Answered(up) \in Seq(ToolCalls)
    <3>1. AskedBy(answer) = <<>> /\ AnsweredBy(answer) = head
      BY <2>3, Says1
    <3>2. /\ up \in Seq(Turns)
          /\ Asked(transcript) \in Seq(ToolCalls) /\ Asked(up) = Asked(transcript) \o <<>>
          /\ Answered(transcript) \in Seq(ToolCalls) /\ Answered(up) = Answered(transcript) \o head
      BY <2>2, <2>4, <3>1, TurnAdds
    <3>3. PICK a \in Seq(ToolCalls) : a = Answered(transcript)
      BY <3>2
    <3>4. (a \o head) \o rest = a \o (head \o rest) /\ a \o head \in Seq(ToolCalls)
      BY ConcatAssociative, ConcatProperties
    <3>5. Asked(up) = Asked(transcript)
      BY <3>2, ConcatEmptySeq
    <3>6. QED BY <2>2, <2>3, <3>2, <3>3, <3>4, <3>5
  <2>6. PICK delay \in 0..TimeoutBudget + 1, saw \in BOOLEAN :
          /\ timeouts' = delay
          /\ IF delay > TimeoutBudget
             THEN /\ transcript' = up \o Skipped(rest)
                  /\ queue' = <<>> /\ Stop("timeout_limit") /\ UNCHANGED <<turn, sawFinish>>
             ELSE /\ transcript' = up
                  /\ queue' = rest /\ sawFinish' = saw
                  /\ CASE rest # <<>> -> UNCHANGED <<at, turn, reason>>
                       [] rest = <<>> /\ saw -> Stop("finished") /\ UNCHANGED turn
                       [] OTHER -> NextTurn
    <3>1. PICK status \in {"ok", "error", "timeout"}, finish \in BOOLEAN :
            LET delay == IF status = "timeout" /\ loop = "react" THEN timeouts + 1 ELSE timeouts
                saw  == sawFinish \/ finish
            IN  /\ timeouts' = delay
                /\ IF delay > TimeoutBudget
                   THEN /\ transcript' = up \o Skipped(rest)
                        /\ queue' = <<>> /\ Stop("timeout_limit") /\ UNCHANGED <<turn, sawFinish>>
                   ELSE /\ transcript' = up
                        /\ queue' = rest /\ sawFinish' = saw
                        /\ CASE rest # <<>> -> UNCHANGED <<at, turn, reason>>
                             [] rest = <<>> /\ saw -> Stop("finished") /\ UNCHANGED turn
                             [] OTHER -> NextTurn
      BY <1>6, <2>3, <2>4 DEF Dispatch
    <3>2. (IF status = "timeout" /\ loop = "react" THEN timeouts + 1 ELSE timeouts) \in 0..TimeoutBudget + 1
      BY <1>a, <1>b, <2>1 DEF LoopTypeOK
    <3>3. (sawFinish \/ finish) \in BOOLEAN
      OBVIOUS
    <3>4. QED BY <3>1, <3>2, <3>3, Zenon
  <2>7. CASE delay > TimeoutBudget
    <3>1. /\ transcript' = up \o Skipped(rest) /\ queue' = <<>> /\ at' = "close"
          /\ reason' = "timeout_limit" /\ UNCHANGED <<turn, sawFinish>> /\ timeouts' = delay
      BY <2>6, <2>7 DEF Stop
    <3>2. transcript' \in Seq(Turns) /\ Answered(transcript') = Asked(transcript')
      BY <2>5, <3>1, SkippedAnswers
    <3>3. LoopTypeOK'
      BY <1>a, <1>b, <2>1, <2>6, <3>1 DEF LoopTypeOK
    <3>4. LoopPlaces' /\ Conversation' /\ CutsFollow' /\ CallsAnswered' /\ FinishedByPolicy' /\ SegmentsOnce'
      BY <1>b, <2>1, <3>1, <3>2 DEF LoopPlaces, Acting, Conversation, CutsFollow, CallsAnswered,
                                    FinishedByPolicy, SegmentsOnce
    <3>5. Segments'
      BY <1>b, <2>1 DEF Segments
    <3>6. QED BY <3>3, <3>4, <3>5 DEF LoopInv
  <2>8. CASE ~(delay > TimeoutBudget)
    <3>1. /\ transcript' = up /\ queue' = rest /\ sawFinish' = saw /\ timeouts' = delay
          /\ delay <= TimeoutBudget
      BY <1>a, <2>6, <2>8
    <3>2. \/ rest # <<>> /\ UNCHANGED <<at, turn, reason>>
          \/ rest = <<>> /\ Stop("finished") /\ UNCHANGED turn
          \/ rest = <<>> /\ NextTurn
      BY <2>6, <2>8
    <3>3. \/ rest # <<>> /\ UNCHANGED <<at, turn, reason>>
          \/ rest = <<>> /\ at' = "close" /\ reason' = "finished" /\ UNCHANGED turn
          \/ /\ rest = <<>> /\ at' = "query" /\ turn' \in 1..MaxTurns /\ reason' = reason
             /\ spent < TokenBudget
          \/ /\ at' = "close" /\ turn' \in 0..MaxTurns
             /\ reason' \in {"max_steps", "max_turns", "token_limit"}
      BY <1>b, <2>1, <3>2, NextTurnGoes DEF Stop
    <3>4. rest = <<>> => Answered(up) = Asked(up)
      BY <2>5, ConcatEmptySeq
    <3>5. LoopTypeOK'
      BY <1>a, <1>b, <2>1, <2>6, <3>1, <3>3 DEF LoopTypeOK
    <3>6. LoopPlaces'
      BY <1>b, <2>1, <3>1, <3>3 DEF LoopPlaces, Acting
    <3>7. Conversation' /\ CallsAnswered'
      BY <2>1, <2>5, <3>1, <3>3, <3>4 DEF Conversation, CallsAnswered
    <3>8. Uncut'
      <4>1. ~answer.cut
        BY <2>3 DEF Says
      <4>2. /\ Len(up) = Len(transcript) + 1 /\ up[Len(transcript) + 1] = answer
            /\ \A i \in 1..Len(transcript) : up[i] = transcript[i]
        BY <2>2, <2>4, AppendProperties
      <4>3. Len(transcript) \in Nat
        BY <2>2
      <4>4. ASSUME NEW i \in 1..Len(up), up[i].who = "assistant", up[i].cut
            PROVE  loop = "deepeyes" /\ up[i].calls # <<>>
        <5>1. i # Len(transcript) + 1
          BY <4>1, <4>2, <4>4
        <5>2. i \in 1..Len(transcript)
          BY <4>2, <4>3, <4>4, <5>1
        <5>3. up[i] = transcript[i]
          BY <4>2, <5>2
        <5>4. QED BY <2>2, <4>4, <5>2, <5>3 DEF Uncut
      <4>5. QED BY <2>1, <3>1, <4>4 DEF Uncut
    <3>9. CutsFollow' /\ FinishedByPolicy' /\ SegmentsOnce'
      BY <2>1, <3>1, <3>3, <3>4, <3>8 DEF CutsFollow, Uncut, FinishedByPolicy, SegmentsOnce
    <3>10. Segments'
      BY <1>b, <2>1 DEF Segments
    <3>11. QED BY <3>5, <3>6, <3>7, <3>9, <3>10 DEF LoopInv
  <2>9. QED BY <2>7, <2>8
<1>7. CASE CloseLoop
  <2>1. /\ at = "close" /\ at' = "over" /\ trajectory' = Collected /\ segment' = NoSegment
        /\ reason' \in {reason, Failing}
        /\ loop = "mem_agent" => reason' = reason
        /\ http' = IF http = "open" THEN "closed" ELSE http
        /\ UNCHANGED <<loop, chunks, turn, attempt, transcript, queue, timeouts, sawFinish, spent>>
    BY <1>7 DEF CloseLoop
  <2>2. LoopTypeOK'
    BY <1>b, <1>c, <2>1 DEF LoopTypeOK
  <2>3. LoopPlaces' /\ CutsFollow'
    BY <1>b, <2>1 DEF LoopPlaces, Acting, CutsFollow
  <2>4. Conversation' /\ CallsAnswered'
    BY <1>b, <1>c, <2>1 DEF Conversation, CallsAnswered
  <2>5. FinishedByPolicy'
    BY <1>b, <1>c, <2>1 DEF FinishedByPolicy
  <2>6. /\ Collected \in Seq(Seq(Nat))
        /\ loop = "mem_agent" =>
              /\ \A i \in 1..Len(Collected) : Collected[i] = <<i>>
              /\ Len(Collected) \in {turn, IF turn = 0 THEN 0 ELSE turn - 1}
              /\ reason = "finished" => Len(Collected) = turn
    BY <2>1, SegmentCollected
  <2>7. Segments'
    BY <2>1, <2>6 DEF Segments, NoSegment
  <2>8. SegmentsOnce'
    BY <2>1, <2>6 DEF SegmentsOnce
  <2>9. QED BY <2>2, <2>3, <2>4, <2>5, <2>7, <2>8 DEF LoopInv
<1>8. CASE LoopOver \/ UNCHANGED loopVars
  <2>1. UNCHANGED loopVars
    BY <1>8 DEF LoopOver
  <2>2. LoopTypeOK'
    BY <1>b, <2>1 DEF LoopTypeOK, loopVars
  <2>3. LoopPlaces' /\ Conversation' /\ CutsFollow' /\ CallsAnswered'
    BY <1>b, <2>1 DEF LoopPlaces, Acting, Conversation, CutsFollow, Uncut, CallsAnswered, loopVars
  <2>4. FinishedByPolicy' /\ SegmentsOnce'
    BY <1>b, <2>1 DEF FinishedByPolicy, SegmentsOnce, loopVars
  <2>5. Segments'
    BY <1>b, <2>1 DEF Segments, Asking, Answering, Refused, loopVars
  <2>6. QED BY <2>2, <2>3, <2>4, <2>5 DEF LoopInv
<1>9. QED
  BY <1>1, <1>2, <1>3, <1>4, <1>5, <1>6, <1>7, <1>8 DEF LoopNext

\* It holds in every state of a loop.
LEMMA LoopCorrect == LoopSpec => []LoopInv
<1>1. ASSUME LoopInit PROVE LoopInv
  <2>1. /\ {MaxTurns, MaxCalls, TokenBudget, MaxChunks} \subseteq Nat \ {0}
        /\ {TimeoutBudget, MaxRetries} \subseteq Nat
    BY LoopAssumption
  <2>2. LoopTypeOK /\ LoopPlaces
    <3>1. chunks \in 0..MaxChunks + 1
      BY <1>1, <2>1 DEF LoopInit
    <3>2. LoopTypeOK
      <4>1. /\ 0 \in 0..MaxTurns /\ 0 \in 0..MaxRetries /\ 0 \in 0..TimeoutBudget + 1
            /\ 0 \in 0..TokenBudget + 1
        BY <2>1
      <4>2. at = "begin" /\ queue = <<>> /\ http = "none" /\ sawFinish \in BOOLEAN
        BY <1>1 DEF LoopInit
      <4>3. QED BY <1>1, <3>1, <4>1, <4>2 DEF LoopInit, LoopTypeOK
    <3>3. LoopPlaces
      BY <1>1, <2>1 DEF LoopInit, LoopPlaces, Acting
    <3>4. QED BY <3>2, <3>3
  <2>3. Conversation /\ CallsAnswered
    BY <1>1, NothingAsked DEF LoopInit, Conversation, CallsAnswered
  <2>4. CutsFollow /\ FinishedByPolicy /\ SegmentsOnce
    BY <1>1, NothingAsked DEF LoopInit, CutsFollow, Uncut, FinishedByPolicy, SegmentsOnce
  <2>5. Segments
    BY <1>1 DEF LoopInit, Segments, NoSegment
  <2>6. QED BY <2>2, <2>3, <2>4, <2>5 DEF LoopInv
<1>2. QED BY <1>1, LoopKeepsInv, PTL DEF LoopSpec

-----------------------------------------------------------------------------
(* The logs of runs. *)

\* Records, and the operations of the queue.
Recs == Nat
LogOps == [op : {"write", "open", "close"}, run : LogRuns, rec : Recs, late : BOOLEAN]
          \cup {[op |-> "stop"]}

LogState ==
  /\ LogTypeOK
  /\ logId \in [LogRuns -> LogIds] /\ accepted \in [LogRuns -> Seq(Recs)]
  /\ opQueue \in Seq(LogOps) /\ content \in [LogRuns -> Seq(LogOps)]
  /\ \A r \in LogRuns : \A k \in 1..Len(content[r]) : content[r][k].op = "write"

\* Blocks that overlap differ in their log_id; who emits is no block from
\* before a fork.
RoutesKnown ==
  /\ \A r, s \in LogRuns :
       {logRun[r], logRun[s]} \subseteq {"active", "inherited"} /\ logId[r] = logId[s]
         => r = s
  /\ \A r \in LogRuns : logRun[r] = "inherited" => logId[r] \notin routed
  /\ \A r \in LogRuns : emitting[r] # NoRecord => logRun[r] \in {"active", "over"}

\* The root logger is borrowed as long as windows are counted, one for each
\* block; the level the host wants is the one it has, or the one that is saved.
ActiveRuns == {r \in LogRuns : logRun[r] = "active"}
RootBorrowed ==
  /\ windows \in Nat /\ windows <= Cardinality(ActiveRuns)
  /\ ~unpaired => windows = Cardinality(ActiveRuns)
  /\ rootMounted <=> windows > 0
  /\ savedLevel # NoLevel <=> windows > 0
  /\ ~overlooked => IF windows > 0 /\ rootLevel = appliedLevel THEN savedLevel = hostLevel
                                                               ELSE rootLevel = hostLevel

\* An operation that changes the file which the log_id of r has (ids: logId).
Concerns(ids, x, r) == x.op \in {"open", "close"} /\ ids[x.run] = ids[r]

\* With these files open and k operations applied, the log_id of r has its file.
OpenAfter(ids, q, files, r, k) ==
  \/ /\ files[ids[r]] = r
     /\ \A j \in 1..k : ~Concerns(ids, q[j], r)
  \/ \E m \in 1..k :
       /\ q[m].op = "open" /\ q[m].run = r
       /\ \A j \in (m + 1)..k : ~Concerns(ids, q[j], r)

\* The file of a block is open when a record of it is written.
FilesOpen ==
  /\ \A r \in LogRuns : logRun[r] = "active" /\ ~Lost("open", r)
       => OpenAfter(logId, opQueue, openFiles, r, Len(opQueue))
  /\ \A k \in 1..Len(opQueue) :
       opQueue[k].op = "write" /\ ~opQueue[k].late /\ ~Lost("open", opQueue[k].run)
         => OpenAfter(logId, opQueue, openFiles, opQueue[k].run, k - 1)

\* The file of f is closed by an operation after the first n, or its block has
\* not ended, or its close was dropped.
ClosedAfter(q, f, n) == \E m \in (n + 1)..Len(q) : q[m].op = "close" /\ q[m].run = f
Closing(q, f, n) == logRun[f] = "active" \/ Lost("close", f) \/ ClosedAfter(q, f, n)

\* A file is the one of its log_id, and is closed in time.
FilesEnd ==
  /\ \A i \in LogIds : openFiles[i] # NoFile =>
       logId[openFiles[i]] = i /\ Closing(opQueue, openFiles[i], 0)
  /\ \A k \in 1..Len(opQueue) : opQueue[k].op = "open" => Closing(opQueue, opQueue[k].run, k)
  /\ \A f \in dirtyFiles : openFiles[logId[f]] = f

FilesSound ==
  /\ writer # "stopped" => FilesOpen
  /\ FilesEnd /\ writer # "dead"

LogInv == LogState /\ RoutesKnown /\ RootBorrowed /\ FilesSound /\ LogsComplete /\ FilesApart

-----------------------------------------------------------------------------
LEMMA OpsKnown ==
  /\ \A x \in LogOps :
       /\ x.op \in {"write", "open", "close", "stop"}
       /\ x.op # "stop" => x.run \in LogRuns /\ x.rec \in Recs /\ x.late \in BOOLEAN
       /\ \A r \in LogRuns : OwnRecord(x, r) \in Seq(Recs)
  /\ [op |-> "stop"] \in LogOps /\ [op |-> "stop"].op = "stop"
<1>1. ASSUME NEW x \in LogOps PROVE /\ x.op \in {"write", "open", "close", "stop"}
                                    /\ x.op # "stop" => x.run \in LogRuns /\ x.rec \in Recs /\ x.late \in BOOLEAN
  BY <1>1 DEF LogOps
<1>2. ASSUME NEW x \in LogOps, NEW r \in LogRuns PROVE OwnRecord(x, r) \in Seq(Recs)
  BY <1>1, <1>2 DEF OwnRecord
<1>3. QED BY <1>1, <1>2 DEF LogOps

LEMMA OperationKnown ==
  ASSUME NEW r \in LogRuns, NEW what \in {"write", "open", "close"}, LogState
  PROVE  /\ Operation(what, r) \in LogOps
         /\ Operation(what, r).op = what /\ Operation(what, r).run = r
         /\ Operation(what, r).late = (logRun[r] = "over")
         /\ what = "write" => Operation(what, r).rec = emitting[r]
<1>1. emitting[r] \in Recs /\ NoRecord \in Recs
  BY DEF LogState, LogTypeOK, NoRecord, Recs
<1>2. QED BY <1>1 DEF Operation, LogOps

\* A prefix grows by one element.
LEMMA SubSeqGrows ==
  ASSUME NEW X, NEW s \in Seq(X), NEW k \in 0..Len(s), k # Len(s)
  PROVE  /\ SubSeq(s, 1, k) \in Seq(X)
         /\ SubSeq(s, 1, k + 1) = Append(SubSeq(s, 1, k), s[k + 1])
<1>1. k + 1 \in 1..Len(s) /\ (k + 1) - 1 = k /\ 1 \in 1..Len(s)
  OBVIOUS
<1>2. SubSeq(s, 1, k) \in Seq(X)
  <2>1. \A i \in 1..k : s[i] \in X
    BY <1>1
  <2>2. QED BY <2>1, SubSeqProperties
<1>3. SubSeq(s, 1, k + 1) = SubSeq(s, 1, (k + 1) - 1) \o <<s[k + 1]>>
  BY <1>1, SubSeqRecursiveSecond
<1>4. s[k + 1] \in X
  BY <1>1
<1>5. QED BY <1>1, <1>2, <1>3, <1>4, AppendIsConcat

\* A further operation adds its record.
LEMMA OwnAppend ==
  ASSUME NEW s \in Seq(LogOps), NEW x \in LogOps, NEW r \in LogRuns
  PROVE  /\ OwnRecords(s, r) \in Seq(Recs)
         /\ OwnRecords(Append(s, x), r) = OwnRecords(s, r) \o OwnRecord(x, r)
<1>1. PICK u : u = Append(s, x)
  OBVIOUS
<1>2. PICK n \in Nat : n = Len(s)
  OBVIOUS
<1>3. u \in Seq(LogOps) /\ Len(u) = n + 1 /\ (\A i \in 1..n : u[i] = s[i]) /\ u[n + 1] = x
  <2>1. u \in Seq(LogOps) /\ Len(u) = n + 1
    BY <1>1, <1>2
  <2>2. \A i \in 1..n : u[i] = s[i]
    BY <1>1, <1>2
  <2>3. u[n + 1] = x
    BY <1>1, <1>2
  <2>4. QED BY <2>1, <2>2, <2>3
<1>4. \A y \in LogOps : OwnRecord(y, r) \in Seq(Recs)
  BY OpsKnown
<1> DEFINE p == [i \in 1..Len(s) |-> OwnRecord(s[i], r)]
           q == [i \in 1..Len(u) |-> OwnRecord(u[i], r)]
<1>5. OwnRecords(s, r) = FlattenSeq(p) /\ OwnRecords(u, r) = FlattenSeq(q)
  BY DEF OwnRecords
<1>6. p \in Seq(Seq(Recs)) /\ Len(p) = n
  <2>1. \A i \in 1..Len(s) : OwnRecord(s[i], r) \in Seq(Recs)
    BY <1>4
  <2>2. QED BY <1>2, <2>1
<1>7. q \in Seq(Seq(Recs)) /\ Len(q) = n + 1
  <2>1. \A i \in 1..Len(u) : OwnRecord(u[i], r) \in Seq(Recs)
    BY <1>3, <1>4
  <2>2. QED BY <1>3, <2>1
<1>8. \A i \in 1..n : p[i] = q[i]
  BY <1>2, <1>3
<1>9. q[n + 1] = OwnRecord(x, r)
  BY <1>2, <1>3
<1> HIDE DEF p, q
<1>10. FlattenSeq(p) \in Seq(Recs) /\ FlattenSeq(q) = FlattenSeq(p) \o q[n + 1]
  BY <1>2, <1>6, <1>7, <1>8, FlattenLonger
<1>11. QED BY <1>1, <1>5, <1>9, <1>10

\* What is first in the queue has the first record.
LEMMA OwnTail ==
  ASSUME NEW s \in Seq(LogOps), s # <<>>, NEW r \in LogRuns
  PROVE  /\ Head(s) \in LogOps /\ Tail(s) \in Seq(LogOps)
         /\ OwnRecords(Tail(s), r) \in Seq(Recs)
         /\ OwnRecords(s, r) = OwnRecord(Head(s), r) \o OwnRecords(Tail(s), r)
<1>1. PICK x \in LogOps : x = Head(s)
  OBVIOUS
<1>2. PICK t \in Seq(LogOps) : t = Tail(s)
  <2>1. Tail(s) \in Seq(LogOps)
    OBVIOUS
  <2>2. QED BY <2>1, Zenon
<1>3. PICK n \in Nat : n = Len(t)
  OBVIOUS
<1>4. Len(s) = n + 1 /\ s[1] = x /\ \A i \in 1..n : s[i + 1] = t[i]
  BY <1>1, <1>2, <1>3
<1>5. OwnRecords(<<>>, r) = <<>>
  BY DEF OwnRecords, FlattenSeq
<1>a. OwnRecord(x, r) \in Seq(Recs)
  BY OpsKnown
<1> DEFINE Good(k) == OwnRecords(SubSeq(s, 1, k + 1), r) = OwnRecord(x, r) \o OwnRecords(SubSeq(t, 1, k), r)
           B == {k \in 0..n : ~Good(k)}
<1>6. Good(0)
  <2>1. 0 \in 0..Len(s) /\ 0 # Len(s) /\ 0 + 1 = 1
    BY <1>3, <1>4
  <2>2. SubSeq(s, 1, 0 + 1) = Append(SubSeq(s, 1, 0), s[0 + 1])
    BY <2>1, SubSeqGrows
  <2>3. SubSeq(s, 1, 0) = <<>> /\ SubSeq(t, 1, 0) = <<>>
    BY SubSeqEmpty
  <2>4. OwnRecords(Append(<<>>, x), r) = OwnRecords(<<>>, r) \o OwnRecord(x, r)
    <3>1. PICK e \in Seq(LogOps) : e = <<>>
      <4>1. <<>> \in Seq(LogOps)
        OBVIOUS
      <4>2. QED BY <4>1, Zenon
    <3>2. OwnRecords(Append(e, x), r) = OwnRecords(e, r) \o OwnRecord(x, r)
      BY OwnAppend
    <3>3. QED BY <3>1, <3>2
  <2>5. <<>> \o OwnRecord(x, r) = OwnRecord(x, r) /\ OwnRecord(x, r) \o <<>> = OwnRecord(x, r)
    BY <1>a, ConcatEmptySeq
  <2>6. SubSeq(s, 1, 0 + 1) = Append(<<>>, x)
    BY <1>4, <2>1, <2>2, <2>3
  <2>7. QED BY <1>5, <2>3, <2>4, <2>5, <2>6
<1>7. ASSUME NEW k \in 0..n, k # n, Good(k) PROVE Good(k + 1)
  <2>1. /\ k \in 0..Len(t) /\ k # Len(t) /\ k + 1 \in 0..Len(s) /\ k + 1 # Len(s)
        /\ s[(k + 1) + 1] = t[k + 1] /\ k + 1 \in 1..Len(t)
    BY <1>3, <1>4, <1>7
  <2>2. PICK y \in LogOps : y = t[k + 1]
    BY <2>1
  <2>3. PICK a \in Seq(LogOps) : a = SubSeq(t, 1, k) /\ SubSeq(t, 1, k + 1) = Append(a, y)
    BY <2>1, <2>2, SubSeqGrows
  <2>4. PICK b \in Seq(LogOps) : b = SubSeq(s, 1, k + 1) /\ SubSeq(s, 1, (k + 1) + 1) = Append(b, y)
    BY <2>1, <2>2, SubSeqGrows
  <2>5. /\ OwnRecords(Append(a, y), r) = OwnRecords(a, r) \o OwnRecord(y, r)
        /\ OwnRecords(Append(b, y), r) = OwnRecords(b, r) \o OwnRecord(y, r)
        /\ OwnRecords(a, r) \in Seq(Recs) /\ OwnRecord(y, r) \in Seq(Recs)
    BY OwnAppend, OpsKnown
  <2>6. OwnRecords(b, r) = OwnRecord(x, r) \o OwnRecords(a, r)
    BY <1>7, <2>3, <2>4
  <2>7. (OwnRecord(x, r) \o OwnRecords(a, r)) \o OwnRecord(y, r)
         = OwnRecord(x, r) \o (OwnRecords(a, r) \o OwnRecord(y, r))
    <3>1. PICK v \in Seq(Recs) : v = OwnRecord(x, r)
      BY <1>a, Zenon
    <3>2. PICK w \in Seq(Recs) : w = OwnRecord(y, r)
      BY <2>5, Zenon
    <3>3. PICK z \in Seq(Recs) : z = OwnRecords(a, r)
      BY <2>5, Zenon
    <3>4. (v \o z) \o w = v \o (z \o w)
      BY ConcatAssociative
    <3>5. QED BY <3>1, <3>2, <3>3, <3>4
  <2>8. QED BY <2>3, <2>4, <2>5, <2>6, <2>7
<1>8. B = {}
  <2> HIDE DEF Good
  <2> SUFFICES ASSUME B # {} PROVE FALSE
    OBVIOUS
  <2>1. B \in SUBSET Nat
    <3>1. B \subseteq 0..n /\ 0..n \subseteq Nat
      OBVIOUS
    <3> HIDE DEF B
    <3>2. QED BY <3>1
  <2>2. PICK k \in B : \A m \in B : ~(m < k)
    <3> HIDE DEF B
    <3>1. QED BY <2>1, LeastNatural
  <2>3. k \in 0..n /\ ~Good(k) /\ k # 0
    BY <1>6
  <2>4. k - 1 \in 0..n /\ k - 1 < k /\ k - 1 # n /\ (k - 1) + 1 = k
    BY <2>3
  <2>5. Good(k - 1)
    BY <2>2, <2>4
  <2>6. Good((k - 1) + 1)
    BY <1>7, <2>4, <2>5
  <2>7. QED BY <2>3, <2>4, <2>6
<1>9. Good(n)
  <2> HIDE DEF Good
  <2>1. n \in 0..n
    OBVIOUS
  <2>2. QED BY <1>8, <2>1
<1>10. SubSeq(s, 1, n + 1) = s /\ SubSeq(t, 1, n) = t
  BY <1>3, <1>4, SubSeqFull
<1>11. OwnRecords(t, r) \in Seq(Recs)
  BY <1>1, OwnAppend
<1>12. QED BY <1>1, <1>2, <1>9, <1>10, <1>11

-----------------------------------------------------------------------------
\* What a submission does to the queue.
LEMMA Submitted ==
  ASSUME LogState, NEW x \in LogOps, x.op # "stop", Submit(x)
  PROVE  /\ opQueue' \in Seq(LogOps) /\ Len(opQueue') <= QueueMax
         /\ \/ Room /\ opQueue' = Append(opQueue, x) /\ lostOps' = lostOps
            \/ /\ ~Room /\ opQueue' = opQueue
               /\ lostOps' = lostOps \cup ({<<x.op, x.run>>} \ {<<"write", x.run>>})
<1>1. opQueue \in Seq(LogOps) /\ Len(opQueue) <= QueueMax /\ QueueMax \in Nat
  BY LogAssumption DEF LogState, LogTypeOK
<1>2. CASE Room
  <2>1. opQueue' = Append(opQueue, x) /\ lostOps' = lostOps
    BY <1>2 DEF Submit
  <2>2. Append(opQueue, x) \in Seq(LogOps) /\ Len(Append(opQueue, x)) = Len(opQueue) + 1
    BY <1>1
  <2>3. Len(opQueue) < QueueMax
    BY <1>2 DEF Room
  <2>4. QED BY <1>1, <1>2, <2>1, <2>2, <2>3
<1>3. CASE ~Room
  BY <1>1, <1>3 DEF Submit, Lose
<1>4. QED BY <1>2, <1>3

\* How many blocks are active.
LEMMA ActiveCounted ==
  ASSUME LogState
  PROVE  /\ Cardinality(ActiveRuns) \in 0..Cardinality(LogRuns)
         /\ Cardinality(LogRuns) \in Nat
         /\ Cardinality(ActiveRuns') \in 0..Cardinality(LogRuns)
         /\ \A r \in LogRuns :
              /\ r \notin ActiveRuns => Cardinality(ActiveRuns \cup {r}) = Cardinality(ActiveRuns) + 1
              /\ r \in ActiveRuns => Cardinality(ActiveRuns \ {r}) = Cardinality(ActiveRuns) - 1
<1>1. IsFiniteSet(LogRuns) /\ ActiveRuns \in SUBSET LogRuns
  BY LogAssumption DEF ActiveRuns
<1>2. /\ IsFiniteSet(ActiveRuns) /\ Cardinality(ActiveRuns) <= Cardinality(LogRuns)
      /\ Cardinality(LogRuns) \in Nat
  BY <1>1, FS_Subset, FS_CardinalityType
<1>3. Cardinality(ActiveRuns) \in Nat
  BY <1>2, FS_CardinalityType
<1>4. \A r \in LogRuns :
        /\ r \notin ActiveRuns => Cardinality(ActiveRuns \cup {r}) = Cardinality(ActiveRuns) + 1
        /\ r \in ActiveRuns => Cardinality(ActiveRuns \ {r}) = Cardinality(ActiveRuns) - 1
  BY <1>2, FS_AddElement, FS_RemoveElement
<1>5. Cardinality(ActiveRuns') \in 0..Cardinality(LogRuns)
  <2>1. ActiveRuns' \in SUBSET LogRuns
    BY DEF ActiveRuns
  <2>2. IsFiniteSet(ActiveRuns') /\ Cardinality(ActiveRuns') <= Cardinality(LogRuns)
    BY <1>1, <2>1, FS_Subset
  <2>3. Cardinality(ActiveRuns') \in Nat
    BY <2>2, FS_CardinalityType
  <2>4. QED BY <1>2, <2>2, <2>3
<1>6. QED BY <1>2, <1>3, <1>4, <1>5

\* The windows count the blocks, and the root logger follows them.
LEMMA RootKept ==
  ASSUME LogState, RootBorrowed, [LogNext \/ LogsOver]_logvars
  PROVE  RootBorrowed'
<1>1. /\ Cardinality(ActiveRuns) \in Nat /\ Cardinality(ActiveRuns') \in Nat
      /\ {savedLevel, appliedLevel} \subseteq 0..3 /\ {rootLevel, hostLevel} \subseteq 1..3
      /\ {overlooked, unpaired, rootMounted} \subseteq BOOLEAN
  BY ActiveCounted, LogAssumption DEF LogState, LogTypeOK, Levels, NoLevel
<1>2. /\ windows \in Nat /\ windows <= Cardinality(ActiveRuns) /\ (rootMounted <=> windows > 0)
      /\ (savedLevel # NoLevel <=> windows > 0)
      /\ (~overlooked => IF windows > 0 /\ rootLevel = appliedLevel THEN savedLevel = hostLevel
                                                                    ELSE rootLevel = hostLevel)
      /\ (~unpaired => windows = Cardinality(ActiveRuns))
  BY DEF RootBorrowed
<1>3. logRun \in [LogRuns -> {"idle", "active", "inherited", "over"}]
  BY DEF LogState, LogTypeOK
<1>4. ASSUME NEW r \in LogRuns, EnterRun(r) PROVE RootBorrowed'
  <2>1. /\ logRun[r] = "idle" /\ logRun' = [logRun EXCEPT ![r] = "active"]
        /\ windows' = windows + 1 /\ BorrowRoot /\ unpaired' = unpaired /\ hostLevel' = hostLevel
    BY <1>4 DEF EnterRun, OpenRoute
  <2>2. ActiveRuns' = ActiveRuns \cup {r} /\ r \notin ActiveRuns
    BY <1>3, <2>1 DEF ActiveRuns
  <2>3. Cardinality(ActiveRuns') = Cardinality(ActiveRuns) + 1
    BY <2>2, ActiveCounted
  <2>4. /\ rootMounted' = TRUE
        /\ savedLevel' = IF savedLevel = NoLevel THEN rootLevel ELSE savedLevel
        /\ rootLevel' = appliedLevel'
        /\ overlooked' = (overlooked \/ (savedLevel # NoLevel /\ rootLevel # appliedLevel))
    BY <2>1 DEF BorrowRoot
  <2>5. savedLevel' # NoLevel
    BY <1>1, <2>4 DEF NoLevel
  <2>6. ~overlooked' => savedLevel' = hostLevel'
    BY <1>1, <1>2, <2>1, <2>4
  <2>7. QED BY <1>1, <1>2, <2>1, <2>3, <2>4, <2>5, <2>6 DEF RootBorrowed
<1>5. ASSUME NEW r \in LogRuns, ExitRun(r) PROVE RootBorrowed'
  <2>1. /\ logRun[r] \in {"active", "inherited"} /\ logRun' = [logRun EXCEPT ![r] = "over"]
        /\ windows' = (IF windows = 0 THEN 0 ELSE windows - 1)
        /\ unpaired' = (unpaired \/ logRun[r] = "inherited") /\ hostLevel' = hostLevel
    BY <1>5 DEF ExitRun, CloseRoute
  <2>2. ActiveRuns' = ActiveRuns \ {r} /\ (r \in ActiveRuns <=> logRun[r] = "active")
    BY <1>3, <2>1 DEF ActiveRuns
  <2>3. Cardinality(ActiveRuns') = IF logRun[r] = "active" THEN Cardinality(ActiveRuns) - 1
                                   ELSE Cardinality(ActiveRuns)
    <3>1. CASE r \in ActiveRuns
      BY <2>2, <3>1, ActiveCounted
    <3>2. CASE r \notin ActiveRuns
      <4>1. ActiveRuns \ {r} = ActiveRuns
        BY <3>2
      <4>2. QED BY <2>2, <3>2, <4>1
    <3>3. QED BY <3>1, <3>2
  <2>4. windows' \in Nat /\ windows' <= Cardinality(ActiveRuns') /\ (~unpaired' => windows' = Cardinality(ActiveRuns'))
    <3>1. logRun[r] = "active" => Cardinality(ActiveRuns) # 0
      BY <1>1, <2>3
    <3>2. CASE windows = 0
      BY <1>1, <1>2, <2>1, <2>3, <3>1, <3>2
    <3>3. CASE windows # 0
      BY <1>1, <1>2, <2>1, <2>3, <3>1, <3>3
    <3>4. QED BY <3>2, <3>3
  <2>5. CASE windows' = 0
    <3>1. /\ rootMounted' = FALSE /\ savedLevel' = NoLevel /\ overlooked' = overlooked
          /\ rootLevel' = IF savedLevel # NoLevel /\ rootLevel = appliedLevel THEN savedLevel ELSE rootLevel
      BY <1>5, <2>5 DEF ExitRun, CloseRoute, ReleaseRoot
    <3>2. QED BY <1>1, <1>2, <2>1, <2>4, <2>5, <3>1 DEF RootBorrowed
  <2>6. CASE windows' # 0
    <3>1. UNCHANGED <<savedLevel, appliedLevel, rootLevel, rootMounted, overlooked>>
      BY <1>5, <2>6 DEF ExitRun, CloseRoute
    <3>2. windows > 0
      BY <1>1, <1>2, <2>1, <2>6
    <3>3. QED BY <1>1, <1>2, <2>1, <2>4, <2>6, <3>1, <3>2 DEF RootBorrowed
  <2>7. QED BY <2>5, <2>6
<1>6. ASSUME NEW l \in Levels, HostSetsLevel(l) PROVE RootBorrowed'
  <2>1. /\ UNCHANGED <<windows, savedLevel, appliedLevel, rootMounted, logRun, unpaired>>
        /\ rootLevel' = l /\ hostLevel' = l
        /\ overlooked' = (savedLevel # NoLevel /\ (overlooked \/ l = appliedLevel))
    BY <1>6 DEF HostSetsLevel, runvars
  <2>2. ActiveRuns' = ActiveRuns
    BY <2>1 DEF ActiveRuns
  <2>3. QED BY <1>1, <1>2, <2>1, <2>2 DEF RootBorrowed
<1>7. CASE ForkProcess
  <2>1. /\ logRun' = [r \in LogRuns |-> IF logRun[r] = "active" THEN "inherited" ELSE logRun[r]]
        /\ windows' = 0 /\ rootMounted' = FALSE /\ savedLevel' = NoLevel
        /\ rootLevel' = (IF savedLevel # NoLevel /\ rootLevel = appliedLevel THEN savedLevel ELSE rootLevel)
        /\ UNCHANGED <<overlooked, unpaired, hostLevel>>
    BY <1>7 DEF ForkProcess, ReleaseRoot
  <2>2. ActiveRuns' = {}
    BY <1>3, <2>1 DEF ActiveRuns
  <2>3. Cardinality(ActiveRuns') = 0
    BY <2>2, FS_EmptySet
  <2>4. ~overlooked' => rootLevel' = hostLevel'
    BY <1>1, <1>2, <2>1
  <2>5. QED BY <1>1, <2>1, <2>3, <2>4 DEF RootBorrowed
<1>8. CASE UNCHANGED <<rootvars, logRun, unpaired, hostLevel>>
  <2>1. ActiveRuns' = ActiveRuns
    BY <1>8 DEF ActiveRuns
  <2>2. QED BY <1>2, <1>8, <2>1 DEF rootvars, RootBorrowed
<1>9. ASSUME NEW r \in LogRuns, EmitRoutes(r) \/ EmitSubmits(r)
      PROVE  UNCHANGED <<rootvars, logRun, unpaired, hostLevel>>
  BY <1>9 DEF EmitRoutes, EmitSubmits
<1>10. ASSUME ExitProcess \/ WriterApplies \/ Flush \/ StopWriter \/ LogsOver \/ UNCHANGED logvars
       PROVE  UNCHANGED <<rootvars, logRun, unpaired, hostLevel>>
  BY <1>10 DEF ExitProcess, WriterApplies, Flush, StopWriter, LogsOver, logvars, runvars
<1>11. QED BY <1>4, <1>5, <1>6, <1>7, <1>8, <1>9, <1>10 DEF LogNext

\* Blocks that overlap keep apart.
LEMMA RoutesKept ==
  ASSUME LogState, RoutesKnown, [LogNext \/ LogsOver]_logvars
  PROVE  RoutesKnown'
<1>1. /\ logRun \in [LogRuns -> {"idle", "active", "inherited", "over"}]
      /\ emitting \in [LogRuns -> 0..recordsMade]
  BY DEF LogState, LogTypeOK
<1>2. ASSUME NEW r \in LogRuns, EnterRun(r) PROVE RoutesKnown'
  <2>1. /\ logRun[r] = "idle" /\ logRun' = [logRun EXCEPT ![r] = "active"]
        /\ \A s \in LogRuns : logRun[s] \in {"active", "inherited"} => logId[s] # logId[r]
        /\ UNCHANGED <<emitting, logId>> /\ routed' = routed \cup {logId[r]}
    BY <1>2 DEF EnterRun, OpenRoute
  <2>2. QED BY <1>1, <2>1 DEF RoutesKnown
<1>3. ASSUME NEW r \in LogRuns, ExitRun(r) PROVE RoutesKnown'
  <2>1. /\ logRun' = [logRun EXCEPT ![r] = "over"]
        /\ UNCHANGED <<emitting, logId>> /\ routed' = routed \ {logId[r]}
    BY <1>3 DEF ExitRun, CloseRoute
  <2>2. QED BY <1>1, <2>1 DEF RoutesKnown
<1>4. ASSUME NEW r \in LogRuns, EmitRoutes(r) PROVE RoutesKnown'
  <2>1. /\ logRun[r] # "idle" /\ logId[r] \in routed /\ emitting' = [emitting EXCEPT ![r] = recordsMade']
        /\ UNCHANGED <<logRun, logId, routed>>
    BY <1>4 DEF EmitRoutes
  <2>2. QED BY <1>1, <2>1 DEF RoutesKnown
<1>5. ASSUME NEW r \in LogRuns, EmitSubmits(r) PROVE RoutesKnown'
  <2>1. emitting' = [emitting EXCEPT ![r] = NoRecord] /\ UNCHANGED <<logRun, logId, routed>>
    BY <1>5 DEF EmitSubmits
  <2>2. QED BY <1>1, <2>1 DEF RoutesKnown
<1>6. CASE ForkProcess
  <2>1. /\ logRun' = [r \in LogRuns |-> IF logRun[r] = "active" THEN "inherited" ELSE logRun[r]]
        /\ routed' = {} /\ emitting' = [r \in LogRuns |-> NoRecord] /\ logId' = logId
    BY <1>6 DEF ForkProcess
  <2>2. QED BY <1>1, <2>1 DEF RoutesKnown
<1>7. CASE UNCHANGED <<logRun, logId, routed, emitting>>
  BY <1>7 DEF RoutesKnown
<1>8. ASSUME NEW l \in Levels, HostSetsLevel(l) PROVE UNCHANGED <<logRun, logId, routed, emitting>>
  BY <1>8 DEF HostSetsLevel, runvars
<1>9. ASSUME ExitProcess \/ WriterApplies \/ Flush \/ StopWriter \/ LogsOver \/ UNCHANGED logvars
      PROVE  UNCHANGED <<logRun, logId, routed, emitting>>
  BY <1>9 DEF ExitProcess, WriterApplies, Flush, StopWriter, LogsOver, logvars, runvars
<1>10. QED BY <1>2, <1>3, <1>4, <1>5, <1>6, <1>7, <1>8, <1>9 DEF LogNext

\* Every step keeps the types.
LEMMA LogStateKept ==
  ASSUME LogState, RootBorrowed, [LogNext \/ LogsOver]_logvars
  PROVE  LogState'
<1>0. RootBorrowed'
  BY RootKept
<1>1. windows' \in 0..Cardinality(LogRuns)
  BY <1>0, ActiveCounted DEF RootBorrowed
<1>2. /\ logRun \in [LogRuns -> {"idle", "active", "inherited", "over"}]
      /\ recordsMade \in 0..MaxRecords /\ MaxRecords \in Nat /\ emitting \in [LogRuns -> 0..recordsMade]
      /\ routed \subseteq LogIds /\ {savedLevel, appliedLevel} \subseteq 0..3
      /\ {rootLevel, hostLevel} \subseteq 1..3 /\ mishaps \in 0..LogTroubles /\ LogTroubles \in Nat
      /\ {rootMounted, overlooked, unpaired} \subseteq BOOLEAN
      /\ Len(opQueue) <= QueueMax /\ QueueMax \in Nat \ {0} /\ MountLevel \in 1..3
      /\ openFiles \in [LogIds -> LogRuns \cup {NoFile}] /\ dirtyFiles \subseteq LogRuns
      /\ writer \in {"running", "draining", "stopped", "dead"}
      /\ logId \in [LogRuns -> LogIds] /\ accepted \in [LogRuns -> Seq(Recs)]
      /\ opQueue \in Seq(LogOps) /\ content \in [LogRuns -> Seq(LogOps)]
      /\ \A r \in LogRuns : \A k \in 1..Len(content[r]) : content[r][k].op = "write"
  BY LogAssumption DEF LogState, LogTypeOK, Levels, NoLevel
<1> DEFINE
  RunTypes == /\ logRun' \in [LogRuns -> {"idle", "active", "inherited", "over"}]
          /\ recordsMade' \in 0..MaxRecords /\ emitting' \in [LogRuns -> 0..recordsMade']
          /\ routed' \subseteq LogIds /\ unpaired' \in BOOLEAN
          /\ logId' \in [LogRuns -> LogIds] /\ accepted' \in [LogRuns -> Seq(Recs)]
  RootTypes == /\ {savedLevel', appliedLevel'} \subseteq 0..3 /\ {rootLevel', hostLevel'} \subseteq 1..3
          /\ {rootMounted', overlooked'} \subseteq BOOLEAN
          /\ mishaps' \in 0..LogTroubles
  FileTypes == /\ openFiles' \in [LogIds -> LogRuns \cup {NoFile}] /\ dirtyFiles' \subseteq LogRuns
           /\ writer' \in {"running", "draining", "stopped", "dead"}
           /\ content' \in [LogRuns -> Seq(LogOps)]
           /\ \A r \in LogRuns : \A k \in 1..Len(content'[r]) : content'[r][k].op = "write"
  QueueTypes == opQueue' \in Seq(LogOps) /\ Len(opQueue') <= QueueMax
<1>3. RunTypes /\ RootTypes /\ FileTypes /\ QueueTypes => LogState'
  BY <1>1 DEF LogState, LogTypeOK, Levels, NoLevel
<1>4. UNCHANGED <<runvars, logId>> => RunTypes
  BY <1>2 DEF runvars
<1>5. UNCHANGED <<rootvars, hostLevel, mishaps>> => RootTypes
  BY <1>2 DEF rootvars
<1>6. UNCHANGED filevars => FileTypes
  BY <1>2 DEF filevars
<1>7. UNCHANGED opQueue => QueueTypes
  BY <1>2
<1>8. Mishap => mishaps' \in 0..LogTroubles
  BY <1>2 DEF Mishap
<1>9. ASSUME NEW what \in {"write", "open", "close"}, NEW r \in LogRuns, Submit(Operation(what, r)) PROVE QueueTypes
  BY <1>9, OperationKnown, Submitted
<1>10. ASSUME NEW r \in LogRuns, EnterRun(r) PROVE RunTypes /\ RootTypes /\ FileTypes /\ QueueTypes
  <2>1. UNCHANGED <<filevars, recordsMade, emitting, accepted, unpaired, logId, hostLevel, mishaps>>
    BY <1>10 DEF EnterRun
  <2>2. logRun' = [logRun EXCEPT ![r] = "active"] /\ routed' = routed \cup {logId[r]}
    BY <1>10 DEF EnterRun, OpenRoute
  <2>3. RunTypes
    BY <1>2, <2>1, <2>2
  <2>4. RootTypes
    <3>1. BorrowRoot
      BY <1>10 DEF EnterRun, OpenRoute
    <3>2. rootMounted' \in BOOLEAN /\ overlooked' \in BOOLEAN
      BY <1>2, <3>1 DEF BorrowRoot
    <3>3. {savedLevel', appliedLevel'} \subseteq 0..3 /\ rootLevel' \in 1..3
      BY <1>2, <3>1 DEF BorrowRoot
    <3>4. QED BY <1>2, <2>1, <3>2, <3>3
  <2>5. QueueTypes
    BY <1>9, <1>10 DEF EnterRun, OpenRoute
  <2>6. QED BY <1>6, <2>1, <2>3, <2>4, <2>5
<1>11. ReleaseRoot => rootMounted' \in BOOLEAN /\ overlooked' \in BOOLEAN
                      /\ {savedLevel', appliedLevel'} \subseteq 0..3 /\ rootLevel' \in 1..3
  <2> SUFFICES ASSUME ReleaseRoot
               PROVE  rootMounted' \in BOOLEAN /\ overlooked' \in BOOLEAN
                      /\ {savedLevel', appliedLevel'} \subseteq 0..3 /\ rootLevel' \in 1..3
    OBVIOUS
  <2>1. rootMounted' \in BOOLEAN /\ overlooked' \in BOOLEAN
    BY <1>2 DEF ReleaseRoot
  <2>4. {savedLevel', appliedLevel'} \subseteq 0..3
    BY <1>2 DEF ReleaseRoot, NoLevel
  <2>2. rootLevel' \in 1..3
    BY <1>2 DEF ReleaseRoot, NoLevel
  <2>3. QED BY <2>1, <2>2, <2>4
<1>12. ASSUME NEW r \in LogRuns, ExitRun(r) PROVE RunTypes /\ RootTypes /\ FileTypes /\ QueueTypes
  <2>1. UNCHANGED <<filevars, recordsMade, emitting, accepted, logId, hostLevel, mishaps>>
    BY <1>12 DEF ExitRun
  <2>2. logRun' = [logRun EXCEPT ![r] = "over"] /\ routed' = routed \ {logId[r]} /\ unpaired' \in BOOLEAN
    BY <1>2, <1>12 DEF ExitRun, CloseRoute
  <2>3. RunTypes
    BY <1>2, <2>1, <2>2
  <2>4. RootTypes
    <3>1. ReleaseRoot \/ UNCHANGED <<savedLevel, appliedLevel, rootLevel, rootMounted, overlooked>>
      BY <1>12 DEF ExitRun, CloseRoute
    <3>2. QED BY <1>2, <1>11, <2>1, <3>1
  <2>5. QueueTypes
    BY <1>9, <1>12 DEF ExitRun, CloseRoute
  <2>6. QED BY <1>6, <2>1, <2>3, <2>4, <2>5
<1>13. ASSUME NEW r \in LogRuns, EmitRoutes(r) PROVE RunTypes /\ RootTypes /\ FileTypes /\ QueueTypes
  <2>1. /\ recordsMade' = recordsMade + 1 /\ recordsMade < MaxRecords
        /\ emitting' = [emitting EXCEPT ![r] = recordsMade']
        /\ UNCHANGED <<rootvars, filevars, logRun, routed, accepted, unpaired, logId, opQueue, hostLevel, mishaps>>
    BY <1>13 DEF EmitRoutes
  <2>2. recordsMade' \in 0..MaxRecords /\ emitting' \in [LogRuns -> 0..recordsMade']
    BY <1>2, <2>1
  <2>3. QED BY <1>2, <1>5, <1>6, <1>7, <2>1, <2>2
<1>14. ASSUME NEW r \in LogRuns, EmitSubmits(r) PROVE RunTypes /\ RootTypes /\ FileTypes /\ QueueTypes
  <2>1. /\ emitting' = [emitting EXCEPT ![r] = NoRecord]
        /\ UNCHANGED <<rootvars, filevars, logRun, recordsMade, routed, unpaired, logId, hostLevel, mishaps>>
        /\ accepted' = IF Room /\ logRun[r] = "active"
                       THEN [accepted EXCEPT ![r] = Append(@, emitting[r])] ELSE accepted
    BY <1>14 DEF EmitSubmits
  <2>2. emitting' \in [LogRuns -> 0..recordsMade']
    BY <1>2, <2>1 DEF NoRecord
  <2>3. accepted' \in [LogRuns -> Seq(Recs)]
    <3>1. Append(accepted[r], emitting[r]) \in Seq(Recs)
      <4>1. emitting[r] \in Recs /\ accepted[r] \in Seq(Recs)
        BY <1>2 DEF Recs
      <4>2. QED BY <4>1
    <3>2. QED BY <1>2, <2>1, <3>1
  <2>4. QueueTypes
    BY <1>9, <1>14 DEF EmitSubmits
  <2>5. QED BY <1>2, <1>5, <1>6, <2>1, <2>2, <2>3, <2>4
<1>15. ASSUME NEW l \in Levels, HostSetsLevel(l) PROVE RunTypes /\ RootTypes /\ FileTypes /\ QueueTypes
  <2>1. /\ UNCHANGED <<runvars, logId, filevars, opQueue, savedLevel, appliedLevel, rootMounted>>
        /\ rootLevel' = l /\ hostLevel' = l /\ l \in 1..3
        /\ overlooked' = (savedLevel # NoLevel /\ (overlooked \/ l = appliedLevel))
    BY <1>15 DEF HostSetsLevel, Levels
  <2>2. mishaps' \in 0..LogTroubles
    BY <1>8, <1>15 DEF HostSetsLevel
  <2>3. QED BY <1>2, <1>4, <1>6, <1>7, <2>1, <2>2
<1>16. ASSUME ExitProcess PROVE RunTypes /\ RootTypes /\ FileTypes /\ QueueTypes
  <2>1. /\ Room /\ opQueue' = Append(opQueue, [op |-> "stop"])
        /\ UNCHANGED <<rootvars, filevars, runvars, logId, hostLevel, mishaps>>
    BY <1>16 DEF ExitProcess
  <2>2. QueueTypes
    <3>1. [op |-> "stop"] \in LogOps
      BY OpsKnown
    <3>2. PICK x \in LogOps : x = [op |-> "stop"]
      BY <3>1
    <3>3. opQueue' = Append(opQueue, x) /\ Len(opQueue) < QueueMax
      BY <2>1, <3>2 DEF Room
    <3>4. QED BY <1>2, <3>3
  <2>3. QED BY <1>4, <1>5, <1>6, <2>1, <2>2
<1>17. ASSUME ForkProcess PROVE RunTypes /\ RootTypes /\ FileTypes /\ QueueTypes
  <2>1. /\ logRun' = [r \in LogRuns |-> IF logRun[r] = "active" THEN "inherited" ELSE logRun[r]]
        /\ emitting' = [r \in LogRuns |-> NoRecord] /\ routed' = {} /\ opQueue' = <<>>
        /\ openFiles' = [i \in LogIds |-> NoFile] /\ dirtyFiles' = {}
        /\ content' = [r \in LogRuns |-> << >>] /\ accepted' = [r \in LogRuns |-> << >>]
        /\ UNCHANGED <<recordsMade, unpaired, writer, logId, hostLevel>> /\ ReleaseRoot /\ Mishap
    BY <1>17 DEF ForkProcess
  <2>2. <<>> \in Seq(Recs) /\ <<>> \in Seq(LogOps) /\ Len(<<>>) = 0
    OBVIOUS
  <2>3. RunTypes
    BY <1>2, <2>1, <2>2 DEF NoRecord
  <2>4. FileTypes
    BY <1>2, <2>1, <2>2
  <2>5. QED BY <1>2, <1>8, <1>11, <2>1, <2>2, <2>3, <2>4
<1>18. ASSUME WriterApplies PROVE RunTypes /\ RootTypes /\ FileTypes /\ QueueTypes
  <2>1. PICK x \in LogOps : x = Head(opQueue) /\ opQueue # <<>>
    <3>1. opQueue # <<>>
      BY <1>18 DEF WriterApplies
    <3>2. Head(opQueue) \in LogOps
      BY <1>2, <3>1
    <3>3. QED BY <3>1, <3>2, Zenon
  <2>2. UNCHANGED <<rootvars, runvars, logId, hostLevel>> /\ opQueue' = Tail(opQueue)
    BY <1>18 DEF WriterApplies
  <2>3. QueueTypes
    BY <1>2, <2>1, <2>2
  <2>4. \/ x.op = "write" /\ WriteRecord(x)
        \/ x.op = "open" /\ OpenFile(x)
        \/ x.op = "close" /\ CloseFile(x)
        \/ x.op = "stop" /\ writer' = "draining" /\ UNCHANGED <<openFiles, dirtyFiles, content, lostOps, mishaps>>
    BY <1>18, <2>1 DEF WriterApplies
  <2>5. CASE x.op = "write" /\ WriteRecord(x)
    <3>1. UNCHANGED <<openFiles, writer, mishaps>>
      BY <2>5 DEF WriteRecord
    <3> DEFINE f == openFiles[logId[x.run]]
    <3>2. f \in LogRuns \cup {NoFile}
      BY <1>2, <2>5, OpsKnown
    <3>3. \/ f = NoFile /\ UNCHANGED <<content, dirtyFiles>>
          \/ /\ f # NoFile /\ content' = [content EXCEPT ![f] = Append(content[f], x)]
             /\ dirtyFiles' = dirtyFiles \cup {f}
      BY <2>5 DEF WriteRecord
    <3> HIDE DEF f
    <3>4. FileTypes
      <4>1. CASE f = NoFile
        BY <1>2, <3>1, <3>3, <4>1
      <4>2. CASE f # NoFile
        <5>1. f \in LogRuns /\ content[f] \in Seq(LogOps)
          BY <1>2, <3>2, <4>2
        <5>2. Append(content[f], x) \in Seq(LogOps)
          BY <5>1
        <5>3. \A k \in 1..Len(Append(content[f], x)) : Append(content[f], x)[k].op = "write"
          BY <1>2, <2>5, <5>1
        <5>4. content' \in [LogRuns -> Seq(LogOps)]
          BY <1>2, <3>3, <4>2, <5>1, <5>2
        <5>5. \A r \in LogRuns : \A k \in 1..Len(content'[r]) : content'[r][k].op = "write"
          <6> SUFFICES ASSUME NEW r \in LogRuns PROVE \A k \in 1..Len(content'[r]) : content'[r][k].op = "write"
            OBVIOUS
          <6>1. CASE r = f
            <7>1. content'[r] = Append(content[f], x)
              BY <1>2, <3>3, <4>2, <6>1
            <7>2. QED BY <5>3, <7>1
          <6>2. CASE r # f
            <7>1. content'[r] = content[r]
              BY <1>2, <3>3, <4>2, <6>2
            <7>2. QED BY <1>2, <7>1
          <6>3. QED BY <6>1, <6>2
        <5>6. QED BY <1>2, <3>1, <3>3, <4>2, <5>1, <5>4, <5>5
      <4>3. QED BY <4>1, <4>2
    <3>5. RootTypes
      BY <1>5, <2>2, <3>1
    <3>6. QED BY <1>4, <2>2, <2>3, <3>4, <3>5
  <2>6. ASSUME NEW f \in LogRuns \cup {NoFile}, x.op # "stop", ReplaceFile(logId[x.run], f),
               UNCHANGED <<writer, content>>
        PROVE  FileTypes
    BY <1>2, <2>6 DEF ReplaceFile
  <2>7. CASE x.op \in {"open", "close"} /\ (OpenFile(x) \/ CloseFile(x))
    <3>1. PICK f \in LogRuns \cup {NoFile} : ReplaceFile(logId[x.run], f)
      BY <2>7, OpsKnown DEF OpenFile, CloseFile
    <3>2. UNCHANGED <<writer, content>> /\ (Mishap \/ mishaps' = mishaps)
      BY <2>7 DEF OpenFile, CloseFile
    <3>3. FileTypes
      BY <2>6, <2>7, <3>1, <3>2
    <3>4. RootTypes
      BY <1>2, <1>8, <2>2, <3>2 DEF rootvars
    <3>5. QED BY <1>4, <2>2, <2>3, <3>3, <3>4
  <2>8. CASE x.op = "stop" /\ writer' = "draining" /\ UNCHANGED <<openFiles, dirtyFiles, content, lostOps, mishaps>>
    BY <1>2, <1>4, <1>5, <2>2, <2>3, <2>8
  <2>9. QED BY <2>4, <2>5, <2>7, <2>8
<1>19. ASSUME Flush \/ StopWriter PROVE RunTypes /\ RootTypes /\ FileTypes /\ QueueTypes
  <2>1. /\ UNCHANGED <<rootvars, runvars, content, logId, opQueue, hostLevel, mishaps>>
        /\ dirtyFiles' = {} /\ writer' \in {"running", "stopped", "dead"}
        /\ openFiles' = openFiles \/ openFiles' = [i \in LogIds |-> NoFile]
    BY <1>19 DEF Flush, StopWriter
  <2>2. FileTypes
    BY <1>2, <2>1
  <2>3. QED BY <1>4, <1>5, <1>7, <2>1, <2>2
<1>20. ASSUME LogsOver \/ UNCHANGED logvars PROVE RunTypes /\ RootTypes /\ FileTypes /\ QueueTypes
  BY <1>4, <1>5, <1>6, <1>7, <1>20 DEF LogsOver, logvars
<1> HIDE DEF RunTypes, RootTypes, FileTypes, QueueTypes
<1>21. QED BY <1>3, <1>10, <1>12, <1>13, <1>14, <1>15, <1>16, <1>17, <1>18, <1>19, <1>20 DEF LogNext

\* A further operation leaves what the earlier ones do, and adds what it does.
LEMMA Lengthened ==
  ASSUME NEW q \in Seq(LogOps), NEW x \in LogOps, NEW ids, NEW files, NEW r \in LogRuns
  PROVE  /\ \A k \in 0..Len(q) : OpenAfter(ids, q, files, r, k) => OpenAfter(ids, Append(q, x), files, r, k)
         /\ OpenAfter(ids, q, files, r, Len(q)) /\ ~Concerns(ids, x, r)
              => OpenAfter(ids, Append(q, x), files, r, Len(q) + 1)
         /\ x.op = "open" /\ x.run = r => OpenAfter(ids, Append(q, x), files, r, Len(q) + 1)
         /\ \A n \in 0..Len(q) : ClosedAfter(q, r, n) => ClosedAfter(Append(q, x), r, n)
         /\ \A n \in 0..Len(q) : x.op = "close" /\ x.run = r => ClosedAfter(Append(q, x), r, n)
<1>1. PICK N \in Nat : N = Len(q)
  OBVIOUS
<1>2. PICK u \in Seq(LogOps) : u = Append(q, x)
  <2>1. Append(q, x) \in Seq(LogOps)
    OBVIOUS
  <2>2. QED BY <2>1, Zenon
<1>3. Len(u) = N + 1 /\ u[N + 1] = x
  BY <1>1, <1>2
<1>4. \A i \in 1..N : u[i] = q[i]
  BY <1>1, <1>2
<1>5. ASSUME NEW k \in 0..N, OpenAfter(ids, q, files, r, k) PROVE OpenAfter(ids, u, files, r, k)
  <2>1. CASE files[ids[r]] = r /\ \A j \in 1..k : ~Concerns(ids, q[j], r)
    <3>1. \A j \in 1..k : u[j] = q[j]
      BY <1>4
    <3>2. QED BY <2>1, <3>1 DEF OpenAfter
  <2>2. ASSUME NEW m \in 1..k, q[m].op = "open", q[m].run = r, \A j \in (m + 1)..k : ~Concerns(ids, q[j], r)
        PROVE  OpenAfter(ids, u, files, r, k)
    <3>1. u[m] = q[m] /\ \A j \in (m + 1)..k : u[j] = q[j]
      BY <1>4
    <3>2. QED BY <2>2, <3>1 DEF OpenAfter
  <2>3. QED BY <1>5, <2>1, <2>2 DEF OpenAfter
<1>6. ASSUME OpenAfter(ids, q, files, r, N), ~Concerns(ids, x, r) PROVE OpenAfter(ids, u, files, r, N + 1)
  <2>1. CASE files[ids[r]] = r /\ \A j \in 1..N : ~Concerns(ids, q[j], r)
    <3>1. \A j \in 1..(N + 1) : ~Concerns(ids, u[j], r)
      BY <1>3, <1>4, <1>6, <2>1
    <3>2. QED BY <2>1, <3>1 DEF OpenAfter
  <2>2. ASSUME NEW m \in 1..N, q[m].op = "open", q[m].run = r, \A j \in (m + 1)..N : ~Concerns(ids, q[j], r)
        PROVE  OpenAfter(ids, u, files, r, N + 1)
    <3>1. u[m] = q[m] /\ m \in 1..(N + 1)
      BY <1>4
    <3>2. \A j \in (m + 1)..(N + 1) : ~Concerns(ids, u[j], r)
      BY <1>3, <1>4, <1>6, <2>2
    <3>3. QED BY <2>2, <3>1, <3>2 DEF OpenAfter
  <2>3. QED BY <1>6, <2>1, <2>2 DEF OpenAfter
<1>7. ASSUME x.op = "open", x.run = r PROVE OpenAfter(ids, u, files, r, N + 1)
  <2>1. N + 1 \in 1..(N + 1) /\ ((N + 1) + 1)..(N + 1) = {}
    OBVIOUS
  <2>2. QED BY <1>3, <1>7, <2>1 DEF OpenAfter
<1>8. ASSUME NEW n \in 0..N, ClosedAfter(q, r, n) PROVE ClosedAfter(u, r, n)
  <2>1. PICK m \in (n + 1)..N : q[m].op = "close" /\ q[m].run = r
    BY <1>1, <1>8 DEF ClosedAfter
  <2>2. u[m] = q[m] /\ m \in (n + 1)..Len(u)
    BY <1>3, <1>4
  <2>3. QED BY <2>1, <2>2 DEF ClosedAfter
<1>9. ASSUME NEW n \in 0..N, x.op = "close", x.run = r PROVE ClosedAfter(u, r, n)
  <2>1. N + 1 \in (n + 1)..Len(u)
    BY <1>3
  <2>2. QED BY <1>3, <1>9, <2>1 DEF ClosedAfter
<1>10. QED BY <1>1, <1>2, <1>5, <1>6, <1>7, <1>8, <1>9

\* What is left to be done once the first operation is.
LEMMA Shortened ==
  ASSUME NEW q \in Seq(LogOps), q # <<>>, NEW ids, NEW f, NEW g, NEW r \in LogRuns,
         ~Concerns(ids, Head(q), r) => g[ids[r]] = f[ids[r]],
         Head(q).op = "open" /\ Head(q).run = r => g[ids[r]] = r
  PROVE  /\ \A k \in 1..Len(q) : OpenAfter(ids, q, f, r, k) => OpenAfter(ids, Tail(q), g, r, k - 1)
         /\ \A n \in 1..Len(q) : ClosedAfter(q, r, n) => ClosedAfter(Tail(q), r, n - 1)
         /\ ClosedAfter(q, r, 0) /\ ~(Head(q).op = "close" /\ Head(q).run = r)
              => ClosedAfter(Tail(q), r, 0)
<1>1. PICK N \in Nat : N = Len(q)
  OBVIOUS
<1>2. PICK t \in Seq(LogOps) : t = Tail(q)
  <2>1. Tail(q) \in Seq(LogOps)
    OBVIOUS
  <2>2. QED BY <2>1, Zenon
<1>3. Len(t) = N - 1 /\ Head(q) = q[1] /\ N # 0
  BY <1>1, <1>2
<1>4. \A i \in 2..N : q[i] = t[i - 1]
  BY <1>1, <1>2
<1>5. ASSUME NEW k \in 1..N, OpenAfter(ids, q, f, r, k) PROVE OpenAfter(ids, t, g, r, k - 1)
  <2>1. CASE f[ids[r]] = r /\ \A j \in 1..k : ~Concerns(ids, q[j], r)
    <3>1. g[ids[r]] = r
      BY <1>3, <2>1
    <3>2. ASSUME NEW j \in 1..k - 1 PROVE ~Concerns(ids, t[j], r)
      <4>1. j + 1 \in 1..k /\ j + 1 \in 2..N /\ (j + 1) - 1 = j
        OBVIOUS
      <4>2. QED BY <1>4, <2>1, <4>1
    <3>3. QED BY <3>1, <3>2 DEF OpenAfter
  <2>2. ASSUME NEW m \in 1..k, q[m].op = "open", q[m].run = r, \A j \in (m + 1)..k : ~Concerns(ids, q[j], r)
        PROVE  OpenAfter(ids, t, g, r, k - 1)
    <3>1. ASSUME NEW j \in m..k - 1 PROVE ~Concerns(ids, t[j], r)
      <4>1. j + 1 \in (m + 1)..k /\ j + 1 \in 2..N /\ (j + 1) - 1 = j
        OBVIOUS
      <4>2. QED BY <1>4, <2>2, <4>1
    <3>2. CASE m = 1
      <4>1. g[ids[r]] = r
        BY <1>3, <2>2, <3>2
      <4>2. QED BY <3>1, <3>2, <4>1 DEF OpenAfter
    <3>3. CASE m # 1
      <4>1. m - 1 \in 1..k - 1 /\ (m - 1) + 1 = m /\ m \in 2..N
        BY <3>3
      <4>2. t[m - 1] = q[m]
        BY <1>4, <4>1
      <4>3. QED BY <2>2, <3>1, <4>1, <4>2 DEF OpenAfter
    <3>4. QED BY <3>2, <3>3
  <2>3. QED BY <1>5, <2>1, <2>2 DEF OpenAfter
<1>6. ASSUME NEW n \in 1..N, ClosedAfter(q, r, n) PROVE ClosedAfter(t, r, n - 1)
  <2>1. PICK m \in (n + 1)..N : q[m].op = "close" /\ q[m].run = r
    BY <1>1, <1>6 DEF ClosedAfter
  <2>2. m - 1 \in ((n - 1) + 1)..Len(t) /\ t[m - 1] = q[m]
    BY <1>3, <1>4
  <2>3. QED BY <2>1, <2>2 DEF ClosedAfter
<1>7. ASSUME ClosedAfter(q, r, 0), ~(q[1].op = "close" /\ q[1].run = r) PROVE ClosedAfter(t, r, 0)
  <2>1. PICK m \in (0 + 1)..N : q[m].op = "close" /\ q[m].run = r
    BY <1>1, <1>7 DEF ClosedAfter
  <2>2. m # 1
    BY <1>7, <2>1
  <2>3. m - 1 \in (0 + 1)..Len(t) /\ t[m - 1] = q[m]
    BY <1>3, <1>4, <2>2
  <2>4. QED BY <2>1, <2>3 DEF ClosedAfter
<1>8. QED BY <1>1, <1>2, <1>3, <1>5, <1>6, <1>7

\* A queue that grows keeps the files in order when its last operation fits
\* what the blocks are.
LEMMA QueueGrows ==
  ASSUME LogState, FilesSound, NEW x \in LogOps, opQueue' = Append(opQueue, x),
         UNCHANGED <<openFiles, dirtyFiles, writer, logId>>, lostOps \subseteq lostOps',
         \A s \in LogRuns : logRun'[s] = "active" =>
           \/ x.op = "open" /\ x.run = s
           \/ logRun[s] = "active" /\ ~Concerns(logId, x, s),
         x.op = "write" /\ ~x.late => logRun[x.run] = "active",
         x.op = "open" => logRun'[x.run] = "active",
         \A s \in LogRuns : logRun[s] = "active" =>
           logRun'[s] = "active" \/ (x.op = "close" /\ x.run = s)
  PROVE  FilesSound'
<1>1. /\ opQueue \in Seq(LogOps) /\ openFiles \in [LogIds -> LogRuns \cup {NoFile}]
      /\ logId \in [LogRuns -> LogIds]
  BY DEF LogState, LogTypeOK
<1>2. PICK N \in Nat : N = Len(opQueue)
  BY <1>1
<1>3. Len(opQueue') = N + 1 /\ opQueue'[N + 1] = x /\ \A k \in 1..N : opQueue'[k] = opQueue[k]
  BY <1>1, <1>2
<1>4. \A k \in 1..N + 1 : k \in 1..N \/ k = N + 1
  BY <1>2
<1>5. \A k \in 1..N : opQueue[k].op # "stop" => opQueue[k].run \in LogRuns
  BY <1>1, <1>2, OpsKnown
<1>6. x.op # "stop" => x.run \in LogRuns
  BY OpsKnown
<1>7. \A w, s : Lost(w, s) => Lost(w, s)'
  BY DEF Lost
<1>8. ASSUME writer' # "stopped" PROVE FilesOpen'
  <2>0. FilesOpen
    BY <1>8 DEF FilesSound
  <2>1. ASSUME NEW s \in LogRuns, logRun'[s] = "active", ~Lost("open", s)'
        PROVE  OpenAfter(logId, opQueue', openFiles, s, N + 1)
    <3>1. CASE x.op = "open" /\ x.run = s
      BY <1>1, <1>2, <3>1, Lengthened
    <3>2. CASE logRun[s] = "active" /\ ~Concerns(logId, x, s)
      <4>1. OpenAfter(logId, opQueue, openFiles, s, N)
        BY <1>2, <1>7, <2>0, <2>1, <3>2 DEF FilesOpen
      <4>2. QED BY <1>1, <1>2, <3>2, <4>1, Lengthened
    <3>3. QED BY <2>1, <3>1, <3>2
  <2>2. ASSUME NEW k \in 1..N + 1, opQueue'[k].op = "write", ~opQueue'[k].late, ~Lost("open", opQueue[k].run)'
        PROVE  OpenAfter(logId, opQueue', openFiles, opQueue'[k].run, k - 1)
    <3>1. CASE k \in 1..N
      <4>1. opQueue'[k] = opQueue[k] /\ opQueue[k].run \in LogRuns /\ k - 1 \in 0..N
        BY <1>3, <1>5, <2>2, <3>1
      <4>2. OpenAfter(logId, opQueue, openFiles, opQueue[k].run, k - 1)
        BY <1>2, <1>7, <2>0, <2>2, <3>1, <4>1 DEF FilesOpen, Lost
      <4>3. QED BY <1>1, <1>2, <4>1, <4>2, Lengthened
    <3>2. CASE k = N + 1
      <4>1. opQueue'[k] = x /\ x.run \in LogRuns /\ k - 1 = N /\ N \in 0..N
        BY <1>3, <1>6, <2>2, <3>2
      <4>2. logRun[x.run] = "active" /\ ~Lost("open", x.run)
        BY <1>7, <2>2, <4>1 DEF Lost
      <4>3. OpenAfter(logId, opQueue, openFiles, x.run, N)
        BY <1>2, <2>0, <4>1, <4>2 DEF FilesOpen
      <4>4. QED BY <1>1, <1>2, <4>1, <4>3, Lengthened
    <3>3. QED BY <1>4, <2>2, <3>1, <3>2
  <2>3. QED BY <1>3, <2>1, <2>2 DEF FilesOpen, Lost
<1>9. ASSUME NEW s \in LogRuns, NEW n \in 0..N, Closing(opQueue, s, n) PROVE Closing(opQueue, s, n)'
  <2>1. CASE logRun[s] = "active"
    <3>1. x.op = "close" /\ x.run = s => ClosedAfter(opQueue', s, n)
      BY <1>1, <1>2, Lengthened
    <3>2. QED BY <2>1, <3>1 DEF Closing
  <2>2. CASE Lost("close", s)
    BY <1>7, <2>2 DEF Closing
  <2>3. CASE ClosedAfter(opQueue, s, n)
    <3>1. ClosedAfter(opQueue', s, n)
      BY <1>1, <1>2, <2>3, Lengthened
    <3>2. QED BY <3>1 DEF Closing
  <2>4. QED BY <1>9, <2>1, <2>2, <2>3 DEF Closing
<1>10. FilesEnd'
  <2>0. FilesEnd
    BY DEF FilesSound
  <2>1. ASSUME NEW i \in LogIds, openFiles'[i] # NoFile
        PROVE  logId'[openFiles'[i]] = i /\ Closing(opQueue, openFiles[i], 0)'
    <3>1. openFiles[i] \in LogRuns /\ logId[openFiles[i]] = i /\ Closing(opQueue, openFiles[i], 0)
      BY <1>1, <2>0, <2>1 DEF FilesEnd
    <3>2. PICK s \in LogRuns : s = openFiles[i] /\ s = openFiles'[i]
      BY <3>1
    <3>3. Closing(opQueue, s, 0)'
      BY <1>9, <3>1, <3>2
    <3>4. QED BY <3>1, <3>2, <3>3 DEF Closing
  <2>2. ASSUME NEW k \in 1..N + 1, opQueue'[k].op = "open"
        PROVE  Closing(opQueue, opQueue[k].run, k)'
    <3>1. CASE k \in 1..N
      <4>1. PICK s \in LogRuns : s = opQueue[k].run /\ s = opQueue'[k].run
        BY <1>3, <1>5, <2>2, <3>1
      <4>2. Closing(opQueue, s, k)
        BY <1>2, <1>3, <2>0, <2>2, <3>1, <4>1 DEF FilesEnd
      <4>3. Closing(opQueue, s, k)'
        BY <1>9, <3>1, <4>2
      <4>4. QED BY <4>1, <4>3 DEF Closing
    <3>2. CASE k = N + 1
      BY <1>3, <2>2, <3>2 DEF Closing
    <3>3. QED BY <1>4, <2>2, <3>1, <3>2
  <2>3. \A f \in dirtyFiles' : openFiles'[logId'[f]] = f
    BY <2>0 DEF FilesEnd
  <2>4. QED BY <1>3, <2>1, <2>2, <2>3 DEF FilesEnd
<1>11. QED BY <1>8, <1>10 DEF FilesSound

\* So does a queue that stays as it is, also when an operation was dropped.
LEMMA QueueStays ==
  ASSUME LogState, FilesSound,
         UNCHANGED <<opQueue, openFiles, dirtyFiles, writer, logId>>, lostOps \subseteq lostOps',
         \A s \in LogRuns : logRun'[s] = "active" => logRun[s] = "active" \/ Lost("open", s)',
         \A s \in LogRuns : logRun[s] = "active" => logRun'[s] = "active" \/ Lost("close", s)'
  PROVE  FilesSound'
<1>1. opQueue \in Seq(LogOps) /\ openFiles \in [LogIds -> LogRuns \cup {NoFile}]
  BY DEF LogState, LogTypeOK
<1>2. \A k \in 1..Len(opQueue) : opQueue[k].op # "stop" => opQueue[k].run \in LogRuns
  BY <1>1, OpsKnown
<1>3. \A w, s : Lost(w, s) => Lost(w, s)'
  BY DEF Lost
<1>4. ASSUME writer' # "stopped" PROVE FilesOpen'
  <2>0. FilesOpen
    BY <1>4 DEF FilesSound
  <2>1. ASSUME NEW s \in LogRuns, logRun'[s] = "active", ~Lost("open", s)'
        PROVE  OpenAfter(logId, opQueue, openFiles, s, Len(opQueue))
    BY <1>3, <2>0, <2>1 DEF FilesOpen
  <2>2. ASSUME NEW k \in 1..Len(opQueue), opQueue[k].op = "write", ~opQueue[k].late, ~Lost("open", opQueue[k].run)'
        PROVE  OpenAfter(logId, opQueue, openFiles, opQueue[k].run, k - 1)
    <3>1. ~Lost("open", opQueue[k].run)
      BY <1>3, <2>2 DEF Lost
    <3>2. QED BY <2>0, <2>2, <3>1 DEF FilesOpen
  <2>3. QED BY <2>1, <2>2 DEF FilesOpen, Lost
<1>5. ASSUME NEW s \in LogRuns, NEW n, Closing(opQueue, s, n) PROVE Closing(opQueue, s, n)'
  BY <1>3, <1>5 DEF Closing
<1>6. FilesEnd'
  <2>0. FilesEnd
    BY DEF FilesSound
  <2>1. ASSUME NEW i \in LogIds, openFiles[i] # NoFile
        PROVE  logId[openFiles[i]] = i /\ Closing(opQueue, openFiles[i], 0)'
    <3>1. openFiles[i] \in LogRuns /\ logId[openFiles[i]] = i /\ Closing(opQueue, openFiles[i], 0)
      BY <1>1, <2>0, <2>1 DEF FilesEnd
    <3>2. PICK s \in LogRuns : s = openFiles[i] /\ s = openFiles'[i]
      BY <3>1
    <3>3. Closing(opQueue, s, 0)'
      BY <1>5, <3>1, <3>2
    <3>4. QED BY <3>1, <3>2, <3>3 DEF Closing
  <2>2. ASSUME NEW k \in 1..Len(opQueue), opQueue[k].op = "open"
        PROVE  Closing(opQueue, opQueue[k].run, k)'
    <3>1. PICK s \in LogRuns : s = opQueue[k].run /\ s = opQueue'[k].run
      BY <1>2, <2>2
    <3>2. Closing(opQueue, s, k)
      BY <2>0, <2>2, <3>1 DEF FilesEnd
    <3>3. Closing(opQueue, s, k)'
      BY <1>5, <3>2
    <3>4. QED BY <3>1, <3>3 DEF Closing
  <2>3. \A f \in dirtyFiles' : openFiles'[logId'[f]] = f
    BY <2>0 DEF FilesEnd
  <2>4. QED BY <2>1, <2>2, <2>3 DEF FilesEnd
<1>7. QED BY <1>4, <1>6 DEF FilesSound

\* The writer takes the first operation; the file of its log_id is what it says,
\* or none when it could not be opened.
LEMMA OperationApplied ==
  ASSUME LogState, FilesSound, opQueue # <<>>, opQueue' = Tail(opQueue),
         writer \in {"running", "draining"}, writer' \in {"running", "draining"},
         UNCHANGED <<logId, logRun>>, lostOps \subseteq lostOps',
         NEW x, x = Head(opQueue),
         \/ /\ x.op \notin {"open", "close"} /\ openFiles' = openFiles
            /\ \A f \in dirtyFiles' \ dirtyFiles : f = openFiles[logId[x.run]] /\ f # NoFile /\ x.op = "write"
         \/ x.op = "close" /\ ReplaceFile(logId[x.run], NoFile)
         \/ x.op = "open" /\ ReplaceFile(logId[x.run], x.run)
         \/ x.op = "open" /\ ReplaceFile(logId[x.run], NoFile) /\ Lost("open", x.run)'
  PROVE  FilesSound'
<1>1. /\ opQueue \in Seq(LogOps) /\ openFiles \in [LogIds -> LogRuns \cup {NoFile}]
      /\ logId \in [LogRuns -> LogIds] /\ NoFile \notin LogRuns /\ dirtyFiles \subseteq LogRuns
  BY LogAssumption DEF LogState, LogTypeOK, NoFile
<1>2. PICK N \in Nat : N = Len(opQueue)
  BY <1>1
<1>3. N # 0 /\ Len(opQueue') = N - 1 /\ x = opQueue[1] /\ \A k \in 1..N - 1 : opQueue'[k] = opQueue[k + 1]
  BY <1>1, <1>2
<1>4. \A k \in 1..N : opQueue[k] \in LogOps
  BY <1>1, <1>2
<1>5. \A k \in 1..N : opQueue[k].op # "stop" => opQueue[k].run \in LogRuns
  BY <1>4, OpsKnown
<1>6. x \in LogOps /\ (x.op # "stop" => x.run \in LogRuns)
  BY <1>3, <1>4, <1>5
<1>7. \A w, s : Lost(w, s) => Lost(w, s)'
  BY DEF Lost
<1>8. \A s \in LogRuns :
        /\ ~Concerns(logId, x, s) => openFiles'[logId[s]] = openFiles[logId[s]]
        /\ x.op = "open" /\ x.run = s /\ ~Lost("open", s)' => openFiles'[logId[s]] = s
  <2> SUFFICES ASSUME NEW s \in LogRuns
               PROVE  /\ ~Concerns(logId, x, s) => openFiles'[logId[s]] = openFiles[logId[s]]
                      /\ x.op = "open" /\ x.run = s /\ ~Lost("open", s)' => openFiles'[logId[s]] = s
    OBVIOUS
  <2>1. logId[s] \in LogIds
    BY <1>1
  <2>2. CASE x.op \notin {"open", "close"} /\ openFiles' = openFiles
    BY <2>2
  <2>3. CASE x.op \in {"open", "close"}
    <3>1. logId[x.run] \in LogIds
      BY <1>1, <1>6, <2>3
    <3>2. PICK f : ReplaceFile(logId[x.run], f) /\ (x.op = "open" /\ ~Lost("open", x.run)' => f = x.run)
      BY <2>3
    <3>3. openFiles' = [openFiles EXCEPT ![logId[x.run]] = f]
      BY <3>2 DEF ReplaceFile
    <3>4. ~Concerns(logId, x, s) => logId[x.run] # logId[s]
      BY <2>3 DEF Concerns
    <3>5. QED BY <1>1, <2>1, <3>1, <3>2, <3>3, <3>4
  <2>4. QED BY <2>2, <2>3
<1>9. ASSUME NEW s \in LogRuns, ~Lost("open", s)', NEW k \in 1..N, OpenAfter(logId, opQueue, openFiles, s, k)
      PROVE  OpenAfter(logId, opQueue', openFiles', s, k - 1)
  BY <1>1, <1>2, <1>8, <1>9, Shortened
<1>10. FilesOpen'
  <2>0. FilesOpen
    BY DEF FilesSound
  <2>1. ASSUME NEW s \in LogRuns, logRun'[s] = "active", ~Lost("open", s)'
        PROVE  OpenAfter(logId, opQueue', openFiles', s, N - 1)
    <3>1. OpenAfter(logId, opQueue, openFiles, s, N) /\ N \in 1..N
      BY <1>2, <1>3, <1>7, <2>0, <2>1 DEF FilesOpen
    <3>2. QED BY <1>9, <2>1, <3>1
  <2>2. ASSUME NEW k \in 1..N - 1, opQueue'[k].op = "write", ~opQueue'[k].late, ~Lost("open", opQueue[k].run)'
        PROVE  OpenAfter(logId, opQueue', openFiles', opQueue'[k].run, k - 1)
    <3>1. k + 1 \in 1..N /\ k \in 1..N /\ opQueue'[k] = opQueue[k + 1] /\ (k + 1) - 1 = k
      BY <1>3
    <3>2. PICK s \in LogRuns : s = opQueue[k + 1].run
      BY <1>5, <2>2, <3>1
    <3>3. ~Lost("open", s)' /\ ~Lost("open", s)
      BY <1>7, <2>2, <3>1, <3>2 DEF Lost
    <3>4. OpenAfter(logId, opQueue, openFiles, s, k)
      BY <1>2, <2>0, <2>2, <3>1, <3>2, <3>3 DEF FilesOpen
    <3>5. QED BY <1>9, <3>1, <3>2, <3>3, <3>4
  <2>3. QED BY <1>3, <2>1, <2>2 DEF FilesOpen, Lost
<1>11. ASSUME NEW s \in LogRuns, NEW n \in 1..N, Closing(opQueue, s, n) PROVE Closing(opQueue, s, n - 1)'
  <2>1. ClosedAfter(opQueue, s, n) => ClosedAfter(opQueue', s, n - 1)
    <3>1. PICK g : g = [i \in LogIds |-> IF x.op = "open" /\ logId[x.run] = i THEN x.run ELSE openFiles[i]]
      OBVIOUS
    <3>2. /\ ~Concerns(logId, x, s) => g[logId[s]] = openFiles[logId[s]]
          /\ x.op = "open" /\ x.run = s => g[logId[s]] = s
      BY <1>1, <3>1 DEF Concerns
    <3>3. QED BY <1>1, <1>2, <3>2, Shortened
  <2>2. QED BY <1>7, <1>11, <2>1 DEF Closing
<1>12. ASSUME NEW s \in LogRuns, Closing(opQueue, s, 0), ~(x.op = "close" /\ x.run = s) PROVE Closing(opQueue, s, 0)'
  <2>1. ClosedAfter(opQueue, s, 0) => ClosedAfter(opQueue', s, 0)
    <3>1. PICK g : g = [i \in LogIds |-> IF x.op = "open" /\ logId[x.run] = i THEN x.run ELSE openFiles[i]]
      OBVIOUS
    <3>2. /\ ~Concerns(logId, x, s) => g[logId[s]] = openFiles[logId[s]]
          /\ x.op = "open" /\ x.run = s => g[logId[s]] = s
      BY <1>1, <3>1 DEF Concerns
    <3>3. QED BY <1>1, <1>2, <1>12, <3>2, Shortened
  <2>2. QED BY <1>7, <1>12, <2>1 DEF Closing
<1>13. FilesEnd'
  <2>0. FilesEnd
    BY DEF FilesSound
  <2>1. ASSUME NEW i \in LogIds, openFiles'[i] # NoFile
        PROVE  logId[openFiles'[i]] = i /\ logId'[openFiles'[i]] = i /\ Closing(opQueue, openFiles[i], 0)'
    <3>1. CASE openFiles'[i] = openFiles[i]
      <4>1. PICK s \in LogRuns : s = openFiles[i] /\ s = openFiles'[i]
        BY <1>1, <2>1, <3>1
      <4>2. logId[s] = i /\ Closing(opQueue, s, 0)
        BY <2>0, <2>1, <3>1, <4>1 DEF FilesEnd
      <4>3. ~(x.op = "close" /\ x.run = s)
        <5>1. x.op = "close" => openFiles'[logId[x.run]] = NoFile
          BY <1>1, <1>6 DEF ReplaceFile
        <5>2. QED BY <2>1, <4>2, <5>1
      <4>4. Closing(opQueue, s, 0)'
        BY <1>12, <4>2, <4>3
      <4>5. QED BY <4>1, <4>2, <4>4 DEF Closing
    <3>2. CASE openFiles'[i] # openFiles[i]
      <4>1. x.op = "open" /\ i = logId[x.run] /\ openFiles'[i] = x.run /\ x.run \in LogRuns
        BY <1>1, <1>6, <2>1, <3>2 DEF ReplaceFile
      <4>2. PICK s \in LogRuns : s = x.run /\ s = openFiles'[i] /\ 1 \in 1..N
        BY <1>3, <4>1
      <4>3. Closing(opQueue, s, 1)
        BY <1>2, <1>3, <2>0, <4>1, <4>2 DEF FilesEnd
      <4>4. Closing(opQueue, s, 1 - 1)'
        BY <1>11, <4>2, <4>3
      <4>5. QED BY <4>1, <4>2, <4>4 DEF Closing
    <3>3. QED BY <3>1, <3>2
  <2>2. ASSUME NEW k \in 1..N - 1, opQueue'[k].op = "open"
        PROVE  Closing(opQueue, opQueue[k].run, k)'
    <3>1. k + 1 \in 1..N /\ opQueue'[k] = opQueue[k + 1] /\ (k + 1) - 1 = k
      BY <1>3
    <3>2. PICK s \in LogRuns : s = opQueue[k + 1].run /\ s = opQueue'[k].run
      BY <1>5, <2>2, <3>1
    <3>3. Closing(opQueue, s, k + 1)
      BY <1>2, <2>0, <2>2, <3>1, <3>2 DEF FilesEnd
    <3>4. Closing(opQueue, s, (k + 1) - 1)'
      BY <1>11, <3>1, <3>3
    <3>5. QED BY <3>1, <3>2, <3>4 DEF Closing
  <2>3. ASSUME NEW f \in dirtyFiles' PROVE openFiles'[logId[f]] = f
    <3>0. \A d \in dirtyFiles : openFiles[logId[d]] = d
      BY <2>0 DEF FilesEnd
    <3>1. CASE x.op \notin {"open", "close"} /\ openFiles' = openFiles
      <4>1. CASE f \in dirtyFiles
        BY <3>0, <3>1, <4>1
      <4>2. CASE f \notin dirtyFiles
        <5>1. f = openFiles[logId[x.run]] /\ f # NoFile /\ x.op = "write"
          BY <2>3, <3>1, <4>2
        <5>2. logId[x.run] \in LogIds
          BY <1>1, <1>6, <5>1
        <5>3. logId[f] = logId[x.run]
          BY <2>0, <5>1, <5>2 DEF FilesEnd
        <5>4. QED BY <3>1, <5>1, <5>3
      <4>3. QED BY <4>1, <4>2
    <3>2. CASE x.op \in {"open", "close"}
      <4>1. PICK g : ReplaceFile(logId[x.run], g)
        BY <3>2
      <4>2. openFiles' = [openFiles EXCEPT ![logId[x.run]] = g] /\ f \in dirtyFiles /\ f # openFiles[logId[x.run]]
        BY <2>3, <4>1 DEF ReplaceFile
      <4>3. openFiles[logId[f]] = f /\ logId[f] # logId[x.run] /\ logId[f] \in LogIds
        BY <1>1, <3>0, <4>2
      <4>4. QED BY <1>1, <4>2, <4>3
    <3>3. QED BY <3>1, <3>2
  <2>4. QED BY <1>3, <2>1, <2>2, <2>3 DEF FilesEnd, Closing
<1>14. QED BY <1>10, <1>13 DEF FilesSound

\* Every step keeps the files in order, and the writer alive.
LEMMA FilesKept ==
  ASSUME LogState, RoutesKnown, FilesSound, [LogNext \/ LogsOver]_logvars
  PROVE  FilesSound'
<1>1. /\ logRun \in [LogRuns -> {"idle", "active", "inherited", "over"}]
      /\ opQueue \in Seq(LogOps) /\ logId \in [LogRuns -> LogIds]
      /\ openFiles \in [LogIds -> LogRuns \cup {NoFile}] /\ NoFile \notin LogRuns
      /\ writer \in {"running", "draining", "stopped", "dead"} /\ dirtyFiles \subseteq LogRuns
  BY LogAssumption DEF LogState, LogTypeOK, NoFile
<1>2. ASSUME NEW r \in LogRuns, EnterRun(r) PROVE FilesSound'
  <2>1. /\ logRun[r] = "idle" /\ logRun' = [logRun EXCEPT ![r] = "active"]
        /\ \A s \in LogRuns : logRun[s] \in {"active", "inherited"} => logId[s] # logId[r]
        /\ UNCHANGED <<openFiles, dirtyFiles, writer, logId>> /\ Submit(Operation("open", r))
    BY <1>2 DEF EnterRun, OpenRoute, filevars
  <2>2. PICK x \in LogOps : x = Operation("open", r) /\ x.op = "open" /\ x.run = r
    BY OperationKnown
  <2>3. \A s \in LogRuns : logRun'[s] = "active" <=> s = r \/ logRun[s] = "active"
    BY <1>1, <2>1
  <2>4. \/ opQueue' = Append(opQueue, x) /\ lostOps' = lostOps
        \/ opQueue' = opQueue /\ lostOps' = lostOps \cup ({<<x.op, x.run>>} \ {<<"write", x.run>>})
    BY <2>1, <2>2, Submitted
  <2>5. CASE opQueue' = Append(opQueue, x) /\ lostOps' = lostOps
    <3>1. \A s \in LogRuns : logRun[s] = "active" => ~Concerns(logId, x, s)
      BY <2>1, <2>2 DEF Concerns
    <3>2. QED BY <2>1, <2>2, <2>3, <2>5, <3>1, QueueGrows
  <2>6. CASE opQueue' = opQueue /\ lostOps' = lostOps \cup ({<<x.op, x.run>>} \ {<<"write", x.run>>})
    <3>1. Lost("open", r)' /\ lostOps \subseteq lostOps'
      BY <2>2, <2>6 DEF Lost
    <3>2. QED BY <2>1, <2>3, <2>6, <3>1, QueueStays
  <2>7. QED BY <2>4, <2>5, <2>6
<1>3. ASSUME NEW r \in LogRuns, ExitRun(r) PROVE FilesSound'
  <2>1. /\ logRun[r] \in {"active", "inherited"} /\ logRun' = [logRun EXCEPT ![r] = "over"]
        /\ UNCHANGED <<openFiles, dirtyFiles, writer, logId>> /\ Submit(Operation("close", r))
    BY <1>3 DEF ExitRun, CloseRoute, filevars
  <2>2. PICK x \in LogOps : x = Operation("close", r) /\ x.op = "close" /\ x.run = r
    BY OperationKnown
  <2>3. \A s \in LogRuns : logRun'[s] = "active" <=> s # r /\ logRun[s] = "active"
    BY <1>1, <2>1
  <2>4. \/ opQueue' = Append(opQueue, x) /\ lostOps' = lostOps
        \/ opQueue' = opQueue /\ lostOps' = lostOps \cup ({<<x.op, x.run>>} \ {<<"write", x.run>>})
    BY <2>1, <2>2, Submitted
  <2>5. CASE opQueue' = Append(opQueue, x) /\ lostOps' = lostOps
    <3>1. \A s \in LogRuns : logRun[s] = "active" /\ s # r => logId[s] # logId[r]
      BY <2>1 DEF RoutesKnown
    <3>2. \A s \in LogRuns : logRun[s] = "active" /\ s # r => ~Concerns(logId, x, s)
      BY <2>2, <3>1 DEF Concerns
    <3>3. QED BY <2>1, <2>2, <2>3, <2>5, <3>2, QueueGrows
  <2>6. CASE opQueue' = opQueue /\ lostOps' = lostOps \cup ({<<x.op, x.run>>} \ {<<"write", x.run>>})
    <3>1. Lost("close", r)' /\ lostOps \subseteq lostOps'
      BY <2>2, <2>6 DEF Lost
    <3>2. QED BY <2>1, <2>3, <2>6, <3>1, QueueStays
  <2>7. QED BY <2>4, <2>5, <2>6
<1>4. ASSUME NEW r \in LogRuns, EmitSubmits(r) PROVE FilesSound'
  <2>1. /\ emitting[r] # NoRecord /\ logRun' = logRun
        /\ UNCHANGED <<openFiles, dirtyFiles, writer, logId>> /\ Submit(Operation("write", r))
    BY <1>4 DEF EmitSubmits, filevars
  <2>2. PICK x \in LogOps : /\ x = Operation("write", r) /\ x.op = "write" /\ x.run = r
                            /\ x.late = (logRun[r] = "over")
    BY OperationKnown
  <2>3. ~x.late => logRun[r] = "active"
    BY <2>1, <2>2 DEF RoutesKnown
  <2>4. \/ opQueue' = Append(opQueue, x) /\ lostOps' = lostOps
        \/ opQueue' = opQueue /\ lostOps' = lostOps \cup ({<<x.op, x.run>>} \ {<<"write", x.run>>})
    BY <2>1, <2>2, Submitted
  <2>5. CASE opQueue' = Append(opQueue, x) /\ lostOps' = lostOps
    <3>1. \A s \in LogRuns : ~Concerns(logId, x, s)
      BY <2>2 DEF Concerns
    <3>2. QED BY <2>1, <2>2, <2>3, <2>5, <3>1, QueueGrows
  <2>6. CASE opQueue' = opQueue /\ lostOps' = lostOps \cup ({<<x.op, x.run>>} \ {<<"write", x.run>>})
    BY <2>1, <2>6, QueueStays
  <2>7. QED BY <2>4, <2>5, <2>6
<1>5. CASE ExitProcess
  <2>1. /\ UNCHANGED <<openFiles, dirtyFiles, writer, logId, logRun, lostOps>>
        /\ opQueue' = Append(opQueue, [op |-> "stop"])
    BY <1>5 DEF ExitProcess, filevars, runvars
  <2>2. PICK x \in LogOps : x = [op |-> "stop"] /\ x.op = "stop"
    BY OpsKnown, Zenon
  <2>3. \A s \in LogRuns : ~Concerns(logId, x, s)
    BY <2>2 DEF Concerns
  <2>4. QED BY <2>1, <2>2, <2>3, QueueGrows
<1>6. CASE ForkProcess
  <2>1. /\ logRun' = [r \in LogRuns |-> IF logRun[r] = "active" THEN "inherited" ELSE logRun[r]]
        /\ opQueue' = << >> /\ openFiles' = [i \in LogIds |-> NoFile] /\ dirtyFiles' = {}
        /\ writer = "running" /\ writer' = writer
    BY <1>6 DEF ForkProcess
  <2>2. \A r \in LogRuns : logRun'[r] # "active"
    BY <1>1, <2>1
  <2>3. Len(opQueue') = 0
    BY <2>1
  <2>4. FilesOpen' /\ FilesEnd'
    BY <2>1, <2>2, <2>3 DEF FilesOpen, FilesEnd
  <2>5. QED BY <2>1, <2>4 DEF FilesSound
<1>7. CASE WriterApplies
  <2>1. /\ writer \in {"running", "draining"} /\ opQueue # << >> /\ opQueue' = Tail(opQueue)
        /\ UNCHANGED <<logRun, logId>>
    BY <1>7 DEF WriterApplies, runvars
  <2>2. PICK x \in LogOps : x = Head(opQueue)
    <3>1. Head(opQueue) \in LogOps
      BY <1>1, <2>1
    <3>2. QED BY <3>1, Zenon
  <2>3. \/ x.op = "write" /\ WriteRecord(x)
        \/ x.op = "open" /\ OpenFile(x)
        \/ x.op = "close" /\ CloseFile(x)
        \/ x.op = "stop" /\ writer' = "draining" /\ UNCHANGED <<openFiles, dirtyFiles, content, lostOps, mishaps>>
    BY <1>7, <2>2 DEF WriterApplies
  <2>4. CASE x.op = "write" /\ WriteRecord(x)
    <3>1. /\ openFiles' = openFiles /\ writer' = writer /\ lostOps' = lostOps
          /\ \A f \in dirtyFiles' \ dirtyFiles : f = openFiles[logId[x.run]] /\ f # NoFile
      BY <2>4 DEF WriteRecord
    <3>2. QED BY <2>1, <2>2, <2>4, <3>1, OperationApplied
  <2>5. CASE x.op = "open" /\ OpenFile(x)
    <3>1. writer' = writer /\ lostOps \subseteq lostOps'
      BY <2>5 DEF OpenFile, Lose
    <3>2. \/ ReplaceFile(logId[x.run], x.run)
          \/ ReplaceFile(logId[x.run], NoFile) /\ Lost("open", x.run)'
      BY <2>5 DEF OpenFile, Lose, Lost
    <3>3. QED BY <2>1, <2>2, <2>5, <3>1, <3>2, OperationApplied
  <2>6. CASE x.op = "close" /\ CloseFile(x)
    <3>1. ReplaceFile(logId[x.run], NoFile) /\ writer' = writer /\ lostOps' = lostOps
      BY <2>6 DEF CloseFile
    <3>2. QED BY <2>1, <2>2, <2>6, <3>1, OperationApplied
  <2>7. CASE x.op = "stop" /\ writer' = "draining" /\ UNCHANGED <<openFiles, dirtyFiles, content, lostOps, mishaps>>
    BY <2>1, <2>2, <2>7, OperationApplied
  <2>8. QED BY <2>3, <2>4, <2>5, <2>6, <2>7
<1>8. CASE Flush
  <2>1. \A f \in dirtyFiles : \E i \in LogIds : openFiles[i] = f
    <3>1. \A f \in dirtyFiles : openFiles[logId[f]] = f /\ logId[f] \in LogIds
      BY <1>1 DEF FilesSound, FilesEnd
    <3>2. QED BY <3>1
  <2>2. /\ writer' = writer /\ dirtyFiles' = {}
        /\ UNCHANGED <<logRun, logId, opQueue, lostOps, openFiles>>
    BY <1>8, <2>1 DEF Flush, runvars
  <2>3. FilesOpen => FilesOpen'
    BY <2>2 DEF FilesOpen, Lost
  <2>4. FilesEnd'
    BY <2>2 DEF FilesSound, FilesEnd, Closing, Lost
  <2>5. QED BY <2>2, <2>3, <2>4 DEF FilesSound
<1>9. CASE StopWriter
  <2>1. /\ writer' = "stopped" /\ opQueue = << >> /\ opQueue' = opQueue
        /\ openFiles' = [i \in LogIds |-> NoFile] /\ dirtyFiles' = {}
    BY <1>9 DEF StopWriter
  <2>2. Len(opQueue') = 0
    BY <2>1
  <2>3. FilesEnd'
    BY <2>1, <2>2 DEF FilesEnd
  <2>4. QED BY <2>1, <2>3 DEF FilesSound
<1>10. CASE UNCHANGED <<logRun, logId, opQueue, lostOps, filevars>>
  BY <1>10, QueueStays DEF filevars
<1>11. ASSUME NEW l \in Levels, HostSetsLevel(l) PROVE UNCHANGED <<logRun, logId, opQueue, lostOps, filevars>>
  BY <1>11 DEF HostSetsLevel, runvars
<1>12. ASSUME NEW r \in LogRuns, EmitRoutes(r) PROVE UNCHANGED <<logRun, logId, opQueue, lostOps, filevars>>
  BY <1>12 DEF EmitRoutes
<1>13. ASSUME LogsOver \/ UNCHANGED logvars PROVE UNCHANGED <<logRun, logId, opQueue, lostOps, filevars>>
  BY <1>13 DEF LogsOver, logvars, runvars
<1>14. QED BY <1>2, <1>3, <1>4, <1>5, <1>6, <1>7, <1>8, <1>9, <1>10, <1>11, <1>12, <1>13 DEF LogNext

\* What was accepted is in the file or in the queue, and files are kept apart.
LEMMA RecordsKept ==
  ASSUME LogState, LogState', RoutesKnown, FilesSound, LogsComplete, FilesApart, [LogNext \/ LogsOver]_logvars
  PROVE  LogsComplete' /\ FilesApart'
<1>1. /\ opQueue \in Seq(LogOps) /\ logId \in [LogRuns -> LogIds]
      /\ openFiles \in [LogIds -> LogRuns \cup {NoFile}] /\ NoFile \notin LogRuns
      /\ accepted \in [LogRuns -> Seq(Recs)] /\ content \in [LogRuns -> Seq(LogOps)]
      /\ emitting \in [LogRuns -> 0..recordsMade]
  BY LogAssumption DEF LogState, LogTypeOK, NoFile
<1>2. \A r \in LogRuns : /\ OwnRecords(content[r], r) \in Seq(Recs)
                         /\ OwnRecords(opQueue, r) \in Seq(Recs)
  <2>1. [op |-> "stop"] \in LogOps
    BY OpsKnown
  <2>2. QED BY <1>1, <2>1, OwnAppend
<1>3. ASSUME NEW x \in LogOps, opQueue' = Append(opQueue, x), content' = content, lostOps' = lostOps,
             \A r \in LogRuns : accepted'[r] = accepted[r] \o OwnRecord(x, r)
      PROVE  LogsComplete' /\ FilesApart'
  <2>1. FilesApart'
    BY <1>3 DEF FilesApart, Lost
  <2>2. ASSUME NEW r \in LogRuns, ~Lost("open", r)
        PROVE  OwnRecords(content[r], r) \o OwnRecords(opQueue', r) = accepted'[r]
    <3>1. OwnRecords(opQueue', r) = OwnRecords(opQueue, r) \o OwnRecord(x, r) /\ OwnRecord(x, r) \in Seq(Recs)
      BY <1>1, <1>3, OwnAppend, OpsKnown
    <3>2. OwnRecords(content[r], r) \o OwnRecords(opQueue, r) = accepted[r]
      BY <2>2 DEF LogsComplete
    <3>3. PICK u \in Seq(Recs) : u = OwnRecords(content[r], r)
      BY <1>2, Zenon
    <3>4. PICK v \in Seq(Recs) : v = OwnRecords(opQueue, r)
      BY <1>2, Zenon
    <3>5. PICK w \in Seq(Recs) : w = OwnRecord(x, r)
      BY <3>1, Zenon
    <3>6. (u \o v) \o w = u \o (v \o w)
      BY ConcatAssociative
    <3>7. QED BY <1>3, <3>1, <3>2, <3>3, <3>4, <3>5, <3>6
  <2>3. QED BY <1>3, <2>1, <2>2 DEF LogsComplete, Lost
<1>4. ASSUME UNCHANGED <<opQueue, content, accepted>>, lostOps \subseteq lostOps' PROVE LogsComplete' /\ FilesApart'
  BY <1>4 DEF LogsComplete, FilesApart, Lost
<1>5. ASSUME NEW x \in LogOps, x.op # "write", UNCHANGED accepted
      PROVE  \A r \in LogRuns : accepted'[r] = accepted[r] \o OwnRecord(x, r)
  <2>1. \A r \in LogRuns : OwnRecord(x, r) = <<>>
    BY <1>5 DEF OwnRecord
  <2>2. \A r \in LogRuns : accepted[r] \o <<>> = accepted[r]
    BY <1>1, ConcatEmptySeq
  <2>3. QED BY <1>5, <2>1, <2>2
<1>6. ASSUME NEW r \in LogRuns, NEW what \in {"open", "close"}, Submit(Operation(what, r)),
             UNCHANGED <<content, accepted>>
      PROVE  LogsComplete' /\ FilesApart'
  <2>1. PICK x \in LogOps : x = Operation(what, r) /\ x.op = what
    BY OperationKnown
  <2>2. \/ opQueue' = Append(opQueue, x) /\ lostOps' = lostOps
        \/ opQueue' = opQueue /\ lostOps \subseteq lostOps'
    BY <1>6, <2>1, Submitted
  <2>3. QED BY <1>3, <1>4, <1>5, <1>6, <2>1, <2>2
<1>7. ASSUME NEW r \in LogRuns, EnterRun(r) \/ ExitRun(r) PROVE LogsComplete' /\ FilesApart'
  <2>1. UNCHANGED <<content, accepted>> /\ (Submit(Operation("open", r)) \/ Submit(Operation("close", r)))
    BY <1>7 DEF EnterRun, ExitRun, OpenRoute, CloseRoute, filevars
  <2>2. QED BY <1>6, <2>1
<1>8. ASSUME NEW r \in LogRuns, EmitSubmits(r) PROVE LogsComplete' /\ FilesApart'
  <2>1. /\ emitting[r] # NoRecord /\ content' = content /\ Submit(Operation("write", r))
        /\ accepted' = IF Room /\ logRun[r] = "active"
                       THEN [accepted EXCEPT ![r] = Append(@, emitting[r])] ELSE accepted
    BY <1>8 DEF EmitSubmits, filevars
  <2>2. PICK x \in LogOps : /\ x = Operation("write", r) /\ x.op = "write" /\ x.run = r
                            /\ x.late = (logRun[r] = "over") /\ x.rec = emitting[r]
    BY OperationKnown
  <2>3. ~x.late <=> logRun[r] = "active"
    BY <2>1, <2>2 DEF RoutesKnown
  <2>4. \/ Room /\ opQueue' = Append(opQueue, x) /\ lostOps' = lostOps
        \/ ~Room /\ opQueue' = opQueue /\ lostOps' = lostOps \cup ({<<x.op, x.run>>} \ {<<"write", x.run>>})
    BY <2>1, <2>2, Submitted
  <2>5. CASE Room /\ opQueue' = Append(opQueue, x) /\ lostOps' = lostOps
    <3>1. ASSUME NEW s \in LogRuns PROVE accepted'[s] = accepted[s] \o OwnRecord(x, s)
      <4>1. CASE s = r /\ logRun[r] = "active"
        <5>1. accepted'[s] = Append(accepted[s], x.rec)
          BY <1>1, <2>1, <2>2, <2>5, <4>1
        <5>2. OwnRecord(x, s) = <<x.rec>>
          BY <2>2, <2>3, <4>1 DEF OwnRecord
        <5>3. accepted[s] \in Seq(Recs) /\ x.rec \in Recs
          BY <1>1, <2>2 DEF Recs
        <5>4. QED BY <5>1, <5>2, <5>3, AppendIsConcat
      <4>2. CASE ~(s = r /\ logRun[r] = "active")
        <5>1. accepted'[s] = accepted[s]
          BY <1>1, <2>1, <4>2
        <5>2. OwnRecord(x, s) = <<>>
          BY <2>2, <2>3, <4>2 DEF OwnRecord
        <5>3. accepted[s] \o <<>> = accepted[s]
          BY <1>1, ConcatEmptySeq
        <5>4. QED BY <5>1, <5>2, <5>3
      <4>3. QED BY <4>1, <4>2
    <3>2. QED BY <1>3, <2>1, <2>5, <3>1
  <2>6. CASE ~Room /\ opQueue' = opQueue /\ lostOps' = lostOps \cup ({<<x.op, x.run>>} \ {<<"write", x.run>>})
    BY <1>4, <2>1, <2>6
  <2>7. QED BY <2>4, <2>5, <2>6
<1>9. CASE ExitProcess
  <2>1. /\ UNCHANGED <<content, accepted, lostOps>> /\ opQueue' = Append(opQueue, [op |-> "stop"])
    BY <1>9 DEF ExitProcess, filevars, runvars
  <2>2. PICK x \in LogOps : x = [op |-> "stop"] /\ x.op = "stop"
    BY OpsKnown, Zenon
  <2>3. QED BY <1>3, <1>5, <2>1, <2>2
<1>10. CASE ForkProcess
  <2>1. opQueue' = << >> /\ content' = [r \in LogRuns |-> << >>] /\ accepted' = [r \in LogRuns |-> << >>]
    BY <1>10 DEF ForkProcess
  <2>2. \A r \in LogRuns : OwnRecords(<<>>, r) = <<>>
    BY DEF OwnRecords, FlattenSeq
  <2>3. <<>> \o <<>> = <<>> /\ Len(<<>>) = 0
    OBVIOUS
  <2>4. QED BY <2>1, <2>2, <2>3 DEF LogsComplete, FilesApart
<1>11. CASE WriterApplies
  <2>1. /\ writer \in {"running", "draining"} /\ opQueue # << >> /\ opQueue' = Tail(opQueue)
        /\ accepted' = accepted
    BY <1>11 DEF WriterApplies, runvars
  <2>2. PICK x \in LogOps : x = Head(opQueue) /\ x = opQueue[1]
    <3>1. Head(opQueue) \in LogOps /\ Head(opQueue) = opQueue[1]
      BY <1>1, <2>1
    <3>2. QED BY <3>1, Zenon
  <2>3. \A r \in LogRuns : /\ OwnRecords(opQueue', r) \in Seq(Recs) /\ OwnRecord(x, r) \in Seq(Recs)
                           /\ OwnRecords(opQueue, r) = OwnRecord(x, r) \o OwnRecords(opQueue', r)
    BY <1>1, <2>1, <2>2, OwnTail, OpsKnown
  <2>4. lostOps \subseteq lostOps'
    BY <1>11 DEF WriterApplies, WriteRecord, OpenFile, CloseFile, Lose
  <2>5. ASSUME x.op # "write", content' = content PROVE LogsComplete' /\ FilesApart'
    <3>1. \A r \in LogRuns : OwnRecord(x, r) = <<>>
      BY <2>5 DEF OwnRecord
    <3>2. \A r \in LogRuns : OwnRecords(opQueue, r) = OwnRecords(opQueue', r)
      BY <2>3, <3>1, ConcatEmptySeq
    <3>3. QED BY <2>1, <2>4, <2>5, <3>2 DEF LogsComplete, FilesApart, Lost
  <2>6. CASE x.op = "write" /\ WriteRecord(x)
    <3>1. lostOps' = lostOps
      BY <2>6 DEF WriteRecord
    <3>2. PICK f : f = openFiles[logId[x.run]]
      OBVIOUS
    <3>3. f \in LogRuns \cup {NoFile} /\ x.run \in LogRuns /\ x.rec \in Recs
      BY <1>1, <2>6, <3>2, OpsKnown
    <3>4. ~x.late /\ ~Lost("open", x.run) => f = x.run
      <4>1. SUFFICES ASSUME ~x.late, ~Lost("open", x.run) PROVE f = x.run
        OBVIOUS
      <4>2. 1 \in 1..Len(opQueue) /\ 1 - 1 = 0
        BY <1>1, <2>1
      <4>3. FilesOpen
        BY <2>1 DEF FilesSound
      <4>4. OpenAfter(logId, opQueue, openFiles, x.run, 0)
        BY <2>2, <2>6, <4>1, <4>2, <4>3 DEF FilesOpen
      <4>5. QED BY <3>2, <4>4 DEF OpenAfter
    <3>5. \/ f = NoFile /\ content' = content
          \/ f # NoFile /\ content' = [content EXCEPT ![f] = Append(content[f], x)]
      BY <2>6, <3>2 DEF WriteRecord
    <3>6. CASE f = NoFile /\ content' = content
      <4>1. \A r \in LogRuns : ~Lost("open", r) => OwnRecord(x, r) = <<>>
        BY <1>1, <3>3, <3>4, <3>6 DEF OwnRecord
      <4>2. \A r \in LogRuns : ~Lost("open", r) => OwnRecords(opQueue, r) = OwnRecords(opQueue', r)
        BY <2>3, <4>1, ConcatEmptySeq
      <4>3. QED BY <2>1, <3>1, <3>6, <4>2 DEF LogsComplete, FilesApart, Lost
    <3>7. CASE f # NoFile /\ content' = [content EXCEPT ![f] = Append(content[f], x)]
      <4>1. f \in LogRuns
        BY <3>3, <3>7
      <4>2. content'[f] = Append(content[f], x) /\ \A r \in LogRuns : r # f => content'[r] = content[r]
        BY <1>1, <3>7, <4>1
      <4>3. ASSUME NEW r \in LogRuns, ~Lost("open", r)
            PROVE  OwnRecords(content'[r], r) \o OwnRecords(opQueue', r) = accepted[r]
        <5>1. OwnRecords(content[r], r) \o OwnRecords(opQueue, r) = accepted[r]
          BY <4>3 DEF LogsComplete
        <5>2. CASE OwnRecord(x, r) = <<>>
          <6>1. OwnRecords(opQueue', r) = OwnRecords(opQueue, r)
            BY <2>3, <5>2, ConcatEmptySeq
          <6>2. OwnRecords(content'[r], r) = OwnRecords(content[r], r)
            <7>1. CASE r = f
              <8>1. OwnRecords(Append(content[r], x), r) = OwnRecords(content[r], r) \o OwnRecord(x, r)
                BY <1>1, OwnAppend
              <8>2. QED BY <1>2, <4>2, <5>2, <7>1, <8>1, ConcatEmptySeq
            <7>2. CASE r # f
              BY <4>2, <7>2
            <7>3. QED BY <7>1, <7>2
          <6>3. QED BY <5>1, <6>1, <6>2
        <5>3. CASE OwnRecord(x, r) # <<>>
          <6>1. x.run = r /\ ~x.late
            BY <5>3 DEF OwnRecord
          <6>2. r = f
            BY <3>4, <4>3, <6>1
          <6>3. OwnRecords(content'[r], r) = OwnRecords(content[r], r) \o OwnRecord(x, r)
            <7>1. content'[r] = Append(content[r], x)
              BY <4>2, <6>2
            <7>2. OwnRecords(Append(content[r], x), r) = OwnRecords(content[r], r) \o OwnRecord(x, r)
              BY <1>1, <1>2, OwnAppend
            <7>3. QED BY <7>1, <7>2
          <6>4. PICK u \in Seq(Recs) : u = OwnRecords(content[r], r)
            BY <1>2, Zenon
          <6>5. PICK v \in Seq(Recs) : v = OwnRecord(x, r)
            BY <2>3, Zenon
          <6>6. PICK w \in Seq(Recs) : w = OwnRecords(opQueue', r)
            BY <2>3, Zenon
          <6>7. (u \o v) \o w = u \o (v \o w)
            BY ConcatAssociative
          <6>8. QED BY <2>3, <5>1, <6>3, <6>4, <6>5, <6>6, <6>7
        <5>4. QED BY <5>2, <5>3
      <4>4. LogsComplete'
        BY <2>1, <3>1, <4>3 DEF LogsComplete, Lost
      <4>5. ASSUME NEW r \in LogRuns, NEW k \in 1..Len(content'[r])
            PROVE  content'[r][k].run = r \/ content'[r][k].late \/ Lost("open", content'[r][k].run)
        <5>1. CASE r = f /\ k = Len(content[f]) + 1
          <6>1. content'[r][k] = x
            BY <1>1, <4>1, <4>2, <5>1
          <6>2. QED BY <3>4, <5>1, <6>1
        <5>2. CASE ~(r = f /\ k = Len(content[f]) + 1)
          <6>1. k \in 1..Len(content[r]) /\ content'[r][k] = content[r][k]
            <7>1. CASE r # f
              BY <4>2, <4>5, <7>1
            <7>2. CASE r = f
              <8>1. content[f] \in Seq(LogOps) /\ x \in LogOps /\ k \in 1..Len(Append(content[f], x))
                BY <1>1, <1>2, <4>1, <4>2, <4>5, <7>2
              <8>2. k # Len(content[f]) + 1
                BY <5>2, <7>2
              <8>3. k \in 1..Len(content[f]) /\ Append(content[f], x)[k] = content[f][k]
                BY <8>1, <8>2
              <8>4. QED BY <4>2, <7>2, <8>3
            <7>3. QED BY <7>1, <7>2
          <6>2. QED BY <6>1 DEF FilesApart
        <5>3. QED BY <5>1, <5>2
      <4>6. FilesApart'
        BY <3>1, <4>5 DEF FilesApart, Lost
      <4>7. QED BY <4>4, <4>6
    <3>8. QED BY <3>5, <3>6, <3>7
  <2>7. ASSUME \/ x.op = "open" /\ OpenFile(x)
               \/ x.op = "close" /\ CloseFile(x)
               \/ x.op = "stop" /\ UNCHANGED content
        PROVE  x.op # "write" /\ content' = content
    BY <2>7 DEF OpenFile, CloseFile
  <2>8. QED BY <1>11, <2>2, <2>5, <2>6, <2>7 DEF WriterApplies
<1>12. CASE UNCHANGED <<opQueue, content, accepted, lostOps>>
  BY <1>4, <1>12
<1>13. ASSUME NEW l \in Levels, HostSetsLevel(l) PROVE UNCHANGED <<opQueue, content, accepted, lostOps>>
  BY <1>13 DEF HostSetsLevel, runvars, filevars
<1>14. ASSUME NEW r \in LogRuns, EmitRoutes(r) PROVE UNCHANGED <<opQueue, content, accepted, lostOps>>
  BY <1>14 DEF EmitRoutes, filevars
<1>15. ASSUME Flush \/ StopWriter \/ LogsOver \/ UNCHANGED logvars PROVE UNCHANGED <<opQueue, content, accepted, lostOps>>
  BY <1>15 DEF Flush, StopWriter, LogsOver, logvars, runvars, filevars
<1>16. QED BY <1>7, <1>8, <1>9, <1>10, <1>11, <1>12, <1>13, <1>14, <1>15 DEF LogNext

\* In every state of the logs.
LEMMA LogCorrect == LogSpec => []LogInv
<1>1. ASSUME LogInit PROVE LogInv
  <2>1. LogState
    <3>1. <<>> \in Seq(LogOps) /\ <<>> \in Seq(Recs) /\ Len(<<>>) = 0
      OBVIOUS
    <3>2. Cardinality(LogRuns) \in Nat
      BY LogAssumption, FS_CardinalityType
    <3>3. LogTypeOK
      <4>1. logRun \in [LogRuns -> {"idle", "active", "inherited", "over"}]
        BY <1>1 DEF LogInit
      <4>2. recordsMade \in 0..MaxRecords /\ emitting \in [LogRuns -> 0..recordsMade]
        BY <1>1, LogAssumption DEF LogInit, NoRecord
      <4>3. routed \subseteq LogIds /\ windows \in 0..Cardinality(LogRuns)
        BY <1>1, <3>2 DEF LogInit
      <4>4. /\ {savedLevel, appliedLevel} \subseteq Levels \cup {NoLevel}
            /\ {rootLevel, hostLevel} \subseteq Levels /\ mishaps \in 0..LogTroubles
        BY <1>1, LogAssumption DEF LogInit, NoLevel
      <4>5. {rootMounted, overlooked, unpaired} \subseteq BOOLEAN
        BY <1>1 DEF LogInit
      <4>6. Len(opQueue) <= QueueMax
        BY <1>1, <3>1, LogAssumption DEF LogInit
      <4>7. openFiles \in [LogIds -> LogRuns \cup {NoFile}] /\ dirtyFiles \subseteq LogRuns
        BY <1>1 DEF LogInit
      <4>8. writer \in {"running", "draining", "stopped", "dead"}
        BY <1>1 DEF LogInit
      <4>9. QED BY <4>1, <4>2, <4>3, <4>4, <4>5, <4>6, <4>7, <4>8 DEF LogTypeOK
    <3>4. /\ logId \in [LogRuns -> LogIds] /\ accepted \in [LogRuns -> Seq(Recs)]
          /\ opQueue \in Seq(LogOps) /\ content \in [LogRuns -> Seq(LogOps)]
      BY <1>1, <3>1, LogAssumption DEF LogInit
    <3>5. \A r \in LogRuns : \A k \in 1..Len(content[r]) : content[r][k].op = "write"
      BY <1>1, <3>1 DEF LogInit
    <3>6. QED BY <3>3, <3>4, <3>5 DEF LogState
  <2>2. RoutesKnown
    BY <1>1 DEF LogInit, RoutesKnown
  <2>3. RootBorrowed
    <3>1. ActiveRuns = {}
      BY <1>1 DEF LogInit, ActiveRuns
    <3>2. Cardinality(ActiveRuns) = 0
      BY <3>1, FS_EmptySet
    <3>3. QED BY <1>1, <3>2 DEF LogInit, RootBorrowed, NoLevel
  <2>4. FilesSound
    <3>1. FilesOpen
      BY <1>1 DEF LogInit, FilesOpen
    <3>2. FilesEnd
      BY <1>1 DEF LogInit, FilesEnd
    <3>3. QED BY <1>1, <3>1, <3>2 DEF LogInit, FilesSound
  <2>5. LogsComplete /\ FilesApart
    <3>1. \A r \in LogRuns : OwnRecords(<<>>, r) = <<>>
      BY DEF OwnRecords, FlattenSeq
    <3>2. <<>> \o <<>> = <<>> /\ Len(<<>>) = 0
      OBVIOUS
    <3>3. QED BY <1>1, <3>1, <3>2 DEF LogInit, LogsComplete, FilesApart
  <2>6. QED BY <2>1, <2>2, <2>3, <2>4, <2>5 DEF LogInv
<1>2. LogInv /\ [LogNext \/ LogsOver]_logvars => LogInv'
  BY LogStateKept, RoutesKept, RootKept, FilesKept, RecordsKept DEF LogInv
<1>3. QED BY <1>1, <1>2, PTL DEF LogSpec

\* So the logs are complete and apart, the writer lives, and root is returned.
LEMMA LogsAreSound == LogInv => LogsSound
<1> SUFFICES ASSUME LogInv PROVE LogsSound
  OBVIOUS
<1>1. opQueue = <<>> => Len(opQueue) = 0
  OBVIOUS
<1>2. WriterSound
  <2>1. opQueue = <<>> => \A i \in LogIds : openFiles[i] = NoFile
                            \/ logRun[openFiles[i]] = "active" \/ Lost("close", openFiles[i])
    BY <1>1 DEF LogInv, FilesSound, FilesEnd, Closing, ClosedAfter
  <2>2. QED BY <2>1 DEF LogInv, FilesSound, WriterSound
<1>3. RootReturned
  BY DEF LogInv, RootBorrowed, RootReturned, ActiveRuns
<1>4. QED BY <1>2, <1>3 DEF LogInv, LogsSound

-----------------------------------------------------------------------------
(* A session of the kernel task. *)

\* The metrics of a best, the result of a verification.
MetricSet == [rank : 0..3, of : Impls, claim : Impls, index : NoIndex..(MaxMessages - 1),
              noteOf : Impls \cup {None}]
ResultSet == [rank : 0..2, of : Impls]
Maybe(S) == S \cup {None}

StageNames == {"agent", "cleanup", "collect_impls", "collect_best", "collect_artifacts",
               "collect_state", "decide", "recheck", "scored", "raised"}
AfterImpls == {"collect_best", "collect_artifacts", "collect_state", "decide", "recheck"}
AfterBest == AfterImpls \ {"collect_best"}
AfterArtifacts == AfterBest \ {"collect_artifacts"}
Unsettled == task \notin {"recheck", "scored", "raised"}

\* What the variables hold.
KScalars ==
  /\ task \in StageNames /\ message \in 0..(MaxMessages - 1)
  /\ hook \in {"none", "running", "returned", "bound"} /\ (hook = "bound" => task = "agent")
  /\ overlapped \in BOOLEAN /\ torn \in BOOLEAN

KFiles ==
  /\ {current, staged, bestImpl} \subseteq Maybe(Impls)
  /\ written \in [Impls -> NoIndex..(MaxMessages - 1)]
  /\ result \in Maybe(ResultSet) /\ perf \in BOOLEAN
  /\ (perf => result # None)
  /\ best \in Maybe(MetricSet) /\ reached \in NoIndex..3

KProcesses ==
  /\ process \in [Calls -> {"idle", "starting", "staged", "verifying", "verified",
                            "measured", "winning", "half", "ended"}]
  /\ held \in [Calls -> Impls \cup MetricSet \cup {None}]
  /\ \A c \in Calls : CASE process[c] = "verifying" -> held[c] \in Impls
                        [] process[c] \in {"winning", "half"} -> held[c] \in MetricSet
                        [] OTHER -> held[c] = None
  /\ \A c \in Calls : process[c] = "idle" <=> c > calls
  /\ calls \in 0..MaxEvents /\ troubles \in 0..MaxEvents /\ calls + troubles <= MaxEvents

KHooks ==
  /\ hook \in {"running", "returned"} =>
       before \in [index : {message}, best : Maybe(MetricSet), impl : Maybe(Impls)]
  /\ hook = "bound" =>
       before \in [index : {message}, improved : BOOLEAN, correct : BOOLEAN,
                   annotated : Maybe(MetricSet)]
  /\ unimproved \in Int /\ unimproved >= -1
  /\ progress \in [{"count", "correctness", "latency"} -> 0..MaxEvents]
  /\ progress.count + (IF hook = "none" THEN 0 ELSE 1) <= calls
  /\ \A mode \in {"correctness", "latency"} : progress[mode] <= progress.count

KStale == stale \subseteq StageNames

\* What was collected.
KSnapshot ==
  /\ task \in AfterImpls =>
       /\ {snapshot.bestImpl, snapshot.staged} \subseteq Maybe(Impls)
       /\ snapshot.reached \in NoIndex..3
  /\ task \in AfterBest => snapshot.best \in Maybe(MetricSet)
  /\ task \in AfterArtifacts => snapshot.result \in Maybe(ResultSet) /\ snapshot.perf \in BOOLEAN
  /\ task = "recheck" => snapshot.result # None /\ snapshot.staged # None

KData == KScalars /\ KFiles /\ KProcesses /\ KHooks /\ KStale /\ KSnapshot

\* Every implementation around was written, and what notes one has its message.
Known(i) == i = None \/ written[i] # NoIndex
KKnown ==
  /\ \A i \in Impls : written[i] <= message
  /\ Known(current) /\ Known(staged) /\ (Unsettled => Known(bestImpl))
  /\ \A c \in Calls : process[c] \in {"winning", "half"} => Known(held[c].claim) /\ held[c].noteOf = None

NoteHolds(m) ==
  m # None /\ m.noteOf # None => written[m.noteOf] # NoIndex /\ written[m.noteOf] <= m.index
KNotes ==
  /\ NoteHolds(best)
  /\ hook \in {"running", "returned"} => NoteHolds(before.best)
  /\ hook = "bound" => NoteHolds(before.annotated)
  /\ task \in AfterBest => NoteHolds(snapshot.best)

\* One verifier at a time, and a tool call that returns has none.
OneVerifier ==
  ~overlapped => /\ \A c \in Calls : process[c] \notin {"idle", "ended"} => c = calls
                 /\ hook # "running" => \A c \in Calls : process[c] \in {"idle", "ended"}

\* A verifier that none overtakes has measured what it staged, and what it is
\* about to make the best ranks higher.
KMeasured ==
  ~overlapped =>
    /\ result # None => result.of = staged
    /\ \A c \in Calls :
         /\ process[c] = "verifying" => held[c] = staged
         /\ process[c] \in {"winning", "half"} => result # None /\ held[c] = Metrics(result, perf)
KHigher ==
  ~overlapped /\ Unsettled =>
    \A c \in Calls : process[c] \in {"winning", "half"} => RankOf(held[c]) > RankOf(best)

\* What was not written since is as it was collected.
KFresh ==
  Unsettled =>
    /\ task \in AfterImpls /\ "collect_impls" \notin stale =>
         snapshot.staged = staged /\ snapshot.bestImpl = bestImpl
    /\ task \in AfterBest /\ "collect_best" \notin stale => snapshot.best = best
    /\ task \in AfterArtifacts /\ "collect_artifacts" \notin stale =>
         snapshot.result = result /\ snapshot.perf = perf

\* The metrics of a best were measured on the implementation they are of.
Honest(m) == m # None => m.of = m.claim
KHonest ==
  ~overlapped =>
    /\ Unsettled => Honest(best)
    /\ hook = "bound" => Honest(before.annotated)
    /\ task \in AfterBest => Honest(snapshot.best)
    /\ task = "recheck" => snapshot.result.of = snapshot.staged

\* A best is beside its implementation, but for a verifier between the two
\* replacements.
KBest ==
  Unsettled => /\ best # None => bestImpl # None
               /\ \A c \in Calls : process[c] = "half" => bestImpl # None
               /\ hook = "bound" /\ before.annotated # None => bestImpl # None
Paired(impl, m) == m # None => m.claim = impl /\ m.noteOf \in {None, impl}
KPaired ==
  ~overlapped /\ ~torn /\ Unsettled =>
    /\ \A c \in Calls : process[c] = "half" => bestImpl = held[c].claim
    /\ Paired(bestImpl, best) \/ \E c \in Calls : process[c] = "half"
    /\ hook = "bound" => Paired(bestImpl, before.annotated)

\* What is collected is a pair, or else the artifacts have a result.
Settled == result # None /\ \A c \in Calls : process[c] # "starting"
KCollected ==
  ~overlapped /\ ~torn =>
    /\ task = "collect_best" => Paired(snapshot.bestImpl, best) \/ Settled
    /\ task = "collect_artifacts" => Paired(snapshot.bestImpl, snapshot.best) \/ Settled
    /\ task \in {"collect_state", "decide"} =>
         Paired(snapshot.bestImpl, snapshot.best) \/ snapshot.result # None

\* A best that was reached is there, and is collected.
FastRank(r, fast) == IF r.rank = 2 /\ fast THEN 3 ELSE r.rank
KReached ==
  ~overlapped =>
    /\ Unsettled => reached <= RankOf(best)
    /\ hook = "bound" /\ before.annotated # None =>
         best # None /\ before.annotated.rank = best.rank
    /\ staged = None => reached = NoIndex
    /\ task \in AfterImpls =>
         /\ Unsettled => snapshot.reached <= reached
         /\ snapshot.staged = None => snapshot.reached = NoIndex
    /\ task \in AfterBest /\ Unsettled => snapshot.reached <= RankOf(snapshot.best)
    /\ task = "recheck" /\ ~torn =>
         snapshot.reached <= FastRank(snapshot.result, snapshot.perf)

\* The count of a mode is at most the calls since the best was changed.
KPatience ==
  /\ stop # None => hook = "none"
  /\ ~overlapped /\ task = "agent" =>
       /\ hook = "none" => progress[Mode(best)] <= unimproved
       /\ hook \in {"running", "returned"} =>
            \/ unimproved = -1 /\ RankOf(best) > RankOf(before.best)
            \/ best = before.best /\ progress[Mode(best)] <= unimproved
       /\ hook = "bound" =>
            \/ before.improved
            \/ /\ before.annotated = None /\ before.correct = FullyCorrect(best)
               /\ progress[Mode(best)] <= unimproved

KInv ==
  /\ KData /\ KKnown /\ KNotes /\ OneVerifier /\ KMeasured /\ KHigher /\ KFresh /\ KHonest
  /\ KBest /\ KPaired /\ KCollected /\ KReached /\ KPatience
  /\ ScoredAsVerified /\ BestScored /\ PrefixHoldsBest /\ StopJustified

-----------------------------------------------------------------------------
\* None is none of them; the metrics of a verification.
LEMMA MetricsKnown ==
  /\ None \notin Impls /\ None \notin MetricSet /\ None \notin ResultSet
  /\ \A m \in MetricSet : /\ RankOf(m) = m.rank /\ m.rank \in 0..3 /\ m.claim \in Impls
                          /\ m.index \in NoIndex..(MaxMessages - 1) /\ m.noteOf \in Maybe(Impls)
  /\ RankOf(None) = -1
  /\ \A r \in ResultSet, fast \in BOOLEAN :
       LET m == Metrics(r, fast) IN
       /\ m.rank \in 0..3 /\ m.rank = FastRank(r, fast) /\ m.of = r.of /\ m.claim = staged /\ m.noteOf = None
       /\ RankOf(m) = m.rank /\ m # None
       /\ staged \in Impls => m \in MetricSet
       /\ \A i \in Impls : /\ [m EXCEPT !.claim = i] \in MetricSet
                           /\ [m EXCEPT !.claim = i].claim = i
                           /\ [m EXCEPT !.claim = i].of = r.of
                           /\ [m EXCEPT !.claim = i].noteOf = None
                           /\ [m EXCEPT !.claim = i].rank = m.rank
<1>1. None \notin Impls /\ NoIndex \in NoIndex..(MaxMessages - 1)
  BY KernelAssumption DEF NoIndex
<1>2. None \notin MetricSet /\ None \notin ResultSet
  BY DEF None, MetricSet, ResultSet
<1>3. \A m \in MetricSet : /\ RankOf(m) = m.rank /\ m.rank \in 0..3 /\ m.claim \in Impls
                           /\ m.index \in NoIndex..(MaxMessages - 1) /\ m.noteOf \in Maybe(Impls)
  BY <1>2 DEF MetricSet, RankOf, Maybe
<1>4. RankOf(None) = -1
  BY DEF RankOf, NoIndex
<1>5. ASSUME NEW r \in ResultSet, NEW fast \in BOOLEAN, NEW m, m = Metrics(r, fast)
      PROVE  /\ m.rank \in 0..3 /\ m.rank = FastRank(r, fast) /\ m.of = r.of /\ m.claim = staged /\ m.noteOf = None
             /\ RankOf(m) = m.rank /\ m # None
             /\ staged \in Impls => m \in MetricSet
             /\ \A i \in Impls : /\ [m EXCEPT !.claim = i] \in MetricSet
                                 /\ [m EXCEPT !.claim = i].claim = i
                                 /\ [m EXCEPT !.claim = i].of = r.of
                                 /\ [m EXCEPT !.claim = i].noteOf = None
                                 /\ [m EXCEPT !.claim = i].rank = m.rank
  <2>1. PICK k \in 0..3 : k = FastRank(r, fast) /\ m = [rank |-> k, of |-> r.of, claim |-> staged, index |-> NoIndex, noteOf |-> None]
    BY <1>5 DEF Metrics, ResultSet, FastRank
  <2>2. r.of \in Impls /\ None \in Maybe(Impls)
    BY DEF ResultSet, Maybe
  <2>3. m # None
    BY <2>1 DEF None
  <2>4. RankOf(m) = m.rank
    BY <2>3 DEF RankOf
  <2>5. staged \in Impls => m \in MetricSet
    BY <1>1, <2>1, <2>2 DEF MetricSet
  <2>6. ASSUME NEW i \in Impls
        PROVE  [m EXCEPT !.claim = i] = [rank |-> k, of |-> r.of, claim |-> i, index |-> NoIndex, noteOf |-> None]
    BY <2>1
  <2>7. \A i \in Impls : [rank |-> k, of |-> r.of, claim |-> i, index |-> NoIndex, noteOf |-> None] \in MetricSet
    BY <1>1, <2>2 DEF MetricSet
  <2>8. QED BY <2>1, <2>3, <2>4, <2>5, <2>6, <2>7
<1>6. QED BY <1>1, <1>2, <1>3, <1>4, <1>5

\* How far the task is when files were collected.
LEMMA PastKnown ==
  ASSUME KScalars
  PROVE  /\ Past("collect_impls") <=> task \in AfterImpls \cup {"scored", "raised"}
         /\ Past("collect_best") <=> task \in AfterBest \cup {"scored", "raised"}
         /\ Past("collect_artifacts") <=> task \in AfterArtifacts \cup {"scored", "raised"}
<1>1. /\ DOMAIN Stages = 1..10
      /\ Stages[1] = "agent" /\ Stages[2] = "cleanup" /\ Stages[3] = "collect_impls"
      /\ Stages[4] = "collect_best" /\ Stages[5] = "collect_artifacts" /\ Stages[6] = "collect_state"
      /\ Stages[7] = "decide" /\ Stages[8] = "recheck" /\ Stages[9] = "scored" /\ Stages[10] = "raised"
  BY DEF Stages
<1>2. PICK k \in 1..10 : task = Stages[k]
  BY <1>1 DEF KScalars, StageNames
<1>3. \A i, j \in 1..10 : Stages[i] = Stages[j] => i = j
  BY <1>1
<1>4. \A i \in 1..10 : Past(Stages[i]) <=> i < k
  BY <1>1, <1>2, <1>3 DEF Past
<1>5. /\ task \in AfterImpls \cup {"scored", "raised"} <=> 3 < k
      /\ task \in AfterBest \cup {"scored", "raised"} <=> 4 < k
      /\ task \in AfterArtifacts \cup {"scored", "raised"} <=> 5 < k
  BY <1>1, <1>2 DEF AfterImpls, AfterBest, AfterArtifacts
<1>6. QED BY <1>1, <1>4, <1>5

\* The type invariant follows.
LEMMA KTypes == KData => KTypeOK
<1> SUFFICES ASSUME KData PROVE KTypeOK
  OBVIOUS
<1>1. {Stages[k] : k \in DOMAIN Stages} = StageNames
  BY DEF Stages, StageNames
<1>2. task \in {Stages[k] : k \in DOMAIN Stages} /\ stale \subseteq {Stages[k] : k \in DOMAIN Stages}
  BY <1>1 DEF KData, KScalars, KStale
<1>3. \A c \in Calls : held[c] # None <=> process[c] \in {"verifying", "winning", "half"}
  BY MetricsKnown DEF KData, KProcesses
<1>4. QED BY <1>2, <1>3 DEF KData, KScalars, KFiles, KProcesses, KHooks, KTypeOK, Maybe

\* The task and the hooks go through their stages.
LEMMA ScalarsKept ==
  ASSUME KScalars, [KNext]_kvars
  PROVE  KScalars'
<1>1. ASSUME UNCHANGED <<task, message, hook, overlapped, torn>>
      PROVE  KScalars'
  BY <1>1 DEF KScalars, StageNames
<1>2. ASSUME \/ \E i \in Impls : Edit(i)
             \/ \E c \in Calls : Stage(c) \/ BeginVerify(c) \/ EndVerify(c) \/ VerifyFails(c) \/ Benchmark(c) \/ Compare(c) \/ ReplaceImpl(c) \/ ReplaceMetrics(c)
             \/ UNCHANGED kvars
      PROVE  UNCHANGED <<task, message, hook, overlapped, torn>>
  BY <1>2 DEF Edit, Stage, BeginVerify, EndVerify, VerifyFails, Benchmark, Compare, ReplaceImpl,
    ReplaceMetrics, AgentFree, ProcessGoes, kvars, agentvars, hookvars, taskvars, notes
<1>3. ASSUME NextMessage PROVE KScalars'
  BY <1>3, KernelAssumption DEF NextMessage, AgentFree, KScalars, taskvars, hookvars, notes
<1>4. ASSUME NEW c \in Calls, Pre(c) PROVE KScalars'
  BY <1>4 DEF Pre, AgentFree, ProcessGoes, KScalars, StageNames, agentvars, hookvars, taskvars, notes
<1>5. ASSUME NEW c \in Calls, KillVerifier(c) PROVE KScalars'
  BY <1>5 DEF KillVerifier, ProcessGoes, Trouble, KScalars, StageNames, agentvars, hookvars, taskvars,
    notes
<1>6. ASSUME LeaveBehind PROVE KScalars'
  BY <1>6 DEF LeaveBehind, Trouble, KScalars, StageNames, agentvars, hookvars, taskvars, notes
<1>7. ASSUME ToolReturns PROVE KScalars'
  BY <1>7 DEF ToolReturns, KScalars, StageNames, agentvars, hookvars, taskvars, notes
<1>8. ASSUME Bind PROVE KScalars'
  BY <1>8 DEF Bind, KScalars, StageNames, agentvars, hookvars, taskvars, notes
<1>9. ASSUME Finish PROVE KScalars'
  BY <1>9 DEF Finish, KScalars, StageNames, agentvars, hookvars, taskvars, notes
<1>10. ASSUME AgentEnds PROVE KScalars'
  BY <1>10 DEF AgentEnds, TaskGoes, KScalars, StageNames, agentvars, hookvars, taskvars, notes
<1>11. ASSUME Cleanup PROVE KScalars'
  BY <1>11 DEF Cleanup, TaskGoes, KScalars, StageNames, agentvars, hookvars, taskvars, notes
<1>12. ASSUME CollectImpls PROVE KScalars'
  BY <1>12 DEF CollectImpls, Collects, TaskGoes, KScalars, StageNames, agentvars, hookvars, taskvars,
    notes
<1>13. ASSUME CollectBest PROVE KScalars'
  BY <1>13 DEF CollectBest, Collects, TaskGoes, KScalars, StageNames, agentvars, hookvars, taskvars, notes
<1>14. ASSUME CollectArtifacts PROVE KScalars'
  BY <1>14 DEF CollectArtifacts, Collects, TaskGoes, KScalars, StageNames, agentvars, hookvars, taskvars,
    notes
<1>15. ASSUME CollectState PROVE KScalars'
  BY <1>15 DEF CollectState, Collects, TaskGoes, KScalars, StageNames, agentvars, hookvars, taskvars,
    notes
<1>16. ASSUME ScoreBestPair PROVE KScalars'
  BY <1>16 DEF ScoreBestPair, Scores, TaskGoes, KScalars, StageNames, agentvars, hookvars, taskvars, notes
<1>17. ASSUME Recover PROVE KScalars'
  BY <1>17 DEF Recover, TaskGoes, KScalars, StageNames, agentvars, hookvars, taskvars, notes
<1>18. ASSUME Recheck PROVE KScalars'
  BY <1>18 DEF Recheck, Scores, TaskGoes, KScalars, StageNames, agentvars, hookvars, taskvars, notes
<1>19. ASSUME ScoreOther PROVE KScalars'
  BY <1>19 DEF ScoreOther, Scores, TaskGoes, KScalars, StageNames, agentvars, hookvars, taskvars, notes
<1>20. ASSUME TaskFails PROVE KScalars'
  BY <1>20 DEF TaskFails, TaskGoes, KScalars, StageNames, agentvars, hookvars, taskvars, notes
<1>21. QED BY <1>1, <1>2, <1>3, <1>4, <1>5, <1>6, <1>7, <1>8, <1>9, <1>10, <1>11, <1>12, <1>13, <1>14,
       <1>15, <1>16, <1>17, <1>18, <1>19, <1>20 DEF KNext, VerifierStep

\* What the files hold.
LEMMA FilesTyped ==
  ASSUME KScalars, KFiles, KProcesses, KHooks, KSnapshot, [KNext]_kvars
  PROVE  KFiles'
<1>1. ASSUME UNCHANGED <<current, staged, bestImpl, written, result, perf, best, reached>>
      PROVE  KFiles'
  BY <1>1 DEF KFiles, Maybe
<1>2. ASSUME \/ NextMessage \/ LeaveBehind \/ ToolReturns \/ Bind \/ AgentEnds \/ CollectImpls
             \/ CollectBest \/ CollectArtifacts \/ CollectState \/ ScoreBestPair \/ Recheck
             \/ ScoreOther \/ TaskFails
             \/ \E c \in Calls : Pre(c) \/ BeginVerify(c) \/ VerifyFails(c) \/ Compare(c) \/ KillVerifier(c)
             \/ UNCHANGED kvars
      PROVE  UNCHANGED <<current, staged, bestImpl, written, result, perf, best, reached>>
  BY <1>2 DEF NextMessage, Pre, BeginVerify, VerifyFails, Compare, KillVerifier, LeaveBehind,
    ToolReturns, Bind, AgentEnds, CollectImpls, CollectBest, CollectArtifacts, CollectState,
    ScoreBestPair, Recheck, ScoreOther, TaskFails, AgentFree, Collects, ProcessGoes, Scores,
    TaskGoes, Trouble, kvars, agentvars, artifacts, pair, notes
<1>3. ASSUME NEW i \in Impls, Edit(i) PROVE KFiles'
  <2>1. /\ current' = i /\ written' \in {written, [written EXCEPT ![i] = message]}
        /\ UNCHANGED <<staged, bestImpl, result, perf, best, reached>>
    BY <1>3 DEF Edit, artifacts, pair, notes
  <2>2. message \in NoIndex..(MaxMessages - 1)
    BY KernelAssumption DEF KScalars, NoIndex
  <2>3. QED BY <2>1, <2>2 DEF KFiles, Maybe
<1>4. ASSUME NEW c \in Calls, Stage(c) PROVE KFiles'
  <2>1. \/ UNCHANGED <<staged, result, perf>>
        \/ current # None /\ staged' = current /\ result' = None /\ perf' = FALSE
    BY <1>4 DEF Stage, artifacts
  <2>2. UNCHANGED <<current, written, bestImpl, best, reached>>
    BY <1>4 DEF Stage, agentvars, pair, notes
  <2>3. CASE UNCHANGED <<staged, result, perf>>
    BY <2>2, <2>3 DEF KFiles
  <2>4. CASE current # None /\ staged' = current /\ result' = None /\ perf' = FALSE
    <3>1. staged' \in Maybe(Impls) /\ result' \in Maybe(ResultSet)
      BY <2>4 DEF KFiles, Maybe
    <3>2. perf' \in BOOLEAN /\ (perf' => result' # None)
      BY <2>4
    <3>3. QED BY <2>2, <3>1, <3>2 DEF KFiles
  <2>5. QED BY <2>1, <2>3, <2>4
<1>5. ASSUME NEW c \in Calls, EndVerify(c) PROVE KFiles'
  <2>1. PICK r \in Ranks[held[c]] : result' = [rank |-> r, of |-> held[c]]
    BY <1>5 DEF EndVerify
  <2>2. /\ process[c] = "verifying"
        /\ UNCHANGED <<staged, current, written, bestImpl, best, reached, perf>>
    BY <1>5 DEF EndVerify, agentvars, pair, notes
  <2>3. held[c] \in Impls /\ r \in 0..2
    BY <2>1, <2>2, KernelAssumption DEF KProcesses
  <2>4. result' \in ResultSet /\ result' # None
    BY <2>1, <2>3, MetricsKnown DEF ResultSet
  <2>5. QED BY <2>2, <2>4 DEF KFiles, Maybe
<1>6. ASSUME NEW c \in Calls, Benchmark(c) PROVE KFiles'
  BY <1>6 DEF Benchmark, ProcessGoes, KFiles, Maybe, agentvars, artifacts, pair, notes
<1>7. ASSUME NEW c \in Calls, ReplaceImpl(c) PROVE KFiles'
  <2>1. /\ process[c] = "winning" /\ bestImpl' = held[c].claim
        /\ UNCHANGED <<staged, current, written, result, best, reached, perf>>
    BY <1>7 DEF ReplaceImpl, artifacts, agentvars, notes
  <2>2. held[c].claim \in Impls
    BY <2>1, MetricsKnown DEF KProcesses
  <2>3. QED BY <2>1, <2>2 DEF KFiles, Maybe
<1>8. ASSUME NEW c \in Calls, ReplaceMetrics(c) PROVE KFiles'
  <2>1. /\ process[c] = "half" /\ best' = held[c]
        /\ reached' \in {RankOf(held[c]), reached}
        /\ UNCHANGED <<staged, current, written, bestImpl, result, perf>>
    BY <1>8 DEF ReplaceMetrics, artifacts, agentvars
  <2>2. held[c] \in MetricSet
    BY <2>1 DEF KProcesses
  <2>3. RankOf(held[c]) \in NoIndex..3
    BY <2>2, MetricsKnown DEF NoIndex
  <2>4. QED BY <2>1, <2>2, <2>3 DEF KFiles, Maybe
<1>9. ASSUME Finish PROVE KFiles'
  <2>1. /\ hook = "bound" /\ best' \in {best, before.annotated}
        /\ UNCHANGED <<staged, current, written, bestImpl, result, perf, reached>>
    BY <1>9 DEF Finish, artifacts, agentvars
  <2>2. before.annotated \in Maybe(MetricSet)
    BY <2>1 DEF KHooks
  <2>3. QED BY <2>1, <2>2 DEF KFiles
<1>10. ASSUME Cleanup PROVE KFiles'
  BY <1>10 DEF Cleanup, TaskGoes, KFiles, Maybe, agentvars, artifacts, pair, notes
<1>11. ASSUME Recover PROVE KFiles'
  <2>1. /\ task = "decide" /\ snapshot.result # None /\ snapshot.staged # None
        /\ \/ UNCHANGED pair
           \/ /\ bestImpl' = snapshot.staged
              /\ best' = [Metrics(snapshot.result, snapshot.perf) EXCEPT !.claim = snapshot.staged]
        /\ UNCHANGED <<staged, current, written, result, perf, reached>>
    BY <1>11 DEF Recover, ArtifactsUsable, artifacts, agentvars, notes
  <2>2. /\ snapshot.result \in ResultSet /\ snapshot.perf \in BOOLEAN
        /\ snapshot.staged \in Impls
    BY <2>1 DEF KSnapshot, AfterImpls, AfterBest, AfterArtifacts, Maybe
  <2>3. [Metrics(snapshot.result, snapshot.perf) EXCEPT !.claim = snapshot.staged] \in MetricSet
    BY <2>2, MetricsKnown
  <2>4. QED BY <2>1, <2>2, <2>3 DEF KFiles, Maybe, pair
<1>12. QED BY <1>1, <1>2, <1>3, <1>4, <1>5, <1>6, <1>7, <1>8, <1>9, <1>10, <1>11 DEF KNext, VerifierStep

\* What the verifiers hold, by their stage.
LEMMA ProcessesKept ==
  ASSUME KScalars, KFiles, KProcesses, [KNext]_kvars
  PROVE  KProcesses'
<1>1. ASSUME UNCHANGED <<process, held, calls, troubles>>
      PROVE  KProcesses'
  BY <1>1 DEF KProcesses, Calls
<1>2. ASSUME \/ \E i \in Impls : Edit(i)
             \/ NextMessage \/ ToolReturns \/ Bind \/ Finish \/ AgentEnds \/ CollectImpls
             \/ CollectBest \/ CollectArtifacts \/ CollectState \/ ScoreBestPair \/ Recover
             \/ Recheck \/ ScoreOther \/ TaskFails \/ UNCHANGED kvars
      PROVE  UNCHANGED <<process, held, calls, troubles>>
  BY <1>2 DEF NextMessage, Edit, ToolReturns, Bind, Finish, AgentEnds, CollectImpls, CollectBest,
    CollectArtifacts, CollectState, ScoreBestPair, Recover, Recheck, ScoreOther, TaskFails,
    AgentFree, Collects, Scores, TaskGoes, kvars, verifier, hookvars, notes
<1>3. ASSUME NEW c \in Calls, Pre(c) PROVE KProcesses'
  <2>1. /\ c = calls + 1 /\ calls' = c /\ troubles' = troubles /\ c + troubles <= MaxEvents
        /\ process' = [process EXCEPT ![c] = "starting"] /\ held' = held
    BY <1>3 DEF Pre, ProcessGoes, notes
  <2>2. process[c] = "idle"
    BY <2>1 DEF KProcesses, Calls
  <2>3. QED BY <2>1, <2>2, KernelAssumption DEF KProcesses, Calls
<1>4. ASSUME NEW c \in Calls, Stage(c) PROVE KProcesses'
  <2>1. /\ process[c] = "starting" /\ held' = held /\ calls' = calls /\ troubles' = troubles
        /\ process' \in {[process EXCEPT ![c] = "staged"], [process EXCEPT ![c] = "ended"]}
    BY <1>4 DEF Stage, ProcessGoes, hookvars, notes
  <2>2. QED BY <2>1 DEF KProcesses
<1>5. ASSUME NEW c \in Calls, BeginVerify(c) PROVE KProcesses'
  <2>1. /\ process[c] = "staged" /\ held' = [held EXCEPT ![c] = staged] /\ staged # None
        /\ calls' = calls /\ troubles' = troubles
        /\ process' = [process EXCEPT ![c] = "verifying"]
    BY <1>5 DEF BeginVerify, ProcessGoes, hookvars, notes
  <2>2. staged \in Impls
    BY <2>1 DEF KFiles, Maybe
  <2>3. QED BY <2>1, <2>2 DEF KProcesses
<1>6. ASSUME NEW c \in Calls, EndVerify(c) PROVE KProcesses'
  BY <1>6, KernelAssumption DEF EndVerify, ProcessGoes, KProcesses, Calls, verifier, hookvars, notes
<1>7. ASSUME NEW c \in Calls, VerifyFails(c) PROVE KProcesses'
  BY <1>7, KernelAssumption DEF VerifyFails, ProcessGoes, KProcesses, Calls, verifier, hookvars, notes
<1>8. ASSUME NEW c \in Calls, Benchmark(c) PROVE KProcesses'
  BY <1>8, KernelAssumption DEF Benchmark, ProcessGoes, KProcesses, Calls, verifier, hookvars, notes
<1>9. ASSUME NEW c \in Calls, Compare(c) PROVE KProcesses'
  <2>1. process[c] = "measured" /\ calls' = calls /\ troubles' = troubles
    BY <1>9 DEF Compare, hookvars, notes
  <2>2. \/ process' = [process EXCEPT ![c] = "ended"] /\ held' = held
        \/ /\ process' = [process EXCEPT ![c] = "winning"] /\ result # None /\ staged # None
           /\ held' = [held EXCEPT ![c] = Metrics(result, perf)]
    BY <1>9 DEF Compare, ProcessGoes
  <2>3. result # None /\ staged # None => Metrics(result, perf) \in MetricSet
    BY MetricsKnown DEF KFiles, Maybe
  <2>4. CASE process' = [process EXCEPT ![c] = "ended"] /\ held' = held
    BY <2>1, <2>4 DEF KProcesses
  <2>5. CASE /\ process' = [process EXCEPT ![c] = "winning"] /\ result # None /\ staged # None
             /\ held' = [held EXCEPT ![c] = Metrics(result, perf)]
    BY <2>1, <2>3, <2>5 DEF KProcesses
  <2>6. QED BY <2>2, <2>4, <2>5
<1>10. ASSUME NEW c \in Calls, ReplaceImpl(c) PROVE KProcesses'
  BY <1>10, KernelAssumption DEF ReplaceImpl, ProcessGoes, KProcesses, Calls, verifier, hookvars, notes
<1>11. ASSUME NEW c \in Calls, ReplaceMetrics(c) PROVE KProcesses'
  BY <1>11, KernelAssumption DEF ReplaceMetrics, ProcessGoes, KProcesses, Calls, verifier, hookvars, notes
<1>12. ASSUME NEW c \in Calls, KillVerifier(c) PROVE KProcesses'
  <2>1. /\ process[c] \notin {"idle", "ended"} /\ calls' = calls
        /\ process' = [process EXCEPT ![c] = "ended"] /\ held' = [held EXCEPT ![c] = None]
        /\ calls + troubles < MaxEvents /\ troubles' = troubles + 1
    BY <1>12 DEF KillVerifier, Live, ProcessGoes, Trouble, hookvars
  <2>2. QED BY <2>1, KernelAssumption DEF KProcesses
<1>13. ASSUME LeaveBehind PROVE KProcesses'
  BY <1>13, KernelAssumption DEF LeaveBehind, Trouble, KProcesses, Calls, verifier, hookvars, notes
<1>14. ASSUME Cleanup PROVE KProcesses'
  <2>1. PICK leased \in SUBSET {c \in Calls : process[c] \in {"staged", "verifying", "verified"}} :
          /\ \A c \in Calls : process[c] = "verifying" => c \in leased
          /\ process' = [c \in Calls |->
               IF c \notin leased THEN process[c]
               ELSE IF process[c] = "verified" THEN "measured" ELSE "verified"]
    BY <1>14 DEF Cleanup
  <2>2. /\ held' = [c \in Calls |-> IF process[c] = "verifying" THEN None ELSE held[c]]
        /\ calls' = calls /\ troubles' = troubles
    BY <1>14 DEF Cleanup, hookvars, notes
  <2>3. /\ process' \in [Calls -> {"idle", "starting", "staged", "verifying", "verified",
                                   "measured", "winning", "half", "ended"}]
        /\ held' \in [Calls -> Impls \cup MetricSet \cup {None}]
    BY <2>1, <2>2 DEF KProcesses
  <2>4. ASSUME NEW c \in Calls
        PROVE  /\ CASE process'[c] = "verifying" -> held'[c] \in Impls
                      [] process'[c] \in {"winning", "half"} -> held'[c] \in MetricSet
                      [] OTHER -> held'[c] = None
               /\ process'[c] = "idle" <=> c > calls
    <3>1. CASE c \in leased
      BY <2>1, <2>2, <3>1 DEF KProcesses
    <3>2. CASE c \notin leased
      BY <2>1, <2>2, <3>2 DEF KProcesses
    <3>3. QED BY <3>1, <3>2
  <2>5. QED BY <2>2, <2>3, <2>4 DEF KProcesses
<1>15. QED BY <1>1, <1>2, <1>3, <1>4, <1>5, <1>6, <1>7, <1>8, <1>9, <1>10, <1>11, <1>12, <1>13, <1>14 DEF KNext, VerifierStep

\* What the hooks hold, and the counts of the calls that are over.
LEMMA HooksKept ==
  ASSUME KScalars, KFiles, KProcesses, KHooks, [KNext]_kvars
  PROVE  KHooks'
<1>1. ASSUME UNCHANGED <<hook, before, message, unimproved, progress, calls>>
      PROVE  KHooks'
  BY <1>1 DEF KHooks
<1>2. ASSUME \/ \E i \in Impls : Edit(i)
             \/ AgentEnds \/ Cleanup \/ CollectImpls \/ CollectBest \/ CollectArtifacts
             \/ CollectState \/ ScoreBestPair \/ Recover \/ Recheck \/ ScoreOther \/ TaskFails
             \/ \E c \in Calls : Stage(c) \/ BeginVerify(c) \/ EndVerify(c) \/ VerifyFails(c) \/ Benchmark(c) \/ Compare(c) \/ ReplaceImpl(c) \/ KillVerifier(c)
             \/ UNCHANGED kvars
      PROVE  UNCHANGED <<hook, before, message, unimproved, progress, calls>>
  BY <1>2 DEF Edit, Stage, BeginVerify, EndVerify, VerifyFails, Benchmark, Compare, ReplaceImpl,
    KillVerifier, AgentEnds, Cleanup, CollectImpls, CollectBest, CollectArtifacts,
    CollectState, ScoreBestPair, Recover, Recheck, ScoreOther, TaskFails, AgentFree, Collects,
    ProcessGoes, Scores, TaskGoes, Trouble, kvars, agentvars, hookvars, control, notes
<1>3. ASSUME NextMessage PROVE KHooks'
  BY <1>3 DEF NextMessage, AgentFree, KHooks, agentvars, hookvars, control, notes
<1>4. ASSUME NEW c \in Calls, Pre(c) PROVE KHooks'
  <2>1. /\ hook = "none" /\ hook' = "running" /\ calls' = calls + 1 /\ UNCHANGED <<progress, unimproved>>
        /\ before' = [index |-> message, best |-> best, impl |-> bestImpl] /\ message' = message
    BY <1>4 DEF Pre, AgentFree, agentvars, control, notes
  <2>2. before' \in [index : {message}, best : Maybe(MetricSet), impl : Maybe(Impls)]
    BY <2>1 DEF KFiles
  <2>3. calls \in 0..MaxEvents
    BY DEF KProcesses
  <2>4. QED BY <2>1, <2>2, <2>3 DEF KHooks
<1>5. ASSUME NEW c \in Calls, ReplaceMetrics(c) PROVE KHooks'
  BY <1>5 DEF ReplaceMetrics, ProcessGoes, KHooks, agentvars, hookvars, control, notes
<1>6. ASSUME LeaveBehind PROVE KHooks'
  BY <1>6 DEF LeaveBehind, Trouble, KHooks, agentvars, hookvars, control, notes
<1>7. ASSUME ToolReturns PROVE KHooks'
  BY <1>7 DEF ToolReturns, KHooks, agentvars, hookvars, control, notes
<1>8. ASSUME Bind PROVE KHooks'
  <2>1. /\ hook = "returned" /\ hook' = "bound" /\ UNCHANGED <<message, calls, progress, unimproved>>
    BY <1>8 DEF Bind, agentvars, control, notes
  <2>2. before \in [index : {message}, best : Maybe(MetricSet), impl : Maybe(Impls)]
    BY <2>1 DEF KHooks
  <2>3. PICK annotated :
          /\ \E improved, correct \in BOOLEAN :
               before' = [index |-> before.index, improved |-> improved, correct |-> correct,
                          annotated |-> annotated]
          /\ \/ annotated = None
             \/ /\ best # None /\ bestImpl # None /\ Note # None
                /\ annotated = [best EXCEPT !.index = Note.index, !.noteOf = Note.noteOf]
    <3>1. (best # None /\ bestImpl # None /\ best # before.best) \in BOOLEAN /\ FullyCorrect(before.best) \in BOOLEAN
      BY DEF FullyCorrect
    <3>2. QED BY <1>8, <3>1 DEF Bind
  <2>4. best # None /\ bestImpl # None /\ Note # None =>
          [best EXCEPT !.index = Note.index, !.noteOf = Note.noteOf] \in MetricSet
    <3>1. SUFFICES ASSUME best # None, bestImpl # None, Note # None
                   PROVE  [best EXCEPT !.index = Note.index, !.noteOf = Note.noteOf] \in MetricSet
      OBVIOUS
    <3>2. best \in MetricSet /\ bestImpl \in Maybe(Impls) /\ message \in NoIndex..(MaxMessages - 1)
      BY <3>1 DEF KFiles, KScalars, Maybe, NoIndex
    <3>3. before.best # None => before.best.index \in NoIndex..(MaxMessages - 1)
      BY <2>2, MetricsKnown DEF Maybe
    <3>4. Note.index \in NoIndex..(MaxMessages - 1) /\ Note.noteOf = bestImpl
      BY <2>2, <3>1, <3>2, <3>3 DEF Note
    <3>5. QED BY <3>2, <3>4 DEF MetricSet, Maybe
  <2>5. annotated \in Maybe(MetricSet)
    BY <2>3, <2>4 DEF Maybe
  <2>6. before' \in [index : {message}, improved : BOOLEAN, correct : BOOLEAN, annotated : Maybe(MetricSet)]
    BY <2>2, <2>3, <2>5
  <2>7. QED BY <2>1, <2>6 DEF KHooks
<1>9. ASSUME Finish PROVE KHooks'
  <2>1. PICK mode \in {"correctness", "latency"} : \E count :
          /\ count \in {0, progress[mode] + 1}
          /\ progress' = [progress EXCEPT !.count = @ + 1, ![mode] = count]
    BY <1>9 DEF Finish, StaleCount, Mode
  <2>a. PICK count :
          /\ count \in {0, progress[mode] + 1}
          /\ progress' = [progress EXCEPT !.count = @ + 1, ![mode] = count]
    BY <2>1
  <2>2. /\ hook = "bound" /\ hook' = "none" /\ unimproved' = unimproved + 1
        /\ UNCHANGED <<message, calls>>
    BY <1>9 DEF Finish, agentvars
  <2>3. /\ progress \in [{"count", "correctness", "latency"} -> 0..MaxEvents]
        /\ progress.count + 1 <= calls /\ calls \in 0..MaxEvents /\ MaxEvents \in Nat
        /\ progress["correctness"] <= progress.count /\ progress["latency"] <= progress.count
    BY <2>2, KernelAssumption DEF KHooks, KProcesses
  <2>4. count \in 0..progress.count + 1 /\ progress.count \in 0..MaxEvents
    BY <2>3, <2>a
  <2>5. /\ progress' \in [{"count", "correctness", "latency"} -> 0..MaxEvents]
        /\ progress'.count = progress.count + 1 /\ progress'[mode] = count
        /\ \A m \in {"correctness", "latency"} : m # mode => progress'[m] = progress[m]
    BY <2>3, <2>4, <2>a
  <2>6. \A m \in {"correctness", "latency"} : progress'[m] <= progress'.count
    BY <2>3, <2>4, <2>5
  <2>7. unimproved' \in Int /\ unimproved' >= -1
    BY <2>2 DEF KHooks
  <2>8. QED BY <2>2, <2>3, <2>5, <2>6, <2>7 DEF KHooks
<1>10. QED BY <1>1, <1>2, <1>3, <1>4, <1>5, <1>6, <1>7, <1>8, <1>9 DEF KNext, VerifierStep

\* Collected files are named by their stage.
LEMMA StaleKept ==
  ASSUME KStale, [KNext]_kvars
  PROVE  KStale'
<1>1. ASSUME UNCHANGED stale
      PROVE  KStale'
  BY <1>1 DEF KStale, StageNames, Writes
<1>2. ASSUME \/ \E i \in Impls : Edit(i)
             \/ NextMessage \/ LeaveBehind \/ ToolReturns \/ Bind \/ Finish \/ AgentEnds
             \/ CollectImpls \/ CollectBest \/ CollectArtifacts \/ CollectState
             \/ ScoreBestPair \/ Recover \/ Recheck \/ ScoreOther \/ TaskFails
             \/ \E c \in Calls : Pre(c) \/ BeginVerify(c) \/ VerifyFails(c) \/ Compare(c) \/ KillVerifier(c)
             \/ UNCHANGED kvars
      PROVE  UNCHANGED stale
  BY <1>2 DEF NextMessage, Edit, Pre, BeginVerify, VerifyFails, Compare, KillVerifier, LeaveBehind,
    ToolReturns, Bind, Finish, AgentEnds, CollectImpls, CollectBest, CollectArtifacts,
    CollectState, ScoreBestPair, Recover, Recheck, ScoreOther, TaskFails, AgentFree, Collects,
    ProcessGoes, Scores, TaskGoes, Trouble, kvars
<1>3. ASSUME NEW c \in Calls, Stage(c) PROVE KStale'
  BY <1>3 DEF Stage, ProcessGoes, KStale, StageNames, Writes
<1>4. ASSUME NEW c \in Calls, EndVerify(c) PROVE KStale'
  BY <1>4 DEF EndVerify, ProcessGoes, KStale, StageNames, Writes
<1>5. ASSUME NEW c \in Calls, Benchmark(c) PROVE KStale'
  BY <1>5 DEF Benchmark, ProcessGoes, KStale, StageNames, Writes
<1>6. ASSUME NEW c \in Calls, ReplaceImpl(c) PROVE KStale'
  BY <1>6 DEF ReplaceImpl, ProcessGoes, KStale, StageNames, Writes
<1>7. ASSUME NEW c \in Calls, ReplaceMetrics(c) PROVE KStale'
  BY <1>7 DEF ReplaceMetrics, ProcessGoes, KStale, StageNames, Writes
<1>8. ASSUME Cleanup PROVE KStale'
  BY <1>8 DEF Cleanup, TaskGoes, KStale, StageNames, Writes
<1>9. QED BY <1>1, <1>2, <1>3, <1>4, <1>5, <1>6, <1>7, <1>8 DEF KNext, VerifierStep

\* What the task has collected so far.
LEMMA SnapshotKept ==
  ASSUME KScalars, KFiles, KSnapshot, [KNext]_kvars
  PROVE  KSnapshot'
<1>1. ASSUME UNCHANGED <<task, snapshot>>
      PROVE  KSnapshot'
  BY <1>1 DEF KSnapshot, AfterImpls, AfterBest, AfterArtifacts, KFiles, Maybe
<1>2. ASSUME \/ \E i \in Impls : Edit(i)
             \/ NextMessage \/ LeaveBehind \/ ToolReturns \/ Bind \/ Finish
             \/ \E c \in Calls : Pre(c) \/ Stage(c) \/ BeginVerify(c) \/ EndVerify(c) \/ VerifyFails(c) \/ Benchmark(c) \/ Compare(c) \/ ReplaceImpl(c) \/ ReplaceMetrics(c) \/ KillVerifier(c)
             \/ UNCHANGED kvars
      PROVE  UNCHANGED <<task, snapshot>>
  BY <1>2 DEF NextMessage, Edit, Pre, Stage, BeginVerify, EndVerify, VerifyFails, Benchmark, Compare,
    ReplaceImpl, ReplaceMetrics, KillVerifier, LeaveBehind, ToolReturns, Bind, Finish,
    AgentFree, ProcessGoes, Trouble, kvars, taskvars
<1>3. ASSUME AgentEnds PROVE KSnapshot'
  BY <1>3 DEF AgentEnds, TaskGoes, KSnapshot, AfterImpls, AfterBest, AfterArtifacts, KFiles, Maybe,
    taskvars
<1>4. ASSUME Cleanup PROVE KSnapshot'
  BY <1>4 DEF Cleanup, TaskGoes, KSnapshot, AfterImpls, AfterBest, AfterArtifacts, KFiles, Maybe,
    taskvars
<1>5. ASSUME CollectImpls PROVE KSnapshot'
  BY <1>5 DEF CollectImpls, Collects, TaskGoes, KSnapshot, AfterImpls, AfterBest, AfterArtifacts, KFiles,
    Maybe, taskvars
<1>6. ASSUME CollectBest PROVE KSnapshot'
  BY <1>6 DEF CollectBest, Collects, TaskGoes, KSnapshot, AfterImpls, AfterBest, AfterArtifacts, KFiles,
    Maybe, taskvars
<1>7. ASSUME CollectArtifacts PROVE KSnapshot'
  BY <1>7 DEF CollectArtifacts, Collects, TaskGoes, KSnapshot, AfterImpls, AfterBest, AfterArtifacts,
    KFiles, Maybe, taskvars
<1>8. ASSUME CollectState PROVE KSnapshot'
  BY <1>8 DEF CollectState, Collects, TaskGoes, KSnapshot, AfterImpls, AfterBest, AfterArtifacts, KFiles,
    Maybe, taskvars
<1>9. ASSUME ScoreBestPair PROVE KSnapshot'
  BY <1>9 DEF ScoreBestPair, Scores, TaskGoes, KSnapshot, AfterImpls, AfterBest, AfterArtifacts, KFiles,
    Maybe, taskvars
<1>10. ASSUME Recover PROVE KSnapshot'
  <2>1. /\ task = "decide" /\ task' \in {"raised", "recheck"} /\ snapshot' = snapshot
        /\ snapshot.result # None /\ snapshot.staged # None
    BY <1>10 DEF Recover, ArtifactsUsable, TaskGoes
  <2>2. QED BY <2>1 DEF KSnapshot, AfterImpls, AfterBest, AfterArtifacts
<1>11. ASSUME Recheck PROVE KSnapshot'
  BY <1>11 DEF Recheck, Scores, TaskGoes, KSnapshot, AfterImpls, AfterBest, AfterArtifacts, KFiles, Maybe,
    taskvars
<1>12. ASSUME ScoreOther PROVE KSnapshot'
  BY <1>12 DEF ScoreOther, Scores, TaskGoes, KSnapshot, AfterImpls, AfterBest, AfterArtifacts, KFiles,
    Maybe, taskvars
<1>13. ASSUME TaskFails PROVE KSnapshot'
  BY <1>13 DEF TaskFails, TaskGoes, KSnapshot, AfterImpls, AfterBest, AfterArtifacts, KFiles, Maybe,
    taskvars
<1>14. QED BY <1>1, <1>2, <1>3, <1>4, <1>5, <1>6, <1>7, <1>8, <1>9, <1>10, <1>11, <1>12, <1>13 DEF KNext, VerifierStep

\* Nothing appears that was not written.
LEMMA KnownKept ==
  ASSUME KScalars, KFiles, KProcesses, KKnown, [KNext]_kvars
  PROVE  KKnown'
<1>1. ASSUME UNCHANGED <<message, current, written, staged, bestImpl, process, held, task>>
      PROVE  KKnown'
  BY <1>1 DEF KKnown, Known, Unsettled
<1>2. ASSUME \/ LeaveBehind \/ ToolReturns \/ Bind \/ Finish \/ UNCHANGED kvars
      PROVE  UNCHANGED <<message, current, written, staged, bestImpl, process, held, task>>
  BY <1>2 DEF LeaveBehind, ToolReturns, Bind, Finish, Trouble, kvars, agentvars, verifier, artifacts,
    pair, taskvars
<1>3. ASSUME NextMessage PROVE KKnown'
  <2>1. message' = message + 1 /\ UNCHANGED <<current, written, staged, bestImpl, process, held, task>>
    BY <1>3 DEF NextMessage, agentvars, verifier, artifacts, pair, taskvars
  <2>2. \A i \in Impls : written[i] <= message + 1
    BY KernelAssumption DEF KKnown, KFiles, KScalars, NoIndex
  <2>3. QED BY <2>1, <2>2 DEF KKnown, Known, Unsettled
<1>4. ASSUME NEW i \in Impls, Edit(i) PROVE KKnown'
  <2>1. /\ current' = i
        /\ written' = IF written[i] = NoIndex THEN [written EXCEPT ![i] = message] ELSE written
        /\ UNCHANGED <<message, staged, bestImpl, process, held, task>>
    BY <1>4 DEF Edit, verifier, artifacts, pair, taskvars
  <2>2. /\ \A j \in Impls : written'[j] = written[j] \/ written'[j] = message
        /\ written'[i] # NoIndex /\ \A j \in Impls : written[j] # NoIndex => written'[j] = written[j]
        /\ message # NoIndex /\ message <= message
    BY <2>1, KernelAssumption DEF KFiles, KScalars, NoIndex
  <2>3. /\ \A c \in Calls : process[c] \in {"winning", "half"} => held[c].claim \in Impls
        /\ {staged, bestImpl} \subseteq Maybe(Impls)
    BY MetricsKnown DEF KProcesses, KFiles
  <2>4. \A j \in Maybe(Impls) : Known(j) => Known(j)'
    BY <2>2 DEF Known, Maybe
  <2>5. \A j \in Impls : written'[j] <= message'
    BY <2>1, <2>2 DEF KKnown
  <2>6. \A c \in Calls : process'[c] \in {"winning", "half"} => Known(held[c].claim)' /\ held[c].noteOf = None
    BY <2>1, <2>3, <2>4 DEF KKnown, Maybe
  <2>7. Known(current)' /\ Known(staged)' /\ (Unsettled => Known(bestImpl)')
    <3>1. Known(current)'
      BY <2>1, <2>2 DEF Known
    <3>2. Known(staged)' /\ (Unsettled => Known(bestImpl)')
      BY <2>1, <2>3, <2>4 DEF KKnown, Known
    <3>3. QED BY <3>1, <3>2
  <2>8. QED BY <2>1, <2>2, <2>5, <2>6, <2>7 DEF KKnown, Known, Unsettled
<1>5. ASSUME NEW c \in Calls, Pre(c) PROVE KKnown'
  BY <1>5 DEF Pre, AgentFree, ProcessGoes, KKnown, Known, Unsettled, agentvars, verifier, artifacts,
    pair, taskvars
<1>6. ASSUME NEW c \in Calls, Stage(c) PROVE KKnown'
  <2>1. /\ staged' \in {staged, current} /\ UNCHANGED <<message, current, written, bestImpl, held, task>>
        /\ process' \in {[process EXCEPT ![c] = "staged"], [process EXCEPT ![c] = "ended"]}
    BY <1>6 DEF Stage, ProcessGoes, agentvars, pair, taskvars, artifacts
  <2>2. process \in [Calls -> {"idle", "starting", "staged", "verifying", "verified",
                               "measured", "winning", "half", "ended"}]
    BY DEF KProcesses
  <2>3. QED BY <2>1, <2>2 DEF KKnown, Known, Unsettled
<1>7. ASSUME NEW c \in Calls, BeginVerify(c) PROVE KKnown'
  BY <1>7 DEF BeginVerify, ProcessGoes, KKnown, Known, Unsettled, agentvars, verifier, artifacts, pair,
    taskvars
<1>8. ASSUME NEW c \in Calls, EndVerify(c) PROVE KKnown'
  BY <1>8 DEF EndVerify, ProcessGoes, KKnown, Known, Unsettled, agentvars, verifier, artifacts, pair,
    taskvars
<1>9. ASSUME NEW c \in Calls, VerifyFails(c) PROVE KKnown'
  BY <1>9 DEF VerifyFails, ProcessGoes, KKnown, Known, Unsettled, agentvars, verifier, artifacts, pair,
    taskvars
<1>10. ASSUME NEW c \in Calls, Benchmark(c) PROVE KKnown'
  BY <1>10 DEF Benchmark, ProcessGoes, KKnown, Known, Unsettled, agentvars, verifier, artifacts, pair,
    taskvars
<1>11. ASSUME NEW c \in Calls, Compare(c) PROVE KKnown'
  <2>1. /\ UNCHANGED <<message, current, written, staged, bestImpl, task>>
        /\ \/ process' = [process EXCEPT ![c] = "ended"] /\ held' = held
           \/ process' = [process EXCEPT ![c] = "winning"] /\ held' = [held EXCEPT ![c] = Metrics(result, perf)]
    BY <1>11 DEF Compare, ProcessGoes, agentvars, pair, taskvars, artifacts
  <2>2. Metrics(result, perf).claim = staged /\ Metrics(result, perf).noteOf = None
    BY DEF Metrics
  <2>3. QED BY <2>1, <2>2 DEF KKnown, Known, Unsettled, KProcesses
<1>12. ASSUME NEW c \in Calls, ReplaceImpl(c) PROVE KKnown'
  BY <1>12 DEF ReplaceImpl, ProcessGoes, KKnown, Known, Unsettled, agentvars, verifier, artifacts, pair,
    taskvars
<1>13. ASSUME NEW c \in Calls, ReplaceMetrics(c) PROVE KKnown'
  <2>1. /\ UNCHANGED <<message, current, written, staged, bestImpl, task>>
        /\ process' = [process EXCEPT ![c] = "ended"] /\ held' = [held EXCEPT ![c] = None]
    BY <1>13 DEF ReplaceMetrics, ProcessGoes, agentvars, taskvars, artifacts
  <2>2. QED BY <2>1 DEF KKnown, Known, Unsettled, KProcesses
<1>14. ASSUME NEW c \in Calls, KillVerifier(c) PROVE KKnown'
  <2>1. /\ UNCHANGED <<message, current, written, staged, bestImpl, task>>
        /\ process' = [process EXCEPT ![c] = "ended"] /\ held' = [held EXCEPT ![c] = None]
    BY <1>14 DEF KillVerifier, ProcessGoes, agentvars, taskvars, artifacts, pair
  <2>2. QED BY <2>1 DEF KKnown, Known, Unsettled, KProcesses
<1>15. ASSUME AgentEnds PROVE KKnown'
  BY <1>15 DEF AgentEnds, TaskGoes, KKnown, Known, Unsettled, agentvars, verifier, artifacts, pair,
    taskvars
<1>16. ASSUME Cleanup PROVE KKnown'
  BY <1>16 DEF Cleanup, TaskGoes, KKnown, Known, Unsettled, agentvars, verifier, artifacts, pair, taskvars
<1>17. ASSUME CollectImpls PROVE KKnown'
  BY <1>17 DEF CollectImpls, Collects, TaskGoes, KKnown, Known, Unsettled, agentvars, verifier, artifacts,
    pair, taskvars
<1>18. ASSUME CollectBest PROVE KKnown'
  BY <1>18 DEF CollectBest, Collects, TaskGoes, KKnown, Known, Unsettled, agentvars, verifier, artifacts,
    pair, taskvars
<1>19. ASSUME CollectArtifacts PROVE KKnown'
  BY <1>19 DEF CollectArtifacts, Collects, TaskGoes, KKnown, Known, Unsettled, agentvars, verifier,
    artifacts, pair, taskvars
<1>20. ASSUME CollectState PROVE KKnown'
  BY <1>20 DEF CollectState, Collects, TaskGoes, KKnown, Known, Unsettled, agentvars, verifier, artifacts,
    pair, taskvars
<1>21. ASSUME ScoreBestPair PROVE KKnown'
  BY <1>21 DEF ScoreBestPair, Scores, TaskGoes, KKnown, Known, Unsettled, agentvars, verifier, artifacts,
    pair, taskvars
<1>22. ASSUME Recover PROVE KKnown'
  BY <1>22 DEF Recover, TaskGoes, KKnown, Known, Unsettled, agentvars, verifier, artifacts, pair, taskvars
<1>23. ASSUME Recheck PROVE KKnown'
  BY <1>23 DEF Recheck, Scores, TaskGoes, KKnown, Known, Unsettled, agentvars, verifier, artifacts, pair,
    taskvars
<1>24. ASSUME ScoreOther PROVE KKnown'
  BY <1>24 DEF ScoreOther, Scores, TaskGoes, KKnown, Known, Unsettled, agentvars, verifier, artifacts,
    pair, taskvars
<1>25. ASSUME TaskFails PROVE KKnown'
  BY <1>25 DEF TaskFails, TaskGoes, KKnown, Known, Unsettled, agentvars, verifier, artifacts, pair,
    taskvars
<1>26. QED BY <1>1, <1>2, <1>3, <1>4, <1>5, <1>6, <1>7, <1>8, <1>9, <1>10, <1>11, <1>12, <1>13, <1>14,
       <1>15, <1>16, <1>17, <1>18, <1>19, <1>20, <1>21, <1>22, <1>23, <1>24, <1>25 DEF KNext, VerifierStep

\* A note keeps its implementation and message.
LEMMA NotesKept ==
  ASSUME KScalars, KFiles, KProcesses, KHooks, KSnapshot, KKnown, KNotes, [KNext]_kvars
  PROVE  KNotes'
<1>1. ASSUME UNCHANGED <<written, best, hook, before, task, snapshot>>
      PROVE  KNotes'
  BY <1>1 DEF KNotes, NoteHolds, AfterBest, AfterImpls
<1>2. ASSUME \/ NextMessage
             \/ \E c \in Calls : Stage(c) \/ BeginVerify(c) \/ EndVerify(c) \/ VerifyFails(c) \/ Benchmark(c) \/ Compare(c) \/ ReplaceImpl(c) \/ KillVerifier(c)
             \/ UNCHANGED kvars
      PROVE  UNCHANGED <<written, best, hook, before, task, snapshot>>
  BY <1>2 DEF NextMessage, Stage, BeginVerify, EndVerify, VerifyFails, Benchmark, Compare, ReplaceImpl,
    KillVerifier, AgentFree, ProcessGoes, Trouble, kvars, agentvars, pair, hookvars, taskvars
<1>3. ASSUME NEW i \in Impls, Edit(i) PROVE KNotes'
  BY <1>3 DEF Edit, AgentFree, KNotes, NoteHolds, AfterBest, AfterImpls, agentvars, pair, hookvars,
    taskvars
<1>4. ASSUME NEW c \in Calls, Pre(c) PROVE KNotes'
  BY <1>4 DEF Pre, AgentFree, ProcessGoes, KNotes, NoteHolds, AfterBest, AfterImpls, agentvars, pair,
    hookvars, taskvars
<1>5. ASSUME NEW c \in Calls, ReplaceMetrics(c) PROVE KNotes'
  <2>1. /\ process[c] = "half" /\ best' = held[c] /\ UNCHANGED <<written, hook, before, task, snapshot>>
    BY <1>5 DEF ReplaceMetrics, agentvars, hookvars, taskvars
  <2>2. NoteHolds(best')
    BY <2>1 DEF KKnown, NoteHolds
  <2>3. QED BY <2>1, <2>2 DEF KNotes, NoteHolds, AfterBest, AfterImpls
<1>6. ASSUME LeaveBehind PROVE KNotes'
  BY <1>6 DEF LeaveBehind, Trouble, KNotes, NoteHolds, AfterBest, AfterImpls, agentvars, pair, hookvars,
    taskvars
<1>7. ASSUME ToolReturns PROVE KNotes'
  BY <1>7 DEF ToolReturns, KNotes, NoteHolds, AfterBest, AfterImpls, agentvars, pair, hookvars, taskvars
<1>8. ASSUME Bind PROVE KNotes'
  <2>1. /\ hook = "returned" /\ hook' = "bound" /\ UNCHANGED <<written, best, task, snapshot>>
        /\ \/ before'.annotated = None
           \/ /\ best # None /\ bestImpl # None /\ Note # None
              /\ before'.annotated = [best EXCEPT !.index = Note.index, !.noteOf = Note.noteOf]
    BY <1>8 DEF Bind, agentvars, pair, taskvars
  <2>2. /\ before \in [index : {message}, best : Maybe(MetricSet), impl : Maybe(Impls)]
        /\ NoteHolds(before.best)
    BY <2>1 DEF KHooks, KNotes
  <2>3. ASSUME best # None, bestImpl # None, Note # None,
               before'.annotated = [best EXCEPT !.index = Note.index, !.noteOf = Note.noteOf]
        PROVE  NoteHolds(before'.annotated)
    <3>1. best \in MetricSet /\ bestImpl \in Impls /\ task = "agent"
      BY <1>8, <2>3 DEF KFiles, Maybe, Bind
    <3>2. before'.annotated.index = Note.index /\ before'.annotated.noteOf = Note.noteOf
      BY <2>3, <3>1 DEF MetricSet
    <3>3. written[bestImpl] # NoIndex /\ written[bestImpl] <= message
      BY <2>3, <3>1 DEF KKnown, Known, Unsettled
    <3>4. \/ Note = [index |-> message, noteOf |-> bestImpl]
          \/ /\ before.best # None /\ before.best.noteOf = bestImpl
             /\ Note = [index |-> before.best.index, noteOf |-> bestImpl]
      BY <2>2, <2>3 DEF Note
    <3>5. Note.noteOf = bestImpl /\ written[bestImpl] <= Note.index
      BY <2>2, <2>3, <3>3, <3>4 DEF NoteHolds
    <3>6. QED BY <3>2, <3>3, <3>5 DEF NoteHolds
  <2>4. NoteHolds(before'.annotated)
    BY <2>1, <2>3 DEF NoteHolds
  <2>5. QED BY <2>1, <2>4 DEF KNotes, NoteHolds, AfterBest, AfterImpls
<1>9. ASSUME Finish PROVE KNotes'
  BY <1>9 DEF Finish, KNotes, NoteHolds, AfterBest, AfterImpls, agentvars, pair, hookvars, taskvars
<1>10. ASSUME AgentEnds PROVE KNotes'
  BY <1>10 DEF AgentEnds, TaskGoes, KNotes, NoteHolds, AfterBest, AfterImpls, agentvars, pair, hookvars,
    taskvars
<1>11. ASSUME Cleanup PROVE KNotes'
  BY <1>11 DEF Cleanup, TaskGoes, KNotes, NoteHolds, AfterBest, AfterImpls, agentvars, pair, hookvars,
    taskvars
<1>12. ASSUME CollectImpls PROVE KNotes'
  BY <1>12 DEF CollectImpls, Collects, TaskGoes, KNotes, NoteHolds, AfterBest, AfterImpls, agentvars,
    pair, hookvars, taskvars
<1>13. ASSUME CollectBest PROVE KNotes'
  BY <1>13 DEF CollectBest, Collects, TaskGoes, KNotes, NoteHolds, AfterBest, AfterImpls, agentvars, pair,
    hookvars, taskvars
<1>14. ASSUME CollectArtifacts PROVE KNotes'
  BY <1>14 DEF CollectArtifacts, Collects, TaskGoes, KNotes, NoteHolds, AfterBest, AfterImpls, agentvars,
    pair, hookvars, taskvars
<1>15. ASSUME CollectState PROVE KNotes'
  BY <1>15 DEF CollectState, Collects, TaskGoes, KNotes, NoteHolds, AfterBest, AfterImpls, agentvars,
    pair, hookvars, taskvars
<1>16. ASSUME ScoreBestPair PROVE KNotes'
  BY <1>16 DEF ScoreBestPair, Scores, TaskGoes, KNotes, NoteHolds, AfterBest, AfterImpls, agentvars, pair,
    hookvars, taskvars
<1>17. ASSUME Recover PROVE KNotes'
  <2>1. /\ task = "decide" /\ task' \in {"raised", "recheck"}
        /\ snapshot.result # None /\ snapshot.staged # None
        /\ \/ best' = best
           \/ best' = [Metrics(snapshot.result, snapshot.perf) EXCEPT !.claim = snapshot.staged]
        /\ UNCHANGED <<written, hook, before, snapshot>>
    BY <1>17 DEF Recover, ArtifactsUsable, TaskGoes, agentvars, pair, hookvars
  <2>2. /\ snapshot.result \in ResultSet /\ snapshot.perf \in BOOLEAN
        /\ snapshot.staged \in Impls
    BY <2>1 DEF KSnapshot, AfterImpls, AfterBest, AfterArtifacts, Maybe
  <2>3. [Metrics(snapshot.result, snapshot.perf) EXCEPT !.claim = snapshot.staged].noteOf = None
    BY <2>2, MetricsKnown
  <2>4. NoteHolds(best')
    BY <2>1, <2>3 DEF KNotes, NoteHolds
  <2>5. QED BY <2>1, <2>4 DEF KNotes, NoteHolds, AfterBest, AfterImpls
<1>18. ASSUME Recheck PROVE KNotes'
  BY <1>18 DEF Recheck, Scores, TaskGoes, KNotes, NoteHolds, AfterBest, AfterImpls, agentvars, pair,
    hookvars, taskvars
<1>19. ASSUME ScoreOther PROVE KNotes'
  BY <1>19 DEF ScoreOther, Scores, TaskGoes, KNotes, NoteHolds, AfterBest, AfterImpls, agentvars, pair,
    hookvars, taskvars
<1>20. ASSUME TaskFails PROVE KNotes'
  BY <1>20 DEF TaskFails, TaskGoes, KNotes, NoteHolds, AfterBest, AfterImpls, agentvars, pair, hookvars,
    taskvars
<1>21. QED BY <1>1, <1>2, <1>3, <1>4, <1>5, <1>6, <1>7, <1>8, <1>9, <1>10, <1>11, <1>12, <1>13, <1>14,
       <1>15, <1>16, <1>17, <1>18, <1>19, <1>20 DEF KNext, VerifierStep

\* A tool call has one verifier, unless one was left behind.
LEMMA OneVerifierKept ==
  ASSUME KScalars, KProcesses, OneVerifier, [KNext]_kvars
  PROVE  OneVerifier'
<1>1. ASSUME UNCHANGED <<overlapped, process, calls, hook>>
      PROVE  OneVerifier'
  BY <1>1 DEF OneVerifier, KProcesses
<1>2. ASSUME \/ \E i \in Impls : Edit(i)
             \/ NextMessage \/ AgentEnds \/ CollectImpls \/ CollectBest \/ CollectArtifacts
             \/ CollectState \/ ScoreBestPair \/ Recover \/ Recheck \/ ScoreOther \/ TaskFails
             \/ UNCHANGED kvars
      PROVE  UNCHANGED <<overlapped, process, calls, hook>>
  BY <1>2 DEF NextMessage, Edit, AgentEnds, CollectImpls, CollectBest, CollectArtifacts, CollectState,
    ScoreBestPair, Recover, Recheck, ScoreOther, TaskFails, AgentFree, Collects, Scores,
    TaskGoes, kvars, verifier, hookvars, notes
<1>3. ASSUME NEW c \in Calls, Pre(c) PROVE OneVerifier'
  BY <1>3 DEF Pre, AgentFree, ProcessGoes, OneVerifier, KProcesses, verifier, hookvars, notes
<1>4. ASSUME NEW c \in Calls, Stage(c) PROVE OneVerifier'
  BY <1>4 DEF Stage, ProcessGoes, OneVerifier, KProcesses, verifier, hookvars, notes
<1>5. ASSUME NEW c \in Calls, BeginVerify(c) PROVE OneVerifier'
  BY <1>5 DEF BeginVerify, ProcessGoes, OneVerifier, KProcesses, verifier, hookvars, notes
<1>6. ASSUME NEW c \in Calls, EndVerify(c) PROVE OneVerifier'
  BY <1>6 DEF EndVerify, ProcessGoes, OneVerifier, KProcesses, verifier, hookvars, notes
<1>7. ASSUME NEW c \in Calls, VerifyFails(c) PROVE OneVerifier'
  BY <1>7 DEF VerifyFails, ProcessGoes, OneVerifier, KProcesses, verifier, hookvars, notes
<1>8. ASSUME NEW c \in Calls, Benchmark(c) PROVE OneVerifier'
  BY <1>8 DEF Benchmark, ProcessGoes, OneVerifier, KProcesses, verifier, hookvars, notes
<1>9. ASSUME NEW c \in Calls, Compare(c) PROVE OneVerifier'
  BY <1>9 DEF Compare, ProcessGoes, OneVerifier, KProcesses, verifier, hookvars, notes
<1>10. ASSUME NEW c \in Calls, ReplaceImpl(c) PROVE OneVerifier'
  BY <1>10 DEF ReplaceImpl, ProcessGoes, OneVerifier, KProcesses, verifier, hookvars, notes
<1>11. ASSUME NEW c \in Calls, ReplaceMetrics(c) PROVE OneVerifier'
  BY <1>11 DEF ReplaceMetrics, ProcessGoes, OneVerifier, KProcesses, verifier, hookvars, notes
<1>12. ASSUME NEW c \in Calls, KillVerifier(c) PROVE OneVerifier'
  BY <1>12 DEF KillVerifier, ProcessGoes, Trouble, OneVerifier, KProcesses, verifier, hookvars, notes
<1>13. ASSUME LeaveBehind PROVE OneVerifier'
  BY <1>13 DEF LeaveBehind, Trouble, OneVerifier, KProcesses, verifier, hookvars, notes
<1>14. ASSUME ToolReturns PROVE OneVerifier'
  <2>1. /\ hook = "running" /\ hook' = "returned" /\ UNCHANGED <<process, calls, overlapped>>
        /\ ~(calls \in Calls /\ process[calls] \notin {"idle", "ended"})
    BY <1>14 DEF ToolReturns, Live, verifier, notes
  <2>2. QED BY <2>1 DEF OneVerifier
<1>15. ASSUME Bind PROVE OneVerifier'
  BY <1>15 DEF Bind, OneVerifier, KProcesses, verifier, hookvars, notes
<1>16. ASSUME Finish PROVE OneVerifier'
  BY <1>16 DEF Finish, OneVerifier, KProcesses, verifier, hookvars, notes
<1>17. ASSUME Cleanup PROVE OneVerifier'
  BY <1>17 DEF Cleanup, TaskGoes, OneVerifier, KProcesses, verifier, hookvars, notes
<1>18. QED BY <1>1, <1>2, <1>3, <1>4, <1>5, <1>6, <1>7, <1>8, <1>9, <1>10, <1>11, <1>12, <1>13, <1>14,
       <1>15, <1>16, <1>17 DEF KNext, VerifierStep

\* A verifier measures what it staged.
LEMMA MeasuredKept ==
  ASSUME KScalars, KFiles, KProcesses, OneVerifier, KMeasured, [KNext]_kvars
  PROVE  KMeasured'
<1>1. ASSUME UNCHANGED <<overlapped, result, staged, perf, process, held>>
      PROVE  KMeasured'
  BY <1>1 DEF KMeasured, KProcesses, Metrics
<1>2. ASSUME \/ \E i \in Impls : Edit(i)
             \/ NextMessage \/ ToolReturns \/ Bind \/ Finish \/ AgentEnds \/ CollectImpls
             \/ CollectBest \/ CollectArtifacts \/ CollectState \/ ScoreBestPair \/ Recover
             \/ Recheck \/ ScoreOther \/ TaskFails \/ UNCHANGED kvars
      PROVE  UNCHANGED <<overlapped, result, staged, perf, process, held>>
  BY <1>2 DEF NextMessage, Edit, ToolReturns, Bind, Finish, AgentEnds, CollectImpls, CollectBest,
    CollectArtifacts, CollectState, ScoreBestPair, Recover, Recheck, ScoreOther, TaskFails,
    AgentFree, Collects, Scores, TaskGoes, kvars, verifier, artifacts, notes
<1>3. ASSUME NEW c \in Calls, Pre(c) PROVE KMeasured'
  BY <1>3 DEF Pre, AgentFree, ProcessGoes, KMeasured, KProcesses, Metrics, verifier, artifacts, notes
<1>4. ASSUME NEW c \in Calls, Stage(c) PROVE KMeasured'
  <2>1. /\ process[c] = "starting" /\ UNCHANGED <<held, overlapped>>
        /\ process' \in {[process EXCEPT ![c] = "staged"], [process EXCEPT ![c] = "ended"]}
        /\ \/ UNCHANGED <<staged, result, perf>>
           \/ result' = None
    BY <1>4 DEF Stage, ProcessGoes, artifacts, notes
  <2>2. process \in [Calls -> {"idle", "starting", "staged", "verifying", "verified",
                               "measured", "winning", "half", "ended"}]
    BY DEF KProcesses
  <2>3. ASSUME ~overlapped, NEW d \in Calls, process'[d] \in {"verifying", "winning", "half"} PROVE FALSE
    BY <2>1, <2>2, <2>3 DEF OneVerifier
  <2>4. QED BY <2>1, <2>3 DEF KMeasured
<1>5. ASSUME NEW c \in Calls, BeginVerify(c) PROVE KMeasured'
  BY <1>5 DEF BeginVerify, ProcessGoes, KMeasured, KProcesses, Metrics, verifier, artifacts, notes
<1>6. ASSUME NEW c \in Calls, EndVerify(c) PROVE KMeasured'
  <2>1. /\ process[c] = "verifying" /\ UNCHANGED <<overlapped, staged>>
        /\ process' = [process EXCEPT ![c] = "verified"]
        /\ \E r \in Ranks[held[c]] : result' = [rank |-> r, of |-> held[c]]
    BY <1>6 DEF EndVerify, ProcessGoes, notes
  <2>2. process \in [Calls -> {"idle", "starting", "staged", "verifying", "verified",
                               "measured", "winning", "half", "ended"}]
    BY DEF KProcesses
  <2>3. ASSUME ~overlapped, NEW d \in Calls, process'[d] \in {"verifying", "winning", "half"} PROVE FALSE
    BY <2>1, <2>2, <2>3 DEF OneVerifier
  <2>4. ~overlapped => result'.of = staged
    BY <2>1 DEF KMeasured
  <2>5. QED BY <2>1, <2>3, <2>4 DEF KMeasured
<1>7. ASSUME NEW c \in Calls, VerifyFails(c) PROVE KMeasured'
  BY <1>7 DEF VerifyFails, ProcessGoes, KMeasured, KProcesses, Metrics, verifier, artifacts, notes
<1>8. ASSUME NEW c \in Calls, Benchmark(c) PROVE KMeasured'
  <2>1. /\ process[c] = "verified" /\ UNCHANGED <<overlapped, staged, result>>
        /\ process' = [process EXCEPT ![c] = "measured"]
    BY <1>8 DEF Benchmark, ProcessGoes, notes
  <2>2. process \in [Calls -> {"idle", "starting", "staged", "verifying", "verified",
                               "measured", "winning", "half", "ended"}]
    BY DEF KProcesses
  <2>3. ASSUME ~overlapped, NEW d \in Calls, process'[d] \in {"verifying", "winning", "half"} PROVE FALSE
    BY <2>1, <2>2, <2>3 DEF OneVerifier
  <2>4. QED BY <2>1, <2>3 DEF KMeasured
<1>9. ASSUME NEW c \in Calls, Compare(c) PROVE KMeasured'
  BY <1>9 DEF Compare, ProcessGoes, KMeasured, KProcesses, Metrics, verifier, artifacts, notes
<1>10. ASSUME NEW c \in Calls, ReplaceImpl(c) PROVE KMeasured'
  BY <1>10 DEF ReplaceImpl, ProcessGoes, KMeasured, KProcesses, Metrics, verifier, artifacts, notes
<1>11. ASSUME NEW c \in Calls, ReplaceMetrics(c) PROVE KMeasured'
  BY <1>11 DEF ReplaceMetrics, ProcessGoes, KMeasured, KProcesses, Metrics, verifier, artifacts, notes
<1>12. ASSUME NEW c \in Calls, KillVerifier(c) PROVE KMeasured'
  BY <1>12 DEF KillVerifier, ProcessGoes, Trouble, KMeasured, KProcesses, Metrics, verifier, artifacts,
    notes
<1>13. ASSUME LeaveBehind PROVE KMeasured'
  BY <1>13 DEF LeaveBehind, Trouble, KMeasured, KProcesses, Metrics, verifier, artifacts, notes
<1>14. ASSUME Cleanup PROVE KMeasured'
  <2>1. PICK leased \in SUBSET {c \in Calls : process[c] \in {"staged", "verifying", "verified"}} :
          /\ \A c \in Calls : process[c] = "verifying" => c \in leased
          /\ process' = [c \in Calls |->
               IF c \notin leased THEN process[c]
               ELSE IF process[c] = "verified" THEN "measured" ELSE "verified"]
          /\ perf' = (perf /\ \A c \in leased : process[c] # "verified")
    BY <1>14 DEF Cleanup
  <2>2. /\ held' = [c \in Calls |-> IF process[c] = "verifying" THEN None ELSE held[c]]
        /\ UNCHANGED <<overlapped, staged, result>>
    BY <1>14 DEF Cleanup, notes
  <2>3. ASSUME ~overlapped, NEW c \in Calls PROVE process'[c] # "verifying"
    BY <2>1
  <2>4. ASSUME ~overlapped, NEW c \in Calls, process'[c] \in {"winning", "half"}
        PROVE  result' # None /\ held'[c] = Metrics(result, perf)'
    <3>1. process[c] \in {"winning", "half"}
      BY <2>1, <2>4
    <3>2. leased = {}
      BY <2>1, <2>4, <3>1 DEF OneVerifier
    <3>3. perf' = perf
      BY <2>1, <3>2 DEF KFiles
    <3>4. held'[c] = held[c] /\ result # None /\ held[c] = Metrics(result, perf)
      BY <2>2, <2>4, <3>1 DEF KMeasured
    <3>5. QED BY <2>2, <3>3, <3>4 DEF Metrics
  <2>5. QED BY <2>2, <2>3, <2>4 DEF KMeasured
<1>15. QED BY <1>1, <1>2, <1>3, <1>4, <1>5, <1>6, <1>7, <1>8, <1>9, <1>10, <1>11, <1>12, <1>13, <1>14 DEF KNext, VerifierStep

\* What a verifier makes the best ranks higher.
LEMMA HigherKept ==
  ASSUME KScalars, KFiles, KProcesses, OneVerifier, KHigher, [KNext]_kvars
  PROVE  KHigher'
<1>1. ASSUME UNCHANGED <<overlapped, process, held, best, task>>
      PROVE  KHigher'
  BY <1>1 DEF KHigher, Unsettled, KProcesses
<1>2. ASSUME \/ \E i \in Impls : Edit(i)
             \/ NextMessage \/ ToolReturns \/ Bind \/ UNCHANGED kvars
      PROVE  UNCHANGED <<overlapped, process, held, best, task>>
  BY <1>2 DEF NextMessage, Edit, ToolReturns, Bind, AgentFree, kvars, verifier, pair, taskvars, notes
<1>3. ASSUME NEW c \in Calls, Pre(c) PROVE KHigher'
  BY <1>3 DEF Pre, AgentFree, ProcessGoes, KHigher, Unsettled, KProcesses, verifier, pair, taskvars,
    notes
<1>4. ASSUME NEW c \in Calls, Stage(c) PROVE KHigher'
  BY <1>4 DEF Stage, ProcessGoes, KHigher, Unsettled, KProcesses, verifier, pair, taskvars, notes
<1>5. ASSUME NEW c \in Calls, BeginVerify(c) PROVE KHigher'
  BY <1>5 DEF BeginVerify, ProcessGoes, KHigher, Unsettled, KProcesses, verifier, pair, taskvars, notes
<1>6. ASSUME NEW c \in Calls, EndVerify(c) PROVE KHigher'
  BY <1>6 DEF EndVerify, ProcessGoes, KHigher, Unsettled, KProcesses, verifier, pair, taskvars, notes
<1>7. ASSUME NEW c \in Calls, VerifyFails(c) PROVE KHigher'
  BY <1>7 DEF VerifyFails, ProcessGoes, KHigher, Unsettled, KProcesses, verifier, pair, taskvars, notes
<1>8. ASSUME NEW c \in Calls, Benchmark(c) PROVE KHigher'
  BY <1>8 DEF Benchmark, ProcessGoes, KHigher, Unsettled, KProcesses, verifier, pair, taskvars, notes
<1>9. ASSUME NEW c \in Calls, Compare(c) PROVE KHigher'
  <2>1. /\ process[c] = "measured" /\ UNCHANGED <<overlapped, best, task>>
        /\ \/ process' = [process EXCEPT ![c] = "ended"] /\ held' = held
           \/ /\ process' = [process EXCEPT ![c] = "winning"] /\ ~Keeps(Metrics(result, perf))
              /\ held' = [held EXCEPT ![c] = Metrics(result, perf)]
              /\ result # None /\ staged # None
    BY <1>9 DEF Compare, ProcessGoes, pair, taskvars, notes
  <2>2. RankOf(best) \in Int
    BY MetricsKnown DEF KFiles, Maybe
  <2>3. result # None => RankOf(Metrics(result, perf)) \in Int
    BY MetricsKnown DEF KFiles, Maybe
  <2>4. result # None /\ ~Keeps(Metrics(result, perf)) => RankOf(Metrics(result, perf)) > RankOf(best)
    BY <2>2, <2>3 DEF Keeps
  <2>5. /\ held \in [Calls -> Impls \cup MetricSet \cup {None}]
        /\ process \in [Calls -> {"idle", "starting", "staged", "verifying", "verified",
                                  "measured", "winning", "half", "ended"}]
    BY DEF KProcesses
  <2>6. QED BY <2>1, <2>4, <2>5 DEF KHigher, Unsettled, RankOf
<1>10. ASSUME NEW c \in Calls, ReplaceImpl(c) PROVE KHigher'
  BY <1>10 DEF ReplaceImpl, ProcessGoes, KHigher, Unsettled, KProcesses, verifier, pair, taskvars, notes
<1>11. ASSUME NEW c \in Calls, ReplaceMetrics(c) PROVE KHigher'
  <2>1. /\ process[c] = "half" /\ process' = [process EXCEPT ![c] = "ended"] /\ UNCHANGED <<overlapped, task>>
    BY <1>11 DEF ReplaceMetrics, ProcessGoes, taskvars
  <2>2. process \in [Calls -> {"idle", "starting", "staged", "verifying", "verified",
                               "measured", "winning", "half", "ended"}]
    BY DEF KProcesses
  <2>3. ASSUME ~overlapped, NEW d \in Calls, process'[d] \in {"winning", "half"} PROVE FALSE
    BY <2>1, <2>2, <2>3 DEF OneVerifier
  <2>4. QED BY <2>1, <2>3 DEF KHigher
<1>12. ASSUME NEW c \in Calls, KillVerifier(c) PROVE KHigher'
  BY <1>12 DEF KillVerifier, ProcessGoes, Trouble, KHigher, Unsettled, KProcesses, verifier, pair,
    taskvars, notes
<1>13. ASSUME LeaveBehind PROVE KHigher'
  BY <1>13 DEF LeaveBehind, Trouble, KHigher, Unsettled, KProcesses, verifier, pair, taskvars, notes
<1>14. ASSUME Finish PROVE KHigher'
  <2>1. hook = "bound" /\ UNCHANGED <<overlapped, task, process>>
    BY <1>14 DEF Finish, taskvars, verifier
  <2>2. QED BY <2>1 DEF KHigher, OneVerifier
<1>15. ASSUME AgentEnds PROVE KHigher'
  BY <1>15 DEF AgentEnds, TaskGoes, KHigher, Unsettled, KProcesses, verifier, pair, taskvars, notes
<1>16. ASSUME Cleanup PROVE KHigher'
  BY <1>16 DEF Cleanup, TaskGoes, KHigher, Unsettled, KProcesses, verifier, pair, taskvars, notes
<1>17. ASSUME CollectImpls PROVE KHigher'
  BY <1>17 DEF CollectImpls, Collects, TaskGoes, KHigher, Unsettled, KProcesses, verifier, pair, taskvars,
    notes
<1>18. ASSUME CollectBest PROVE KHigher'
  BY <1>18 DEF CollectBest, Collects, TaskGoes, KHigher, Unsettled, KProcesses, verifier, pair, taskvars,
    notes
<1>19. ASSUME CollectArtifacts PROVE KHigher'
  BY <1>19 DEF CollectArtifacts, Collects, TaskGoes, KHigher, Unsettled, KProcesses, verifier, pair,
    taskvars, notes
<1>20. ASSUME CollectState PROVE KHigher'
  BY <1>20 DEF CollectState, Collects, TaskGoes, KHigher, Unsettled, KProcesses, verifier, pair, taskvars,
    notes
<1>21. ASSUME ScoreBestPair PROVE KHigher'
  BY <1>21 DEF ScoreBestPair, Scores, TaskGoes, KHigher, Unsettled, KProcesses, verifier, pair, taskvars,
    notes
<1>22. ASSUME Recover PROVE KHigher'
  BY <1>22 DEF Recover, TaskGoes, KHigher, Unsettled, KProcesses, verifier, pair, taskvars, notes
<1>23. ASSUME Recheck PROVE KHigher'
  BY <1>23 DEF Recheck, Scores, TaskGoes, KHigher, Unsettled, KProcesses, verifier, pair, taskvars, notes
<1>24. ASSUME ScoreOther PROVE KHigher'
  BY <1>24 DEF ScoreOther, Scores, TaskGoes, KHigher, Unsettled, KProcesses, verifier, pair, taskvars,
    notes
<1>25. ASSUME TaskFails PROVE KHigher'
  BY <1>25 DEF TaskFails, TaskGoes, KHigher, Unsettled, KProcesses, verifier, pair, taskvars, notes
<1>26. QED BY <1>1, <1>2, <1>3, <1>4, <1>5, <1>6, <1>7, <1>8, <1>9, <1>10, <1>11, <1>12, <1>13, <1>14,
       <1>15, <1>16, <1>17, <1>18, <1>19, <1>20, <1>21, <1>22, <1>23, <1>24, <1>25 DEF KNext, VerifierStep

\* Collected files follow until they are written.
LEMMA FreshKept ==
  ASSUME KScalars, KFiles, KFresh, [KNext]_kvars
  PROVE  KFresh'
<1>1. ASSUME UNCHANGED <<task, stale, snapshot, staged, bestImpl, best, result, perf>>
      PROVE  KFresh'
  BY <1>1 DEF KFresh, Unsettled, Writes, AfterImpls, AfterBest, AfterArtifacts
<1>2. ASSUME \/ \E i \in Impls : Edit(i)
             \/ NextMessage \/ LeaveBehind \/ ToolReturns \/ Bind
             \/ \E c \in Calls : Pre(c) \/ BeginVerify(c) \/ VerifyFails(c) \/ Compare(c) \/ KillVerifier(c)
             \/ UNCHANGED kvars
      PROVE  UNCHANGED <<task, stale, snapshot, staged, bestImpl, best, result, perf>>
  BY <1>2 DEF NextMessage, Edit, Pre, BeginVerify, VerifyFails, Compare, KillVerifier, LeaveBehind,
    ToolReturns, Bind, AgentFree, ProcessGoes, Trouble, kvars, artifacts, pair, taskvars
<1>3. ASSUME NEW c \in Calls, Stage(c) PROVE KFresh'
  BY <1>3, PastKnown DEF Stage, ProcessGoes, KFresh, Unsettled, Writes, AfterImpls, AfterBest, AfterArtifacts,
    artifacts, pair, taskvars
<1>4. ASSUME NEW c \in Calls, EndVerify(c) PROVE KFresh'
  BY <1>4, PastKnown DEF EndVerify, ProcessGoes, KFresh, Unsettled, Writes, AfterImpls, AfterBest, AfterArtifacts,
    artifacts, pair, taskvars
<1>5. ASSUME NEW c \in Calls, Benchmark(c) PROVE KFresh'
  BY <1>5, PastKnown DEF Benchmark, ProcessGoes, KFresh, Unsettled, Writes, AfterImpls, AfterBest, AfterArtifacts,
    artifacts, pair, taskvars
<1>6. ASSUME NEW c \in Calls, ReplaceImpl(c) PROVE KFresh'
  BY <1>6, PastKnown DEF ReplaceImpl, ProcessGoes, KFresh, Unsettled, Writes, AfterImpls, AfterBest, AfterArtifacts,
    artifacts, pair, taskvars
<1>7. ASSUME NEW c \in Calls, ReplaceMetrics(c) PROVE KFresh'
  BY <1>7, PastKnown DEF ReplaceMetrics, ProcessGoes, KFresh, Unsettled, Writes, AfterImpls, AfterBest,
    AfterArtifacts, artifacts, pair, taskvars
<1>8. ASSUME Finish PROVE KFresh'
  BY <1>8, PastKnown DEF Finish, KFresh, Unsettled, Writes, AfterImpls, AfterBest, AfterArtifacts, artifacts, pair,
    taskvars
<1>9. ASSUME AgentEnds PROVE KFresh'
  BY <1>9, PastKnown DEF AgentEnds, TaskGoes, KFresh, Unsettled, Writes, AfterImpls, AfterBest, AfterArtifacts,
    artifacts, pair, taskvars
<1>10. ASSUME Cleanup PROVE KFresh'
  BY <1>10, PastKnown DEF Cleanup, TaskGoes, KFresh, Unsettled, Writes, AfterImpls, AfterBest, AfterArtifacts,
    artifacts, pair, taskvars
<1>11. ASSUME CollectImpls PROVE KFresh'
  BY <1>11, PastKnown DEF CollectImpls, Collects, TaskGoes, KFresh, Unsettled, Writes, AfterImpls, AfterBest,
    AfterArtifacts, artifacts, pair, taskvars
<1>12. ASSUME CollectBest PROVE KFresh'
  BY <1>12, PastKnown DEF CollectBest, Collects, TaskGoes, KFresh, Unsettled, Writes, AfterImpls, AfterBest,
    AfterArtifacts, artifacts, pair, taskvars
<1>13. ASSUME CollectArtifacts PROVE KFresh'
  BY <1>13, PastKnown DEF CollectArtifacts, Collects, TaskGoes, KFresh, Unsettled, Writes, AfterImpls, AfterBest,
    AfterArtifacts, artifacts, pair, taskvars
<1>14. ASSUME CollectState PROVE KFresh'
  BY <1>14, PastKnown DEF CollectState, Collects, TaskGoes, KFresh, Unsettled, Writes, AfterImpls, AfterBest,
    AfterArtifacts, artifacts, pair, taskvars
<1>15. ASSUME ScoreBestPair PROVE KFresh'
  BY <1>15, PastKnown DEF ScoreBestPair, Scores, TaskGoes, KFresh, Unsettled, Writes, AfterImpls, AfterBest,
    AfterArtifacts, artifacts, pair, taskvars
<1>16. ASSUME Recover PROVE KFresh'
  BY <1>16, PastKnown DEF Recover, TaskGoes, KFresh, Unsettled, Writes, AfterImpls, AfterBest, AfterArtifacts,
    artifacts, pair, taskvars
<1>17. ASSUME Recheck PROVE KFresh'
  BY <1>17, PastKnown DEF Recheck, Scores, TaskGoes, KFresh, Unsettled, Writes, AfterImpls, AfterBest,
    AfterArtifacts, artifacts, pair, taskvars
<1>18. ASSUME ScoreOther PROVE KFresh'
  BY <1>18, PastKnown DEF ScoreOther, Scores, TaskGoes, KFresh, Unsettled, Writes, AfterImpls, AfterBest,
    AfterArtifacts, artifacts, pair, taskvars
<1>19. ASSUME TaskFails PROVE KFresh'
  BY <1>19, PastKnown DEF TaskFails, TaskGoes, KFresh, Unsettled, Writes, AfterImpls, AfterBest, AfterArtifacts,
    artifacts, pair, taskvars
<1>20. QED BY <1>1, <1>2, <1>3, <1>4, <1>5, <1>6, <1>7, <1>8, <1>9, <1>10, <1>11, <1>12, <1>13, <1>14,
       <1>15, <1>16, <1>17, <1>18, <1>19 DEF KNext, VerifierStep

\* Metrics of what they were measured on.
LEMMA HonestKept ==
  ASSUME KScalars, KFiles, KProcesses, KHooks, KSnapshot, KMeasured, KFresh, KHonest, [KNext]_kvars
  PROVE  KHonest'
<1>1. ASSUME UNCHANGED <<overlapped, best, hook, before, task, snapshot>>
      PROVE  KHonest'
  BY <1>1 DEF KHonest, Honest, Unsettled, AfterImpls, AfterBest
<1>2. ASSUME \/ \E i \in Impls : Edit(i)
             \/ NextMessage
             \/ \E c \in Calls : Stage(c) \/ BeginVerify(c) \/ EndVerify(c) \/ VerifyFails(c) \/ Benchmark(c) \/ Compare(c) \/ ReplaceImpl(c) \/ KillVerifier(c)
             \/ UNCHANGED kvars
      PROVE  UNCHANGED <<overlapped, best, hook, before, task, snapshot>>
  BY <1>2 DEF NextMessage, Edit, Stage, BeginVerify, EndVerify, VerifyFails, Benchmark, Compare,
    ReplaceImpl, KillVerifier, AgentFree, ProcessGoes, Trouble, kvars, pair, hookvars,
    taskvars, notes
<1>3. ASSUME NEW c \in Calls, Pre(c) PROVE KHonest'
  BY <1>3 DEF Pre, AgentFree, ProcessGoes, KHonest, Honest, Unsettled, AfterImpls, AfterBest, pair,
    hookvars, taskvars, notes
<1>4. ASSUME NEW c \in Calls, ReplaceMetrics(c) PROVE KHonest'
  <2>1. process[c] = "half" /\ best' = held[c] /\ UNCHANGED <<overlapped, hook, before, task, snapshot>>
    BY <1>4 DEF ReplaceMetrics, hookvars, taskvars
  <2>2. ~overlapped => Honest(best')
    BY <2>1 DEF KMeasured, Metrics, Honest
  <2>3. QED BY <2>1, <2>2 DEF KHonest, Honest, Unsettled, AfterImpls, AfterBest
<1>5. ASSUME LeaveBehind PROVE KHonest'
  BY <1>5 DEF LeaveBehind, Trouble, KHonest, Honest, Unsettled, AfterImpls, AfterBest, pair, hookvars,
    taskvars, notes
<1>6. ASSUME ToolReturns PROVE KHonest'
  BY <1>6 DEF ToolReturns, KHonest, Honest, Unsettled, AfterImpls, AfterBest, pair, hookvars, taskvars,
    notes
<1>7. ASSUME Bind PROVE KHonest'
  BY <1>7 DEF Bind, KHonest, Honest, Unsettled, AfterImpls, AfterBest, pair, hookvars, taskvars, notes
<1>8. ASSUME Finish PROVE KHonest'
  BY <1>8 DEF Finish, KHonest, Honest, Unsettled, AfterImpls, AfterBest, pair, hookvars, taskvars, notes
<1>9. ASSUME AgentEnds PROVE KHonest'
  BY <1>9 DEF AgentEnds, TaskGoes, KHonest, Honest, Unsettled, AfterImpls, AfterBest, pair, hookvars,
    taskvars, notes
<1>10. ASSUME Cleanup PROVE KHonest'
  BY <1>10 DEF Cleanup, TaskGoes, KHonest, Honest, Unsettled, AfterImpls, AfterBest, pair, hookvars,
    taskvars, notes
<1>11. ASSUME CollectImpls PROVE KHonest'
  BY <1>11 DEF CollectImpls, Collects, TaskGoes, KHonest, Honest, Unsettled, AfterImpls, AfterBest, pair,
    hookvars, taskvars, notes
<1>12. ASSUME CollectBest PROVE KHonest'
  BY <1>12 DEF CollectBest, Collects, TaskGoes, KHonest, Honest, Unsettled, AfterImpls, AfterBest, pair,
    hookvars, taskvars, notes
<1>13. ASSUME CollectArtifacts PROVE KHonest'
  BY <1>13 DEF CollectArtifacts, Collects, TaskGoes, KHonest, Honest, Unsettled, AfterImpls, AfterBest,
    pair, hookvars, taskvars, notes
<1>14. ASSUME CollectState PROVE KHonest'
  BY <1>14 DEF CollectState, Collects, TaskGoes, KHonest, Honest, Unsettled, AfterImpls, AfterBest, pair,
    hookvars, taskvars, notes
<1>15. ASSUME ScoreBestPair PROVE KHonest'
  BY <1>15 DEF ScoreBestPair, Scores, TaskGoes, KHonest, Honest, Unsettled, AfterImpls, AfterBest, pair,
    hookvars, taskvars, notes
<1>16. ASSUME Recover PROVE KHonest'
  <2>1. /\ task = "decide" /\ snapshot' = snapshot
        /\ snapshot.result # None /\ snapshot.staged # None
        /\ \/ task' = "raised"
           \/ task' = "recheck" /\ stale = {}
        /\ UNCHANGED <<overlapped, hook, before>>
    BY <1>16 DEF Recover, ArtifactsUsable, TaskGoes, hookvars, notes
  <2>2. ~overlapped /\ stale = {} => snapshot.result.of = snapshot.staged
    BY <2>1 DEF KMeasured, KFresh, Unsettled, AfterImpls, AfterBest, AfterArtifacts
  <2>3. QED BY <2>1, <2>2 DEF KHonest, Honest, Unsettled, AfterImpls, AfterBest
<1>17. ASSUME Recheck PROVE KHonest'
  BY <1>17 DEF Recheck, Scores, TaskGoes, KHonest, Honest, Unsettled, AfterImpls, AfterBest, pair,
    hookvars, taskvars, notes
<1>18. ASSUME ScoreOther PROVE KHonest'
  BY <1>18 DEF ScoreOther, Scores, TaskGoes, KHonest, Honest, Unsettled, AfterImpls, AfterBest, pair,
    hookvars, taskvars, notes
<1>19. ASSUME TaskFails PROVE KHonest'
  BY <1>19 DEF TaskFails, TaskGoes, KHonest, Honest, Unsettled, AfterImpls, AfterBest, pair, hookvars,
    taskvars, notes
<1>20. QED BY <1>1, <1>2, <1>3, <1>4, <1>5, <1>6, <1>7, <1>8, <1>9, <1>10, <1>11, <1>12, <1>13, <1>14,
       <1>15, <1>16, <1>17, <1>18, <1>19 DEF KNext, VerifierStep

\* A best has an implementation beside it.
LEMMA BestKept ==
  ASSUME KScalars, KProcesses, KHooks, KBest, [KNext]_kvars
  PROVE  KBest'
<1>1. ASSUME UNCHANGED <<process, bestImpl, best, task, hook, before>>
      PROVE  KBest'
  BY <1>1 DEF KBest, Unsettled, KProcesses
<1>2. ASSUME \/ \E i \in Impls : Edit(i)
             \/ NextMessage \/ UNCHANGED kvars
      PROVE  UNCHANGED <<process, bestImpl, best, task, hook, before>>
  BY <1>2 DEF NextMessage, Edit, AgentFree, kvars, verifier, pair, hookvars, taskvars
<1>3. ASSUME NEW c \in Calls, Pre(c) PROVE KBest'
  BY <1>3 DEF Pre, AgentFree, ProcessGoes, KBest, Unsettled, KProcesses, verifier, pair, hookvars,
    taskvars
<1>4. ASSUME NEW c \in Calls, Stage(c) PROVE KBest'
  BY <1>4 DEF Stage, ProcessGoes, KBest, Unsettled, KProcesses, verifier, pair, hookvars, taskvars
<1>5. ASSUME NEW c \in Calls, BeginVerify(c) PROVE KBest'
  BY <1>5 DEF BeginVerify, ProcessGoes, KBest, Unsettled, KProcesses, verifier, pair, hookvars, taskvars
<1>6. ASSUME NEW c \in Calls, EndVerify(c) PROVE KBest'
  BY <1>6 DEF EndVerify, ProcessGoes, KBest, Unsettled, KProcesses, verifier, pair, hookvars, taskvars
<1>7. ASSUME NEW c \in Calls, VerifyFails(c) PROVE KBest'
  BY <1>7 DEF VerifyFails, ProcessGoes, KBest, Unsettled, KProcesses, verifier, pair, hookvars, taskvars
<1>8. ASSUME NEW c \in Calls, Benchmark(c) PROVE KBest'
  BY <1>8 DEF Benchmark, ProcessGoes, KBest, Unsettled, KProcesses, verifier, pair, hookvars, taskvars
<1>9. ASSUME NEW c \in Calls, Compare(c) PROVE KBest'
  BY <1>9 DEF Compare, ProcessGoes, KBest, Unsettled, KProcesses, verifier, pair, hookvars, taskvars
<1>10. ASSUME NEW c \in Calls, ReplaceImpl(c) PROVE KBest'
  <2>1. process[c] = "winning" /\ bestImpl' = held[c].claim
    BY <1>10 DEF ReplaceImpl
  <2>2. bestImpl' \in Impls
    BY <2>1, MetricsKnown DEF KProcesses
  <2>3. QED BY <2>2, MetricsKnown DEF KBest
<1>11. ASSUME NEW c \in Calls, ReplaceMetrics(c) PROVE KBest'
  BY <1>11 DEF ReplaceMetrics, ProcessGoes, KBest, Unsettled, KProcesses, verifier, pair, hookvars,
    taskvars
<1>12. ASSUME NEW c \in Calls, KillVerifier(c) PROVE KBest'
  BY <1>12 DEF KillVerifier, ProcessGoes, Trouble, KBest, Unsettled, KProcesses, verifier, pair, hookvars,
    taskvars
<1>13. ASSUME LeaveBehind PROVE KBest'
  BY <1>13 DEF LeaveBehind, Trouble, KBest, Unsettled, KProcesses, verifier, pair, hookvars, taskvars
<1>14. ASSUME ToolReturns PROVE KBest'
  BY <1>14 DEF ToolReturns, KBest, Unsettled, KProcesses, verifier, pair, hookvars, taskvars
<1>15. ASSUME Bind PROVE KBest'
  BY <1>15 DEF Bind, KBest, Unsettled, KProcesses, verifier, pair, hookvars, taskvars
<1>16. ASSUME Finish PROVE KBest'
  <2>1. /\ hook = "bound" /\ hook' = "none" /\ UNCHANGED <<task, process, bestImpl>>
        /\ best' \in {best, before.annotated} /\ (best' = best \/ before.annotated # None)
    BY <1>16 DEF Finish, taskvars, verifier
  <2>2. QED BY <2>1 DEF KBest, Unsettled
<1>17. ASSUME AgentEnds PROVE KBest'
  BY <1>17 DEF AgentEnds, TaskGoes, KBest, Unsettled, KProcesses, verifier, pair, hookvars, taskvars
<1>18. ASSUME Cleanup PROVE KBest'
  BY <1>18 DEF Cleanup, TaskGoes, KBest, Unsettled, KProcesses, verifier, pair, hookvars, taskvars
<1>19. ASSUME CollectImpls PROVE KBest'
  BY <1>19 DEF CollectImpls, Collects, TaskGoes, KBest, Unsettled, KProcesses, verifier, pair, hookvars,
    taskvars
<1>20. ASSUME CollectBest PROVE KBest'
  BY <1>20 DEF CollectBest, Collects, TaskGoes, KBest, Unsettled, KProcesses, verifier, pair, hookvars,
    taskvars
<1>21. ASSUME CollectArtifacts PROVE KBest'
  BY <1>21 DEF CollectArtifacts, Collects, TaskGoes, KBest, Unsettled, KProcesses, verifier, pair,
    hookvars, taskvars
<1>22. ASSUME CollectState PROVE KBest'
  BY <1>22 DEF CollectState, Collects, TaskGoes, KBest, Unsettled, KProcesses, verifier, pair, hookvars,
    taskvars
<1>23. ASSUME ScoreBestPair PROVE KBest'
  BY <1>23 DEF ScoreBestPair, Scores, TaskGoes, KBest, Unsettled, KProcesses, verifier, pair, hookvars,
    taskvars
<1>24. ASSUME Recover PROVE KBest'
  BY <1>24 DEF Recover, TaskGoes, KBest, Unsettled, KProcesses, verifier, pair, hookvars, taskvars
<1>25. ASSUME Recheck PROVE KBest'
  BY <1>25 DEF Recheck, Scores, TaskGoes, KBest, Unsettled, KProcesses, verifier, pair, hookvars, taskvars
<1>26. ASSUME ScoreOther PROVE KBest'
  BY <1>26 DEF ScoreOther, Scores, TaskGoes, KBest, Unsettled, KProcesses, verifier, pair, hookvars,
    taskvars
<1>27. ASSUME TaskFails PROVE KBest'
  BY <1>27 DEF TaskFails, TaskGoes, KBest, Unsettled, KProcesses, verifier, pair, hookvars, taskvars
<1>28. QED BY <1>1, <1>2, <1>3, <1>4, <1>5, <1>6, <1>7, <1>8, <1>9, <1>10, <1>11, <1>12, <1>13, <1>14,
       <1>15, <1>16, <1>17, <1>18, <1>19, <1>20, <1>21, <1>22, <1>23, <1>24, <1>25, <1>26,
       <1>27 DEF KNext, VerifierStep

\* The pair belongs together, but for a verifier between its two replacements.
LEMMA PairedKept ==
  ASSUME KScalars, KFiles, KProcesses, KHooks, OneVerifier, KMeasured, KPaired, [KNext]_kvars
  PROVE  KPaired'
<1>1. ASSUME UNCHANGED <<overlapped, torn, process, bestImpl, best, held, task, hook, before>>
      PROVE  KPaired'
  BY <1>1 DEF KPaired, Paired, Unsettled, KProcesses
<1>2. ASSUME \/ \E i \in Impls : Edit(i)
             \/ NextMessage \/ UNCHANGED kvars
      PROVE  UNCHANGED <<overlapped, torn, process, bestImpl, best, held, task, hook, before>>
  BY <1>2 DEF NextMessage, Edit, AgentFree, kvars, verifier, pair, hookvars, taskvars, notes
<1>3. ASSUME NEW c \in Calls, Pre(c) PROVE KPaired'
  BY <1>3 DEF Pre, AgentFree, ProcessGoes, KPaired, Paired, Unsettled, KProcesses, verifier, pair,
    hookvars, taskvars, notes
<1>4. ASSUME NEW c \in Calls, Stage(c) PROVE KPaired'
  BY <1>4 DEF Stage, ProcessGoes, KPaired, Paired, Unsettled, KProcesses, verifier, pair, hookvars,
    taskvars, notes
<1>5. ASSUME NEW c \in Calls, BeginVerify(c) PROVE KPaired'
  BY <1>5 DEF BeginVerify, ProcessGoes, KPaired, Paired, Unsettled, KProcesses, verifier, pair, hookvars,
    taskvars, notes
<1>6. ASSUME NEW c \in Calls, EndVerify(c) PROVE KPaired'
  BY <1>6 DEF EndVerify, ProcessGoes, KPaired, Paired, Unsettled, KProcesses, verifier, pair, hookvars,
    taskvars, notes
<1>7. ASSUME NEW c \in Calls, VerifyFails(c) PROVE KPaired'
  BY <1>7 DEF VerifyFails, ProcessGoes, KPaired, Paired, Unsettled, KProcesses, verifier, pair, hookvars,
    taskvars, notes
<1>8. ASSUME NEW c \in Calls, Benchmark(c) PROVE KPaired'
  BY <1>8 DEF Benchmark, ProcessGoes, KPaired, Paired, Unsettled, KProcesses, verifier, pair, hookvars,
    taskvars, notes
<1>9. ASSUME NEW c \in Calls, Compare(c) PROVE KPaired'
  BY <1>9 DEF Compare, ProcessGoes, KPaired, Paired, Unsettled, KProcesses, verifier, pair, hookvars,
    taskvars, notes
<1>10. ASSUME NEW c \in Calls, ReplaceImpl(c) PROVE KPaired'
  <2>1. /\ process[c] = "winning" /\ bestImpl' = held[c].claim /\ process' = [process EXCEPT ![c] = "half"]
        /\ UNCHANGED <<overlapped, torn, best, held, task, hook, before>>
    BY <1>10 DEF ReplaceImpl, ProcessGoes, hookvars, taskvars, notes
  <2>2. process \in [Calls -> {"idle", "starting", "staged", "verifying", "verified",
                               "measured", "winning", "half", "ended"}]
    BY DEF KProcesses
  <2>3. ASSUME ~overlapped
        PROVE  hook # "bound" /\ process'[c] = "half" /\ \A d \in Calls : process'[d] = "half" => d = c
    BY <2>1, <2>2, <2>3 DEF OneVerifier
  <2>4. QED BY <2>1, <2>3 DEF KPaired, Unsettled
<1>11. ASSUME NEW c \in Calls, ReplaceMetrics(c) PROVE KPaired'
  <2>1. /\ process[c] = "half" /\ best' = held[c] /\ process' = [process EXCEPT ![c] = "ended"]
        /\ UNCHANGED <<overlapped, torn, bestImpl, task, hook, before>>
    BY <1>11 DEF ReplaceMetrics, ProcessGoes, hookvars, taskvars
  <2>2. process \in [Calls -> {"idle", "starting", "staged", "verifying", "verified",
                               "measured", "winning", "half", "ended"}]
    BY DEF KProcesses
  <2>3. ASSUME ~overlapped
        PROVE  hook # "bound" /\ \A d \in Calls : process'[d] # "half"
    BY <2>1, <2>2, <2>3 DEF OneVerifier
  <2>4. ASSUME ~overlapped, ~torn, Unsettled PROVE Paired(bestImpl, held[c])
    BY <2>1, <2>4 DEF KPaired, KMeasured, Metrics, Paired
  <2>5. QED BY <2>1, <2>3, <2>4 DEF KPaired, Paired, Unsettled
<1>12. ASSUME NEW c \in Calls, KillVerifier(c) PROVE KPaired'
  BY <1>12 DEF KillVerifier, ProcessGoes, Trouble, KPaired, Paired, Unsettled, KProcesses, verifier, pair,
    hookvars, taskvars, notes
<1>13. ASSUME LeaveBehind PROVE KPaired'
  BY <1>13 DEF LeaveBehind, Trouble, KPaired, Paired, Unsettled, KProcesses, verifier, pair, hookvars,
    taskvars, notes
<1>14. ASSUME ToolReturns PROVE KPaired'
  BY <1>14 DEF ToolReturns, KPaired, Paired, Unsettled, KProcesses, verifier, pair, hookvars, taskvars,
    notes
<1>15. ASSUME Bind PROVE KPaired'
  <2>1. /\ hook = "returned" /\ UNCHANGED <<overlapped, torn, bestImpl, best, process, held, task>>
        /\ \/ before'.annotated = None
           \/ /\ best # None /\ bestImpl # None /\ Note # None
              /\ before'.annotated = [best EXCEPT !.index = Note.index, !.noteOf = Note.noteOf]
    BY <1>15 DEF Bind, verifier, pair, taskvars, notes
  <2>2. Note # None => Note.noteOf = bestImpl
    BY DEF Note
  <2>3. ASSUME ~overlapped, ~torn, Unsettled PROVE Paired(bestImpl, best)
    BY <2>1, <2>3 DEF KPaired, OneVerifier
  <2>4. ASSUME ~overlapped, ~torn, Unsettled, before'.annotated # None PROVE Paired(bestImpl, before'.annotated)
    <3>1. best \in MetricSet
      BY <2>1, <2>4 DEF KFiles, Maybe
    <3>2. before'.annotated.claim = best.claim /\ before'.annotated.noteOf = bestImpl
      BY <2>1, <2>2, <2>4, <3>1 DEF MetricSet
    <3>3. QED BY <2>1, <2>3, <2>4, <3>2 DEF Paired
  <2>5. QED BY <2>1, <2>4 DEF KPaired, Paired, Unsettled
<1>16. ASSUME Finish PROVE KPaired'
  BY <1>16 DEF Finish, KPaired, Paired, Unsettled, KProcesses, verifier, pair, hookvars, taskvars, notes
<1>17. ASSUME AgentEnds PROVE KPaired'
  BY <1>17 DEF AgentEnds, TaskGoes, KPaired, Paired, Unsettled, KProcesses, verifier, pair, hookvars,
    taskvars, notes
<1>18. ASSUME Cleanup PROVE KPaired'
  BY <1>18 DEF Cleanup, TaskGoes, KPaired, Paired, Unsettled, KProcesses, verifier, pair, hookvars,
    taskvars, notes
<1>19. ASSUME CollectImpls PROVE KPaired'
  BY <1>19 DEF CollectImpls, Collects, TaskGoes, KPaired, Paired, Unsettled, KProcesses, verifier, pair,
    hookvars, taskvars, notes
<1>20. ASSUME CollectBest PROVE KPaired'
  BY <1>20 DEF CollectBest, Collects, TaskGoes, KPaired, Paired, Unsettled, KProcesses, verifier, pair,
    hookvars, taskvars, notes
<1>21. ASSUME CollectArtifacts PROVE KPaired'
  BY <1>21 DEF CollectArtifacts, Collects, TaskGoes, KPaired, Paired, Unsettled, KProcesses, verifier,
    pair, hookvars, taskvars, notes
<1>22. ASSUME CollectState PROVE KPaired'
  BY <1>22 DEF CollectState, Collects, TaskGoes, KPaired, Paired, Unsettled, KProcesses, verifier, pair,
    hookvars, taskvars, notes
<1>23. ASSUME ScoreBestPair PROVE KPaired'
  BY <1>23 DEF ScoreBestPair, Scores, TaskGoes, KPaired, Paired, Unsettled, KProcesses, verifier, pair,
    hookvars, taskvars, notes
<1>24. ASSUME Recover PROVE KPaired'
  BY <1>24 DEF Recover, TaskGoes, KPaired, Paired, Unsettled, KProcesses, verifier, pair, hookvars,
    taskvars, notes
<1>25. ASSUME Recheck PROVE KPaired'
  BY <1>25 DEF Recheck, Scores, TaskGoes, KPaired, Paired, Unsettled, KProcesses, verifier, pair,
    hookvars, taskvars, notes
<1>26. ASSUME ScoreOther PROVE KPaired'
  BY <1>26 DEF ScoreOther, Scores, TaskGoes, KPaired, Paired, Unsettled, KProcesses, verifier, pair,
    hookvars, taskvars, notes
<1>27. ASSUME TaskFails PROVE KPaired'
  BY <1>27 DEF TaskFails, TaskGoes, KPaired, Paired, Unsettled, KProcesses, verifier, pair, hookvars,
    taskvars, notes
<1>28. QED BY <1>1, <1>2, <1>3, <1>4, <1>5, <1>6, <1>7, <1>8, <1>9, <1>10, <1>11, <1>12, <1>13, <1>14,
       <1>15, <1>16, <1>17, <1>18, <1>19, <1>20, <1>21, <1>22, <1>23, <1>24, <1>25, <1>26,
       <1>27 DEF KNext, VerifierStep

\* A pair that was replaced while it was collected leaves a result behind.
LEMMA CollectedKept ==
  ASSUME KScalars, KFiles, KProcesses, KSnapshot, OneVerifier, KMeasured, KPaired, KCollected, [KNext]_kvars
  PROVE  KCollected'
<1>1. ASSUME UNCHANGED <<overlapped, torn, task, snapshot, best, process, result>>
      PROVE  KCollected'
  BY <1>1 DEF KCollected, Paired, Settled, KProcesses
<1>2. ASSUME \/ \E i \in Impls : Edit(i)
             \/ NextMessage \/ ToolReturns \/ Bind \/ UNCHANGED kvars
      PROVE  UNCHANGED <<overlapped, torn, task, snapshot, best, process, result>>
  BY <1>2 DEF NextMessage, Edit, ToolReturns, Bind, AgentFree, kvars, verifier, artifacts, pair,
    taskvars, notes
<1>3. ASSUME NEW c \in Calls, Pre(c) PROVE KCollected'
  BY <1>3 DEF Pre, AgentFree, ProcessGoes, KCollected, Paired, Settled, KProcesses, verifier, artifacts,
    pair, taskvars, notes
<1>4. ASSUME NEW c \in Calls, Stage(c) PROVE KCollected'
  BY <1>4 DEF Stage, ProcessGoes, KCollected, Paired, Settled, KProcesses, verifier, artifacts, pair,
    taskvars, notes
<1>5. ASSUME NEW c \in Calls, BeginVerify(c) PROVE KCollected'
  BY <1>5 DEF BeginVerify, ProcessGoes, KCollected, Paired, Settled, KProcesses, verifier, artifacts,
    pair, taskvars, notes
<1>6. ASSUME NEW c \in Calls, EndVerify(c) PROVE KCollected'
  <2>1. /\ process' = [process EXCEPT ![c] = "verified"] /\ result' # None
        /\ UNCHANGED <<overlapped, torn, task, snapshot, best>>
    <3>1. PICK r : result' = [rank |-> r, of |-> held[c]]
      BY <1>6 DEF EndVerify
    <3>2. result' # None
      BY <3>1 DEF None
    <3>3. QED BY <1>6, <3>2 DEF EndVerify, ProcessGoes, pair, taskvars, notes
  <2>2. process \in [Calls -> {"idle", "starting", "staged", "verifying", "verified",
                               "measured", "winning", "half", "ended"}]
    BY DEF KProcesses
  <2>3. Settled => Settled'
    BY <2>1, <2>2 DEF Settled
  <2>4. QED BY <2>1, <2>3 DEF KCollected
<1>7. ASSUME NEW c \in Calls, VerifyFails(c) PROVE KCollected'
  BY <1>7 DEF VerifyFails, ProcessGoes, KCollected, Paired, Settled, KProcesses, verifier, artifacts,
    pair, taskvars, notes
<1>8. ASSUME NEW c \in Calls, Benchmark(c) PROVE KCollected'
  BY <1>8 DEF Benchmark, ProcessGoes, KCollected, Paired, Settled, KProcesses, verifier, artifacts, pair,
    taskvars, notes
<1>9. ASSUME NEW c \in Calls, Compare(c) PROVE KCollected'
  BY <1>9 DEF Compare, ProcessGoes, KCollected, Paired, Settled, KProcesses, verifier, artifacts, pair,
    taskvars, notes
<1>10. ASSUME NEW c \in Calls, ReplaceImpl(c) PROVE KCollected'
  BY <1>10 DEF ReplaceImpl, ProcessGoes, KCollected, Paired, Settled, KProcesses, verifier, artifacts,
    pair, taskvars, notes
<1>11. ASSUME NEW c \in Calls, ReplaceMetrics(c) PROVE KCollected'
  <2>1. /\ process[c] = "half" /\ process' = [process EXCEPT ![c] = "ended"]
        /\ UNCHANGED <<overlapped, torn, task, snapshot, result>>
    BY <1>11 DEF ReplaceMetrics, ProcessGoes, artifacts, taskvars
  <2>2. process \in [Calls -> {"idle", "starting", "staged", "verifying", "verified",
                               "measured", "winning", "half", "ended"}]
    BY DEF KProcesses
  <2>3. ~overlapped => Settled'
    BY <2>1, <2>2 DEF OneVerifier, KMeasured, Settled
  <2>4. QED BY <2>1, <2>3 DEF KCollected
<1>12. ASSUME NEW c \in Calls, KillVerifier(c) PROVE KCollected'
  BY <1>12 DEF KillVerifier, ProcessGoes, Trouble, KCollected, Paired, Settled, KProcesses, verifier,
    artifacts, pair, taskvars, notes
<1>13. ASSUME LeaveBehind PROVE KCollected'
  BY <1>13 DEF LeaveBehind, Trouble, KCollected, Paired, Settled, KProcesses, verifier, artifacts, pair,
    taskvars, notes
<1>14. ASSUME Finish PROVE KCollected'
  BY <1>14 DEF Finish, KCollected, Paired, Settled, KProcesses, verifier, artifacts, pair, taskvars, notes
<1>15. ASSUME AgentEnds PROVE KCollected'
  BY <1>15 DEF AgentEnds, TaskGoes, KCollected, Paired, Settled, KProcesses, verifier, artifacts, pair,
    taskvars, notes
<1>16. ASSUME Cleanup PROVE KCollected'
  BY <1>16 DEF Cleanup, TaskGoes, KCollected, Paired, Settled, KProcesses, verifier, artifacts, pair,
    taskvars, notes
<1>17. ASSUME CollectImpls PROVE KCollected'
  <2>1. /\ task = "collect_impls" /\ task' = "collect_best" /\ snapshot'.bestImpl = bestImpl
        /\ UNCHANGED <<overlapped, torn, best, process, result>>
    BY <1>17 DEF CollectImpls, Collects, TaskGoes, verifier, artifacts, pair, notes
  <2>2. ~overlapped /\ (\E c \in Calls : process[c] = "half") => Settled
    BY DEF OneVerifier, KMeasured, Settled
  <2>3. ~overlapped /\ ~torn => Paired(bestImpl, best) \/ Settled
    BY <2>1, <2>2 DEF KPaired, Unsettled
  <2>4. QED BY <2>1, <2>3 DEF KCollected, Paired, Settled
<1>18. ASSUME CollectBest PROVE KCollected'
  BY <1>18 DEF CollectBest, Collects, TaskGoes, KCollected, Paired, Settled, KProcesses, verifier,
    artifacts, pair, taskvars, notes
<1>19. ASSUME CollectArtifacts PROVE KCollected'
  BY <1>19 DEF CollectArtifacts, Collects, TaskGoes, KCollected, Paired, Settled, KProcesses, verifier,
    artifacts, pair, taskvars, notes
<1>20. ASSUME CollectState PROVE KCollected'
  BY <1>20 DEF CollectState, Collects, TaskGoes, KCollected, Paired, Settled, KProcesses, verifier,
    artifacts, pair, taskvars, notes
<1>21. ASSUME ScoreBestPair PROVE KCollected'
  BY <1>21 DEF ScoreBestPair, Scores, TaskGoes, KCollected, Paired, Settled, KProcesses, verifier,
    artifacts, pair, taskvars, notes
<1>22. ASSUME Recover PROVE KCollected'
  BY <1>22 DEF Recover, TaskGoes, KCollected, Paired, Settled, KProcesses, verifier, artifacts, pair,
    taskvars, notes
<1>23. ASSUME Recheck PROVE KCollected'
  BY <1>23 DEF Recheck, Scores, TaskGoes, KCollected, Paired, Settled, KProcesses, verifier, artifacts,
    pair, taskvars, notes
<1>24. ASSUME ScoreOther PROVE KCollected'
  BY <1>24 DEF ScoreOther, Scores, TaskGoes, KCollected, Paired, Settled, KProcesses, verifier, artifacts,
    pair, taskvars, notes
<1>25. ASSUME TaskFails PROVE KCollected'
  BY <1>25 DEF TaskFails, TaskGoes, KCollected, Paired, Settled, KProcesses, verifier, artifacts, pair,
    taskvars, notes
<1>26. QED BY <1>1, <1>2, <1>3, <1>4, <1>5, <1>6, <1>7, <1>8, <1>9, <1>10, <1>11, <1>12, <1>13, <1>14,
       <1>15, <1>16, <1>17, <1>18, <1>19, <1>20, <1>21, <1>22, <1>23, <1>24, <1>25 DEF KNext, VerifierStep

\* A best that was reached is in the pair that is collected, or in the result
\* that Recover takes.
LEMMA ReachedKept ==
  ASSUME KScalars, KFiles, KProcesses, KHooks, KSnapshot, OneVerifier, KMeasured, KHigher,
         KFresh, KPaired, KReached, [KNext]_kvars
  PROVE  KReached'
<1>1. ASSUME UNCHANGED <<overlapped, reached, best, hook, before, staged, task, snapshot, torn>>
      PROVE  KReached'
  BY <1>1 DEF KReached, Unsettled, AfterImpls, AfterBest, AfterArtifacts
<1>2. ASSUME \/ \E i \in Impls : Edit(i)
             \/ NextMessage
             \/ \E c \in Calls : BeginVerify(c) \/ EndVerify(c) \/ VerifyFails(c) \/ Benchmark(c) \/ Compare(c) \/ ReplaceImpl(c)
             \/ UNCHANGED kvars
      PROVE  UNCHANGED <<overlapped, reached, best, hook, before, staged, task, snapshot, torn>>
  BY <1>2 DEF NextMessage, Edit, BeginVerify, EndVerify, VerifyFails, Benchmark, Compare, ReplaceImpl,
    AgentFree, ProcessGoes, kvars, artifacts, pair, hookvars, taskvars, notes
<1>3. ASSUME NEW c \in Calls, Pre(c) PROVE KReached'
  BY <1>3 DEF Pre, AgentFree, ProcessGoes, KReached, Unsettled, AfterImpls, AfterBest, AfterArtifacts,
    artifacts, pair, hookvars, taskvars, notes
<1>4. ASSUME NEW c \in Calls, Stage(c) PROVE KReached'
  <2>1. /\ staged' = staged \/ staged' # None
        /\ UNCHANGED <<overlapped, reached, best, hook, before, task, snapshot, torn>>
    BY <1>4 DEF Stage, artifacts, pair, hookvars, taskvars, notes
  <2>2. QED BY <2>1 DEF KReached, Unsettled, AfterImpls, AfterBest, AfterArtifacts
<1>5. ASSUME NEW c \in Calls, ReplaceMetrics(c) PROVE KReached'
  <2>1. /\ process[c] = "half" /\ best' = held[c]
        /\ reached' = IF RankOf(held[c]) > reached THEN RankOf(held[c]) ELSE reached
        /\ UNCHANGED <<overlapped, torn, hook, before, staged, task, snapshot>>
    BY <1>5 DEF ReplaceMetrics, artifacts, hookvars, taskvars
  <2>2. held[c] \in MetricSet /\ RankOf(held[c]) \in 0..3 /\ reached \in NoIndex..3
    BY <2>1, MetricsKnown DEF KProcesses, KFiles
  <2>3. RankOf(best) \in NoIndex..3
    BY MetricsKnown DEF KFiles, Maybe, NoIndex
  <2>4. ASSUME ~overlapped PROVE hook # "bound" /\ staged # None
    <3>1. hook # "bound"
      BY <2>1, <2>4 DEF OneVerifier
    <3>2. held[c].claim = staged /\ held[c].claim \in Impls
      BY <2>1, <2>2, <2>4, MetricsKnown DEF KMeasured, Metrics
    <3>3. QED BY <3>1, <3>2, MetricsKnown
  <2>5. ~overlapped /\ Unsettled => reached <= RankOf(best) /\ RankOf(best) < RankOf(held[c])
    BY <2>1 DEF KReached, KHigher
  <2>6. reached <= reached' /\ reached' \in Int /\ (~overlapped /\ Unsettled => reached' <= RankOf(held[c]))
    BY <2>1, <2>2, <2>3, <2>5 DEF NoIndex
  <2>7. RankOf(best)' = RankOf(held[c])
    BY <2>1 DEF RankOf
  <2>8. ASSUME ~overlapped, task \in AfterImpls, Unsettled PROVE snapshot.reached <= reached'
    <3>1. snapshot.reached \in NoIndex..3 /\ snapshot.reached <= reached
      BY <2>8 DEF KReached, KSnapshot
    <3>2. QED BY <2>2, <2>6, <3>1 DEF NoIndex
  <2>9. QED BY <2>1, <2>4, <2>6, <2>7, <2>8 DEF KReached, Unsettled, AfterImpls, AfterBest, AfterArtifacts
<1>6. ASSUME NEW c \in Calls, KillVerifier(c) PROVE KReached'
  BY <1>6 DEF KillVerifier, ProcessGoes, Trouble, KReached, Unsettled, AfterImpls, AfterBest,
    AfterArtifacts, artifacts, pair, hookvars, taskvars, notes
<1>7. ASSUME LeaveBehind PROVE KReached'
  BY <1>7 DEF LeaveBehind, Trouble, KReached, Unsettled, AfterImpls, AfterBest, AfterArtifacts,
    artifacts, pair, hookvars, taskvars, notes
<1>8. ASSUME ToolReturns PROVE KReached'
  BY <1>8 DEF ToolReturns, KReached, Unsettled, AfterImpls, AfterBest, AfterArtifacts, artifacts, pair,
    hookvars, taskvars, notes
<1>9. ASSUME Bind PROVE KReached'
  <2>1. /\ hook = "returned" /\ hook' = "bound" /\ task = "agent"
        /\ UNCHANGED <<overlapped, torn, best, reached, staged, task, snapshot>>
        /\ \/ before'.annotated = None
           \/ best # None /\ before'.annotated = [best EXCEPT !.index = Note.index, !.noteOf = Note.noteOf]
    BY <1>9 DEF Bind, artifacts, pair, taskvars, notes
  <2>2. best # None => best \in MetricSet
    BY DEF KFiles, Maybe
  <2>3. before'.annotated # None => best # None /\ before'.annotated.rank = best.rank
    BY <2>1, <2>2 DEF MetricSet
  <2>4. QED BY <2>1, <2>3 DEF KReached, Unsettled, AfterImpls, AfterBest, AfterArtifacts
<1>10. ASSUME Finish PROVE KReached'
  <2>1. /\ hook = "bound" /\ hook' = "none" /\ task = "agent"
        /\ UNCHANGED <<overlapped, torn, reached, staged, task, snapshot>>
        /\ best' = IF before.annotated # None THEN before.annotated ELSE best
    BY <1>10 DEF Finish, artifacts, taskvars
  <2>2. best \in Maybe(MetricSet) /\ before.annotated \in Maybe(MetricSet)
    BY <2>1 DEF KFiles, KHooks
  <2>3. ~overlapped => RankOf(best') = RankOf(best)
    BY <2>1, <2>2, MetricsKnown DEF KReached, Maybe
  <2>4. QED BY <2>1, <2>3 DEF KReached, Unsettled, AfterImpls, AfterBest, AfterArtifacts
<1>11. ASSUME AgentEnds PROVE KReached'
  BY <1>11 DEF AgentEnds, TaskGoes, KReached, Unsettled, AfterImpls, AfterBest, AfterArtifacts, artifacts,
    pair, hookvars, taskvars, notes
<1>12. ASSUME Cleanup PROVE KReached'
  BY <1>12 DEF Cleanup, TaskGoes, KReached, Unsettled, AfterImpls, AfterBest, AfterArtifacts, artifacts,
    pair, hookvars, taskvars, notes
<1>13. ASSUME CollectImpls PROVE KReached'
  <2>1. /\ task = "collect_impls" /\ task' = "collect_best"
        /\ snapshot'.staged = staged /\ snapshot'.reached = reached
        /\ UNCHANGED <<overlapped, torn, best, reached, staged, hook, before>>
    BY <1>13 DEF CollectImpls, Collects, TaskGoes, artifacts, pair, hookvars, notes
  <2>2. reached \in Int /\ reached <= reached
    BY DEF KFiles, NoIndex
  <2>3. QED BY <2>1, <2>2 DEF KReached, Unsettled, AfterImpls, AfterBest, AfterArtifacts
<1>14. ASSUME CollectBest PROVE KReached'
  <2>1. /\ task = "collect_best" /\ task' = "collect_artifacts" /\ snapshot'.best = best
        /\ snapshot'.staged = snapshot.staged /\ snapshot'.reached = snapshot.reached
        /\ UNCHANGED <<overlapped, torn, best, reached, staged, hook, before>>
    BY <1>14 DEF CollectBest, Collects, TaskGoes, artifacts, pair, hookvars, notes
  <2>2. snapshot.reached \in Int /\ reached \in Int /\ RankOf(best) \in Int
    BY <2>1, MetricsKnown DEF KFiles, KSnapshot, AfterImpls, Maybe, NoIndex
  <2>3. ~overlapped => snapshot.reached <= RankOf(best)
    BY <2>1, <2>2 DEF KReached, Unsettled, AfterImpls, AfterBest, AfterArtifacts
  <2>4. RankOf(snapshot.best)' = RankOf(best)
    BY <2>1 DEF RankOf
  <2>5. QED BY <2>1, <2>3, <2>4 DEF KReached, Unsettled, AfterImpls, AfterBest, AfterArtifacts
<1>15. ASSUME CollectArtifacts PROVE KReached'
  BY <1>15 DEF CollectArtifacts, Collects, TaskGoes, KReached, Unsettled, AfterImpls, AfterBest,
    AfterArtifacts, artifacts, pair, hookvars, taskvars, notes
<1>16. ASSUME CollectState PROVE KReached'
  BY <1>16 DEF CollectState, Collects, TaskGoes, KReached, Unsettled, AfterImpls, AfterBest,
    AfterArtifacts, artifacts, pair, hookvars, taskvars, notes
<1>17. ASSUME ScoreBestPair PROVE KReached'
  BY <1>17 DEF ScoreBestPair, Scores, TaskGoes, KReached, Unsettled, AfterImpls, AfterBest,
    AfterArtifacts, artifacts, pair, hookvars, taskvars, notes
<1>18. ASSUME Recover PROVE KReached'
  <2>1. /\ task = "decide" /\ ~PairBound /\ snapshot.result # None /\ snapshot.staged # None
        /\ \/ task' = "raised"
           \/ task' = "recheck" /\ stale = {}
        /\ UNCHANGED <<overlapped, torn, reached, staged, snapshot, hook, before>>
    BY <1>18 DEF Recover, ArtifactsUsable, TaskGoes, artifacts, hookvars, taskvars, notes
  <2>2. /\ snapshot.result \in ResultSet /\ snapshot.perf \in BOOLEAN
        /\ snapshot.best \in Maybe(MetricSet) /\ snapshot.reached \in NoIndex..3
    BY <2>1 DEF KSnapshot, AfterImpls, AfterBest, AfterArtifacts, Maybe
  <2>3. FastRank(snapshot.result, snapshot.perf) \in 0..3
    BY <2>2, MetricsKnown
  <2>4. hook # "bound"
    BY <2>1 DEF KScalars
  <2>5. ASSUME ~overlapped, ~torn, stale = {}
        PROVE  snapshot.reached <= FastRank(snapshot.result, snapshot.perf)
    <3>1. /\ snapshot.best = best /\ snapshot.bestImpl = bestImpl
          /\ snapshot.result = result /\ snapshot.perf = perf
      BY <2>1, <2>5 DEF KFresh, Unsettled, AfterImpls, AfterBest, AfterArtifacts
    <3>2. snapshot.reached <= RankOf(best)
      BY <2>1, <2>5, <3>1 DEF KReached, Unsettled, AfterImpls, AfterBest, AfterArtifacts
    <3>3. CASE \E c \in Calls : process[c] = "half"
      <4>1. PICK c \in Calls : process[c] = "half"
        BY <3>3
      <4>2. held[c] = Metrics(result, perf) /\ RankOf(held[c]) > RankOf(best)
        BY <2>1, <2>5, <4>1 DEF KMeasured, KHigher, Unsettled
      <4>3. RankOf(held[c]) = FastRank(snapshot.result, snapshot.perf)
        BY <2>2, <3>1, <4>2, MetricsKnown
      <4>4. RankOf(best) \in Int
        BY MetricsKnown DEF KFiles, Maybe
      <4>5. QED BY <2>2, <2>3, <3>2, <4>2, <4>3, <4>4 DEF NoIndex
    <3>4. CASE ~ \E c \in Calls : process[c] = "half"
      <4>1. Paired(bestImpl, best)
        BY <2>1, <2>5, <3>4 DEF KPaired, Unsettled
      <4>2. best = None
        <5>1. SUFFICES ASSUME best # None PROVE FALSE
          OBVIOUS
        <5>2. best.claim \in Impls
          BY <5>1, MetricsKnown DEF KFiles, Maybe
        <5>3. bestImpl # None
          BY <4>1, <5>1, <5>2, MetricsKnown DEF Paired
        <5>4. PairBound
          BY <3>1, <4>1, <5>1, <5>3 DEF Paired, PairBound
        <5>5. QED BY <2>1, <5>4
      <4>3. QED BY <2>2, <2>3, <3>2, <4>2, MetricsKnown DEF NoIndex
    <3>5. QED BY <3>3, <3>4
  <2>6. QED BY <2>1, <2>4, <2>5 DEF KReached, Unsettled, AfterImpls, AfterBest, AfterArtifacts
<1>19. ASSUME Recheck PROVE KReached'
  BY <1>19 DEF Recheck, Scores, TaskGoes, KReached, Unsettled, AfterImpls, AfterBest, AfterArtifacts,
    artifacts, pair, hookvars, taskvars, notes
<1>20. ASSUME ScoreOther PROVE KReached'
  BY <1>20 DEF ScoreOther, Scores, TaskGoes, KReached, Unsettled, AfterImpls, AfterBest, AfterArtifacts,
    artifacts, pair, hookvars, taskvars, notes
<1>21. ASSUME TaskFails PROVE KReached'
  BY <1>21 DEF TaskFails, TaskGoes, KReached, Unsettled, AfterImpls, AfterBest, AfterArtifacts, artifacts,
    pair, hookvars, taskvars, notes
<1>22. QED BY <1>1, <1>2, <1>3, <1>4, <1>5, <1>6, <1>7, <1>8, <1>9, <1>10, <1>11, <1>12, <1>13, <1>14,
       <1>15, <1>16, <1>17, <1>18, <1>19, <1>20, <1>21 DEF KNext, VerifierStep

\* The count of the mode in force is one of calls that left the best alone.
LEMMA PatienceKept ==
  ASSUME KScalars, KFiles, KProcesses, KHooks, OneVerifier, KHigher, KBest, KPatience, [KNext]_kvars
  PROVE  KPatience'
<1>1. ASSUME UNCHANGED <<stop, hook, overlapped, task, progress, best, unimproved, before>>
      PROVE  KPatience'
  BY <1>1 DEF KPatience, Mode, FullyCorrect
<1>2. ASSUME \/ \E i \in Impls : Edit(i)
             \/ NextMessage
             \/ \E c \in Calls : Stage(c) \/ BeginVerify(c) \/ EndVerify(c) \/ VerifyFails(c) \/ Benchmark(c) \/ Compare(c) \/ ReplaceImpl(c) \/ KillVerifier(c)
             \/ UNCHANGED kvars
      PROVE  UNCHANGED <<stop, hook, overlapped, task, progress, best, unimproved, before>>
  BY <1>2 DEF NextMessage, Edit, Stage, BeginVerify, EndVerify, VerifyFails, Benchmark, Compare,
    ReplaceImpl, KillVerifier, AgentFree, ProcessGoes, Trouble, kvars, pair, hookvars, control,
    taskvars, notes
<1>3. ASSUME NEW c \in Calls, Pre(c) PROVE KPatience'
  BY <1>3 DEF Pre, AgentFree, ProcessGoes, KPatience, Mode, FullyCorrect, pair, hookvars, control,
    taskvars, notes
<1>4. ASSUME NEW c \in Calls, ReplaceMetrics(c) PROVE KPatience'
  <2>1. /\ process[c] = "half" /\ best' = held[c] /\ unimproved' = -1
        /\ UNCHANGED <<stop, hook, overlapped, task, before>>
    BY <1>4 DEF ReplaceMetrics, hookvars, control, taskvars
  <2>2. ~overlapped => hook = "running"
    BY <2>1 DEF OneVerifier
  <2>3. ASSUME ~overlapped, task = "agent" PROVE RankOf(held[c]) > RankOf(before.best)
    <3>1. RankOf(held[c]) > RankOf(best) /\ (best = before.best \/ RankOf(best) > RankOf(before.best))
      BY <2>1, <2>2, <2>3 DEF KHigher, Unsettled, KPatience
    <3>2. before.best \in Maybe(MetricSet) /\ best \in Maybe(MetricSet) /\ held[c] \in MetricSet
      BY <2>1, <2>2, <2>3 DEF KHooks, KFiles, KProcesses
    <3>3. RankOf(before.best) \in Int /\ RankOf(best) \in Int /\ RankOf(held[c]) \in Int
      BY <3>2, MetricsKnown DEF Maybe
    <3>4. QED BY <3>1, <3>3
  <2>4. QED BY <2>1, <2>2, <2>3 DEF KPatience
<1>5. ASSUME LeaveBehind PROVE KPatience'
  BY <1>5 DEF LeaveBehind, Trouble, KPatience, Mode, FullyCorrect, pair, hookvars, control, taskvars,
    notes
<1>6. ASSUME ToolReturns PROVE KPatience'
  BY <1>6 DEF ToolReturns, KPatience, Mode, FullyCorrect, pair, hookvars, control, taskvars, notes
<1>7. ASSUME Bind PROVE KPatience'
  <2>1. /\ hook = "returned" /\ hook' = "bound" /\ UNCHANGED <<stop, overlapped, task, progress, best, unimproved>>
        /\ before' = [index |-> before.index,
                      improved |-> best # None /\ bestImpl # None /\ best # before.best,
                      correct |-> FullyCorrect(before.best), annotated |-> before'.annotated]
        /\ (best # None /\ bestImpl # None /\ best # before.best) \/ before'.annotated = None
    BY <1>7 DEF Bind, pair, control, taskvars, notes
  <2>2. /\ before'.improved = (best # None /\ bestImpl # None /\ best # before.best)
        /\ before'.correct = FullyCorrect(before.best)
    BY <2>1
  <2>3. ASSUME ~overlapped, task = "agent", unimproved = -1, RankOf(best) > RankOf(before.best)
        PROVE  before'.improved
    <3>1. RankOf(before.best) \in 0..3 \cup {-1}
      <4>1. before.best \in Maybe(MetricSet)
        BY <2>1 DEF KHooks
      <4>2. QED BY <4>1, MetricsKnown DEF Maybe
    <3>2. best # None /\ best # before.best
      BY <2>3, <3>1, MetricsKnown
    <3>3. bestImpl # None
      BY <2>3, <3>2 DEF KBest, Unsettled
    <3>4. QED BY <2>2, <3>2, <3>3
  <2>4. ASSUME best = before.best
        PROVE  before'.annotated = None /\ before'.correct = FullyCorrect(best)
    BY <2>1, <2>2, <2>4
  <2>5. QED BY <2>1, <2>3, <2>4 DEF KPatience, Mode, FullyCorrect
<1>8. ASSUME Finish PROVE KPatience'
  <2>1. PICK mode \in {"correctness", "latency"} :
          /\ mode = Mode(best')
          /\ progress' = [progress EXCEPT !.count = @ + 1, ![mode] = StaleCount(mode)]
    BY <1>8 DEF Finish, Mode
  <2>2. /\ hook = "bound" /\ hook' = "none" /\ unimproved' = unimproved + 1
        /\ best' = IF before.annotated # None THEN before.annotated ELSE best
        /\ UNCHANGED <<task, overlapped>>
    BY <1>8 DEF Finish, taskvars
  <2>3. /\ progress \in [{"count", "correctness", "latency"} -> 0..MaxEvents]
        /\ unimproved \in Int /\ unimproved >= -1 /\ before.improved \in BOOLEAN
    BY <2>2 DEF KHooks
  <2>4. progress'[mode] = StaleCount(mode)
    BY <2>1, <2>3
  <2>5. ASSUME ~overlapped, task = "agent" PROVE StaleCount(mode) <= unimproved + 1
    <3>1. CASE before.improved
      BY <2>3, <3>1 DEF StaleCount
    <3>2. CASE ~before.improved
      <4>1. /\ best' = best /\ before.correct = FullyCorrect(best) /\ progress[Mode(best)] <= unimproved
        BY <2>2, <2>5, <3>2 DEF KPatience
      <4>2. Mode(best') = Mode(best) /\ (mode = "latency" => before.correct)
        BY <2>1, <4>1 DEF Mode
      <4>3. StaleCount(mode) = progress[mode] + 1
        BY <3>2, <4>2 DEF StaleCount
      <4>4. progress[mode] \in Int /\ progress[mode] <= unimproved
        BY <2>1, <2>3, <4>1, <4>2
      <4>5. QED BY <2>3, <4>3, <4>4
    <3>3. QED BY <3>1, <3>2
  <2>6. ~overlapped /\ task = "agent" => progress'[Mode(best')] <= unimproved'
    BY <2>1, <2>2, <2>4, <2>5
  <2>7. QED BY <2>2, <2>6 DEF KPatience, Mode, FullyCorrect, RankOf
<1>9. ASSUME AgentEnds PROVE KPatience'
  BY <1>9 DEF AgentEnds, TaskGoes, KPatience, Mode, FullyCorrect, pair, hookvars, control, taskvars,
    notes
<1>10. ASSUME Cleanup PROVE KPatience'
  BY <1>10 DEF Cleanup, TaskGoes, KPatience, Mode, FullyCorrect, pair, hookvars, control, taskvars, notes
<1>11. ASSUME CollectImpls PROVE KPatience'
  BY <1>11 DEF CollectImpls, Collects, TaskGoes, KPatience, Mode, FullyCorrect, pair, hookvars, control,
    taskvars, notes
<1>12. ASSUME CollectBest PROVE KPatience'
  BY <1>12 DEF CollectBest, Collects, TaskGoes, KPatience, Mode, FullyCorrect, pair, hookvars, control,
    taskvars, notes
<1>13. ASSUME CollectArtifacts PROVE KPatience'
  BY <1>13 DEF CollectArtifacts, Collects, TaskGoes, KPatience, Mode, FullyCorrect, pair, hookvars,
    control, taskvars, notes
<1>14. ASSUME CollectState PROVE KPatience'
  BY <1>14 DEF CollectState, Collects, TaskGoes, KPatience, Mode, FullyCorrect, pair, hookvars, control,
    taskvars, notes
<1>15. ASSUME ScoreBestPair PROVE KPatience'
  BY <1>15 DEF ScoreBestPair, Scores, TaskGoes, KPatience, Mode, FullyCorrect, pair, hookvars, control,
    taskvars, notes
<1>16. ASSUME Recover PROVE KPatience'
  BY <1>16 DEF Recover, TaskGoes, KPatience, Mode, FullyCorrect, pair, hookvars, control, taskvars, notes
<1>17. ASSUME Recheck PROVE KPatience'
  BY <1>17 DEF Recheck, Scores, TaskGoes, KPatience, Mode, FullyCorrect, pair, hookvars, control,
    taskvars, notes
<1>18. ASSUME ScoreOther PROVE KPatience'
  BY <1>18 DEF ScoreOther, Scores, TaskGoes, KPatience, Mode, FullyCorrect, pair, hookvars, control,
    taskvars, notes
<1>19. ASSUME TaskFails PROVE KPatience'
  BY <1>19 DEF TaskFails, TaskGoes, KPatience, Mode, FullyCorrect, pair, hookvars, control, taskvars,
    notes
<1>20. QED BY <1>1, <1>2, <1>3, <1>4, <1>5, <1>6, <1>7, <1>8, <1>9, <1>10, <1>11, <1>12, <1>13, <1>14,
       <1>15, <1>16, <1>17, <1>18, <1>19 DEF KNext, VerifierStep

\* The metrics of a score are of the implementation it is given for.
LEMMA VerifiedKept ==
  ASSUME KScalars, KFiles, KSnapshot, KHonest, ScoredAsVerified, [KNext]_kvars
  PROVE  ScoredAsVerified'
<1>1. ASSUME UNCHANGED <<task, score, overlapped>>
      PROVE  ScoredAsVerified'
  BY <1>1 DEF ScoredAsVerified, AfterImpls, AfterBest, AfterArtifacts
<1>2. ASSUME \/ \E i \in Impls : Edit(i)
             \/ NextMessage \/ ToolReturns \/ Bind \/ Finish
             \/ \E c \in Calls : Pre(c) \/ Stage(c) \/ BeginVerify(c) \/ EndVerify(c) \/ VerifyFails(c) \/ Benchmark(c) \/ Compare(c) \/ ReplaceImpl(c) \/ ReplaceMetrics(c) \/ KillVerifier(c)
             \/ UNCHANGED kvars
      PROVE  UNCHANGED <<task, score, overlapped>>
  BY <1>2 DEF NextMessage, Edit, Pre, Stage, BeginVerify, EndVerify, VerifyFails, Benchmark, Compare,
    ReplaceImpl, ReplaceMetrics, KillVerifier, ToolReturns, Bind, Finish, AgentFree,
    ProcessGoes, Trouble, kvars, taskvars, notes
<1>3. ASSUME LeaveBehind PROVE ScoredAsVerified'
  BY <1>3 DEF LeaveBehind, Trouble, ScoredAsVerified, AfterImpls, AfterBest, AfterArtifacts, taskvars,
    notes
<1>4. ASSUME AgentEnds PROVE ScoredAsVerified'
  BY <1>4 DEF AgentEnds, TaskGoes, ScoredAsVerified, AfterImpls, AfterBest, AfterArtifacts, taskvars,
    notes
<1>5. ASSUME Cleanup PROVE ScoredAsVerified'
  BY <1>5 DEF Cleanup, TaskGoes, ScoredAsVerified, AfterImpls, AfterBest, AfterArtifacts, taskvars, notes
<1>6. ASSUME CollectImpls PROVE ScoredAsVerified'
  BY <1>6 DEF CollectImpls, Collects, TaskGoes, ScoredAsVerified, AfterImpls, AfterBest, AfterArtifacts,
    taskvars, notes
<1>7. ASSUME CollectBest PROVE ScoredAsVerified'
  BY <1>7 DEF CollectBest, Collects, TaskGoes, ScoredAsVerified, AfterImpls, AfterBest, AfterArtifacts,
    taskvars, notes
<1>8. ASSUME CollectArtifacts PROVE ScoredAsVerified'
  BY <1>8 DEF CollectArtifacts, Collects, TaskGoes, ScoredAsVerified, AfterImpls, AfterBest,
    AfterArtifacts, taskvars, notes
<1>9. ASSUME CollectState PROVE ScoredAsVerified'
  BY <1>9 DEF CollectState, Collects, TaskGoes, ScoredAsVerified, AfterImpls, AfterBest, AfterArtifacts,
    taskvars, notes
<1>10. ASSUME ScoreBestPair PROVE ScoredAsVerified'
  <2>1. /\ task = "decide" /\ PairBound /\ score'.metrics = snapshot.best /\ score'.impl = snapshot.bestImpl
        /\ overlapped' = overlapped
    BY <1>10 DEF ScoreBestPair, Scores, notes
  <2>2. QED BY <2>1 DEF PairBound, KHonest, Honest, AfterBest, AfterImpls, ScoredAsVerified
<1>11. ASSUME Recover PROVE ScoredAsVerified'
  BY <1>11 DEF Recover, TaskGoes, ScoredAsVerified, AfterImpls, AfterBest, AfterArtifacts, taskvars, notes
<1>12. ASSUME Recheck PROVE ScoredAsVerified'
  <2>1. /\ task = "recheck" /\ overlapped' = overlapped
        /\ \/ task' = "raised"
           \/ /\ score'.impl = snapshot.staged
              /\ score'.metrics = [Metrics(snapshot.result, snapshot.perf) EXCEPT !.claim = snapshot.staged]
    BY <1>12 DEF Recheck, Scores, TaskGoes, notes
  <2>2. /\ snapshot.result \in ResultSet /\ snapshot.perf \in BOOLEAN
        /\ snapshot.staged \in Impls
    BY <2>1 DEF KSnapshot, AfterImpls, AfterBest, AfterArtifacts, Maybe
  <2>3. LET m == [Metrics(snapshot.result, snapshot.perf) EXCEPT !.claim = snapshot.staged]
        IN  m.claim = snapshot.staged /\ m.of = snapshot.result.of
    BY <2>2, MetricsKnown
  <2>4. ~overlapped => snapshot.result.of = snapshot.staged
    BY <2>1 DEF KHonest
  <2>5. QED BY <2>1, <2>3, <2>4 DEF ScoredAsVerified
<1>13. ASSUME ScoreOther PROVE ScoredAsVerified'
  BY <1>13 DEF ScoreOther, Scores, TaskGoes, ScoredAsVerified, AfterImpls, AfterBest, AfterArtifacts,
    taskvars, notes
<1>14. ASSUME TaskFails PROVE ScoredAsVerified'
  BY <1>14 DEF TaskFails, TaskGoes, ScoredAsVerified, AfterImpls, AfterBest, AfterArtifacts, taskvars,
    notes
<1>15. QED BY <1>1, <1>2, <1>3, <1>4, <1>5, <1>6, <1>7, <1>8, <1>9, <1>10, <1>11, <1>12, <1>13, <1>14 DEF KNext, VerifierStep

\* The score is at least that of any pair that was complete.
LEMMA BestScoredKept ==
  ASSUME KScalars, KFiles, KSnapshot, KCollected, KReached, BestScored, [KNext]_kvars
  PROVE  BestScored'
<1>1. ASSUME UNCHANGED <<task, score, overlapped, torn, snapshot>>
      PROVE  BestScored'
  BY <1>1 DEF BestScored, AfterImpls, AfterBest, AfterArtifacts
<1>2. ASSUME \/ \E i \in Impls : Edit(i)
             \/ NextMessage \/ ToolReturns \/ Bind \/ Finish
             \/ \E c \in Calls : Pre(c) \/ Stage(c) \/ BeginVerify(c) \/ EndVerify(c) \/ VerifyFails(c) \/ Benchmark(c) \/ Compare(c) \/ ReplaceImpl(c) \/ ReplaceMetrics(c)
             \/ UNCHANGED kvars
      PROVE  UNCHANGED <<task, score, overlapped, torn, snapshot>>
  BY <1>2 DEF NextMessage, Edit, Pre, Stage, BeginVerify, EndVerify, VerifyFails, Benchmark, Compare,
    ReplaceImpl, ReplaceMetrics, ToolReturns, Bind, Finish, AgentFree, ProcessGoes, kvars,
    taskvars, notes
<1>3. ASSUME NEW c \in Calls, KillVerifier(c) PROVE BestScored'
  BY <1>3 DEF KillVerifier, ProcessGoes, Trouble, BestScored, AfterImpls, AfterBest, AfterArtifacts,
    taskvars, notes
<1>4. ASSUME LeaveBehind PROVE BestScored'
  BY <1>4 DEF LeaveBehind, Trouble, BestScored, AfterImpls, AfterBest, AfterArtifacts, taskvars, notes
<1>5. ASSUME AgentEnds PROVE BestScored'
  BY <1>5 DEF AgentEnds, TaskGoes, BestScored, AfterImpls, AfterBest, AfterArtifacts, taskvars, notes
<1>6. ASSUME Cleanup PROVE BestScored'
  BY <1>6 DEF Cleanup, TaskGoes, BestScored, AfterImpls, AfterBest, AfterArtifacts, taskvars, notes
<1>7. ASSUME CollectImpls PROVE BestScored'
  BY <1>7 DEF CollectImpls, Collects, TaskGoes, BestScored, AfterImpls, AfterBest, AfterArtifacts,
    taskvars, notes
<1>8. ASSUME CollectBest PROVE BestScored'
  BY <1>8 DEF CollectBest, Collects, TaskGoes, BestScored, AfterImpls, AfterBest, AfterArtifacts,
    taskvars, notes
<1>9. ASSUME CollectArtifacts PROVE BestScored'
  BY <1>9 DEF CollectArtifacts, Collects, TaskGoes, BestScored, AfterImpls, AfterBest, AfterArtifacts,
    taskvars, notes
<1>10. ASSUME CollectState PROVE BestScored'
  BY <1>10 DEF CollectState, Collects, TaskGoes, BestScored, AfterImpls, AfterBest, AfterArtifacts,
    taskvars, notes
<1>11. ASSUME ScoreBestPair PROVE BestScored'
  <2>1. /\ task = "decide" /\ score'.metrics = snapshot.best /\ UNCHANGED <<snapshot, overlapped>>
    BY <1>11 DEF ScoreBestPair, Scores, notes
  <2>2. ~overlapped => snapshot.reached <= RankOf(snapshot.best)
    BY <2>1 DEF KReached, Unsettled, AfterBest, AfterImpls
  <2>3. RankOf(snapshot.best) \in Int /\ snapshot.reached \in Int
    BY <2>1, MetricsKnown DEF KSnapshot, AfterBest, AfterImpls, Maybe, NoIndex
  <2>4. RankOf(score.metrics)' = RankOf(snapshot.best)
    BY <2>1 DEF RankOf
  <2>5. QED BY <2>1, <2>2, <2>3, <2>4 DEF BestScored
<1>12. ASSUME Recover PROVE BestScored'
  BY <1>12 DEF Recover, TaskGoes, BestScored, AfterImpls, AfterBest, AfterArtifacts, taskvars, notes
<1>13. ASSUME Recheck PROVE BestScored'
  <2>1. /\ task = "recheck" /\ UNCHANGED <<overlapped, torn, snapshot>>
        /\ \/ task' = "raised"
           \/ score'.metrics = [Metrics(snapshot.result, snapshot.perf) EXCEPT !.claim = snapshot.staged]
    BY <1>13 DEF Recheck, Scores, TaskGoes, notes
  <2>2. /\ snapshot.result \in ResultSet /\ snapshot.perf \in BOOLEAN
        /\ snapshot.staged \in Impls /\ snapshot.reached \in NoIndex..3
    BY <2>1 DEF KSnapshot, AfterImpls, AfterBest, AfterArtifacts, Maybe
  <2>3. PICK m \in MetricSet :
          /\ m = [Metrics(snapshot.result, snapshot.perf) EXCEPT !.claim = snapshot.staged]
          /\ m.rank = FastRank(snapshot.result, snapshot.perf)
    <3>1. [Metrics(snapshot.result, snapshot.perf) EXCEPT !.claim = snapshot.staged] \in MetricSet
      BY <2>2, MetricsKnown
    <3>2. [Metrics(snapshot.result, snapshot.perf) EXCEPT !.claim = snapshot.staged].rank
            = FastRank(snapshot.result, snapshot.perf)
      BY <2>2, MetricsKnown
    <3>3. QED BY <3>1, <3>2
  <2>4. RankOf(m) = FastRank(snapshot.result, snapshot.perf) /\ RankOf(m) \in Int
    <3>1. RankOf(m) = m.rank /\ m.rank \in 0..3
      BY MetricsKnown
    <3>2. QED BY <2>3, <3>1
  <2>5. ~overlapped /\ ~torn => snapshot.reached <= FastRank(snapshot.result, snapshot.perf)
    BY <2>1 DEF KReached, AfterImpls
  <2>6. score'.metrics = m => RankOf(score.metrics)' = RankOf(m)
    BY DEF RankOf
  <2>7. QED BY <2>1, <2>2, <2>3, <2>4, <2>5, <2>6 DEF BestScored, NoIndex
<1>14. ASSUME ScoreOther PROVE BestScored'
  <2>1. /\ task = "decide" /\ ~PairBound /\ (snapshot.result = None \/ snapshot.staged = None)
        /\ score'.metrics = None /\ UNCHANGED <<snapshot, overlapped, torn>>
    BY <1>14 DEF ScoreOther, ArtifactsUsable, Scores, notes
  <2>2. /\ snapshot.reached \in NoIndex..3 /\ snapshot.best \in Maybe(MetricSet)
    BY <2>1 DEF KSnapshot, AfterBest, AfterImpls
  <2>3. ASSUME ~overlapped, ~torn PROVE snapshot.reached = NoIndex
    <3>1. CASE snapshot.staged = None
      BY <2>1, <2>3, <3>1 DEF KReached, AfterImpls
    <3>2. CASE snapshot.staged # None
      <4>1. Paired(snapshot.bestImpl, snapshot.best)
        BY <2>1, <2>3, <3>2 DEF KCollected
      <4>2. snapshot.best = None
        <5>1. SUFFICES ASSUME snapshot.best # None PROVE FALSE
          OBVIOUS
        <5>2. snapshot.best.claim \in Impls
          BY <2>2, <5>1, MetricsKnown DEF Maybe
        <5>3. snapshot.bestImpl # None
          BY <4>1, <5>1, <5>2, MetricsKnown DEF Paired
        <5>4. PairBound
          BY <4>1, <5>1, <5>3 DEF Paired, PairBound
        <5>5. QED BY <2>1, <5>4
      <4>3. snapshot.reached <= RankOf(None)
        BY <2>1, <2>3, <4>2 DEF KReached, Unsettled, AfterBest, AfterImpls
      <4>4. QED BY <2>2, <4>3, MetricsKnown DEF NoIndex
    <3>3. QED BY <3>1, <3>2
  <2>4. RankOf(score.metrics)' = NoIndex
    BY <2>1 DEF RankOf
  <2>5. QED BY <2>1, <2>3, <2>4 DEF BestScored, NoIndex
<1>15. ASSUME TaskFails PROVE BestScored'
  BY <1>15 DEF TaskFails, TaskGoes, BestScored, AfterImpls, AfterBest, AfterArtifacts, taskvars, notes
<1>16. QED BY <1>1, <1>2, <1>3, <1>4, <1>5, <1>6, <1>7, <1>8, <1>9, <1>10, <1>11, <1>12, <1>13, <1>14,
       <1>15 DEF KNext, VerifierStep

\* The training prefix holds the message that wrote the best.
LEMMA PrefixKept ==
  ASSUME KScalars, KFiles, KSnapshot, KNotes, PrefixHoldsBest, [KNext]_kvars
  PROVE  PrefixHoldsBest'
<1>1. ASSUME UNCHANGED <<task, score, written>>
      PROVE  PrefixHoldsBest'
  BY <1>1 DEF PrefixHoldsBest, AfterImpls, AfterBest, AfterArtifacts
<1>2. ASSUME \/ NextMessage \/ LeaveBehind \/ ToolReturns \/ Bind \/ Finish
             \/ \E c \in Calls : Pre(c) \/ Stage(c) \/ BeginVerify(c) \/ EndVerify(c) \/ VerifyFails(c) \/ Benchmark(c) \/ Compare(c) \/ ReplaceImpl(c) \/ ReplaceMetrics(c) \/ KillVerifier(c)
             \/ UNCHANGED kvars
      PROVE  UNCHANGED <<task, score, written>>
  BY <1>2 DEF NextMessage, Pre, Stage, BeginVerify, EndVerify, VerifyFails, Benchmark, Compare,
    ReplaceImpl, ReplaceMetrics, KillVerifier, LeaveBehind, ToolReturns, Bind, Finish,
    AgentFree, ProcessGoes, Trouble, kvars, agentvars, taskvars
<1>3. ASSUME NEW i \in Impls, Edit(i) PROVE PrefixHoldsBest'
  BY <1>3 DEF Edit, AgentFree, PrefixHoldsBest, AfterImpls, AfterBest, AfterArtifacts, agentvars,
    taskvars
<1>4. ASSUME AgentEnds PROVE PrefixHoldsBest'
  BY <1>4 DEF AgentEnds, TaskGoes, PrefixHoldsBest, AfterImpls, AfterBest, AfterArtifacts, agentvars,
    taskvars
<1>5. ASSUME Cleanup PROVE PrefixHoldsBest'
  BY <1>5 DEF Cleanup, TaskGoes, PrefixHoldsBest, AfterImpls, AfterBest, AfterArtifacts, agentvars,
    taskvars
<1>6. ASSUME CollectImpls PROVE PrefixHoldsBest'
  BY <1>6 DEF CollectImpls, Collects, TaskGoes, PrefixHoldsBest, AfterImpls, AfterBest, AfterArtifacts,
    agentvars, taskvars
<1>7. ASSUME CollectBest PROVE PrefixHoldsBest'
  BY <1>7 DEF CollectBest, Collects, TaskGoes, PrefixHoldsBest, AfterImpls, AfterBest, AfterArtifacts,
    agentvars, taskvars
<1>8. ASSUME CollectArtifacts PROVE PrefixHoldsBest'
  BY <1>8 DEF CollectArtifacts, Collects, TaskGoes, PrefixHoldsBest, AfterImpls, AfterBest,
    AfterArtifacts, agentvars, taskvars
<1>9. ASSUME CollectState PROVE PrefixHoldsBest'
  BY <1>9 DEF CollectState, Collects, TaskGoes, PrefixHoldsBest, AfterImpls, AfterBest, AfterArtifacts,
    agentvars, taskvars
<1>10. ASSUME ScoreBestPair PROVE PrefixHoldsBest'
  <2>1. /\ task = "decide" /\ PairBound /\ score'.impl = snapshot.bestImpl /\ written' = written
        /\ score'.train = IF snapshot.best.noteOf = snapshot.bestImpl THEN snapshot.best.index ELSE NoIndex
    BY <1>10 DEF ScoreBestPair, Scores, agentvars
  <2>2. NoteHolds(snapshot.best)
    BY <2>1 DEF KNotes, AfterBest, AfterImpls
  <2>3. QED BY <2>1, <2>2 DEF PairBound, NoteHolds, PrefixHoldsBest
<1>11. ASSUME Recover PROVE PrefixHoldsBest'
  BY <1>11 DEF Recover, TaskGoes, PrefixHoldsBest, AfterImpls, AfterBest, AfterArtifacts, agentvars,
    taskvars
<1>12. ASSUME Recheck PROVE PrefixHoldsBest'
  BY <1>12 DEF Recheck, Scores, TaskGoes, PrefixHoldsBest, AfterImpls, AfterBest, AfterArtifacts,
    agentvars, taskvars
<1>13. ASSUME ScoreOther PROVE PrefixHoldsBest'
  BY <1>13 DEF ScoreOther, Scores, TaskGoes, PrefixHoldsBest, AfterImpls, AfterBest, AfterArtifacts,
    agentvars, taskvars
<1>14. ASSUME TaskFails PROVE PrefixHoldsBest'
  BY <1>14 DEF TaskFails, TaskGoes, PrefixHoldsBest, AfterImpls, AfterBest, AfterArtifacts, agentvars,
    taskvars
<1>15. QED BY <1>1, <1>2, <1>3, <1>4, <1>5, <1>6, <1>7, <1>8, <1>9, <1>10, <1>11, <1>12, <1>13, <1>14 DEF KNext, VerifierStep

\* A stop has its patience used up.
LEMMA StopKept ==
  ASSUME KScalars, KFiles, KProcesses, KHooks, KHooks', OneVerifier, KPatience, KPatience',
         StopJustified, [KNext]_kvars
  PROVE  StopJustified'
<1>1. ASSUME UNCHANGED <<stop, overlapped, unimproved>>
      PROVE  StopJustified'
  BY <1>1 DEF StopJustified
<1>2. ASSUME \/ \E i \in Impls : Edit(i)
             \/ NextMessage \/ ToolReturns \/ Bind \/ AgentEnds \/ Cleanup \/ CollectImpls
             \/ CollectBest \/ CollectArtifacts \/ CollectState \/ ScoreBestPair \/ Recover
             \/ Recheck \/ ScoreOther \/ TaskFails
             \/ \E c \in Calls : Pre(c) \/ Stage(c) \/ BeginVerify(c) \/ EndVerify(c) \/ VerifyFails(c) \/ Benchmark(c) \/ Compare(c) \/ ReplaceImpl(c) \/ KillVerifier(c)
             \/ UNCHANGED kvars
      PROVE  UNCHANGED <<stop, overlapped, unimproved>>
  BY <1>2 DEF NextMessage, Edit, Pre, Stage, BeginVerify, EndVerify, VerifyFails, Benchmark, Compare,
    ReplaceImpl, KillVerifier, ToolReturns, Bind, AgentEnds, Cleanup, CollectImpls,
    CollectBest, CollectArtifacts, CollectState, ScoreBestPair, Recover, Recheck, ScoreOther,
    TaskFails, AgentFree, Collects, ProcessGoes, Scores, TaskGoes, Trouble, kvars, control,
    notes
<1>3. ASSUME NEW c \in Calls, ReplaceMetrics(c) PROVE StopJustified'
  <2>1. process[c] = "half" /\ UNCHANGED <<stop, overlapped>>
    BY <1>3 DEF ReplaceMetrics, control
  <2>2. ~overlapped => stop = None
    BY <2>1 DEF OneVerifier, KPatience
  <2>3. QED BY <2>1, <2>2 DEF StopJustified
<1>4. ASSUME LeaveBehind PROVE StopJustified'
  BY <1>4 DEF LeaveBehind, Trouble, StopJustified, control, notes
<1>5. ASSUME Finish PROVE StopJustified'
  <2>1. PICK mode \in {"correctness", "latency"} :
          /\ mode = Mode(best')
          /\ progress' = [progress EXCEPT !.count = @ + 1, ![mode] = StaleCount(mode)]
          /\ \/ stop' = None
             \/ /\ Patience[mode] > 0 /\ StaleCount(mode) >= Patience[mode]
                /\ stop' = [mode |-> mode, patience |-> Patience[mode], stale |-> StaleCount(mode),
                            count |-> progress.count + 1]
    <3>1. PICK next : \E mode \in {"correctness", "latency"} :
            /\ mode = Mode(best')
            /\ next = [progress EXCEPT !.count = @ + 1, ![mode] = StaleCount(mode)] /\ progress' = next
            /\ \/ stop' = None
               \/ /\ Patience[mode] > 0 /\ StaleCount(mode) >= Patience[mode]
                  /\ stop' = [mode |-> mode, patience |-> Patience[mode], stale |-> StaleCount(mode),
                              count |-> next.count]
      BY <1>5 DEF Finish, Mode
    <3>2. next.count = progress.count + 1
      BY <3>1 DEF KHooks
    <3>3. QED BY <3>1, <3>2
  <2>2. hook = "bound" /\ hook' = "none" /\ task = "agent" /\ UNCHANGED <<task, overlapped>>
    BY <1>5 DEF Finish, taskvars
  <2>3. /\ progress \in [{"count", "correctness", "latency"} -> 0..MaxEvents]
        /\ progress["correctness"] <= progress.count /\ progress["latency"] <= progress.count
        /\ unimproved' \in Int
    BY <2>2 DEF KHooks
  <2>4. StaleCount(mode) \in Nat /\ StaleCount(mode) <= progress.count + 1 /\ Patience[mode] \in Nat
    BY <2>3, KernelAssumption DEF StaleCount
  <2>5. ~overlapped => StaleCount(mode) <= unimproved'
    <3>1. progress'[mode] = StaleCount(mode)
      BY <2>1, <2>3
    <3>2. ~overlapped => progress'[Mode(best')] <= unimproved'
      BY <2>2 DEF KPatience, Mode, FullyCorrect, RankOf
    <3>3. QED BY <2>1, <3>1, <3>2
  <2>6. stop' # None => /\ stop'.patience = Patience[mode] /\ Patience[mode] > 0
                        /\ stop'.stale = StaleCount(mode) /\ StaleCount(mode) >= Patience[mode]
                        /\ stop'.count = progress.count + 1
    BY <2>1
  <2>7. QED BY <2>2, <2>3, <2>4, <2>5, <2>6 DEF StopJustified
<1>6. QED BY <1>1, <1>2, <1>3, <1>4, <1>5 DEF KNext, VerifierStep

\* Each part is kept by a step.
LEMMA KernelKeepsInv == KInv /\ [KNext]_kvars => KInv'
<1> SUFFICES ASSUME KInv, [KNext]_kvars PROVE KInv'
  OBVIOUS
<1>a. /\ KScalars /\ KFiles /\ KProcesses /\ KHooks /\ KStale /\ KSnapshot
      /\ KKnown /\ KNotes /\ OneVerifier /\ KMeasured /\ KHigher /\ KFresh /\ KHonest
      /\ KBest /\ KPaired /\ KCollected /\ KReached /\ KPatience
      /\ ScoredAsVerified /\ BestScored /\ PrefixHoldsBest /\ StopJustified
  BY DEF KInv, KData
<1>1. KScalars' /\ KFiles' /\ KProcesses'
  BY <1>a, ScalarsKept, FilesTyped, ProcessesKept
<1>2. KHooks' /\ KStale' /\ KSnapshot'
  BY <1>a, HooksKept, StaleKept, SnapshotKept
<1>3. KKnown' /\ KNotes' /\ OneVerifier'
  BY <1>a, KnownKept, NotesKept, OneVerifierKept
<1>4. KMeasured' /\ KHigher' /\ KFresh' /\ KHonest'
  BY <1>a, MeasuredKept, HigherKept, FreshKept, HonestKept
<1>5. KBest' /\ KPaired' /\ KCollected'
  BY <1>a, BestKept, PairedKept, CollectedKept
<1>6. KReached' /\ KPatience'
  BY <1>a, ReachedKept, PatienceKept
<1>7. ScoredAsVerified' /\ BestScored'
  BY <1>a, VerifiedKept, BestScoredKept
<1>8. PrefixHoldsBest' /\ StopJustified'
  BY <1>a, <1>2, <1>6, PrefixKept, StopKept
<1>9. QED BY <1>1, <1>2, <1>3, <1>4, <1>5, <1>6, <1>7, <1>8 DEF KInv, KData

\* In every state of a session.
LEMMA KernelCorrect == KSpec => []KInv
<1>1. ASSUME KInit PROVE KInv
  <2>1. KScalars /\ KStale /\ KSnapshot
    <3>1. task = "agent" /\ message = 0 /\ hook = "none" /\ stale = {}
          /\ overlapped = FALSE /\ torn = FALSE
      BY <1>1 DEF KInit
    <3>2. MaxMessages \in Nat /\ MaxMessages # 0
      BY KernelAssumption
    <3>3. message \in 0..(MaxMessages - 1)
      BY <3>1, <3>2
    <3>4. task \in StageNames
      BY <3>1 DEF StageNames
    <3>5. KScalars
      BY <3>1, <3>3, <3>4 DEF KScalars
    <3>6. task \notin AfterImpls /\ task \notin AfterBest /\ task \notin AfterArtifacts
          /\ task # "recheck"
      BY <3>1 DEF AfterImpls, AfterBest, AfterArtifacts
    <3>7. KSnapshot
      BY <3>6 DEF KSnapshot
    <3>8. KStale
      BY <3>1 DEF KStale
    <3>9. QED BY <3>5, <3>7, <3>8
  <2>2. KFiles
    <3>1. written \in [Impls -> NoIndex..(MaxMessages - 1)]
      BY <1>1, KernelAssumption DEF KInit, NoIndex
    <3>2. current = None /\ staged = None /\ bestImpl = None /\ result = None /\ best = None
          /\ perf = FALSE /\ reached = -1
      BY <1>1 DEF KInit, NoIndex
    <3>3. \A S : None \in Maybe(S)
      BY DEF Maybe
    <3>4. -1 \in NoIndex..3
      BY DEF NoIndex
    <3>5. QED BY <3>1, <3>2, <3>3, <3>4 DEF KFiles
  <2>3. KProcesses
    BY <1>1, KernelAssumption DEF KInit, KProcesses, Calls
  <2>4. KHooks
    <3>1. progress = [count |-> 0, correctness |-> 0, latency |-> 0] /\ 0 \in 0..MaxEvents
      BY <1>1, KernelAssumption DEF KInit
    <3>2. progress \in [{"count", "correctness", "latency"} -> 0..MaxEvents]
      BY <3>1
    <3>3. QED BY <1>1, <3>1, <3>2 DEF KInit, KHooks
  <2>5. KKnown
    BY <1>1 DEF KInit, KKnown, Known, NoIndex
  <2>6. KNotes /\ OneVerifier /\ KFresh
    BY <1>1 DEF KInit, KNotes, NoteHolds, AfterBest, AfterImpls, OneVerifier, KFresh, AfterArtifacts
  <2>7. KMeasured /\ KHigher /\ KHonest
    BY <1>1 DEF KInit, KMeasured, KHigher, KHonest, Honest, AfterBest, AfterImpls
  <2>8. KBest /\ KPaired /\ KCollected
    BY <1>1 DEF KInit, KBest, KPaired, Paired, KCollected
  <2>9. KReached
    BY <1>1 DEF KInit, KReached, RankOf, NoIndex, AfterBest, AfterImpls
  <2>10. KPatience
    BY <1>1 DEF KInit, KPatience, Mode, FullyCorrect
  <2>11. ScoredAsVerified /\ BestScored /\ PrefixHoldsBest /\ StopJustified
    BY <1>1 DEF KInit, ScoredAsVerified, BestScored, PrefixHoldsBest, StopJustified
  <2>12. QED BY <2>1, <2>2, <2>3, <2>4, <2>5, <2>6, <2>7, <2>8, <2>9, <2>10, <2>11 DEF KInv, KData
<1>2. QED BY <1>1, KernelKeepsInv, PTL DEF KSpec

-----------------------------------------------------------------------------
(* The runs of a task: what holds of its part holds of TaskRuns. *)

\* A behaviour of TaskRuns is one of each part.
LEMMA PartsRun ==
  TasksSpec => LeaseSpec /\ KSpec /\ EpisodeSpec /\ HarborSpec /\ LoopSpec /\ LogSpec
<1>1. TasksInit => LeaseInit /\ KInit /\ TaskInit /\ HarborInit /\ LoopInit /\ LogInit
  BY DEF TasksInit
<1>2. [\/ LeaseStep \/ VerifyStep \/ EpisodeStep \/ TrialStep \/ LoopStep \/ LogStep]_allvars
        => /\ [LeaseNext]_leasevars /\ [KNext]_kvars
           /\ [TaskStep \/ TaskOver]_episodevars
           /\ [HarborNext \/ HarborOver]_harborVars
           /\ [LoopNext \/ LoopOver]_loopVars /\ [LogNext \/ LogsOver]_logvars
  BY DEF LeaseStep, VerifyStep, EpisodeStep, TrialStep, LoopStep, LogStep, allvars
<1>3. QED BY <1>1, <1>2, PTL
     DEF TasksSpec, LeaseSpec, KSpec, EpisodeSpec, HarborSpec, LoopSpec, LogSpec

\* When a run is over nothing of it is left on its host: no verifier of an
\* ended session, no credentials of OpenClaw, no Harbor CLI and no trial.
THEOREM NothingIsLeft == TasksSpec => []NothingLeft
<1>1. EpisodeInv => CredentialsRemoved
  BY DEF EpisodeInv, AgentInv, SecretKept, CredentialsRemoved, AgentOver
<1>2. HarborInv => TrialLeavesNothing
  BY DEF HarborInv, TrialLeavesNothing
<1>3. CleanupComplete /\ CredentialsRemoved /\ TrialLeavesNothing => NothingLeft
  BY DEF NothingLeft
<1>4. QED BY <1>1, <1>2, <1>3, PartsRun, CleanupIsComplete, EpisodeCorrect, HarborCorrect, PTL

\* An agent says "finished" only of an episode that its policy, or the CLI it
\* ran, brought to an end of its own, and gives an error for any other.
THEOREM EndsAreHonest == TasksSpec => []HonestEnd
<1>1. EpisodeInv /\ LoopInv => HonestEnd
  BY DEF EpisodeInv, AgentInv, LoopInv, HonestEnd
<1>2. QED BY <1>1, PartsRun, EpisodeCorrect, LoopCorrect, PTL

\* What is graded is the agent's own work: made without the upstream history,
\* and tested as the agent left it.
THEOREM WorkIsTheAgents == TasksSpec => []AgentsOwnWork
<1>1. EpisodeInv => AgentsOwnWork
  BY DEF EpisodeInv, AgentInPhase, WorkFollows, SolutionHidden, AgentsOwnWork
<1>2. QED BY <1>1, PartsRun, EpisodeCorrect, PTL

\* A resolved instance was resolved by the tests that this episode ran.
THEOREM RewardIsEarned == TasksSpec => []RewardEarned
<1>1. EpisodeInv => RewardEarned
  BY DEF EpisodeInv, OutcomeFollows, RewardEarned
<1>2. QED BY <1>1, PartsRun, EpisodeCorrect, PTL

\* No turn is lost: a conversation answers each of its tool calls before it
\* goes on, and mem_agent's contexts hold every turn once.
THEOREM TurnsAreKept == TasksSpec => []TurnsKept
<1>1. LoopInv => TurnsKept
  BY DEF LoopInv, TurnsKept
<1>2. QED BY <1>1, PartsRun, LoopCorrect, PTL

\* The score of a kernel session is that of the best implementation whose
\* verification bore it out, and an early stop had its patience used up.
THEOREM ScoresAreSound == TasksSpec => []ScoreSound
<1>1. KInv => ScoreSound
  BY DEF KInv, ScoreSound
<1>2. QED BY <1>1, PartsRun, KernelCorrect, PTL

\* What the runs logged is in their files and the root logger is the host's
\* again; and every part keeps its types.
THEOREM LogsAreKept == TasksSpec => []LogsKept
<1>1. TasksInit => part \in {"lease", "verify", "episode", "trial", "loop", "log"}
  BY DEF TasksInit
<1>2. part \in {"lease", "verify", "episode", "trial", "loop", "log"}
      /\ [\/ LeaseStep \/ VerifyStep \/ EpisodeStep \/ TrialStep \/ LoopStep \/ LogStep]_allvars
        => (part \in {"lease", "verify", "episode", "trial", "loop", "log"})'
  BY DEF LeaseStep, VerifyStep, EpisodeStep, TrialStep, LoopStep, LogStep, allvars
<1>3. /\ KInv => KTypeOK
      /\ EpisodeInv => EpisodeTypeOK
      /\ HarborInv => HarborTypeOK
      /\ LoopInv => LoopTypeOK
      /\ LogInv => LogTypeOK
  BY KTypes DEF KInv, EpisodeInv, HarborInv, LoopInv, LogInv, LogState
<1>4. ASSUME part \in {"lease", "verify", "episode", "trial", "loop", "log"},
             LeaseTypeOK, KTypeOK, EpisodeTypeOK, HarborTypeOK, LoopTypeOK, LogTypeOK
      PROVE  TasksTypeOK
  <2>1. CASE part = "lease"
    BY <2>1, <1>4 DEF TasksTypeOK
  <2>2. CASE part = "verify"
    BY <2>2, <1>4 DEF TasksTypeOK
  <2>3. CASE part = "episode"
    BY <2>3, <1>4 DEF TasksTypeOK
  <2>4. CASE part = "trial"
    BY <2>4, <1>4 DEF TasksTypeOK
  <2>5. CASE part = "loop"
    BY <2>5, <1>4 DEF TasksTypeOK
  <2>6. CASE part = "log"
    BY <2>6, <1>4 DEF TasksTypeOK
  <2>7. QED BY <1>4, <2>1, <2>2, <2>3, <2>4, <2>5, <2>6
<1>5. LogInv => LogsSound
  BY LogsAreSound
<1>6. TasksTypeOK /\ LogsSound => LogsKept
  BY DEF LogsKept
<1>7. QED
  BY <1>1, <1>2, <1>3, <1>4, <1>5, <1>6, PartsRun, LeaseTyped, KernelCorrect, EpisodeCorrect,
     HarborCorrect, LoopCorrect, LogCorrect, PTL DEF TasksSpec

=============================================================================
