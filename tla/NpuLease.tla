------------------------------- MODULE NpuLease -------------------------------
(***************************************************************************)
(* The evaluator NPUs of examples/claude_code_kernel_task: a wrapper       *)
(* (with_npu_lease.py) runs a verifier while it holds the lock of one      *)
(* device, and cleanup_task_processes.sh ends the wrappers and verifiers   *)
(* of one workspace before their results are read.                         *)
(*                                                                         *)
(* A verifier is a process group of a child and a helper.  A member may    *)
(* ignore SIGTERM, and a helper may have been started without the lock's   *)
(* file descriptor; SIGKILL takes effect at once.  A device is free when   *)
(* the last process that has its descriptor open is gone.                  *)
(***************************************************************************)
EXTENDS FiniteSets

CONSTANTS
  Wrappers,  \* runs of the wrapper
  Mine,      \* those in the workspace that is cleaned up
  Devices

NoDevice == "none"

ASSUME LeaseAssumption == Mine \subseteq Wrappers /\ NoDevice \notin Devices

Members == {"child", "helper"}

VARIABLES
  wrapper,   \* where a wrapper is in main(); killed when it was ended by a signal
  device,    \* the device whose lock it was given
  members,   \* running members of its process group
  stubborn,  \* members that ignore SIGTERM
  bare,      \* wrappers whose helper has no lock descriptor
  file,      \* its state file: absent, alone, group
  cleaning,  \* cleanup: no, term, wait, kill, wait_killed, ok, failed
  todo,      \* state files the round of signals has still to read
  orphans,   \* wrappers killed between Popen and the state file that names the child
  late       \* wrappers begun after the cleanup had looked for state files

leasevars == <<wrapper, device, members, stubborn, bare, file, cleaning, todo, orphans, late>>

LeaseInit ==
  /\ wrapper = [w \in Wrappers |-> "idle"]
  /\ device = [w \in Wrappers |-> NoDevice]
  /\ members = [w \in Wrappers |-> {}]
  /\ stubborn = [w \in Wrappers |-> {}] /\ bare = {}
  /\ file = [w \in Wrappers |-> "absent"]
  /\ cleaning = "no" /\ todo = {} /\ orphans = {} /\ late = {}

Gone == {"gone", "killed"}
Group == <<members, stubborn, bare>>
CleanupVars == <<cleaning, todo>>
WrapperGoes(w, stage) == wrapper' = [wrapper EXCEPT ![w] = stage]

\* Mutant: Popen without pass_fds.
HoldersWrapper(w) == IF wrapper[w] \in {"idle"} \cup Gone THEN {} ELSE {"wrapper"}

\* Who has the lock of the wrapper's device open.
Holders(w) ==
  (IF wrapper[w] \in {"idle"} \cup Gone THEN {} ELSE {"wrapper"})
    \cup (IF w \in bare THEN members[w] \ {"helper"} ELSE members[w])

\* Of the group only some members are left.
GroupKeeps(w, left) ==
  /\ members' = [members EXCEPT ![w] = @ \cap left]
  /\ stubborn' = [stubborn EXCEPT ![w] = @ \cap left]
  /\ bare' = IF "helper" \in left THEN bare ELSE bare \ {w}

Taken(d) == \E w \in Wrappers : device[w] = d /\ Holders(w) # {}

-----------------------------------------------------------------------------
(* with_npu_lease.py, main(). *)

\* The state file names the wrapper alone.
BeginWrapper(w) ==
  /\ wrapper[w] = "idle" /\ WrapperGoes(w, "waiting")
  /\ file' = [file EXCEPT ![w] = "alone"]
  /\ late' = IF w \in Mine /\ cleaning # "no" THEN late \cup {w} ELSE late
  /\ UNCHANGED <<device, Group, CleanupVars, orphans>>

\* flock of the first device that is free, without waiting.
Acquire(w) ==
  /\ wrapper[w] = "waiting"
  /\ \E d \in Devices : ~Taken(d) /\ device' = [device EXCEPT ![w] = d]
  /\ WrapperGoes(w, "leased")
  /\ UNCHANGED <<Group, file, CleanupVars, orphans, late>>

\* No device was free until the deadline.
LeaseTimeout(w) ==
  /\ wrapper[w] = "waiting" /\ \A d \in Devices : Taken(d)
  /\ WrapperGoes(w, "gone") /\ file' = [file EXCEPT ![w] = "absent"]
  /\ UNCHANGED <<device, Group, CleanupVars, orphans, late>>

\* Popen in a new session, the lock descriptor passed on.
Spawn(w) ==
  /\ wrapper[w] = "leased" /\ WrapperGoes(w, "spawned")
  /\ members' = [members EXCEPT ![w] = {"child"}]
  /\ stubborn' \in {stubborn, [stubborn EXCEPT ![w] = {"child"}]}
  /\ UNCHANGED <<device, bare, file, CleanupVars, orphans, late>>

Register(w) ==
  /\ wrapper[w] = "spawned" /\ WrapperGoes(w, "registered")
  /\ file' = [file EXCEPT ![w] = "group"]
  /\ UNCHANGED <<device, Group, CleanupVars, orphans, late>>

\* From here on SIGTERM is forwarded to the group.
InstallHandlers(w) ==
  /\ wrapper[w] = "registered" /\ WrapperGoes(w, "guarding")
  /\ UNCHANGED <<device, Group, file, CleanupVars, orphans, late>>

\* child.wait() returned; the handlers are restored.
ChildReaped(w) ==
  /\ wrapper[w] = "guarding" /\ "child" \notin members[w]
  /\ WrapperGoes(w, "draining")
  /\ UNCHANGED <<device, Group, file, CleanupVars, orphans, late>>

\* _terminate_process_group: SIGTERM, and SIGKILL after the grace period.
TerminateGroup(w) ==
  /\ wrapper[w] = "draining" /\ WrapperGoes(w, "closing")
  /\ GroupKeeps(w, {})
  /\ UNCHANGED <<device, file, CleanupVars, orphans, late>>

\* handle.close() without LOCK_UN; the state file is unlinked.
EndWrapper(w) ==
  /\ wrapper[w] = "closing" /\ WrapperGoes(w, "gone")
  /\ file' = [file EXCEPT ![w] = "absent"]
  /\ UNCHANGED <<device, Group, CleanupVars, orphans, late>>

-----------------------------------------------------------------------------
(* The verifier, and signals. *)

StartMember(w) ==
  /\ members[w] = {"child"}
  /\ members' = [members EXCEPT ![w] = Members]
  /\ stubborn' \in {stubborn, [stubborn EXCEPT ![w] = @ \cup {"helper"}]}
  /\ bare' \in {bare, bare \cup {w}}
  /\ UNCHANGED <<wrapper, device, file, CleanupVars, orphans, late>>

MemberExits(w, m) ==
  /\ m \in members[w] /\ GroupKeeps(w, members[w] \ {m})
  /\ UNCHANGED <<wrapper, device, file, CleanupVars, orphans, late>>

\* A signal that the wrapper does not survive; its finally clauses do not run.
Killed(w) ==
  IF wrapper[w] \in {"idle"} \cup Gone THEN UNCHANGED <<wrapper, orphans>>
  ELSE /\ WrapperGoes(w, "killed")
       /\ orphans' = IF wrapper[w] = "spawned" THEN orphans \cup {w} ELSE orphans

\* timeout --kill-after, or the out-of-memory killer.
KillWrapper(w) ==
  /\ wrapper[w] \notin {"idle"} \cup Gone /\ Killed(w)
  /\ UNCHANGED <<device, Group, file, CleanupVars, late>>

-----------------------------------------------------------------------------
(* cleanup_task_processes.sh. *)

Files == {w \in Mine : file[w] # "absent"}

BeginCleanup ==
  /\ cleaning = "no" /\ cleaning' = "term" /\ todo' = Files
  /\ UNCHANGED <<wrapper, device, Group, file, orphans, late>>

\* SIGTERM to the wrapper, which forwards it while it waits for the child, and
\* to the group when the file names one.
SignalTerm(w) ==
  /\ cleaning = "term" /\ w \in todo /\ todo' = todo \ {w}
  /\ IF file[w] # "absent" /\ wrapper[w] # "guarding" THEN Killed(w) ELSE UNCHANGED <<wrapper, orphans>>
  /\ IF file[w] = "group" THEN GroupKeeps(w, stubborn[w]) ELSE UNCHANGED Group
  /\ UNCHANGED <<device, file, cleaning, late>>

SignalKill(w) ==
  /\ cleaning = "kill" /\ w \in todo /\ todo' = todo \ {w}
  /\ IF file[w] # "absent" THEN Killed(w) ELSE UNCHANGED <<wrapper, orphans>>
  /\ IF file[w] = "group" THEN GroupKeeps(w, {}) ELSE UNCHANGED Group
  /\ UNCHANGED <<device, file, cleaning, late>>

RoundEnds ==
  /\ cleaning \in {"term", "kill"} /\ todo = {}
  /\ cleaning' = IF cleaning = "term" THEN "wait" ELSE "wait_killed"
  /\ UNCHANGED <<wrapper, device, Group, file, todo, orphans, late>>

\* registered_alive.
Alive ==
  {w \in Files : wrapper[w] \notin Gone \/ (file[w] = "group" /\ members[w] # {})}

\* The wait ends as soon as no registered process is alive, and the state files
\* are removed; or it expires.
WaitEnds ==
  /\ cleaning \in {"wait", "wait_killed"}
  /\ \/ /\ Alive = {} /\ cleaning' = "ok"
        /\ file' = [w \in Wrappers |-> IF w \in Mine THEN "absent" ELSE file[w]]
        /\ UNCHANGED todo
     \/ /\ Alive # {} /\ UNCHANGED file
        /\ IF cleaning = "wait" THEN cleaning' = "kill" /\ todo' = Files
           ELSE cleaning' = "failed" /\ UNCHANGED todo
  /\ UNCHANGED <<wrapper, device, Group, orphans, late>>

\* Nothing is left to do.
LeaseOver ==
  /\ cleaning \in {"ok", "failed"}
  /\ \A w \in Wrappers : wrapper[w] \in Gone /\ members[w] = {}
  /\ UNCHANGED leasevars

-----------------------------------------------------------------------------
LeaseNext ==
  \/ \E w \in Wrappers :
       \/ BeginWrapper(w) \/ Acquire(w) \/ LeaseTimeout(w) \/ Spawn(w) \/ Register(w)
       \/ InstallHandlers(w) \/ ChildReaped(w) \/ TerminateGroup(w) \/ EndWrapper(w)
       \/ StartMember(w) \/ KillWrapper(w) \/ \E m \in Members : MemberExits(w, m)
       \/ SignalTerm(w) \/ SignalKill(w)
  \/ BeginCleanup \/ RoundEnds \/ WaitEnds \/ LeaseOver

LeaseSpec == LeaseInit /\ [][LeaseNext]_leasevars

-----------------------------------------------------------------------------
(* Properties. *)

\* The type invariant.
LeaseTypeOK ==
  /\ wrapper \in [Wrappers -> Gone \cup {"idle", "waiting", "leased", "spawned", "registered",
                                         "guarding", "draining", "closing"}]
  /\ device \in [Wrappers -> Devices \cup {NoDevice}]
  /\ members \in [Wrappers -> SUBSET Members]
  /\ \A w \in Wrappers : stubborn[w] \subseteq members[w]
  /\ bare \subseteq {w \in Wrappers : "helper" \in members[w]} /\ file \in [Wrappers -> {"absent", "alone", "group"}]
  /\ cleaning \in {"no", "term", "wait", "kill", "wait_killed", "ok", "failed"}
  /\ todo \subseteq Mine /\ orphans \subseteq Wrappers /\ late \subseteq Mine

\* Two verifiers never work on one device, also when a wrapper was killed and
\* its verifier runs on, or its verifier left helpers behind
\* (with_npu_lease.py:154-157).  A helper without the descriptor whose wrapper
\* was killed is excluded by name.
LeaseExclusive ==
  LET Work(w) == IF w \in bare /\ wrapper[w] = "killed" THEN members[w] \ {"helper"} ELSE members[w]
  IN \A v, w \in Wrappers :
       Work(v) # {} /\ Work(w) # {} /\ device[v] = device[w] => v = w

\* A clean-up that succeeds has ended every verifier of its workspace, whatever
\* its processes did with SIGTERM and at whatever point the signals met them
\* (task.py:158 "Stop agent-time verifier children before reading their
\* snapshots").  Excluded by name: a wrapper killed before its state file names
\* the child, and wrappers that begin while the clean-up runs.
CleanupComplete ==
  cleaning = "ok" => \A w \in Mine \ (orphans \cup late) : members[w] = {}

=============================================================================
