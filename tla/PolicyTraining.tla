--------------------------- MODULE PolicyTraining ---------------------------
(***************************************************************************)
(* The training loop of examples/multi_policy in separate_async mode, the  *)
(* batch layer of the agent framework that fills the TransferQueue for it, *)
(* and the checkpoint manager.                                             *)
(*                                                                         *)
(* The trainer submits one prompt per step, samples one finished prompt,   *)
(* updates every policy and saves.  Rollouts are submitted without waiting *)
(* for them: each runs Sessions sessions, writes the rows of those that    *)
(* succeed and ends with a status for its prompt.  A crash ends the        *)
(* process at any point, also between two files of a checkpoint; the next  *)
(* life resumes from the tracker or from a directory the user names.       *)
(*                                                                         *)
(* A uid is <<life, position>>: the life that fetched the prompt and the   *)
(* position of its sample in the dataset.  A policy's weights are the set  *)
(* of positions it was trained on.  A part of a checkpoint carries the     *)
(* number of the save that wrote it, so a mixture of two saves is visible. *)
(* Bounds: MaxCrashes, and MaxFaults for the rollouts of which a session   *)
(* or a write fails (failures) or that end without a status (stuck), all  *)
(* in the first life.                                                      *)
(***************************************************************************)
EXTENDS Integers, FiniteSets, Functions

CONSTANTS Policies, Sessions, Warmup, SaveFreq, TotalSteps, Keep,
          MaxCrashes, MaxFaults

ASSUME BoundsAssumption ==
  /\ Policies # {} /\ IsFiniteSet(Policies)
  /\ \A n \in {Warmup, MaxCrashes, MaxFaults} : n \in Nat
  /\ \A n \in {Sessions, SaveFreq, TotalSteps, Keep} : n \in Nat \ {0}

VARIABLES
  pc,        \* where the trainer is; "down" between two lives
  life,      \* number of crashes so far
  step,      \* global_steps
  position,  \* samples the dataloader has handed out
  trained,   \* of each policy, the positions its weights were trained on
  prompts,   \* TransferQueue: the status of every registered uid
  rows,      \* TransferQueue: [uid, session, life] of every trajectory record
  rollouts,  \* the rollouts in flight
  batch,     \* the uid that was sampled for this step
  unsaved,   \* policies whose part of the checkpoint is not written yet
  saves,     \* number of saves begun
  disk,      \* checkpoint directories by step
  tracker,   \* latest_checkpointed_iteration.txt
  mixed,     \* a life began from parts of several saves, or without some part
  behind,    \* a life began below Keep directories that its next save does not reach
  failures, stuck

trainer == <<step, position, trained, batch>>
queue == <<prompts, rows, rollouts>>
files == <<unsaved, saves, disk, tracker>>
budget == <<failures, stuck>>
history == <<mixed, behind>>
vars == <<pc, life, trainer, queue, files, history, budget>>

NoUid == <<-1, 0>>
Steps == 1..TotalSteps
Positions == Nat \ {0}
Uids == (0..MaxCrashes) \X Positions
Statuses == {"pending", "running", "finished", "failure"}
Rows == [uid : Uids, session : 1..Sessions, life : 0..MaxCrashes]
NoPart == [save |-> 0]
NoDirectory == [policies |-> [p \in Policies |-> NoPart], data |-> NoPart,
                queue |-> NoPart, complete |-> FALSE]

Init ==
  /\ pc = "down" /\ life = 0 /\ step = 0 /\ position = 0
  /\ trained = [p \in Policies |-> {}]
  /\ prompts = <<>> /\ rows = {} /\ rollouts = <<>>
  /\ batch = NoUid /\ unsaved = {} /\ saves = 0
  /\ disk = [s \in Steps |-> NoDirectory] /\ tracker = 0
  /\ mixed = FALSE /\ behind = FALSE /\ failures = 0 /\ stuck = 0

-----------------------------------------------------------------------------
(* Rollouts: the framework worker. *)

Submitted == [at |-> "submitted"]

(* The prompt is marked as running and its sessions return.  The rollout   *)
(* then goes through them in order: next is the one it has come to, good   *)
(* the number of those that were written.                                  *)
RunSessions(u) ==
  /\ rollouts[u].at = "submitted"
  /\ prompts' = [prompts EXCEPT ![u] = "running"]
  /\ rollouts' = [rollouts EXCEPT ![u] = [at |-> "writing", next |-> 1, good |-> 0]]
  /\ UNCHANGED <<pc, life, trainer, rows, files, history, budget>>

Writing(u) == rollouts[u].at = "writing" /\ rollouts[u].next <= Sessions
Written(u) == rollouts[u].at = "writing" /\ rollouts[u].next > Sessions

(* rows are keyed by uid and session: a later write replaces the record *)
Put(u) ==
  LET row == [uid |-> u, session |-> rollouts[u].next, life |-> life] IN
  {r \in rows : r.uid # u \/ r.session # row.session} \cup {row}

WriteSession(u) ==
  /\ Writing(u)
  /\ rows' = Put(u)
  /\ rollouts' = [rollouts EXCEPT ![u].next = @ + 1, ![u].good = @ + 1]
  /\ UNCHANGED <<pc, life, trainer, prompts, files, history, budget>>

(* The session failed or has no trajectories, or the put of its rows       *)
(* raises, before or after the queue has stored them.  A rollout counts    *)
(* once however many of its sessions fail.                                 *)
SessionFails(u) ==
  /\ Writing(u)
  /\ failures' = failures + (IF rollouts[u].good = rollouts[u].next - 1 THEN 1 ELSE 0)
  /\ failures' + stuck <= MaxFaults /\ life = 0
  /\ rows' \in {rows, Put(u)}
  /\ rollouts' = [rollouts EXCEPT ![u].next = @ + 1]
  /\ UNCHANGED <<pc, life, trainer, prompts, files, history, stuck>>

Forget(u) == Restrict(rollouts, DOMAIN rollouts \ {u})

FinishRollout(u) ==
  /\ Written(u)
  /\ prompts' = [prompts EXCEPT ![u] =
       IF rollouts[u].good > 0 THEN "finished" ELSE "failure"]
  /\ rollouts' = Forget(u)
  /\ UNCHANGED <<pc, life, trainer, rows, files, history, budget>>

(* The rollout raises and leaves the status as it is: the next session     *)
(* ended in CancelledError or SystemExit, or the put of a status failed.   *)
RolloutRaises(u) ==
  /\ failures + stuck < MaxFaults /\ life = 0
  /\ rollouts' = Forget(u)
  /\ stuck' = stuck + 1
  /\ UNCHANGED <<pc, life, trainer, prompts, rows, files, history, failures>>

Rollout(u) == RunSessions(u) \/ WriteSession(u) \/ FinishRollout(u)

-----------------------------------------------------------------------------
(* The trainer: submission and the steps of the loop. *)

Extend(f, keys, value) == [u \in keys \cup DOMAIN f |->
                             IF u \in keys THEN value ELSE f[u]]

(* Fetch n prompts, register them as pending and dispatch their rollouts.  *)
Submit(n, registered) ==
  LET uids == {<<life, position + i>> : i \in 1..n} IN
  /\ position' = position + n
  /\ prompts' = Extend(registered, uids, "pending")
  /\ rollouts' = Extend(rollouts, uids, Submitted)

InFlight == {u \in DOMAIN prompts : prompts[u] \in {"pending", "running"}}

(* _reissue_inflight_prompts: what was in flight when the snapshot was     *)
(* taken is generated again, without the rows it had already written.      *)
Reissue ==
  /\ pc = "reissue"
  /\ rows' = {r \in rows : r.uid \notin InFlight}
  /\ prompts' = Extend(prompts, InFlight, "pending")
  /\ rollouts' = [u \in InFlight |-> Submitted]
  /\ pc' = "warmup"
  /\ UNCHANGED <<life, trainer, files, history, budget>>

WarmUp ==
  /\ pc = "warmup"
  /\ Submit(Warmup, prompts)
  /\ pc' = IF step > TotalSteps THEN "done" ELSE "submit"
  /\ UNCHANGED <<life, step, trained, batch, rows, files, history, budget>>

AddBatch ==
  /\ pc = "submit"
  /\ Submit(1, prompts)
  /\ pc' = "sample"
  /\ UNCHANGED <<life, step, trained, batch, rows, files, history, budget>>

Without(u) == Restrict(prompts, DOMAIN prompts \ {u})

(* Mutant: the sampled uid stays in the replay buffer.                     *)
SampleKeepingUid(u) ==
  /\ pc = "sample"
  /\ u \in DOMAIN prompts /\ prompts[u] = "finished"
  /\ batch' = u
  /\ pc' = "update"
  /\ UNCHANGED <<life, step, position, trained, queue, files, history, budget>>

(* The replay buffer hands out a finished prompt and clears its uid; the   *)
(* records stay in the queue until the end of the step.                    *)
Sample(u) ==
  /\ pc = "sample"
  /\ u \in DOMAIN prompts /\ prompts[u] = "finished"
  /\ batch' = u
  /\ prompts' = Without(u)
  /\ pc' = "update"
  /\ UNCHANGED <<life, step, position, trained, rows, rollouts, files, history, budget>>

(* It drops a failed prompt and asks for another one in its place. *)
Refill(u) ==
  /\ pc = "sample"
  /\ u \in DOMAIN prompts /\ prompts[u] = "failure"
  /\ Submit(1, Without(u))
  /\ UNCHANGED <<pc, life, step, trained, batch, rows, files, history, budget>>

SavesAt(s) == s >= TotalSteps \/ s % SaveFreq = 0

UpdatePolicies ==
  /\ pc = "update"
  /\ trained' = [p \in Policies |-> trained[p] \cup {batch[2]}]
  /\ IF SavesAt(step)
       THEN /\ pc' = "save" /\ unsaved' = Policies /\ saves' = saves + 1
       ELSE /\ pc' = "clear" /\ UNCHANGED <<unsaved, saves>>
  /\ UNCHANGED <<life, step, position, batch, queue, disk, tracker, history, budget>>

(* kv_clear of the sampled records, and on to the next step *)
ClearBatch ==
  /\ pc = "clear"
  /\ rows' = {r \in rows : r.uid # batch}
  /\ batch' = NoUid
  /\ step' = step + 1
  /\ pc' = IF step' > TotalSteps THEN "done" ELSE "submit"
  /\ UNCHANGED <<life, position, trained, prompts, rollouts, files, history, budget>>

-----------------------------------------------------------------------------
(* Saving.  Every action is one write; a crash can come before each.       *)

Part(value) == [save |-> saves, value |-> value]

SavePolicy(p) ==
  /\ pc = "save" /\ p \in unsaved
  /\ disk' = [disk EXCEPT ![step].policies[p] = Part(trained[p])]
  /\ unsaved' = unsaved \ {p}
  /\ UNCHANGED <<pc, life, trainer, queue, saves, tracker, history, budget>>

(* Mutant: the dataloader is saved one prompt ahead.                       *)
SaveDataloaderAhead ==
  /\ pc = "save" /\ unsaved = {}
  /\ disk' = [disk EXCEPT ![step].data = Part(position + 1)]
  /\ pc' = "save_queue"
  /\ UNCHANGED <<life, trainer, queue, unsaved, saves, tracker, history, budget>>

SaveDataloader ==
  /\ pc = "save" /\ unsaved = {}
  /\ disk' = [disk EXCEPT ![step].data = Part(position)]
  /\ pc' = "save_queue"
  /\ UNCHANGED <<life, trainer, queue, unsaved, saves, tracker, history, budget>>

(* Mutant: the tracker is written with the queue.                          *)
PublishTrackerFirst ==
  /\ pc = "save_queue"
  /\ disk' = [disk EXCEPT ![step].queue = Part([prompts |-> prompts, rows |-> rows])]
  /\ tracker' = step
  /\ pc' = "manifest"
  /\ UNCHANGED <<life, trainer, queue, unsaved, saves, history, budget>>

SaveQueue ==
  /\ pc = "save_queue"
  /\ disk' = [disk EXCEPT ![step].queue = Part([prompts |-> prompts, rows |-> rows])]
  /\ pc' = "manifest"
  /\ UNCHANGED <<life, trainer, queue, unsaved, saves, tracker, history, budget>>

WriteManifest ==
  /\ pc = "manifest"
  /\ disk' = [disk EXCEPT ![step].complete = TRUE]
  /\ pc' = "tracker"
  /\ UNCHANGED <<life, trainer, queue, unsaved, saves, tracker, history, budget>>

PublishTracker ==
  /\ pc = "tracker"
  /\ tracker' = step
  /\ pc' = "prune"
  /\ UNCHANGED <<life, trainer, queue, unsaved, saves, disk, history, budget>>

Committed == {s \in Steps : disk[s].complete}

(* all committed directories but the Keep highest *)
Outdated == {s \in Committed : Cardinality({t \in Committed : t > s}) >= Keep}

Prune ==
  /\ pc = "prune"
  /\ disk' = [s \in Steps |-> IF s \in Outdated THEN NoDirectory ELSE disk[s]]
  /\ pc' = "clear"
  /\ UNCHANGED <<life, trainer, queue, unsaved, saves, tracker, history, budget>>

-----------------------------------------------------------------------------
(* Crash and resume. *)

Crash ==
  /\ pc \notin {"down", "done"} /\ life < MaxCrashes
  /\ pc' = "down" /\ life' = life + 1
  /\ step' = 0 /\ position' = 0 /\ trained' = [p \in Policies |-> {}]
  /\ prompts' = <<>> /\ rows' = {} /\ rollouts' = <<>>
  /\ batch' = NoUid /\ unsaved' = {}
  /\ UNCHANGED <<saves, disk, tracker, history, budget>>

Has(part) == part.save > 0

(* What load demands of a directory: a policy part of every policy and,    *)
(* when there is a manifest, the other parts it lists.                     *)
Loadable(s) ==
  /\ \A p \in Policies : Has(disk[s].policies[p])
  /\ disk[s].complete => Has(disk[s].data) /\ Has(disk[s].queue)

SavesIn(s) ==
  {disk[s].policies[p].save : p \in Policies} \cup {disk[s].data.save, disk[s].queue.save}

(* The committed directories beyond the next save of a life that starts    *)
(* from step s.                                                            *)
Beyond(s) == {t \in Committed : \E x \in Steps : s < x /\ x < t /\ SavesAt(x)}

Begin(s) ==
  /\ pc = "down"
  /\ step' = s + 1
  /\ behind' = (behind \/ Cardinality(Beyond(s)) >= Keep)
  /\ pc' = "reissue"

(* An uncommitted directory is loaded as a legacy checkpoint: what it does *)
(* not have stays as it was.                                               *)
Load(s) ==
  /\ Loadable(s) /\ Begin(s)
  /\ trained' = [p \in Policies |-> disk[s].policies[p].value]
  /\ position' = IF Has(disk[s].data) THEN disk[s].data.value ELSE position
  /\ IF Has(disk[s].queue)
       THEN /\ prompts' = disk[s].queue.value.prompts
            /\ rows' = disk[s].queue.value.rows
       ELSE UNCHANGED <<prompts, rows>>
  /\ mixed' = (mixed \/ Cardinality(SavesIn(s)) > 1)
  /\ UNCHANGED <<life, rollouts, batch, files, budget>>

StartFromScratch ==
  /\ tracker = 0 /\ Begin(0)
  /\ UNCHANGED <<life, position, trained, batch, queue, files, mixed, budget>>

ResumeAuto == tracker # 0 /\ Load(tracker)

ResumePath == \E s \in Steps : s # tracker /\ Load(s)

Terminated == pc = "done" /\ UNCHANGED vars

Train ==
  \/ Reissue \/ WarmUp \/ AddBatch
  \/ \E u \in DOMAIN prompts : Sample(u) \/ Refill(u)
  \/ UpdatePolicies \/ ClearBatch
  \/ \E p \in Policies : SavePolicy(p)
  \/ SaveDataloader \/ SaveQueue \/ WriteManifest \/ PublishTracker \/ Prune

(* the job ends with the trainer, and the rollouts with the job *)
Rollouts == pc # "done" /\ \E u \in DOMAIN rollouts : Rollout(u)
RolloutFaults ==
  pc # "done" /\ \E u \in DOMAIN rollouts : SessionFails(u) \/ RolloutRaises(u)

Next ==
  \/ Train \/ Rollouts \/ RolloutFaults
  \/ StartFromScratch \/ ResumeAuto \/ ResumePath \/ Crash
  \/ Terminated

Spec == Init /\ [][Next]_vars
-----------------------------------------------------------------------------
(* Types, and the bounds of the model. *)
TypeOK ==
  /\ pc \in {"down", "reissue", "warmup", "submit", "sample", "update", "save",
            "save_queue", "manifest", "tracker", "prune", "clear", "done"}
  /\ life \in 0..MaxCrashes /\ step \in 0..(TotalSteps + 1)
  /\ position \in Nat
  /\ trained \in [Policies -> SUBSET Positions]
  /\ DOMAIN prompts \subseteq Uids /\ Range(prompts) \subseteq Statuses
  /\ rows \subseteq Rows /\ DOMAIN rollouts \subseteq DOMAIN prompts
  /\ batch \in Uids \cup {NoUid} /\ unsaved \subseteq Policies
  /\ saves \in Nat /\ tracker \in {0} \cup Steps /\ {mixed, behind} \subseteq BOOLEAN
  /\ failures \in 0..MaxFaults /\ stuck \in 0..MaxFaults

(* The checkpoint the tracker names is committed and has all its parts, so *)
(* that an automatic resume never fails: whatever was saved, overwritten,  *)
(* interrupted and pruned since it was published; unless a life began      *)
(* below directories that pruning then takes for newer ones.               *)
TrackerLoadable ==
  tracker # 0 /\ ~behind => disk[tracker].complete /\ Loadable(tracker)

(* A prompt that is about to be trained on has not been trained on in the  *)
(* history of the weights that are being updated, across resumes: weights, *)
(* dataloader and queue of a checkpoint fit together.                      *)
TrainedOnce ==
  pc = "update" /\ ~mixed => \A p \in Policies : batch[2] \notin trained[p]

(* No prompt is lost: what the dataloader has handed out was trained on,   *)
(* is in the queue, is being trained on, or failed.                        *)
Missing ==
  {i \in 1..position : /\ \A p \in Policies : i \notin trained[p]
                       /\ \A u \in {batch} \cup DOMAIN prompts : u[2] # i}
PromptsAccounted == ~mixed => Cardinality(Missing) <= failures

(* A sampled prompt has records, and those of a prompt in flight stem from *)
(* the attempt that runs: none is left over from an attempt before a crash.*)
OneAttempt ==
  /\ pc = "update" => \E r \in rows : r.uid = batch
  /\ pc \notin {"down", "reissue"} =>
       \A r \in rows : r.uid \in InFlight => r.life = life

(* A sampled prompt is out of the queue, and as many prompts wait in it as *)
(* were warmed up, once per life: steps, refills and resumes only replace. *)
InFlightBounded ==
  /\ batch \notin DOMAIN prompts
  /\ Cardinality(DOMAIN prompts) <= Warmup * (life + 1) + 1

(* A trainer that waits for a prompt gets one: as long as no more rollouts *)
(* end without a status than were warmed up, one that is in the queue has  *)
(* its status or has a rollout at work, in every life.  Every run of the   *)
(* model is finite, so this and the absence of deadlock mean that training *)
(* ends.                                                                   *)
TrainerServed ==
  pc = "sample" /\ stuck <= Warmup =>
    \/ rollouts # <<>>
    \/ \E u \in DOMAIN prompts : prompts[u] \in {"finished", "failure"}
(* What is trained on is trained on once, and comes.                       *)
BatchesSound == TypeOK /\ TrainedOnce /\ TrainerServed

(* Through crashes and resumes each prompt is accounted for, with records  *)
(* of one attempt, and no more prompts wait than were warmed up.           *)
PromptsSound == PromptsAccounted /\ OneAttempt /\ InFlightBounded

=============================================================================
