----------------------------- MODULE KernelVerify -----------------------------
(***************************************************************************)
(* One session of the npu_triton_kernel task: the agent edits and verifies *)
(* an implementation in its workspace; the verifier (verify_once.sh) keeps *)
(* the best implementation and its metrics in two files; the hooks of the  *)
(* tool calls (track_verify_snapshot.py) note the assistant message of the *)
(* best and stop a search that does not improve; then the task cleans up,  *)
(* collects the workspace file by file and scores it (task.py).            *)
(*                                                                         *)
(* The agent's tool calls come one after another, but a call may return    *)
(* while its verifier runs on: it was started in the background, or the    *)
(* tool gave it up.  The clean-up ends what holds an NPU only.  Messages   *)
(* are numbered from 0 as in the transcript.  A rank stands for the metrics *)
(* of a verification: 0 nothing compiles, 1 some cases pass, 2 all pass,   *)
(* 3 all pass and the benchmark succeeded.  Implementations are all        *)
(* substantive; a digest is the implementation itself.                     *)
(* Bounds: MaxMessages, and MaxEvents for the tool calls together with the *)
(* verifiers that are killed or left behind.                               *)
(***************************************************************************)
EXTENDS Integers, FiniteSets, FiniteSetsExt

CONSTANTS
  Impls,        \* implementations the agent may write
  Ranks,        \* ranks (0..2) that verifying each of them may give
  Patience,     \* [correctness, latency]: patience of the two modes
  MaxMessages, MaxEvents

None == [absent |-> TRUE]   \* a file, digest or value that is not there

ASSUME KernelAssumption ==
  /\ None \notin Impls /\ Ranks \in [Impls -> SUBSET (0..2)]
  /\ Patience \in [{"correctness", "latency"} -> Nat]
  /\ MaxMessages \in Nat \ {0} /\ MaxEvents \in Nat

Calls == 1..MaxEvents
NoIndex == -1

VARIABLES
  task,     \* agent, cleanup, collect_*, decide, recheck, scored, raised
  message,  \* index of the last assistant message
  current,  \* the implementation in src/
  calls,    \* tool calls of the verifier so far
  process,  \* verifier of each call
  held,     \* the implementation a verifier has loaded, or the pair it makes the best
  hook,     \* the tool call in progress: none, running, bound
  before,   \* what the pre hook recorded, with what the post hook found
  staged, result, perf,          \* output/verify
  bestImpl, best,                \* src/..._best.py and metrics_best.json
  progress, stop,                \* patience and stop files
  snapshot,                      \* what the task has collected
  stale,                         \* collected files that were written since
  score,
  written,    \* the message that first wrote an implementation
  overlapped, \* a verifier was left behind by its tool call
  torn,       \* a verifier was killed between the two replacements
  reached,    \* highest rank a verifier made the best
  unimproved, \* tool calls over since the one that changed the best
  troubles

agentvars == <<message, current, written>>
verifier == <<process, held>>
artifacts == <<staged, result, perf>>
pair == <<bestImpl, best>>
hookvars == <<calls, hook, before>>
control == <<progress, stop>>
taskvars == <<task, snapshot, score>>
notes == <<overlapped, torn, reached, unimproved, troubles>>
kvars == <<agentvars, verifier, artifacts, pair, hookvars, control, taskvars, stale, notes>>

KInit ==
  /\ task = "agent" /\ message = 0 /\ current = None /\ calls = 0
  /\ process = [c \in Calls |-> "idle"] /\ held = [c \in Calls |-> None]
  /\ hook = "none" /\ before = None
  /\ staged = None /\ result = None /\ perf = FALSE
  /\ bestImpl = None /\ best = None
  /\ progress = [count |-> 0, correctness |-> 0, latency |-> 0] /\ stop = None
  /\ snapshot = None /\ stale = {} /\ score = None
  /\ written = [i \in Impls |-> NoIndex]
  /\ overlapped = FALSE /\ torn = FALSE /\ reached = NoIndex /\ unimproved = 0
  /\ troubles = 0

-----------------------------------------------------------------------------
(* What the actions share. *)

RankOf(metrics) == IF metrics = None THEN NoIndex ELSE metrics.rank
FullyCorrect(metrics) == RankOf(metrics) >= 2
Live == {c \in Calls : process[c] \notin {"idle", "ended"}}
ProcessGoes(c, stage) == process' = [process EXCEPT ![c] = stage]
Trouble == calls + troubles < MaxEvents /\ troubles' = troubles + 1

\* The order in which the task collects the files.
Stages == <<"agent", "cleanup", "collect_impls", "collect_best", "collect_artifacts",
            "collect_state", "decide", "recheck", "scored", "raised">>
Past(stage) ==
  \E i, j \in DOMAIN Stages : Stages[i] = stage /\ Stages[j] = task /\ i < j

\* Writing files that were collected already.
Writes(stages) == stale' = stale \cup {s \in stages : Past(s)}

-----------------------------------------------------------------------------
(* The agent. *)

AgentFree == task = "agent" /\ hook = "none" /\ stop = None

NextMessage ==
  /\ AgentFree /\ message < MaxMessages - 1 /\ message' = message + 1
  /\ UNCHANGED <<current, written, verifier, artifacts, pair, hookvars, control, taskvars, stale, notes>>

Edit(i) ==
  /\ AgentFree /\ current # i /\ current' = i
  /\ written' = IF written[i] = NoIndex THEN [written EXCEPT ![i] = message] ELSE written
  /\ UNCHANGED <<message, verifier, artifacts, pair, hookvars, control, taskvars, stale, notes>>

\* A tool call of the verifier, admitted by the pre hook while there is no stop.
Pre(c) ==
  /\ AgentFree /\ c = calls + 1 /\ c + troubles <= MaxEvents /\ calls' = c /\ hook' = "running"
  /\ before' = [index |-> message, best |-> best, impl |-> bestImpl]
  /\ ProcessGoes(c, "starting")
  /\ UNCHANGED <<agentvars, held, artifacts, pair, control, taskvars, stale, notes>>

-----------------------------------------------------------------------------
(* verify_once.sh. *)

\* output/verify is made anew with the current implementation.  Without one,
\* or one that fails the AST check, the verifier ends.
Stage(c) ==
  /\ process[c] = "starting"
  /\ IF current = None THEN ProcessGoes(c, "ended") /\ UNCHANGED <<artifacts, stale>>
     ELSE /\ \E next \in {"staged", "ended"} : ProcessGoes(c, next)
          /\ staged' = current /\ result' = None /\ perf' = FALSE
          /\ Writes({"collect_impls", "collect_artifacts"})
  /\ UNCHANGED <<agentvars, held, pair, hookvars, control, taskvars, notes>>

\* verify.py loads the staged implementation once it has a lease.
BeginVerify(c) ==
  /\ process[c] = "staged" /\ staged # None
  /\ ProcessGoes(c, "verifying") /\ held' = [held EXCEPT ![c] = staged]
  /\ UNCHANGED <<agentvars, artifacts, pair, hookvars, control, taskvars, stale, notes>>

\* It writes its result; the summary follows.
EndVerify(c) ==
  /\ process[c] = "verifying" /\ ProcessGoes(c, "verified")
  /\ held' = [held EXCEPT ![c] = None]
  /\ \E r \in Ranks[held[c]] : result' = [rank |-> r, of |-> held[c]]
  /\ Writes({"collect_artifacts"})
  /\ UNCHANGED <<agentvars, staged, perf, pair, hookvars, control, taskvars, notes>>

\* No lease became available, or the verifier failed before it had a result.
VerifyFails(c) ==
  /\ process[c] \in {"staged", "verifying"} /\ ProcessGoes(c, "verified")
  /\ held' = [held EXCEPT ![c] = None]
  /\ UNCHANGED <<agentvars, artifacts, pair, hookvars, control, taskvars, stale, notes>>

\* benchmark.py under another lease, once all cases pass.
Benchmark(c) ==
  /\ process[c] = "verified" /\ ProcessGoes(c, "measured")
  /\ IF result # None /\ FullyCorrect(result)
     THEN perf' \in BOOLEAN /\ Writes({"collect_artifacts"}) ELSE UNCHANGED <<perf, stale>>
  /\ UNCHANGED <<agentvars, held, staged, result, pair, hookvars, control, taskvars, notes>>

Metrics(r, fast) ==
  [rank |-> IF r.rank = 2 /\ fast THEN 3 ELSE r.rank, of |-> r.of, claim |-> staged,
   index |-> NoIndex, noteOf |-> None]

\* snapshot_verify_best.py keeps a best that ranks as high.
Keeps(m) == RankOf(m) <= RankOf(best)

\* It reads the results, compares, and copies both files to temporaries.
Compare(c) ==
  /\ process[c] = "measured"
  /\ IF result = None \/ staged = None
     THEN ProcessGoes(c, "ended") /\ UNCHANGED held
     ELSE LET m == Metrics(result, perf) IN
          IF Keeps(m) THEN ProcessGoes(c, "ended") /\ UNCHANGED held
          ELSE ProcessGoes(c, "winning") /\ held' = [held EXCEPT ![c] = m]
  /\ UNCHANGED <<agentvars, artifacts, pair, hookvars, control, taskvars, stale, notes>>

ReplaceImpl(c) ==
  /\ process[c] = "winning" /\ ProcessGoes(c, "half")
  /\ bestImpl' = held[c].claim /\ Writes({"collect_impls"})
  /\ UNCHANGED <<agentvars, held, artifacts, best, hookvars, control, taskvars, notes>>

ReplaceMetrics(c) ==
  /\ process[c] = "half" /\ ProcessGoes(c, "ended")
  /\ best' = held[c] /\ held' = [held EXCEPT ![c] = None] /\ Writes({"collect_best"})
  /\ unimproved' = -1
  /\ reached' = IF RankOf(held[c]) > reached THEN RankOf(held[c]) ELSE reached
  /\ UNCHANGED <<agentvars, artifacts, bestImpl, hookvars, control, taskvars,
                 overlapped, torn, troubles>>

KillVerifier(c) ==
  /\ c \in Live /\ Trouble /\ ProcessGoes(c, "ended")
  /\ held' = [held EXCEPT ![c] = None]
  /\ torn' = (torn \/ process[c] = "half")
  /\ UNCHANGED <<agentvars, artifacts, pair, hookvars, control, taskvars, stale,
                 overlapped, reached, unimproved>>

-----------------------------------------------------------------------------
(* The post hook, when the tool call returns or fails. *)

\* The tool returns while its verifier runs on.
LeaveBehind ==
  /\ hook = "running" /\ calls \in Live /\ Trouble /\ hook' = "returned"
  /\ overlapped' = TRUE
  /\ UNCHANGED <<agentvars, verifier, artifacts, pair, calls, before, control, taskvars,
                 stale, torn, reached, unimproved>>

ToolReturns ==
  /\ task = "agent" /\ hook = "running" /\ calls \notin Live /\ hook' = "returned"
  /\ UNCHANGED <<agentvars, verifier, artifacts, pair, calls, before, control, taskvars,
                 stale, notes>>

\* What post() adds to metrics_best.json: the message of this call for another
\* implementation, or the note of the earlier best when it is of the same.
Note ==
  IF bestImpl # before.impl THEN [index |-> before.index, noteOf |-> bestImpl]
  ELSE IF before.best # None /\ before.best.noteOf = bestImpl
  THEN [index |-> before.best.index, noteOf |-> bestImpl] ELSE None

\* Read the pair, compare it with what pre() recorded.
Bind ==
  /\ task = "agent" /\ hook = "returned" /\ hook' = "bound"
  /\ LET improved == best # None /\ bestImpl # None /\ best # before.best IN
     before' = [index |-> before.index, improved |-> improved,
                correct |-> FullyCorrect(before.best),
                annotated |-> IF improved /\ Note # None
                              THEN [best EXCEPT !.index = Note.index, !.noteOf = Note.noteOf]
                              ELSE None]
  /\ UNCHANGED <<agentvars, verifier, artifacts, pair, calls, control, taskvars, stale, notes>>

Mode(metrics) == IF FullyCorrect(metrics) THEN "latency" ELSE "correctness"

\* Mutant: an improvement does not reset the count of its mode.
CountAlways(mode) == progress[mode] + 1

\* The count starts over when the best improved, and with the latency mode.
StaleCount(mode) ==
  IF before.improved \/ (mode = "latency" /\ ~before.correct) THEN 0 ELSE progress[mode] + 1

\* Too little to stop a search for correctness: correctness_min_reward.
TooLow(mode, metrics) == mode = "correctness" /\ RankOf(metrics) < 1

\* The annotation is written, and _update_patience decides.  A stop ends the
\* agent's turns.
Finish ==
  LET noted == before.annotated # None
      now == IF noted THEN before.annotated ELSE best
      mode == Mode(now)
      count == StaleCount(mode)
      next == [progress EXCEPT !.count = @ + 1, ![mode] = count]
  IN /\ task = "agent" /\ hook = "bound" /\ hook' = "none" /\ before' = None
     /\ best' = now
     /\ progress' = next
     /\ stop' = IF Patience[mode] > 0 /\ count >= Patience[mode] /\ ~TooLow(mode, now)
                THEN [mode |-> mode, patience |-> Patience[mode], stale |-> count,
                      count |-> next.count]
                ELSE None
     /\ unimproved' = unimproved + 1
     /\ UNCHANGED <<agentvars, verifier, artifacts, bestImpl, calls, taskvars, stale,
                    overlapped, torn, reached, troubles>>

-----------------------------------------------------------------------------
(* The task (task.py). *)

TaskGoes(stage) == task' = stage
Collects(stage, next, fields) ==
  /\ task = stage /\ TaskGoes(next) /\ snapshot' = fields
  /\ UNCHANGED <<agentvars, verifier, artifacts, pair, hookvars, control, score, stale, notes>>

\* The agent has ended, raised or run into its limit; the tool call in
\* progress, if any, gets no post hook.
AgentEnds ==
  /\ task = "agent" /\ hook # "bound" /\ TaskGoes("cleanup")
  /\ UNCHANGED <<agentvars, verifier, artifacts, pair, hookvars, control, snapshot, score, stale, notes>>

\* cleanup_command succeeds: what runs under a lease is ended, and the shell of
\* the verifier goes on, without a result or without performance data.
Cleanup ==
  /\ task = "cleanup" /\ TaskGoes("collect_impls")
  /\ \E leased \in SUBSET {c \in Calls : process[c] \in {"staged", "verifying", "verified"}} :
       /\ \A c \in Calls : process[c] = "verifying" => c \in leased
       /\ process' = [c \in Calls |->
            IF c \notin leased THEN process[c]
            ELSE IF process[c] = "verified" THEN "measured" ELSE "verified"]
       /\ held' = [c \in Calls |-> IF process[c] = "verifying" THEN None ELSE held[c]]
       /\ perf' = (perf /\ \A c \in leased : process[c] # "verified")
  /\ stale' = {}
  /\ UNCHANGED <<agentvars, staged, result, pair, hookvars, control, snapshot, score, notes>>

CollectImpls ==
  Collects("collect_impls", "collect_best",
           [current |-> current, bestImpl |-> bestImpl, staged |-> staged,
            reached |-> reached])

CollectBest ==
  Collects("collect_best", "collect_artifacts",
           [current |-> snapshot.current, bestImpl |-> snapshot.bestImpl,
            staged |-> snapshot.staged, best |-> best, reached |-> snapshot.reached])

CollectArtifacts ==
  Collects("collect_artifacts", "collect_state",
           [current |-> snapshot.current, bestImpl |-> snapshot.bestImpl,
            staged |-> snapshot.staged, best |-> snapshot.best, reached |-> snapshot.reached,
            result |-> result, perf |-> perf])

CollectState ==
  Collects("collect_state", "decide",
           [current |-> snapshot.current, bestImpl |-> snapshot.bestImpl,
            staged |-> snapshot.staged, best |-> snapshot.best, reached |-> snapshot.reached,
            result |-> snapshot.result, perf |-> snapshot.perf, stop |-> stop])

\* _metric_impl_binding: every digest that metrics_best.json claims is that of
\* the best implementation.
PairBound ==
  /\ snapshot.best # None /\ snapshot.bestImpl # None
  /\ snapshot.best.claim = snapshot.bestImpl
  /\ snapshot.best.noteOf \in {None, snapshot.bestImpl}

Scores(source, metrics, impl, index) ==
  /\ TaskGoes("scored")
  /\ score' = [source |-> source, metrics |-> metrics, impl |-> impl, train |-> index,
               early |-> snapshot.stop # None /\ index # NoIndex]

\* The metrics of the best pair, and the message its training prefix ends with.
ScoreBestPair ==
  /\ task = "decide" /\ PairBound
  /\ Scores("best_pair", snapshot.best, snapshot.bestImpl,
            IF snapshot.best.noteOf = snapshot.bestImpl THEN snapshot.best.index ELSE NoIndex)
  /\ UNCHANGED <<agentvars, verifier, artifacts, pair, hookvars, control, snapshot, stale, notes>>

ArtifactsUsable == snapshot.result # None /\ snapshot.staged # None

\* The staged implementation and its results are made the best pair, unless a
\* file was written since it was collected.
Recover ==
  /\ task = "decide" /\ ~PairBound /\ ArtifactsUsable
  /\ IF stale # {} THEN TaskGoes("raised") /\ UNCHANGED pair
     ELSE /\ TaskGoes("recheck")
          /\ bestImpl' = snapshot.staged
          /\ best' = [Metrics(snapshot.result, snapshot.perf) EXCEPT !.claim = snapshot.staged]
  /\ UNCHANGED <<agentvars, verifier, artifacts, hookvars, control, snapshot, score, stale, notes>>

\* The pair is read back; a verifier may have replaced it meanwhile.
Recheck ==
  /\ task = "recheck"
  /\ IF bestImpl = snapshot.staged /\ best.claim = snapshot.staged /\ best.noteOf = None
     THEN Scores("artifacts", [Metrics(snapshot.result, snapshot.perf) EXCEPT !.claim = snapshot.staged],
                 snapshot.staged, NoIndex)
     ELSE TaskGoes("raised") /\ UNCHANGED score
  /\ UNCHANGED <<agentvars, verifier, artifacts, pair, hookvars, control, snapshot, stale, notes>>

\* Neither: metrics.json of the current implementation, if the agent has
\* written one, or no reward.
ScoreOther ==
  /\ task = "decide" /\ ~PairBound /\ ~ArtifactsUsable
  /\ \E source \in IF snapshot.current # None THEN {"metrics", "missing_metrics"}
                   ELSE IF snapshot.bestImpl # None THEN {"missing_metrics"} ELSE {"missing_impl"} :
       Scores(source, None, snapshot.current, NoIndex)
  /\ UNCHANGED <<agentvars, verifier, artifacts, pair, hookvars, control, snapshot, stale, notes>>

\* The clean-up fails, or the evaluation runs into its timeout or is cancelled,
\* which is taken to show before it decides; the sandbox is stopped.
TaskFails ==
  /\ task \in {"cleanup", "decide", "recheck"} /\ TaskGoes("raised")
  /\ UNCHANGED <<agentvars, verifier, artifacts, pair, hookvars, control, snapshot, score, stale, notes>>

-----------------------------------------------------------------------------
VerifierStep(c) ==
  \/ Stage(c) \/ BeginVerify(c) \/ EndVerify(c) \/ VerifyFails(c) \/ Benchmark(c) \/ Compare(c) \/ ReplaceImpl(c)
  \/ ReplaceMetrics(c) \/ KillVerifier(c)

KNext ==
  \/ /\ task \notin {"scored", "raised"}
     /\ \/ NextMessage \/ \E i \in Impls : Edit(i)
        \/ \E c \in Calls : Pre(c) \/ VerifierStep(c)
        \/ LeaveBehind \/ ToolReturns \/ Bind \/ Finish
  \/ AgentEnds \/ Cleanup \/ CollectImpls \/ CollectBest \/ CollectArtifacts \/ CollectState
  \/ ScoreBestPair \/ Recover \/ Recheck \/ ScoreOther \/ TaskFails
  \/ task \in {"scored", "raised"} /\ UNCHANGED kvars

KSpec == KInit /\ [][KNext]_kvars

-----------------------------------------------------------------------------
(* Properties. *)

\* The type invariant.
KTypeOK ==
  /\ task \in {Stages[k] : k \in DOMAIN Stages} /\ message \in 0..(MaxMessages - 1)
  /\ {current, staged, bestImpl} \subseteq Impls \cup {None}
  /\ calls \in 0..MaxEvents /\ hook \in {"none", "running", "returned", "bound"}
  /\ process \in [Calls -> {"idle", "starting", "staged", "verifying", "verified",
                            "measured", "winning", "half", "ended"}]
  /\ \A c \in Calls : held[c] # None <=> process[c] \in {"verifying", "winning", "half"}
  /\ perf \in BOOLEAN /\ (perf => result # None)
  /\ progress \in [{"count", "correctness", "latency"} -> 0..MaxEvents]
  /\ stale \subseteq {Stages[k] : k \in DOMAIN Stages}
  /\ written \in [Impls -> NoIndex..(MaxMessages - 1)]
  /\ overlapped \in BOOLEAN /\ torn \in BOOLEAN /\ troubles \in 0..MaxEvents

\* The metrics of a score were measured on the implementation it is given for,
\* whatever a verifier that the clean-up did not reach writes while the files
\* are collected one by one, and wherever an earlier one was killed
\* (task.py:420-540).  Excluded by name: verifiers left behind by their tool
\* call, which share output/verify with the next one.
ScoredAsVerified ==
  task = "scored" /\ score.metrics # None /\ ~overlapped =>
    score.metrics.of = score.impl /\ score.metrics.claim = score.impl

\* A best result is not lost: the score ranks at least as high as any pair that
\* was complete when the files began to be collected.  Excluded by name: a
\* verifier killed between its two replacements, and those left behind.
BestScored ==
  task = "scored" /\ ~overlapped /\ ~torn => RankOf(score.metrics) >= snapshot.reached

\* The prefix of the transcript that is trained for the best contains the
\* message that wrote it, also when the best is that of a verifier which its
\* tool call left behind (task.py:1080, trajectory_processor.py:49).
PrefixHoldsBest ==
  task = "scored" /\ score.train # NoIndex =>
    written[score.impl] # NoIndex /\ written[score.impl] <= score.train

\* A search is stopped only after as many tool calls in a row left the best as
\* it was, and with counts the task accepts as an early stop (task.py:828).
StopJustified ==
  stop # None =>
    /\ 0 < stop.patience /\ stop.patience <= stop.stale /\ stop.stale <= stop.count
    /\ overlapped \/ unimproved >= stop.patience

=============================================================================
