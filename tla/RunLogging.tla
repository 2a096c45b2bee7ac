------------------------------ MODULE RunLogging ------------------------------
(***************************************************************************)
(* The logs of runs (logging/handlers.py, logging/session.py).             *)
(*                                                                         *)
(* A run is a sample_logging block.  While it lasts its records are put,   *)
(* by whichever thread makes them, into a bounded queue; one writer thread *)
(* owns the files.  When the queue is full an operation is dropped, also   *)
(* one that opens or closes a file.  The runs of a process borrow the      *)
(* level of its root logger, which belongs to the host.                    *)
(***************************************************************************)
EXTENDS Integers, Sequences, FiniteSets, SequencesExt

CONSTANTS
  LogRuns,      \* the sample_logging blocks with a log_path, which is their own
  LogIds,       \* the log_ids
  LogNames,     \* bound: how the blocks may be called, [LogRuns -> LogIds]
  QueueMax,     \* _QUEUE_MAX
  MountLevel,   \* the level of the uni_agent logger
  MaxRecords,   \* bound: records of all runs
  LogTroubles   \* bound: changes by the host, forks, files that do not open

ASSUME LogAssumption ==
  /\ IsFiniteSet(LogRuns) /\ "none" \notin LogRuns
  /\ LogNames \subseteq [LogRuns -> LogIds]
  /\ QueueMax \in Nat \ {0} /\ MountLevel \in 1..3
  /\ MaxRecords \in Nat /\ LogTroubles \in Nat

VARIABLES
  logId,        \* the log_id of each run
  logRun,       \* the block of each run; inherited: from before a fork
  recordsMade,  \* how many records the runs have made
  emitting,     \* the record of each run that is between the two steps of emit()
  routed,       \* _log_ids
  windows,      \* _root_windows
  savedLevel,   \* _saved_root_level
  appliedLevel, \* _applied_root_level
  rootLevel,    \* the level of the root logger
  rootMounted,  \* is the dispatch handler attached to root?
  opQueue,      \* _queue
  openFiles,    \* _files: the run whose file a log_id has
  dirtyFiles,   \* _dirty
  writer,       \* the writer thread
  content,      \* what was written to the file of each run
  accepted,     \* history: records of the block of each run that got a place
  lostOps,      \* history: files that were not opened or closed
  hostLevel,    \* history: the level the host wants of root
  overlooked,   \* history: a change by the host that the handler cannot see
  unpaired,     \* history: a block that began before a fork ended after it
  mishaps       \* bounded by LogTroubles

rootvars == <<windows, savedLevel, appliedLevel, rootLevel, rootMounted, overlooked>>
filevars == <<openFiles, dirtyFiles, writer, content>>
runvars  == <<logRun, recordsMade, emitting, routed, accepted, unpaired>>
logvars  == <<rootvars, filevars, runvars, logId, opQueue, lostOps, hostLevel, mishaps>>

NoLevel == 0
NoRecord == 0
NoFile == "none"
Levels == 1..3
Mishap == mishaps < LogTroubles /\ mishaps' = mishaps + 1

LogInit ==
  /\ logId \in LogNames
  /\ logRun = [r \in LogRuns |-> "idle"]
  /\ recordsMade = 0 /\ emitting = [r \in LogRuns |-> NoRecord]
  /\ routed = {}
  /\ windows = 0 /\ savedLevel = NoLevel /\ appliedLevel = NoLevel
  /\ rootLevel \in Levels /\ rootMounted = FALSE
  /\ opQueue = << >> /\ lostOps = {}
  /\ openFiles = [i \in LogIds |-> NoFile]
  /\ dirtyFiles = {} /\ writer = "running"
  /\ content = [r \in LogRuns |-> << >>]
  /\ accepted = [r \in LogRuns |-> << >>]
  /\ hostLevel = rootLevel
  /\ overlooked = FALSE /\ unpaired = FALSE /\ mishaps = 0

-----------------------------------------------------------------------------
(* The root logger, under _lock.                                           *)

\* _borrow_root: root becomes at least as open as the runs are.
BorrowRoot ==
  /\ rootMounted' = TRUE
  /\ savedLevel' = IF savedLevel = NoLevel THEN rootLevel ELSE savedLevel
  /\ appliedLevel' = IF rootLevel < MountLevel THEN rootLevel ELSE MountLevel
  /\ rootLevel' = appliedLevel'
  /\ overlooked' = (overlooked \/ (savedLevel # NoLevel /\ rootLevel # appliedLevel))

\* _release_root: the level is put back unless the host has changed it.
ReleaseRoot ==
  /\ rootMounted' = FALSE
  /\ rootLevel' = IF savedLevel # NoLevel /\ rootLevel = appliedLevel
                  THEN savedLevel ELSE rootLevel
  /\ savedLevel' = NoLevel /\ appliedLevel' = NoLevel
  /\ UNCHANGED overlooked

\* The host process sets the level of its root logger.
HostSetsLevel(l) ==
  /\ Mishap
  /\ rootLevel' = l /\ hostLevel' = l
  /\ overlooked' = (savedLevel # NoLevel /\ (overlooked \/ l = appliedLevel))
  /\ UNCHANGED <<windows, savedLevel, appliedLevel, rootMounted, filevars, runvars,
                 logId, opQueue, lostOps>>

-----------------------------------------------------------------------------
(* The threads of the runs.                                                *)

Operation(what, r) ==
  [op |-> what, run |-> r, rec |-> IF what = "write" THEN emitting[r] ELSE NoRecord,
   late |-> logRun[r] = "over"]

Room == Len(opQueue) < QueueMax

Lose(what, r) == lostOps' = lostOps \cup ({<<what, r>>} \ {<<"write", r>>})

\* _submit: drop when the queue is full.
Submit(operation) ==
  IF Room THEN opQueue' = Append(opQueue, operation) /\ UNCHANGED lostOps
          ELSE Lose(operation.op, operation.run) /\ UNCHANGED opQueue

\* register
OpenRoute(r) ==
  /\ routed' = routed \cup {logId[r]}
  /\ windows' = windows + 1
  /\ BorrowRoot
  /\ Submit(Operation("open", r))

\* unregister: the last run hands root back.
CloseRoute(r) ==
  /\ routed' = routed \ {logId[r]}
  /\ windows' = IF windows = 0 THEN 0 ELSE windows - 1
  /\ IF windows' = 0 THEN ReleaseRoot
     ELSE UNCHANGED <<savedLevel, appliedLevel, rootLevel, rootMounted, overlooked>>
  /\ Submit(Operation("close", r))

\* "log_id must be unique for every concurrently active file in the process".
\* The queue orders operations of one log_id, so each end is one step.
EnterRun(r) ==
  /\ logRun[r] = "idle"
  /\ \A s \in LogRuns : logRun[s] \in {"active", "inherited"} => logId[s] # logId[r]
  /\ logRun' = [logRun EXCEPT ![r] = "active"]
  /\ OpenRoute(r)
  /\ UNCHANGED <<filevars, recordsMade, emitting, accepted, unpaired, logId, hostLevel,
                 mishaps>>

ExitRun(r) ==
  /\ logRun[r] \in {"active", "inherited"}
  /\ logRun' = [logRun EXCEPT ![r] = "over"]
  /\ CloseRoute(r)
  /\ unpaired' = (unpaired \/ logRun[r] = "inherited")
  /\ UNCHANGED <<filevars, recordsMade, emitting, accepted, logId, hostLevel, mishaps>>

\* emit, first half: a thread of the run, which may outlive the block, finds
\* the log_id registered.
EmitRoutes(r) ==
  /\ logRun[r] # "idle" /\ emitting[r] = NoRecord /\ recordsMade < MaxRecords
  /\ logId[r] \in routed
  /\ recordsMade' = recordsMade + 1
  /\ emitting' = [emitting EXCEPT ![r] = recordsMade']
  /\ UNCHANGED <<rootvars, filevars, logRun, routed, accepted, unpaired, logId, opQueue,
                 lostOps, hostLevel, mishaps>>

\* emit, second half: the record is formatted and submitted.
EmitSubmits(r) ==
  /\ emitting[r] # NoRecord
  /\ emitting' = [emitting EXCEPT ![r] = NoRecord]
  /\ accepted' = IF Room /\ logRun[r] = "active"
                 THEN [accepted EXCEPT ![r] = Append(@, emitting[r])] ELSE accepted
  /\ Submit(Operation("write", r))
  /\ UNCHANGED <<rootvars, filevars, logRun, recordsMade, routed, unpaired, logId,
                 hostLevel, mishaps>>

\* _shutdown, at the exit of the process; the writer is waited for 5 seconds.
ExitProcess ==
  /\ writer = "running"
  /\ \A k \in 1..Len(opQueue) : opQueue[k].op # "stop"
  /\ Room
  /\ opQueue' = Append(opQueue, [op |-> "stop"])
  /\ UNCHANGED <<rootvars, filevars, runvars, logId, lostOps, hostLevel, mishaps>>

\* _reinit_after_fork: the child has no writer thread and none of the runs.
ForkProcess ==
  /\ writer = "running"
  /\ Mishap
  /\ logRun' = [r \in LogRuns |-> IF logRun[r] = "active" THEN "inherited" ELSE logRun[r]]
  /\ emitting' = [r \in LogRuns |-> NoRecord] /\ routed' = {} /\ windows' = 0
  /\ ReleaseRoot
  /\ opQueue' = << >> /\ lostOps' = {}
  /\ openFiles' = [i \in LogIds |-> NoFile] /\ dirtyFiles' = {}
  /\ content' = [r \in LogRuns |-> << >>]
  /\ accepted' = [r \in LogRuns |-> << >>]
  /\ UNCHANGED <<recordsMade, unpaired, writer, logId, hostLevel>>

-----------------------------------------------------------------------------
(* The writer thread.                                                      *)

WriteRecord(x) ==
  LET f == openFiles[logId[x.run]] IN
  /\ IF f = NoFile THEN UNCHANGED <<content, dirtyFiles>>
     ELSE /\ content' = [content EXCEPT ![f] = Append(@, x)]
          /\ dirtyFiles' = dirtyFiles \cup {f}
  /\ UNCHANGED <<openFiles, writer, lostOps, mishaps>>

\* Mutant: a file that is replaced stays among those to flush.
ReplaceFileDirty(i, f) ==
  /\ openFiles' = [openFiles EXCEPT ![i] = f]
  /\ UNCHANGED dirtyFiles

\* The file of a log_id is closed and another one takes its place, or none.
ReplaceFile(i, f) ==
  /\ openFiles' = [openFiles EXCEPT ![i] = f]
  /\ dirtyFiles' = dirtyFiles \ {openFiles[i]}

\* The sink may refuse to open; the file of an earlier run is closed first.
OpenFile(x) ==
  /\ \/ ReplaceFile(logId[x.run], x.run) /\ UNCHANGED <<lostOps, mishaps>>
     \/ ReplaceFile(logId[x.run], NoFile) /\ Lose("open", x.run) /\ Mishap
  /\ UNCHANGED <<writer, content>>

CloseFile(x) ==
  ReplaceFile(logId[x.run], NoFile) /\ UNCHANGED <<writer, content, lostOps, mishaps>>

\* _run takes the next operation; after the last one it looks for no other.
WriterApplies ==
  /\ writer \in {"running", "draining"} /\ opQueue # << >>
  /\ opQueue' = Tail(opQueue)
  /\ LET x == Head(opQueue) IN
     \/ x.op = "write" /\ WriteRecord(x)
     \/ x.op = "open" /\ OpenFile(x)
     \/ x.op = "close" /\ CloseFile(x)
     \/ /\ x.op = "stop" /\ writer' = "draining"
        /\ UNCHANGED <<openFiles, dirtyFiles, content, lostOps, mishaps>>
  /\ UNCHANGED <<rootvars, runvars, logId, hostLevel>>

\* _flush, every few seconds: a closed file among them ends the thread.
Flush ==
  /\ writer = "running" /\ dirtyFiles # {}
  /\ dirtyFiles' = {}
  /\ writer' = IF \A f \in dirtyFiles : \E i \in LogIds : openFiles[i] = f
               THEN writer ELSE "dead"
  /\ UNCHANGED <<rootvars, runvars, openFiles, content, logId, opQueue, lostOps, hostLevel,
                 mishaps>>

\* _close_all, once the queue is drained.
StopWriter ==
  /\ writer = "draining" /\ opQueue = << >>
  /\ writer' = "stopped"
  /\ openFiles' = [i \in LogIds |-> NoFile] /\ dirtyFiles' = {}
  /\ UNCHANGED <<rootvars, runvars, content, logId, opQueue, lostOps, hostLevel, mishaps>>

LogNext ==
  \/ \E r \in LogRuns : EnterRun(r) \/ ExitRun(r) \/ EmitRoutes(r) \/ EmitSubmits(r)
  \/ \E l \in Levels : HostSetsLevel(l)
  \/ ExitProcess \/ ForkProcess
  \/ WriterApplies \/ Flush \/ StopWriter

\* Every block has ended and the writer has nothing to do.
LogsOver ==
  /\ \A r \in LogRuns : logRun[r] = "over"
  /\ opQueue = << >> \/ writer = "stopped"
  /\ UNCHANGED logvars

LogSpec == LogInit /\ [][LogNext \/ LogsOver]_logvars

-----------------------------------------------------------------------------
(* Properties.                                                             *)

\* The type invariant.
LogTypeOK ==
  /\ logRun \in [LogRuns -> {"idle", "active", "inherited", "over"}]
  /\ recordsMade \in 0..MaxRecords /\ emitting \in [LogRuns -> 0..recordsMade]
  /\ routed \subseteq LogIds /\ windows \in 0..Cardinality(LogRuns)
  /\ {savedLevel, appliedLevel} \subseteq Levels \cup {NoLevel}
  /\ {rootLevel, hostLevel} \subseteq Levels /\ mishaps \in 0..LogTroubles
  /\ {rootMounted, overlooked, unpaired} \subseteq BOOLEAN
  /\ Len(opQueue) <= QueueMax
  /\ openFiles \in [LogIds -> LogRuns \cup {NoFile}] /\ dirtyFiles \subseteq LogRuns
  /\ writer \in {"running", "draining", "stopped", "dead"}

Lost(what, r) == <<what, r>> \in lostOps

\* The records of a run that were made in its block, among operations.
OwnRecord(x, r) == IF x.op = "write" /\ x.run = r /\ ~x.late THEN <<x.rec>> ELSE <<>>
OwnRecords(ops, r) == FlattenSeq([k \in 1..Len(ops) |-> OwnRecord(ops[k], r)])

\* A record that got a place in the queue gets into the file of its run, in
\* order, unless that file could not be opened: the close of the block and the
\* next run of the same log_id wait behind it.
LogsComplete ==
  \A r \in LogRuns : ~Lost("open", r) =>
    OwnRecords(content[r], r) \o OwnRecords(opQueue, r) = accepted[r]

\* No file has the records of another run, but those of a thread that outlives
\* its block, or of a run whose own file was never opened.
FilesApart ==
  \A r \in LogRuns : \A k \in 1..Len(content[r]) :
    LET x == content[r][k] IN x.run = r \/ x.late \/ Lost("open", x.run)

\* The writer outlives every flush (handlers.py:245 catches OSError only: the
\* flush of a closed file would end it and with it all logs of the process),
\* and keeps a file open no longer than its run unless the close was dropped.
WriterSound ==
  /\ writer # "dead"
  /\ opQueue = << >> => \A i \in LogIds : openFiles[i] = NoFile
       \/ logRun[openFiles[i]] = "active" \/ Lost("close", openFiles[i])

\* Root is borrowed exactly while runs last, whatever their order, and then is
\* what the host last wanted (handlers.py:139).  Excluded by name: a change
\* during a run that a later run, or the level in force, hides from the handler,
\* and a block that began before a fork and ended after it.
RootReturned ==
  /\ ~unpaired => windows = Cardinality({r \in LogRuns : logRun[r] = "active"})
  /\ rootMounted <=> windows > 0
  /\ windows = 0 /\ ~overlooked => rootLevel = hostLevel

LogsSound == LogsComplete /\ FilesApart /\ WriterSound /\ RootReturned

=============================================================================
